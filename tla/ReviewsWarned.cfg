\* One user, requests one at a time, nothing fails
CONSTANTS
    u1 = u1  u2 = u2  a = a  b1 = b1  b2 = b2  b3 = b3
    Users = {u2}
    Reviews = {b1, b2, b3}
    UserOf <- SubjectsOfOne
    Low = {b1, b2, b3}
    Posted = {}
    Reviewable = {b1, b2, b3}
    Suspended = {}
    Apart = {u2}
    Requests = {r1}
    Job = job
    Faults = {}
    MaxCalls = 3
CHECK_DEADLOCK FALSE
SPECIFICATION FairSpec
PROPERTIES WarnedUserRestricted
