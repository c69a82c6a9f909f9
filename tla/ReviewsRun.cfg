\* Two deactivated users, one of them reviewed already; u1 is handled one request at a
\* time; failing mails, lock waits, crashes
CONSTANTS
    u1 = u1  u2 = u2  a = a  b1 = b1  b2 = b2  b3 = b3
    Users = {u1, u2}
    Reviews = {a, b1, b2, b3}
    UserOf <- Subjects
    Low = {a, b1, b2, b3}
    Posted = {b1}
    Reviewable = {a, b1, b2, b3}
    Suspended = {u1, u2}
    Apart = {u1}
    Requests = {r1, r2}
    Job = job
    Faults = {"mail", "lockWait", "crash"}
    MaxCalls = 2
\* The clients may stop calling
CHECK_DEADLOCK FALSE
SPECIFICATION FairSpec
INVARIANTS TypeOK SecondLowReviewWarns ActiveAccountWithinLimit RatingOfStoredReviews RatingMissesNoReview
PROPERTIES EveryRequestAnswered DeactivationEnds
