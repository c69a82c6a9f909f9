\* Any two handlers overlap; mails and file deletions may fail
CONSTANTS
    i1 = i1  i2 = i2  i3 = i3  u1 = u1  r1 = r1  r2 = r2
    Images = {i1, i2, i3}
    Users = {u1}
    Requests = {r1, r2}
    Faults = {"mail", "files"}
    MaxCalls = 5
\* Everybody may stop calling
CHECK_DEADLOCK FALSE
SPECIFICATION Spec
SYMMETRY Perms
INVARIANTS TypeOK OnePrimaryPhoto DecisionStands DeletedStaysDeleted
