\* Any two calls overlap; the email is changed alone and with a fresh token; mails may fail
CONSTANTS
    a = a  b = b  c = c  r1 = r1  r2 = r2
    Addresses = {a, b, c}
    Taken = {c}
    Requests = {r1, r2}
    Careful = TRUE
    Faults = {"mail"}
    MaxCalls = 3
\* The clients may stop calling
CHECK_DEADLOCK FALSE
SPECIFICATION Spec
SYMMETRY Perms
INVARIANTS TypeOK VerifiedAddress SpentCodeRefused UpdatesKept
