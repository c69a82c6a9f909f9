\* Any call at any time; every fault (a failed mail or a missing fee ends a handler like an offline party)
CONSTANTS
    o1 = o1  o2 = o2  p1 = p1  p2 = p2  r1 = r1  r2 = r2
    Orders = {o1, o2}
    Products = {p1}
    ProductsOf <- OneProduct
    Requests = {r1, r2}
    Cron = cron
    Calls <- AnyCall
    OneAtATime = FALSE
    Faults = {"offline", "stripe", "lockWait", "redelivery", "crash"}
    MaxCalls = 3
\* The clients may stop calling
CHECK_DEADLOCK FALSE
SPECIFICATION Spec
SYMMETRY Perms
INVARIANTS TypeOK SettlementJustified OverdueWasReceived
