\* Clients follow the workflow and wait for answers; the process stays up
CONSTANTS
    o1 = o1  o2 = o2  p1 = p1  p2 = p2  r1 = r1  r2 = r2
    Orders = {o1, o2}
    Products = {p1, p2}
    ProductsOf <- TwoOrders
    Requests = {r1, r2}
    Cron = cron
    Calls <- Workflow
    OneAtATime = TRUE
    Faults = {"mail", "offline", "stripe", "fee", "lockWait"}
    MaxCalls = 7
\* The clients may stop calling
CHECK_DEADLOCK FALSE
SPECIFICATION Spec

INVARIANTS TransferMeansReceived VendorPaidOnce RejectedOrderNotCharged TrackingMatchesParcel FinishedOrderFreesProducts
PROPERTIES ImplementsLifecycle
