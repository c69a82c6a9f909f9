\* Clients follow the workflow, but two may act on an order at once
CONSTANTS
    o1 = o1  o2 = o2  p1 = p1  p2 = p2  r1 = r1  r2 = r2
    Orders = {o1, o2}
    Products = {p1, p2}
    ProductsOf <- TwoOrders
    Requests = {r1, r2}
    Cron = cron
    Calls <- Workflow
    OneAtATime = FALSE
    Faults = {}
    MaxCalls = 3
\* The clients may stop calling
CHECK_DEADLOCK FALSE
SPECIFICATION Spec

INVARIANT RejectedOrderNotCharged
