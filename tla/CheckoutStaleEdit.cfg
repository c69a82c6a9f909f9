\* A vendor edits a product while a buyer pays for it
CONSTANTS
    b1 = b1  b2 = b2  p1 = p1  p2 = p2  h1 = h1  h2 = h2  h3 = h3
    Buyers = {b1}
    Products = {p1}
    Wants <- OneBuyer
    Handlers = {h1, h2}
    Acts = {"add", "edit", "webhook"}
    Apart = {}
    Calm = TRUE
    EndedOnce = TRUE
    OneDelivery = TRUE
    Fragile = {}
    Redelivery = FALSE
    MaxDeliveries = 1
\* The people may stop acting
CHECK_DEADLOCK FALSE
SPECIFICATION Spec
INVARIANT RentedNotAvailable
