\* One buyer; all handlers overlapping, two deliveries of the event among them,
\* orders ended again and again, no failures
CONSTANTS
    b1 = b1  b2 = b2  p1 = p1  p2 = p2  h1 = h1  h2 = h2  h3 = h3
    Buyers = {b1}
    Products = {p1, p2}
    Wants <- NoRivals
    Handlers = {h1, h2, h3}
    Acts = {"add", "webhook", "reject", "return"}
    Apart = {}
    Calm = TRUE
    EndedOnce = FALSE
    OneDelivery = FALSE
    Fragile = {}
    Redelivery = FALSE
    MaxDeliveries = 2
\* The people may stop acting
CHECK_DEADLOCK FALSE
SPECIFICATION FairSpec
INVARIANT WithheldIsRented
PROPERTY PaidIsOrderedEventually
