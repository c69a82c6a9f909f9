\* Two buyers after the same products; webhooks fail and are delivered again
CONSTANTS
    b1 = b1  b2 = b2  p1 = p1  p2 = p2  h1 = h1  h2 = h2  h3 = h3
    Buyers = {b1, b2}
    Products = {p1, p2}
    Wants <- Rivals
    Handlers = {h1, h2}
    Acts = {"add", "remove", "delete", "edit", "webhook", "reject", "return"}
    Apart <- WebhooksApart
    Calm = TRUE
    EndedOnce = TRUE
    OneDelivery = TRUE
    Fragile = {"add", "edit", "webhook", "reject"}
    Redelivery = TRUE
    MaxDeliveries = 2
\* The people may stop acting
CHECK_DEADLOCK FALSE
SPECIFICATION Spec
SYMMETRY Perms
INVARIANTS TypeOK RentedOnce OneOrderPerPayment RentedNotAvailable
PROPERTIES ImplementsRental
