-------------------------------- MODULE Checkout --------------------------------
(***************************************************************************)
(* From the cart to the orders: CartService, createCheckoutSession and the *)
(* ORDER branch of webhookHandler of StripeService, createOrdersForUser of *)
(* OrdersService, and what else writes products.isAvailable: rejected and  *)
(* returned orders, and a vendor who edits or deletes a product.           *)
(*                                                                         *)
(* Nothing here is one transaction.  A webhook reads the cart, then takes  *)
(* the products one by one and saves the orders last; Stripe delivers the  *)
(* event again when any of it fails.  Every product has its own vendor, so *)
(* an order has one product.                                               *)
(***************************************************************************)
EXTENDS Naturals, FiniteSets

CONSTANTS
    Buyers,         \* each buyer makes one payment
    Products,       \* the published products
    Wants,          \* Wants[b]: the products buyer b may add to the cart
    Handlers,       \* HTTP requests and webhooks that may be in flight
    Acts,           \* the operations people and Stripe perform, a subset of Op
    Apart,          \* pairs of operations that do not overlap, {op} for op with itself
    Calm,           \* TRUE: a buyer leaves the cart alone from checkout on, and
                    \* nobody calls a handler for an order another one works on
    EndedOnce,      \* TRUE: nobody calls rejectOrder or returnOrder for an order
                    \* that has been rejected or returned; the server would do it
    OneDelivery,    \* TRUE: Stripe does not deliver an event while a delivery of
                    \* it is being handled; the server would handle both
    Fragile,        \* operations whose handlers may fail at any await
    Redelivery,     \* TRUE: Stripe may deliver an answered event again
    MaxDeliveries   \* bound on the deliveries of an event

Op == {"add", "remove", "delete", "edit", "webhook", "reject", "return"}

ASSUME ConstantsAssumption ==
    /\ Buyers # {} /\ Products # {}
    /\ Wants \in [Buyers -> SUBSET Products]
    /\ Acts \subseteq Op
    /\ Apart \subseteq SUBSET Op
    /\ Calm \in BOOLEAN /\ EndedOnce \in BOOLEAN /\ OneDelivery \in BOOLEAN
    /\ Fragile \subseteq Op
    /\ Redelivery \in BOOLEAN
    /\ MaxDeliveries \in Nat

VARIABLES
    available,  \* products whose isAvailable column is true
    deleted,    \* soft-deleted products
    cart,       \* the cart table: <<buyer, product>>
    payment,    \* each buyer's checkout session
    paidFor,    \* the products on that session
    delivered,  \* deliveries of its event
    placed,     \* buyer orders saved for it
    ordered,    \* the orders: <<buyer, number of the buyer order, product>>
    closed,     \* those rejected or returned
    work        \* the handlers in flight

catalogue == <<available, deleted>>
sales     == <<payment, paidFor, delivered, placed, ordered, closed>>
vars      == <<catalogue, cart, sales, work>>

(***************************************************************************)
(* Types                                                                   *)
(***************************************************************************)

Order == Buyers \X Nat \X Products

AnyBuyer == CHOOSE b \in Buyers : TRUE
AnyProduct == CHOOSE p \in Products : TRUE

Stages == {"idle", "insert", "cart", "check", "take", "compare", "write",
           "uncart", "save", "empty", "close"}

\* picked: the cart as the webhook read it; todo: the products it has not
\* taken; value: isAvailable in the copy of product to be saved; dirty: the
\* UPDATE will write it; order: the order being rejected or returned
Handler == [op: Op \cup {"none"}, pc: Stages,
            buyer: Buyers, product: Products, picked: SUBSET Products,
            todo: SUBSET Products, value: BOOLEAN, dirty: BOOLEAN, order: SUBSET Order]

Idle == [op |-> "none", pc |-> "idle", buyer |-> AnyBuyer, product |-> AnyProduct,
         picked |-> {}, todo |-> {}, value |-> FALSE, dirty |-> FALSE, order |-> {}]

TypeOK ==
    /\ available \subseteq Products
    /\ deleted \subseteq Products
    /\ cart \subseteq Buyers \X Products
    /\ payment \in [Buyers -> {"none", "open", "paid", "done"}]
    /\ paidFor \in [Buyers -> SUBSET Products]
    /\ delivered \in [Buyers -> Nat]
    /\ placed \in [Buyers -> Nat]
    /\ ordered \subseteq Order
    /\ closed \subseteq Order
    /\ work \in [Handlers -> Handler]

(***************************************************************************)
(* Control of a handler                                                    *)
(***************************************************************************)

Goto(h, stage) == work' = [work EXCEPT ![h].pc = stage]

Finish(h) == work' = [work EXCEPT ![h] = Idle]

Advance(h, stage) == IF stage = "idle" THEN Finish(h) ELSE Goto(h, stage)

\* A handler for op begins, unless it is assumed not to overlap one in flight
Begin(h, op, state) ==
    /\ op \in Acts
    /\ work[h].pc = "idle"
    /\ \A g \in Handlers : {op, work[g].op} \notin Apart
    /\ work' = [work EXCEPT ![h] = state]

CartOf(b) == {p \in Products : <<b, p>> \in cart}

WithoutProduct(p) == {entry \in cart : entry[2] # p}

(***************************************************************************)
(* The cart                                                                *)
(***************************************************************************)

\* addToCart reads the product and the cart in a snapshot ...
AddToCart(h, b, p) ==
    /\ p \in Wants[b] /\ p \in available \ deleted /\ <<b, p>> \notin cart
    /\ \A g \in Handlers :
        ~(work[g].op = "add" /\ work[g].buyer = b /\ work[g].product = p)
    /\ Calm => payment[b] = "none"
    /\ Begin(h, "add", [Idle EXCEPT !.op = "add", !.pc = "insert",
                                    !.buyer = b, !.product = p])
    /\ UNCHANGED <<catalogue, cart, sales>>

\* ... and inserts the entry after the other reads
InsertEntry(h) ==
    /\ work[h].pc = "insert"
    /\ cart' = cart \cup {<<work[h].buyer, work[h].product>>}
    /\ Finish(h)
    /\ UNCHANGED <<catalogue, sales>>

RemoveFromCart(b, p) ==
    /\ "remove" \in Acts
    /\ <<b, p>> \in cart
    /\ Calm => payment[b] = "none"
    /\ cart' = cart \ {<<b, p>>}
    /\ UNCHANGED <<catalogue, sales, work>>

(***************************************************************************)
(* The payment                                                             *)
(***************************************************************************)

\* A slip: the session keeps the cart entries instead of their products
SlipPayForEntries(b) ==
    /\ payment[b] = "none"
    /\ CartOf(b) # {} /\ CartOf(b) \cap deleted = {}
    /\ payment' = [payment EXCEPT ![b] = "open"]
    /\ paidFor' = [paidFor EXCEPT ![b] = {entry \in cart : entry[1] = b}]
    /\ UNCHANGED <<catalogue, cart, delivered, placed, ordered, closed, work>>

\* The screen sends the products of the cart; none of them may be deleted
CreateCheckoutSession(b) ==
    /\ payment[b] = "none"
    /\ CartOf(b) # {} /\ CartOf(b) \cap deleted = {}
    /\ Calm => \A g \in Handlers : ~(work[g].op = "add" /\ work[g].buyer = b)
    /\ payment' = [payment EXCEPT ![b] = "open"]
    /\ paidFor' = [paidFor EXCEPT ![b] = CartOf(b)]
    /\ UNCHANGED <<catalogue, cart, delivered, placed, ordered, closed, work>>

PaySession(b) ==
    /\ payment[b] = "open"
    /\ payment' = [payment EXCEPT ![b] = "paid"]
    /\ UNCHANGED <<catalogue, cart, paidFor, delivered, placed, ordered, closed, work>>

(***************************************************************************)
(* The webhook                                                             *)
(***************************************************************************)

\* checkout.session.completed arrives, again when it was not answered with 200.
\* Nothing here knows of another delivery of it
DeliverEvent(h, b) ==
    /\ payment[b] = "paid" \/ (Redelivery /\ payment[b] = "done")
    /\ delivered[b] < MaxDeliveries
    /\ OneDelivery => \A g \in Handlers : ~(work[g].op = "webhook" /\ work[g].buyer = b)
    /\ Begin(h, "webhook", [Idle EXCEPT !.op = "webhook", !.pc = "cart", !.buyer = b])
    /\ delivered' = [delivered EXCEPT ![b] = @ + 1]
    /\ UNCHANGED <<catalogue, cart, payment, paidFor, placed, ordered, closed>>

\* createOrdersForUser reads the cart; an empty one is an error
ReadCart(h) ==
    /\ work[h].pc = "cart"
    /\ LET items == CartOf(work[h].buyer)
       IN IF items = {} THEN Finish(h)
          ELSE work' = [work EXCEPT ![h].pc = "check", ![h].picked = items,
                                    ![h].todo = items]
    /\ UNCHANGED <<catalogue, cart, sales>>

\* The first loop finds every vendor and product
CheckProducts(h) ==
    /\ work[h].pc = "check"
    /\ IF work[h].picked \cap deleted = {} THEN Goto(h, "take") ELSE Finish(h)
    /\ UNCHANGED <<catalogue, cart, sales>>

\* A slip: the product is saved as it was loaded
SlipTakeAsLoaded(h, p) ==
    /\ work[h].pc = "take" /\ p \in work[h].todo
    /\ IF p \in deleted THEN Finish(h)
       ELSE work' = [work EXCEPT ![h].pc = "compare", ![h].product = p,
                                 ![h].todo = @ \ {p}, ![h].value = p \in available]
    /\ UNCHANGED <<catalogue, cart, sales>>

\* The second loop loads a product and marks it unavailable
TakeProduct(h, p) ==
    /\ work[h].pc = "take" /\ p \in work[h].todo
    /\ IF p \in deleted THEN Finish(h)
       ELSE work' = [work EXCEPT ![h].pc = "compare", ![h].product = p,
                                 ![h].todo = @ \ {p}, ![h].value = FALSE]
    /\ UNCHANGED <<catalogue, cart, sales>>

\* productRepository.save compares the copy with the row ...
CompareProduct(h) ==
    /\ work[h].pc = "compare"
    /\ work' = [work EXCEPT ![h].pc = "write",
                   ![h].dirty = (work[h].product \in available) # work[h].value]
    /\ UNCHANGED <<catalogue, cart, sales>>

AfterProduct(op) ==
    CASE op = "webhook" -> "uncart"
      [] op = "return"  -> "close"
      [] OTHER          -> "idle"

\* ... and writes the column if it differs
WriteProduct(h) ==
    /\ work[h].pc = "write"
    /\ available' = IF ~work[h].dirty THEN available
                    ELSE IF work[h].value THEN available \cup {work[h].product}
                    ELSE available \ {work[h].product}
    /\ Advance(h, AfterProduct(work[h].op))
    /\ UNCHANGED <<deleted, cart, sales>>

\* A slip: the product stays in the carts
SlipLeaveInCarts(h) ==
    /\ work[h].pc = "uncart"
    /\ Goto(h, IF work[h].todo = {} THEN "save" ELSE "take")
    /\ UNCHANGED <<catalogue, cart, sales>>

\* A slip: the product stays in the other buyers' carts
SlipUncartOwn(h) ==
    /\ work[h].pc = "uncart"
    /\ cart' = cart \ {<<work[h].buyer, work[h].product>>}
    /\ Goto(h, IF work[h].todo = {} THEN "save" ELSE "take")
    /\ UNCHANGED <<catalogue, sales>>

\* The product leaves every cart
UncartProduct(h) ==
    /\ work[h].pc = "uncart"
    /\ cart' = WithoutProduct(work[h].product)
    /\ Goto(h, IF work[h].todo = {} THEN "save" ELSE "take")
    /\ UNCHANGED <<catalogue, sales>>

\* A slip: the order has the last product only
SlipSaveLast(h) ==
    /\ work[h].pc = "save"
    /\ LET b == work[h].buyer
           nth == placed[b] + 1
       IN /\ placed' = [placed EXCEPT ![b] = nth]
          /\ ordered' = ordered \cup {<<b, nth, work[h].product>>}
    /\ Goto(h, "empty")
    /\ UNCHANGED <<catalogue, cart, payment, paidFor, delivered, closed>>

\* A slip: each order is saved on its own
SlipSaveOneByOne(h) ==
    /\ work[h].pc = "save"
    /\ LET b == work[h].buyer
           p == CHOOSE q \in work[h].picked : TRUE
       IN /\ placed' = [placed EXCEPT ![b] = 1]
          /\ ordered' = ordered \cup {<<b, 1, p>>}
          /\ IF work[h].picked = {p} THEN Goto(h, "empty")
             ELSE work' = [work EXCEPT ![h].picked = @ \ {p}]
    /\ UNCHANGED <<catalogue, cart, payment, paidFor, delivered, closed>>

\* buyerOrderRepository.save: the buyer order and its orders, in one transaction
SaveOrders(h) ==
    /\ work[h].pc = "save"
    /\ LET b == work[h].buyer
           nth == placed[b] + 1
       IN /\ placed' = [placed EXCEPT ![b] = nth]
          /\ ordered' = ordered \cup {<<b, nth, p>> : p \in work[h].picked}
    /\ Goto(h, "empty")
    /\ UNCHANGED <<catalogue, cart, payment, paidFor, delivered, closed>>

\* emptyCart; Stripe gets its answer
EmptyCart(h) ==
    /\ work[h].pc = "empty"
    /\ cart' = {entry \in cart : entry[1] # work[h].buyer}
    /\ payment' = [payment EXCEPT ![work[h].buyer] = "done"]
    /\ Finish(h)
    /\ UNCHANGED <<catalogue, paidFor, delivered, placed, ordered, closed>>

(***************************************************************************)
(* Others who write products                                               *)
(***************************************************************************)

\* An order whose products rejectOrder or returnOrder may free: they look at no
\* status, so it is for the clients not to end an order again
MayEnd(o) ==
    /\ o \in ordered
    /\ EndedOnce => o \notin closed
    /\ Calm => \A g \in Handlers : o \notin work[g].order

EndOrder(op, stage, o) ==
    [Idle EXCEPT !.op = op, !.pc = stage, !.buyer = o[1], !.product = o[3],
                 !.todo = {o[3]} \ deleted, !.value = TRUE, !.order = {o}]

\* A slip: the products of a rejected order are forgotten
SlipRejectFreesNothing(h, o) ==
    /\ MayEnd(o)
    /\ Begin(h, "reject", [EndOrder("reject", "close", o) EXCEPT !.todo = {}])
    /\ UNCHANGED <<catalogue, cart, sales>>

\* rejectOrder saves the order, then its products that are not deleted
RejectOrder(h, o) ==
    /\ MayEnd(o)
    /\ Begin(h, "reject", EndOrder("reject", "close", o))
    /\ UNCHANGED <<catalogue, cart, sales>>

\* returnOrder saves the products, then the order
ReturnOrder(h, o) ==
    /\ MayEnd(o)
    /\ Begin(h, "return",
             EndOrder("return", IF o[3] \in deleted THEN "close" ELSE "compare", o))
    /\ UNCHANGED <<catalogue, cart, sales>>

CloseOrder(h) ==
    /\ work[h].pc = "close"
    /\ closed' = closed \cup work[h].order
    /\ Advance(h, IF work[h].op = "reject" /\ work[h].todo # {} THEN "compare" ELSE "idle")
    /\ UNCHANGED <<catalogue, cart, payment, paidFor, delivered, placed, ordered>>

\* updateProduct and uploadPdfFile load the whole product, change other
\* columns and save it
UpdateProduct(h, p) ==
    /\ p \notin deleted
    /\ Begin(h, "edit", [Idle EXCEPT !.op = "edit", !.pc = "compare",
                                     !.product = p, !.value = p \in available])
    /\ UNCHANGED <<catalogue, cart, sales>>

\* deleteProduct, deleteProductByAdmin: one transaction, with the cart entries
DeleteProduct(p) ==
    /\ "delete" \in Acts
    /\ p \notin deleted
    /\ deleted' = deleted \cup {p}
    /\ cart' = WithoutProduct(p)
    /\ UNCHANGED <<available, sales, work>>

\* A query fails, or the process dies, and the handler with it
HandlerFails(h) ==
    /\ work[h].op \in Fragile
    /\ Finish(h)
    /\ UNCHANGED <<catalogue, cart, sales>>

(***************************************************************************)
(* Specification                                                           *)
(***************************************************************************)

Init ==
    /\ available = Products /\ deleted = {}
    /\ cart = {}
    /\ payment = [b \in Buyers |-> "none"]
    /\ paidFor = [b \in Buyers |-> {}]
    /\ delivered = [b \in Buyers |-> 0]
    /\ placed = [b \in Buyers |-> 0]
    /\ ordered = {} /\ closed = {}
    /\ work = [h \in Handlers |-> Idle]

\* A handler in flight goes on
Step(h) ==
    \/ InsertEntry(h)
    \/ ReadCart(h) \/ CheckProducts(h) \/ \E p \in Products : TakeProduct(h, p)
    \/ CompareProduct(h) \/ WriteProduct(h) \/ UncartProduct(h)
    \/ SaveOrders(h) \/ EmptyCart(h) \/ CloseOrder(h)

Next ==
    \/ \E b \in Buyers : CreateCheckoutSession(b) \/ PaySession(b)
    \/ \E b \in Buyers, p \in Products : RemoveFromCart(b, p)
    \/ \E p \in Products : DeleteProduct(p)
    \/ \E h \in Handlers :
        \/ \E b \in Buyers : DeliverEvent(h, b) \/ \E p \in Products : AddToCart(h, b, p)
        \/ \E o \in ordered : RejectOrder(h, o) \/ ReturnOrder(h, o)
        \/ \E p \in Products : UpdateProduct(h, p)
        \/ Step(h) \/ HandlerFails(h)

Spec == Init /\ [][Next]_vars

\* Stripe delivers the event of a paid session, whose handling waits for no other
\* request (SF: Handlers may all be busy now and then); the event loop runs handlers
FairSpec ==
    /\ Spec
    /\ \A h \in Handlers : WF_vars(Step(h))
    /\ \A b \in Buyers : SF_vars(\E h \in Handlers : DeliverEvent(h, b))

(***************************************************************************)
(* Properties                                                              *)
(***************************************************************************)

\* The orders whose products are with their buyers: not closed, nor being
\* returned right now (returnOrder frees the products first)
Open ==
    {o \in ordered \ closed :
        \A h \in Handlers : ~(work[h].op = "return" /\ o \in work[h].order)}

\* No product is in two open orders, although carts hold the same product and
\* the webhook never looks at isAvailable again: taking a product empties it
\* from all carts after no new entry can be made (createOrdersForUser).  Assumes
\* webhooks that are kept apart and orders that are ended once (EndedOnce)
RentedOnce == \A o, q \in Open : o[3] = q[3] => o = q

\* Failed and repeated deliveries of one payment, one after the other, make one
\* buyer order, for the first that saved it left nothing in the cart
\* (webhookHandler, emptyCart).  Two at once (not OneDelivery) could make two
OneOrderPerPayment == \A b \in Buyers : placed[b] <= 1

\* While an order is open its product is not offered: no late save of another
\* copy of it makes it available (rejectOrder, returnOrder, updateProduct), as
\* long as nobody ends an order again that was ended before (EndedOnce)
RentedNotAvailable == \A o \in Open : o[3] \notin available

\* Without failures a product is withheld from the catalogue only while it is
\* rented, being ordered or being given back, however often orders are ended and
\* deliveries overlap
WithheldIsRented ==
    \A p \in Products \ available :
        \/ \E o \in ordered \ closed : o[3] = p
        \/ \E h \in Handlers : work[h].op = "webhook" /\ p \in work[h].picked
        \/ \E h \in Handlers : work[h].op = "reject" /\ p = work[h].product

\* Without failures, and with no other buyer after the same products, all a
\* buyer paid for is ordered
PaidIsOrderedEventually ==
    \A b \in Buyers :
        payment[b] = "paid" ~>
            \A p \in paidFor[b] : \E o \in ordered : o[1] = b /\ o[3] = p

\* Where webhooks are kept apart from what reaches for the same products and
\* orders are ended once, buyers and vendors see each order made in one step, of
\* products that are free and paid for, although it is made product by product
\* and may fail and be repeated
Rented == INSTANCE Rental
    WITH asked <- paidFor,
         served <- {b \in Buyers : placed[b] > 0},
         rented <- {<<o[1], o[3]>> : o \in Open}

ImplementsRental == Rented!Spec
=============================================================================
