--------------------------- MODULE Checkout_proofs ---------------------------
(***************************************************************************)
(* Theorems about Checkout, for every set of buyers, products and handlers *)
(* and whatever may overlap or fail.                                       *)
(***************************************************************************)
EXTENDS Checkout, TLAPS

(***************************************************************************)
(* Type correctness                                                        *)
(***************************************************************************)

LEMMA IdleType == Idle \in Handler
<1>1. AnyBuyer \in Buyers /\ AnyProduct \in Products
  BY ConstantsAssumption DEF AnyBuyer, AnyProduct
<1> QED
  BY <1>1 DEF Idle, Handler, Stages

LEMMA CartOfType == ASSUME NEW b PROVE CartOf(b) \in SUBSET Products
BY DEF CartOf

LEMMA OrderParts ==
    ASSUME NEW o \in Order
    PROVE  o[1] \in Buyers /\ o[2] \in Nat /\ o[3] \in Products
BY DEF Order

LEMMA FinishType ==
    ASSUME TypeOK, NEW h \in Handlers, Finish(h)
    PROVE  work' \in [Handlers -> Handler]
BY IdleType DEF Finish, TypeOK

LEMMA GotoType ==
    ASSUME TypeOK, NEW h \in Handlers, NEW stage \in Stages, Goto(h, stage)
    PROVE  work' \in [Handlers -> Handler]
BY DEF Goto, TypeOK, Handler

LEMMA AdvanceType ==
    ASSUME TypeOK, NEW h \in Handlers, NEW stage \in Stages, Advance(h, stage)
    PROVE  work' \in [Handlers -> Handler]
BY FinishType, GotoType DEF Advance

LEMMA BeginType ==
    ASSUME TypeOK, NEW h \in Handlers, NEW op, NEW state \in Handler, Begin(h, op, state)
    PROVE  work' \in [Handlers -> Handler]
BY DEF Begin, TypeOK

LEMMA EndOrderType ==
    ASSUME NEW o \in Order, NEW op \in {"reject", "return"},
           NEW stage \in {"close", "compare"}
    PROVE  EndOrder(op, stage, o) \in Handler
BY IdleType, OrderParts DEF EndOrder, Handler, Op, Stages

\* One step keeps the types
LEMMA TypeStep == TypeOK /\ [Next]_vars => TypeOK'
<1> SUFFICES ASSUME TypeOK, [Next]_vars PROVE TypeOK'
  OBVIOUS
<1> USE DEF catalogue, sales
<1>1. ASSUME NEW b \in Buyers, CreateCheckoutSession(b) \/ PaySession(b)
      PROVE  TypeOK'
  BY <1>1, CartOfType DEF CreateCheckoutSession, PaySession, TypeOK
<1>2. ASSUME NEW b \in Buyers, NEW p \in Products, RemoveFromCart(b, p)
      PROVE  TypeOK'
  BY <1>2 DEF RemoveFromCart, TypeOK
<1>3. ASSUME NEW p \in Products, DeleteProduct(p)
      PROVE  TypeOK'
  BY <1>3 DEF DeleteProduct, WithoutProduct, TypeOK
<1>4. ASSUME NEW h \in Handlers, NEW b \in Buyers, DeliverEvent(h, b)
      PROVE  TypeOK'
  <2>1. [Idle EXCEPT !.op = "webhook", !.pc = "cart", !.buyer = b] \in Handler
    BY IdleType DEF Handler, Op, Stages
  <2>2. work' \in [Handlers -> Handler]
    BY <1>4, <2>1, BeginType DEF DeliverEvent
  <2> QED
    BY <1>4, <2>2 DEF DeliverEvent, TypeOK
<1>5. ASSUME NEW h \in Handlers, NEW b \in Buyers, NEW p \in Products, AddToCart(h, b, p)
      PROVE  TypeOK'
  <2>1. [Idle EXCEPT !.op = "add", !.pc = "insert", !.buyer = b, !.product = p] \in Handler
    BY IdleType DEF Handler, Op, Stages
  <2>2. work' \in [Handlers -> Handler]
    BY <1>5, <2>1, BeginType DEF AddToCart
  <2> QED
    BY <1>5, <2>2 DEF AddToCart, TypeOK
<1>6. ASSUME NEW h \in Handlers, NEW o \in ordered, RejectOrder(h, o) \/ ReturnOrder(h, o)
      PROVE  TypeOK'
  <2>1. o \in Order
    BY DEF TypeOK
  <2>2. work' \in [Handlers -> Handler]
    BY <1>6, <2>1, EndOrderType, BeginType DEF RejectOrder, ReturnOrder
  <2> QED
    BY <1>6, <2>2 DEF RejectOrder, ReturnOrder, TypeOK
<1>7. ASSUME NEW h \in Handlers, NEW p \in Products, UpdateProduct(h, p)
      PROVE  TypeOK'
  <2>1. [Idle EXCEPT !.op = "edit", !.pc = "compare", !.product = p,
                     !.value = p \in available] \in Handler
    <3>1. (p \in available) \in BOOLEAN
      OBVIOUS
    <3> QED
      BY <3>1, IdleType DEF Handler, Op, Stages
  <2>2. work' \in [Handlers -> Handler]
    BY <1>7, <2>1, BeginType DEF UpdateProduct
  <2> QED
    BY <1>7, <2>2 DEF UpdateProduct, TypeOK
<1>8. ASSUME NEW h \in Handlers, Step(h)
      PROVE  TypeOK'
  <2>0. work[h] \in Handler
    BY DEF TypeOK
  <2>1. CASE InsertEntry(h)
    BY <2>0, <2>1, FinishType DEF InsertEntry, TypeOK, Handler
  <2>2. CASE ReadCart(h)
    <3>1. work' \in [Handlers -> Handler]
      BY <2>0, <2>2, FinishType, CartOfType DEF ReadCart, TypeOK, Handler, Stages
    <3> QED
      BY <2>2, <3>1 DEF ReadCart, TypeOK
  <2>3. CASE CheckProducts(h)
    <3>1. work' \in [Handlers -> Handler]
      BY <2>3, FinishType, GotoType DEF CheckProducts, Stages
    <3> QED
      BY <2>3, <3>1 DEF CheckProducts, TypeOK
  <2>4. ASSUME NEW p \in Products, TakeProduct(h, p)
        PROVE  TypeOK'
    <3>1. work' \in [Handlers -> Handler]
      BY <2>0, <2>4, FinishType DEF TakeProduct, TypeOK, Handler, Stages
    <3> QED
      BY <2>4, <3>1 DEF TakeProduct, TypeOK
  <2>5. CASE CompareProduct(h)
    <3>1. ((work[h].product \in available) # work[h].value) \in BOOLEAN
      OBVIOUS
    <3>2. work' \in [Handlers -> Handler]
      BY <2>0, <2>5, <3>1 DEF CompareProduct, TypeOK, Handler, Stages
    <3> QED
      BY <2>5, <3>2 DEF CompareProduct, TypeOK
  <2>6. CASE WriteProduct(h)
    <3>1. AfterProduct(work[h].op) \in Stages
      BY DEF AfterProduct, Stages
    <3>2. work' \in [Handlers -> Handler]
      BY <2>6, <3>1, AdvanceType DEF WriteProduct
    <3> QED
      BY <2>0, <2>6, <3>2 DEF WriteProduct, TypeOK, Handler
  <2>7. CASE UncartProduct(h)
    <3>1. work' \in [Handlers -> Handler]
      BY <2>7, GotoType DEF UncartProduct, Stages
    <3> QED
      BY <2>7, <3>1 DEF UncartProduct, WithoutProduct, TypeOK
  <2>8. CASE SaveOrders(h)
    <3>1. work' \in [Handlers -> Handler]
      BY <2>8, GotoType DEF SaveOrders, Stages
    <3>2. work[h].buyer \in Buyers /\ work[h].picked \subseteq Products
      BY <2>0 DEF Handler
    <3>3. ordered' \subseteq Order
      BY <2>8, <3>2 DEF SaveOrders, TypeOK, Order
    <3>4. placed' \in [Buyers -> Nat]
      BY <2>8, <3>2 DEF SaveOrders, TypeOK
    <3> QED
      BY <2>8, <3>1, <3>3, <3>4 DEF SaveOrders, TypeOK
  <2>9. CASE EmptyCart(h)
    BY <2>0, <2>9, FinishType DEF EmptyCart, TypeOK, Handler
  <2>10. CASE CloseOrder(h)
    <3>1. work' \in [Handlers -> Handler]
      BY <2>10, AdvanceType DEF CloseOrder, Stages
    <3> QED
      BY <2>0, <2>10, <3>1 DEF CloseOrder, TypeOK, Handler
  <2> QED
    BY <1>8, <2>1, <2>2, <2>3, <2>4, <2>5, <2>6, <2>7, <2>8, <2>9, <2>10 DEF Step
<1>9. ASSUME NEW h \in Handlers, HandlerFails(h)
      PROVE  TypeOK'
  BY <1>9, FinishType DEF HandlerFails, TypeOK
<1>10. CASE UNCHANGED vars
  BY <1>10 DEF vars, TypeOK
<1> QED
  BY <1>1, <1>2, <1>3, <1>4, <1>5, <1>6, <1>7, <1>8, <1>9, <1>10 DEF Next

\* Every variable keeps its type: whatever handlers overlap or fail, their
\* copies stay well formed and orders are made of buyers and products
THEOREM TypeCorrect == Spec => []TypeOK
<1>1. Init => TypeOK
  BY IdleType DEF Init, TypeOK
<1> QED
  BY <1>1, TypeStep, PTL DEF Spec

(***************************************************************************)
(* What is ordered was paid for                                            *)
(*                                                                         *)
(* createOrdersForUser reads the cart, not the session.  The argument is   *)
(* that a calm buyer's cart is within the session from the moment it is    *)
(* opened: entries can only leave it.                                      *)
(***************************************************************************)

\* A buyer is sent only what the checkout session asked money for.  Rental says
\* it of the moment an order is saved; here no webhook need be kept apart
OrderedWasPaid == \A o \in ordered : o[3] \in paidFor[o[1]]

\* The stages only one operation has
StagesFit ==
    \A h \in Handlers :
        /\ work[h].pc = "insert" => work[h].op = "add"
        /\ work[h].pc \in {"cart", "check", "take", "uncart", "save", "empty"} =>
               work[h].op = "webhook"

\* No entry is being inserted for a buyer who has been at the checkout
AddsBeforeCheckout ==
    \A h \in Handlers : work[h].op = "add" => payment[work[h].buyer] = "none"

\* A webhook is for a paid session and picked nothing else
PickedWasPaid ==
    \A h \in Handlers :
        work[h].op = "webhook" =>
            /\ payment[work[h].buyer] \in {"paid", "done"}
            /\ work[h].picked \subseteq paidFor[work[h].buyer]

CartWasPaid ==
    \A b \in Buyers : payment[b] # "none" => CartOf(b) \subseteq paidFor[b]

OrderedAfterCheckout == \A o \in ordered : payment[o[1]] # "none"

PaidInv ==
    /\ TypeOK
    /\ StagesFit
    /\ AddsBeforeCheckout
    /\ PickedWasPaid
    /\ CartWasPaid
    /\ OrderedAfterCheckout
    /\ OrderedWasPaid

\* An operation that begins, in the stage it begins with
Begun(h, op, stage, b) ==
    /\ work[h].pc = "idle"
    /\ \E s \in Handler :
        /\ work' = [work EXCEPT ![h] = s]
        /\ s.op = op /\ s.pc = stage /\ s.buyer = b /\ s.picked = {}

LEMMA IdleFields == Idle.op = "none" /\ Idle.pc = "idle" /\ Idle.picked = {}
BY DEF Idle

LEMMA Beginnings ==
    ASSUME TypeOK, NEW h \in Handlers
    PROVE  /\ \A b \in Buyers, p \in Products :
                  AddToCart(h, b, p) => Begun(h, "add", "insert", b)
           /\ \A b \in Buyers : DeliverEvent(h, b) => Begun(h, "webhook", "cart", b)
           /\ \A o \in Order : RejectOrder(h, o) => Begun(h, "reject", "close", o[1])
           /\ \A o \in Order :
                  ReturnOrder(h, o) =>
                      \E stage \in {"close", "compare"} : Begun(h, "return", stage, o[1])
           /\ \A p \in Products : UpdateProduct(h, p) => Begun(h, "edit", "compare", AnyBuyer)
<1>1. ASSUME NEW b \in Buyers, NEW p \in Products, AddToCart(h, b, p)
      PROVE  Begun(h, "add", "insert", b)
  <2> DEFINE s == [Idle EXCEPT !.op = "add", !.pc = "insert", !.buyer = b, !.product = p]
  <2>1. s \in Handler /\ s.op = "add" /\ s.pc = "insert" /\ s.buyer = b /\ s.picked = {}
    BY IdleType, IdleFields DEF Handler, Op, Stages
  <2> QED  BY <1>1, <2>1 DEF AddToCart, Begin, Begun
<1>2. ASSUME NEW b \in Buyers, DeliverEvent(h, b)
      PROVE  Begun(h, "webhook", "cart", b)
  <2> DEFINE s == [Idle EXCEPT !.op = "webhook", !.pc = "cart", !.buyer = b]
  <2>1. s \in Handler /\ s.op = "webhook" /\ s.pc = "cart" /\ s.buyer = b /\ s.picked = {}
    BY IdleType, IdleFields DEF Handler, Op, Stages
  <2> QED  BY <1>2, <2>1 DEF DeliverEvent, Begin, Begun
<1>3. ASSUME NEW op \in {"reject", "return"}, NEW stage \in {"close", "compare"},
             NEW o \in Order
      PROVE  LET s == EndOrder(op, stage, o)
             IN /\ s \in Handler /\ s.op = op /\ s.pc = stage
                /\ s.buyer = o[1] /\ s.picked = {}
  <2>1. EndOrder(op, stage, o) \in Handler
    BY EndOrderType
  <2>2. /\ EndOrder(op, stage, o).op = op /\ EndOrder(op, stage, o).pc = stage
        /\ EndOrder(op, stage, o).buyer = o[1] /\ EndOrder(op, stage, o).picked = {}
    BY DEF EndOrder, Idle
  <2> QED  BY <2>1, <2>2
<1>4. ASSUME NEW o \in Order, RejectOrder(h, o)
      PROVE  Begun(h, "reject", "close", o[1])
  BY <1>3, <1>4 DEF RejectOrder, Begin, Begun
<1>5. ASSUME NEW o \in Order, ReturnOrder(h, o)
      PROVE  \E stage \in {"close", "compare"} : Begun(h, "return", stage, o[1])
  BY <1>3, <1>5 DEF ReturnOrder, Begin, Begun
<1>6. ASSUME NEW p \in Products, UpdateProduct(h, p)
      PROVE  Begun(h, "edit", "compare", AnyBuyer)
  <2> DEFINE s == [Idle EXCEPT !.op = "edit", !.pc = "compare",
                               !.product = p, !.value = p \in available]
  <2>1. (p \in available) \in BOOLEAN
    OBVIOUS
  <2>2. s \in Handler /\ s.op = "edit" /\ s.pc = "compare" /\ s.picked = {}
    BY <2>1, IdleType, IdleFields DEF Handler, Op, Stages
  <2>3. s.buyer = AnyBuyer
    BY DEF Idle
  <2> QED  BY <1>6, <2>2, <2>3 DEF UpdateProduct, Begin, Begun
<1> QED
  BY <1>1, <1>2, <1>4, <1>5, <1>6

\* A handler that goes on keeps its operation and buyer, or ends
GoesOn(h) ==
    \/ work' = [work EXCEPT ![h] = Idle]
    \/ \E s \in Handler :
        /\ work' = [work EXCEPT ![h] = s]
        /\ s.op = work[h].op /\ s.buyer = work[h].buyer
        /\ s.picked = work[h].picked \/ s.picked = CartOf(work[h].buyer)
        /\ s.pc # "insert"
        /\ s.pc \in {"cart", "check", "take", "uncart", "save", "empty"} =>
               work[h].op = "webhook"

LEMMA Continuations ==
    ASSUME TypeOK, StagesFit, NEW h \in Handlers, Step(h) \/ HandlerFails(h)
    PROVE  GoesOn(h)
<1>0. work[h] \in Handler /\ work \in [Handlers -> Handler]
  BY DEF TypeOK
<1> DEFINE Hook == {"cart", "check", "take", "uncart", "save", "empty"}
<1>f. ASSUME Finish(h) PROVE GoesOn(h)
  BY <1>f DEF Finish, GoesOn
<1>g. ASSUME NEW stage \in Stages \ {"insert"}, Goto(h, stage),
             stage \in Hook => work[h].op = "webhook"
      PROVE  GoesOn(h)
  <2> DEFINE s == [work[h] EXCEPT !.pc = stage]
  <2>1. s \in Handler /\ s.op = work[h].op /\ s.buyer = work[h].buyer
        /\ s.picked = work[h].picked /\ s.pc = stage
    BY <1>0 DEF Handler
  <2>2. work' = [work EXCEPT ![h] = s]
    BY <1>0, <1>g DEF Goto
  <2> QED  BY <1>g, <2>1, <2>2 DEF GoesOn
<1>1. CASE InsertEntry(h)
  BY <1>1, <1>f DEF InsertEntry
<1>2. CASE ReadCart(h)
  <2>1. work[h].op = "webhook"
    BY <1>2 DEF ReadCart, StagesFit
  <2>2. CASE Finish(h)
    BY <2>2, <1>f
  <2>3. CASE ~Finish(h)
    <3> DEFINE items == CartOf(work[h].buyer)
    <3> DEFINE s == [work[h] EXCEPT !.pc = "check", !.picked = items, !.todo = items]
    <3>1. s \in Handler /\ s.op = work[h].op /\ s.buyer = work[h].buyer
          /\ s.picked = items /\ s.pc = "check"
      BY <1>0, CartOfType DEF Handler, Stages
    <3>2. work' = [work EXCEPT ![h] = s]
      BY <1>0, <1>2, <2>3 DEF ReadCart
    <3> QED  BY <2>1, <3>1, <3>2 DEF GoesOn
  <2> QED  BY <2>2, <2>3
<1>3. CASE CheckProducts(h)
  <2>1. work[h].op = "webhook"
    BY <1>3 DEF CheckProducts, StagesFit
  <2> QED  BY <1>3, <2>1, <1>f, <1>g DEF CheckProducts, Stages
<1>4. ASSUME NEW p \in Products, TakeProduct(h, p) PROVE GoesOn(h)
  <2>1. work[h].op = "webhook"
    BY <1>4 DEF TakeProduct, StagesFit
  <2>2. CASE Finish(h)
    BY <2>2, <1>f
  <2>3. CASE ~Finish(h)
    <3> DEFINE s == [work[h] EXCEPT !.pc = "compare", !.product = p,
                                    !.todo = @ \ {p}, !.value = FALSE]
    <3>1. s \in Handler /\ s.op = work[h].op /\ s.buyer = work[h].buyer
          /\ s.picked = work[h].picked /\ s.pc = "compare"
      BY <1>0 DEF Handler, Stages
    <3>2. work' = [work EXCEPT ![h] = s]
      BY <1>0, <1>4, <2>3 DEF TakeProduct
    <3> QED  BY <3>1, <3>2 DEF GoesOn
  <2> QED  BY <2>2, <2>3
<1>5. CASE CompareProduct(h)
  <2> DEFINE v == (work[h].product \in available) # work[h].value
  <2> DEFINE s == [work[h] EXCEPT !.pc = "write", !.dirty = v]
  <2>1. v \in BOOLEAN
    OBVIOUS
  <2>2. s \in Handler /\ s.op = work[h].op /\ s.buyer = work[h].buyer
        /\ s.picked = work[h].picked /\ s.pc = "write"
    BY <1>0, <2>1 DEF Handler, Stages
  <2>3. work' = [work EXCEPT ![h] = s]
    BY <1>0, <1>5 DEF CompareProduct
  <2> QED  BY <2>2, <2>3 DEF GoesOn
<1>6. CASE WriteProduct(h)
  <2>1. /\ AfterProduct(work[h].op) \in Stages \ {"insert"}
        /\ AfterProduct(work[h].op) \in Hook => work[h].op = "webhook"
    BY DEF AfterProduct, Stages
  <2> QED  BY <1>6, <2>1, <1>f, <1>g DEF WriteProduct, Advance
<1>7. CASE UncartProduct(h)
  <2>1. work[h].op = "webhook"
    BY <1>7 DEF UncartProduct, StagesFit
  <2> QED  BY <1>7, <2>1, <1>g DEF UncartProduct, Stages
<1>8. CASE SaveOrders(h)
  <2>1. work[h].op = "webhook"
    BY <1>8 DEF SaveOrders, StagesFit
  <2> QED  BY <1>8, <2>1, <1>g DEF SaveOrders, Stages
<1>9. CASE EmptyCart(h)
  BY <1>9, <1>f DEF EmptyCart
<1>10. CASE CloseOrder(h)
  BY <1>10, <1>f, <1>g DEF CloseOrder, Advance, Stages
<1>11. CASE HandlerFails(h)
  BY <1>11, <1>f DEF HandlerFails
<1> QED
  BY <1>1, <1>2, <1>3, <1>4, <1>5, <1>6, <1>7, <1>8, <1>9, <1>10, <1>11 DEF Step

\* Where the cart of a buyer can grow: an entry is inserted for that buyer
LEMMA CartGrows ==
    ASSUME TypeOK, NEW b \in Buyers, Next
    PROVE  \/ CartOf(b)' \subseteq CartOf(b)
           \/ \E h \in Handlers : InsertEntry(h) /\ work[h].buyer = b
<1> USE DEF CartOf, catalogue, sales
<1>1. ASSUME NEW c \in Buyers, CreateCheckoutSession(c) \/ PaySession(c)
      PROVE  CartOf(b)' \subseteq CartOf(b)
  BY <1>1 DEF CreateCheckoutSession, PaySession
<1>2. ASSUME NEW c \in Buyers, NEW p \in Products, RemoveFromCart(c, p)
      PROVE  CartOf(b)' \subseteq CartOf(b)
  BY <1>2 DEF RemoveFromCart
<1>3. ASSUME NEW p \in Products, DeleteProduct(p)
      PROVE  CartOf(b)' \subseteq CartOf(b)
  BY <1>3 DEF DeleteProduct, WithoutProduct
<1>4. ASSUME NEW h \in Handlers, NEW c \in Buyers, NEW p \in Products,
             AddToCart(h, c, p) \/ DeliverEvent(h, c)
      PROVE  CartOf(b)' \subseteq CartOf(b)
  BY <1>4 DEF AddToCart, DeliverEvent
<1>5. ASSUME NEW h \in Handlers, NEW o \in ordered, RejectOrder(h, o) \/ ReturnOrder(h, o)
      PROVE  CartOf(b)' \subseteq CartOf(b)
  BY <1>5 DEF RejectOrder, ReturnOrder
<1>6. ASSUME NEW h \in Handlers, Step(h) \/ HandlerFails(h), ~InsertEntry(h)
      PROVE  CartOf(b)' \subseteq CartOf(b)
  <2>1. cart' \subseteq cart
    BY <1>6 DEF Step, HandlerFails, ReadCart, CheckProducts, TakeProduct,
       CompareProduct, WriteProduct, UncartProduct, WithoutProduct, SaveOrders,
       EmptyCart, CloseOrder
  <2> QED  BY <2>1
<1>7. ASSUME NEW h \in Handlers, InsertEntry(h), work[h].buyer # b
      PROVE  CartOf(b)' \subseteq CartOf(b)
  BY <1>7 DEF InsertEntry
<1>8. ASSUME NEW h \in Handlers, NEW p \in Products, UpdateProduct(h, p)
      PROVE  CartOf(b)' \subseteq CartOf(b)
  BY <1>8 DEF UpdateProduct
<1>9. Products # {}
  BY ConstantsAssumption
<1> QED
  BY <1>1, <1>2, <1>3, <1>4, <1>5, <1>6, <1>7, <1>8, <1>9 DEF Next

\* One step keeps what the theorem rests on
LEMMA PaidStep ==
    ASSUME Calm, PaidInv, [Next]_vars
    PROVE  PaidInv'
<1> USE DEF catalogue, sales
<1>t. TypeOK /\ TypeOK'
  BY TypeStep DEF PaidInv
<1>w. \A h \in Handlers : work[h] \in Handler
  BY <1>t DEF TypeOK
<1>a. AnyBuyer \in Buyers
  BY ConstantsAssumption DEF AnyBuyer
<1>0. ASSUME NEW h \in Handlers, NEW op, NEW stage, NEW b \in Buyers,
             Begun(h, op, stage, b),
             stage = "insert" <=> op = "add",
             stage \in {"cart", "check", "take", "uncart", "save", "empty"} => op = "webhook",
             op = "add" => payment[b] = "none",
             op = "webhook" => payment[b] \in {"paid", "done"},
             UNCHANGED <<cart, payment, paidFor, ordered>>
      PROVE  PaidInv'
  <2>1. PICK s \in Handler :
            /\ work' = [work EXCEPT ![h] = s]
            /\ s.op = op /\ s.pc = stage /\ s.buyer = b /\ s.picked = {}
    BY <1>0 DEF Begun
  <2>2. \A g \in Handlers : work'[g] = IF g = h THEN s ELSE work[g]
    BY <2>1, <1>t DEF TypeOK
  <2>3. StagesFit'
    BY <1>0, <2>1, <2>2 DEF StagesFit, PaidInv
  <2>4. AddsBeforeCheckout'
    BY <1>0, <2>1, <2>2 DEF AddsBeforeCheckout, PaidInv
  <2>5. PickedWasPaid'
    BY <1>0, <2>1, <2>2 DEF PickedWasPaid, PaidInv
  <2>6. CartWasPaid' /\ OrderedAfterCheckout' /\ OrderedWasPaid'
    BY <1>0 DEF CartWasPaid, CartOf, OrderedAfterCheckout, OrderedWasPaid, PaidInv
  <2> QED
    BY <1>t, <2>3, <2>4, <2>5, <2>6 DEF PaidInv
<1>1. ASSUME NEW h \in Handlers, NEW b \in Buyers, NEW p \in Products, AddToCart(h, b, p)
      PROVE  PaidInv'
  <2>1. Begun(h, "add", "insert", b) /\ payment[b] = "none"
    BY <1>1, <1>t, Beginnings DEF AddToCart
  <2> QED  BY <1>0, <1>1, <2>1 DEF AddToCart
<1>2. ASSUME NEW h \in Handlers, NEW b \in Buyers, DeliverEvent(h, b)
      PROVE  PaidInv'
  <2>1. Begun(h, "webhook", "cart", b) /\ payment[b] \in {"paid", "done"}
    BY <1>2, <1>t, Beginnings DEF DeliverEvent
  <2> QED  BY <1>0, <1>2, <2>1 DEF DeliverEvent
<1>3. ASSUME NEW h \in Handlers, NEW o \in ordered, RejectOrder(h, o) \/ ReturnOrder(h, o)
      PROVE  PaidInv'
  <2>1. o \in Order /\ o[1] \in Buyers
    BY <1>t, OrderParts DEF TypeOK
  <2>2. CASE RejectOrder(h, o)
    <3>1. Begun(h, "reject", "close", o[1])
      BY <2>1, <2>2, <1>t, Beginnings
    <3> QED  BY <1>0, <2>1, <2>2, <3>1 DEF RejectOrder
  <2>3. CASE ReturnOrder(h, o)
    <3>1. PICK stage \in {"close", "compare"} : Begun(h, "return", stage, o[1])
      BY <2>1, <2>3, <1>t, Beginnings
    <3> QED  BY <1>0, <2>1, <2>3, <3>1 DEF ReturnOrder
  <2> QED  BY <1>3, <2>2, <2>3
<1>4. ASSUME NEW h \in Handlers, NEW p \in Products, UpdateProduct(h, p)
      PROVE  PaidInv'
  <2>1. Begun(h, "edit", "compare", AnyBuyer)
    BY <1>4, <1>t, Beginnings
  <2> QED  BY <1>0, <1>4, <1>a, <2>1 DEF UpdateProduct
\* A handler goes on: nobody opens a session, so what is said of the
\* handlers carries over
<1>5. ASSUME NEW h \in Handlers, Step(h) \/ HandlerFails(h)
      PROVE  PaidInv'
  <2>1. GoesOn(h)
    BY <1>5, Continuations DEF PaidInv
  <2>2. paidFor' = paidFor
    BY <1>5 DEF Step, HandlerFails, InsertEntry, ReadCart, CheckProducts, TakeProduct,
       CompareProduct, WriteProduct, UncartProduct, SaveOrders, EmptyCart, CloseOrder
  <2>3. \/ payment' = payment
        \/ work[h].op = "webhook" /\ payment' = [payment EXCEPT ![work[h].buyer] = "done"]
    BY <1>5 DEF Step, HandlerFails, InsertEntry, ReadCart, CheckProducts, TakeProduct,
       CompareProduct, WriteProduct, UncartProduct, SaveOrders, EmptyCart, CloseOrder,
       StagesFit, PaidInv
  <2>4. \/ ordered' = ordered
        \/ /\ work[h].op = "webhook"
           /\ \E n \in Nat : ordered' = ordered \cup {<<work[h].buyer, n, p>> : p \in work[h].picked}
    <3>1. CASE SaveOrders(h)
      <4>1. placed[work[h].buyer] + 1 \in Nat
        BY <1>t, <1>w DEF TypeOK, Handler
      <4> QED  BY <3>1, <4>1 DEF SaveOrders, StagesFit, PaidInv
    <3>2. CASE ~SaveOrders(h)
      BY <1>5, <3>2 DEF Step, HandlerFails, InsertEntry, ReadCart, CheckProducts, TakeProduct,
         CompareProduct, WriteProduct, UncartProduct, EmptyCart, CloseOrder
    <3> QED  BY <3>1, <3>2
  <2>5. \A b \in Buyers : CartOf(b)' \subseteq CartOf(b) \/ payment[b] = "none"
    <3> SUFFICES ASSUME NEW b \in Buyers, payment[b] # "none"
                 PROVE  CartOf(b)' \subseteq CartOf(b)
      OBVIOUS
    <3>1. \A g \in Handlers : InsertEntry(g) => work[g].buyer # b
      BY DEF InsertEntry, StagesFit, AddsBeforeCheckout, PaidInv
    <3>2. Next
      BY <1>5 DEF Next
    <3> QED  BY <1>t, <3>1, <3>2, CartGrows
  <2>6. \A b \in Buyers :
            /\ payment[b] = "none" <=> payment'[b] = "none"
            /\ payment[b] \in {"paid", "done"} => payment'[b] \in {"paid", "done"}
    BY <2>3, <1>t, <1>w DEF TypeOK, Handler, PickedWasPaid, PaidInv
  <2>7. \A g \in Handlers \ {h} : work'[g] = work[g]
    BY <2>1, <1>t DEF GoesOn, TypeOK
  <2>8. StagesFit'
    BY <2>1, <2>7, <1>t, IdleFields DEF GoesOn, TypeOK, StagesFit, PaidInv
  <2>9. AddsBeforeCheckout'
    BY <2>1, <2>6, <2>7, <1>t, <1>w, IdleFields
    DEF GoesOn, TypeOK, Handler, AddsBeforeCheckout, PaidInv
  <2>10. PickedWasPaid'
    <3> SUFFICES ASSUME NEW g \in Handlers, work'[g].op = "webhook"
                 PROVE  /\ payment'[work'[g].buyer] \in {"paid", "done"}
                        /\ work'[g].picked \subseteq paidFor'[work'[g].buyer]
      BY DEF PickedWasPaid
    <3>1. CASE g # h
      BY <2>2, <2>6, <2>7, <3>1, <1>w DEF Handler, PickedWasPaid, PaidInv
    <3>2. CASE g = h
      <4>1. PICK s \in Handler :
                /\ work'[h] = s /\ s.op = work[h].op /\ s.buyer = work[h].buyer
                /\ s.picked = work[h].picked \/ s.picked = CartOf(work[h].buyer)
        BY <2>1, <3>2, <1>t, IdleFields DEF GoesOn, TypeOK
      <4>2. /\ work[h].buyer \in Buyers
            /\ payment[work[h].buyer] \in {"paid", "done"}
            /\ work[h].picked \subseteq paidFor[work[h].buyer]
        BY <3>2, <4>1, <1>w DEF Handler, PickedWasPaid, PaidInv
      <4>3. CartOf(work[h].buyer) \subseteq paidFor[work[h].buyer]
        BY <4>2 DEF CartWasPaid, PaidInv
      <4> QED  BY <2>2, <2>6, <3>2, <4>1, <4>2, <4>3
    <3> QED  BY <3>1, <3>2
  <2>11. CartWasPaid'
    BY <2>2, <2>5, <2>6 DEF CartWasPaid, PaidInv
  <2>12. OrderedAfterCheckout' /\ OrderedWasPaid'
    <3> SUFFICES ASSUME NEW o \in ordered'
                 PROVE  payment'[o[1]] # "none" /\ o[3] \in paidFor'[o[1]]
      BY DEF OrderedAfterCheckout, OrderedWasPaid
    <3>1. o[1] \in Buyers
      BY <1>t, OrderParts DEF TypeOK
    <3>2. CASE o \in ordered
      BY <2>2, <2>6, <3>1, <3>2 DEF OrderedAfterCheckout, OrderedWasPaid, PaidInv
    <3>3. CASE o \notin ordered
      <4>1. work[h].op = "webhook" /\ o[1] = work[h].buyer /\ o[3] \in work[h].picked
        BY <2>4, <3>3
      <4> QED  BY <2>2, <2>6, <3>1, <4>1 DEF PickedWasPaid, PaidInv
    <3> QED  BY <3>2, <3>3
  <2> QED
    BY <1>t, <2>8, <2>9, <2>10, <2>11, <2>12 DEF PaidInv
<1>6. ASSUME NEW b \in Buyers, CreateCheckoutSession(b)
      PROVE  PaidInv'
  <2>1. /\ payment[b] = "none" /\ payment' = [payment EXCEPT ![b] = "open"]
        /\ paidFor' = [paidFor EXCEPT ![b] = CartOf(b)]
        /\ UNCHANGED <<cart, ordered, work>>
        /\ \A g \in Handlers : ~(work[g].op = "add" /\ work[g].buyer = b)
    BY <1>6 DEF CreateCheckoutSession
  <2>2. \A c \in Buyers : c # b => payment'[c] = payment[c] /\ paidFor'[c] = paidFor[c]
    BY <2>1, <1>t DEF TypeOK
  <2>3. payment'[b] = "open" /\ paidFor'[b] = CartOf(b)
    BY <2>1, <1>t DEF TypeOK
  <2>4. StagesFit' /\ AddsBeforeCheckout' /\ PickedWasPaid'
    BY <2>1, <2>2, <1>w DEF Handler, StagesFit, AddsBeforeCheckout, PickedWasPaid, PaidInv
  <2>5. CartWasPaid'
    BY <2>1, <2>2, <2>3 DEF CartOf, CartWasPaid, PaidInv
  <2>6. \A o \in ordered : o[1] \in Buyers /\ o[1] # b
    BY <2>1, <1>t, OrderParts DEF TypeOK, OrderedAfterCheckout, PaidInv
  <2>7. OrderedAfterCheckout' /\ OrderedWasPaid'
    BY <2>1, <2>2, <2>6 DEF OrderedAfterCheckout, OrderedWasPaid, PaidInv
  <2> QED
    BY <1>t, <2>4, <2>5, <2>7 DEF PaidInv
<1>7. ASSUME NEW b \in Buyers, PaySession(b)
      PROVE  PaidInv'
  <2>1. /\ payment[b] = "open" /\ payment' = [payment EXCEPT ![b] = "paid"]
        /\ UNCHANGED <<cart, paidFor, ordered, work>>
    BY <1>7 DEF PaySession
  <2>2. \A c \in Buyers : payment'[c] = IF c = b THEN "paid" ELSE payment[c]
    BY <2>1, <1>t DEF TypeOK
  <2>3. StagesFit' /\ AddsBeforeCheckout' /\ PickedWasPaid'
    BY <2>1, <2>2, <1>w DEF Handler, StagesFit, AddsBeforeCheckout, PickedWasPaid, PaidInv
  <2>4. CartWasPaid'
    BY <2>1, <2>2 DEF CartOf, CartWasPaid, PaidInv
  <2>5. \A o \in ordered : o[1] \in Buyers
    BY <1>t, OrderParts DEF TypeOK
  <2>6. OrderedAfterCheckout' /\ OrderedWasPaid'
    BY <2>1, <2>2, <2>5 DEF OrderedAfterCheckout, OrderedWasPaid, PaidInv
  <2> QED
    BY <1>t, <2>3, <2>4, <2>6 DEF PaidInv
\* Entries leave the cart, or nothing happens
<1>8. ASSUME cart' \subseteq cart, UNCHANGED <<payment, paidFor, ordered, work>>
      PROVE  PaidInv'
  <2>1. StagesFit' /\ AddsBeforeCheckout' /\ PickedWasPaid'
    BY <1>8 DEF StagesFit, AddsBeforeCheckout, PickedWasPaid, PaidInv
  <2>2. CartWasPaid' /\ OrderedAfterCheckout' /\ OrderedWasPaid'
    BY <1>8 DEF CartWasPaid, CartOf, OrderedAfterCheckout, OrderedWasPaid, PaidInv
  <2> QED
    BY <1>t, <2>1, <2>2 DEF PaidInv
<1>9. ASSUME NEW b \in Buyers, NEW p \in Products, RemoveFromCart(b, p) \/ DeleteProduct(p)
      PROVE  PaidInv'
  BY <1>8, <1>9 DEF RemoveFromCart, DeleteProduct, WithoutProduct
<1>10. CASE UNCHANGED vars
  BY <1>8, <1>10 DEF vars
<1> QED
  BY <1>1, <1>2, <1>3, <1>4, <1>5, <1>6, <1>7, <1>9, <1>10, <1>a DEF Next

\* If buyers leave their carts alone from the checkout on, a buyer is sent
\* nothing the checkout session did not ask money for, whatever other buyers,
\* vendors, failures and repeated deliveries do (createOrdersForUser)
THEOREM PaidForCorrect ==
    ASSUME Calm
    PROVE  Spec => []OrderedWasPaid
<1>1. Init => PaidInv
  BY IdleType, IdleFields DEF Init, PaidInv, TypeOK, StagesFit, AddsBeforeCheckout,
     PickedWasPaid, CartWasPaid, OrderedAfterCheckout, OrderedWasPaid
<1>2. PaidInv /\ [Next]_vars => PaidInv'
  BY PaidStep
<1>3. PaidInv => OrderedWasPaid
  BY DEF PaidInv
<1> QED
  BY <1>1, <1>2, <1>3, PTL DEF Spec

(***************************************************************************)
(* One buyer order for a payment                                           *)
(*                                                                         *)
(* Nothing marks an event as handled.  What stops a second delivery is the *)
(* empty cart: the products of an order leave the carts one by one before  *)
(* the order is saved, and a calm buyer puts nothing back.                 *)
(***************************************************************************)

\* What is asked of Stripe: it waits for the answer to a delivery
DeliveriesApart == OneDelivery \/ {"webhook"} \in Apart

\* Two deliveries of one event do not overlap
OneWebhook ==
    \A h, g \in Handlers :
        work[h].op = "webhook" /\ work[g].op = "webhook" /\ work[h].buyer = work[g].buyer
            => h = g

Filling == {"check", "take", "compare", "write", "uncart", "save"}

\* What a webhook has still to take out of the carts
Left(h) ==
    work[h].todo \cup
        (IF work[h].pc \in {"compare", "write", "uncart"} THEN {work[h].product} ELSE {})

CartIsLeft ==
    \A h \in Handlers :
        work[h].op = "webhook" /\ work[h].pc \in Filling =>
            /\ placed[work[h].buyer] = 0
            /\ CartOf(work[h].buyer) \subseteq Left(h)
            /\ work[h].pc = "save" => work[h].todo = {}

PlacedEmptied ==
    \A b \in Buyers : placed[b] # 0 => payment[b] # "none" /\ CartOf(b) = {}

PlacedInv ==
    /\ PaidInv
    /\ OneWebhook
    /\ CartIsLeft
    /\ PlacedEmptied
    /\ OneOrderPerPayment

\* The cart of buyer b after the step
NextCartOf(b) == {p \in Products : <<b, p>> \in cart'}

LEMMA PlacedStep ==
    ASSUME Calm, DeliveriesApart, PlacedInv, [Next]_vars
    PROVE  PlacedInv'
<1> USE DEF catalogue, sales
<1>t. TypeOK /\ TypeOK' /\ PaidInv /\ PaidInv'
  BY PaidStep DEF PlacedInv, PaidInv
<1>w. \A h \in Handlers : work[h] \in Handler
  BY <1>t DEF TypeOK
<1>a. AnyBuyer \in Buyers /\ Products # {}
  BY ConstantsAssumption DEF AnyBuyer
\* The cart of a buyer who was at the checkout does not grow
<1>c. \A b \in Buyers : NextCartOf(b) \subseteq CartOf(b) \/ payment[b] = "none"
  <2> SUFFICES ASSUME NEW b \in Buyers, payment[b] # "none"
               PROVE  NextCartOf(b) \subseteq CartOf(b)
    OBVIOUS
  <2>1. \A g \in Handlers : InsertEntry(g) => work[g].buyer # b
    BY <1>t DEF InsertEntry, StagesFit, AddsBeforeCheckout, PaidInv
  <2>2. CASE Next
    BY <1>t, <2>1, <2>2, CartGrows DEF CartOf, NextCartOf
  <2>3. CASE UNCHANGED vars
    BY <2>3 DEF vars, CartOf, NextCartOf
  <2> QED  BY <2>2, <2>3
<1>0. ASSUME NEW h \in Handlers, NEW op, NEW stage, NEW b \in Buyers,
             Begun(h, op, stage, b),
             op = "webhook" => /\ stage = "cart"
                               /\ \A g \in Handlers :
                                     ~(work[g].op = "webhook" /\ work[g].buyer = b),
             UNCHANGED <<cart, payment, placed>>
      PROVE  PlacedInv'
  <2>1. PICK s \in Handler :
            work' = [work EXCEPT ![h] = s] /\ s.op = op /\ s.pc = stage /\ s.buyer = b
    BY <1>0 DEF Begun
  <2>2. \A g \in Handlers : work'[g] = IF g = h THEN s ELSE work[g]
    BY <2>1, <1>t DEF TypeOK
  <2>3. OneWebhook'
    BY <1>0, <2>1, <2>2 DEF OneWebhook, PlacedInv
  <2>4. CartIsLeft'
    BY <1>0, <2>1, <2>2 DEF CartIsLeft, Left, Filling, CartOf, PlacedInv
  <2>5. PlacedEmptied' /\ OneOrderPerPayment'
    BY <1>0 DEF PlacedEmptied, OneOrderPerPayment, CartOf, PlacedInv
  <2> QED
    BY <1>t, <2>3, <2>4, <2>5 DEF PlacedInv
<1>1. ASSUME NEW h \in Handlers, NEW b \in Buyers, NEW p \in Products, AddToCart(h, b, p)
      PROVE  PlacedInv'
  <2>1. Begun(h, "add", "insert", b)
    BY <1>1, <1>t, Beginnings
  <2> QED  BY <1>0, <1>1, <2>1 DEF AddToCart
<1>2. ASSUME NEW h \in Handlers, NEW b \in Buyers, DeliverEvent(h, b)
      PROVE  PlacedInv'
  <2>1. Begun(h, "webhook", "cart", b)
    BY <1>2, <1>t, Beginnings
  <2>2. \A g \in Handlers : ~(work[g].op = "webhook" /\ work[g].buyer = b)
    BY <1>2 DEF DeliverEvent, Begin, DeliveriesApart
  <2> QED  BY <1>0, <1>2, <2>1, <2>2 DEF DeliverEvent
<1>3. ASSUME NEW h \in Handlers, NEW o \in ordered, RejectOrder(h, o) \/ ReturnOrder(h, o)
      PROVE  PlacedInv'
  <2>1. o \in Order /\ o[1] \in Buyers
    BY <1>t, OrderParts DEF TypeOK
  <2>2. PICK op \in {"reject", "return"}, stage \in {"close", "compare"} :
            Begun(h, op, stage, o[1])
    BY <1>3, <1>t, <2>1, Beginnings
  <2> QED  BY <1>0, <1>3, <2>1, <2>2 DEF RejectOrder, ReturnOrder
<1>4. ASSUME NEW h \in Handlers, NEW p \in Products, UpdateProduct(h, p)
      PROVE  PlacedInv'
  <2>1. Begun(h, "edit", "compare", AnyBuyer)
    BY <1>4, <1>t, Beginnings
  <2> QED  BY <1>0, <1>4, <1>a, <2>1 DEF UpdateProduct
\* A handler goes on
<1>5. ASSUME NEW h \in Handlers, Step(h) \/ HandlerFails(h)
      PROVE  PlacedInv'
  <2>1. GoesOn(h)
    BY <1>5, <1>t, Continuations DEF PaidInv
  <2>2. \A g \in Handlers \ {h} : work'[g] = work[g]
    BY <2>1, <1>t DEF GoesOn, TypeOK
  <2>3. work'[h].op # "none" => work'[h].op = work[h].op /\ work'[h].buyer = work[h].buyer
    BY <2>1, <1>t, IdleFields DEF GoesOn, TypeOK
  <2>4. OneWebhook'
    BY <2>2, <2>3 DEF OneWebhook, PlacedInv
  <2>5. \A b \in Buyers : payment[b] # "none" => payment'[b] # "none"
    <3>1. payment' = payment \/ payment' = [payment EXCEPT ![work[h].buyer] = "done"]
      BY <1>5 DEF Step, HandlerFails, InsertEntry, ReadCart, CheckProducts, TakeProduct,
         CompareProduct, WriteProduct, UncartProduct, SaveOrders, EmptyCart, CloseOrder
    <3> QED  BY <3>1, <1>t DEF TypeOK
  \* Another webhook is another buyer's
  <2>6. ASSUME \A b \in Buyers :
                   \/ placed'[b] = placed[b]
                   \/ work[h].op = "webhook" /\ b = work[h].buyer,
               NEW g \in Handlers, g # h, work'[g].op = "webhook", work'[g].pc \in Filling
        PROVE  /\ placed'[work'[g].buyer] = 0
               /\ NextCartOf(work'[g].buyer) \subseteq Left(g)'
               /\ work'[g].pc = "save" => work'[g].todo = {}
    <3>1. work'[g] = work[g] /\ work[g].buyer \in Buyers
      BY <2>2, <2>6, <1>w DEF Handler
    <3>2. placed'[work[g].buyer] = placed[work[g].buyer]
      BY <2>6, <3>1 DEF OneWebhook, PlacedInv
    <3>3. NextCartOf(work[g].buyer) \subseteq CartOf(work[g].buyer)
      BY <1>c, <1>t, <2>6, <3>1 DEF PickedWasPaid, PaidInv
    <3>4. Left(g)' = Left(g)
      BY <3>1 DEF Left
    <3> QED  BY <2>6, <3>1, <3>2, <3>3, <3>4 DEF CartIsLeft, PlacedInv
  <2>7. CASE SaveOrders(h)
    <3> DEFINE b == work[h].buyer
    <3>1. /\ work[h].op = "webhook" /\ b \in Buyers /\ payment[b] # "none"
          /\ placed[b] = 0 /\ CartOf(b) = {}
      BY <2>7, <1>t, <1>w
      DEF SaveOrders, Handler, StagesFit, PickedWasPaid, PaidInv, CartIsLeft, Left, Filling, PlacedInv
    <3>2. placed' = [placed EXCEPT ![b] = 1] /\ cart' = cart
      BY <2>7, <3>1 DEF SaveOrders
    <3>3. \A c \in Buyers : placed'[c] = IF c = b THEN 1 ELSE placed[c]
      BY <3>2, <1>t DEF TypeOK
    <3>4. OneOrderPerPayment'
      BY <3>3 DEF OneOrderPerPayment, PlacedInv
    <3>5. PlacedEmptied'
      BY <2>5, <3>1, <3>2, <3>3 DEF PlacedEmptied, CartOf, PlacedInv
    <3>6. work'[h].pc = "empty"
      BY <2>7, <1>t, <1>w DEF SaveOrders, Goto, TypeOK, Handler
    <3>7. CartIsLeft'
      BY <2>6, <3>1, <3>3, <3>6 DEF CartIsLeft, Filling, CartOf, NextCartOf
    <3> QED  BY <1>t, <2>4, <3>4, <3>5, <3>7 DEF PlacedInv
  <2>8. CASE ~SaveOrders(h)
    <3>1. placed' = placed
      BY <1>5, <2>8 DEF Step, HandlerFails, InsertEntry, ReadCart, CheckProducts, TakeProduct,
         CompareProduct, WriteProduct, UncartProduct, EmptyCart, CloseOrder
    <3>2. OneOrderPerPayment'
      BY <3>1 DEF OneOrderPerPayment, PlacedInv
    <3>3. PlacedEmptied'
      BY <1>c, <2>5, <3>1 DEF PlacedEmptied, CartOf, NextCartOf, PlacedInv
    <3>4. ASSUME work'[h].op = "webhook", work'[h].pc \in Filling
          PROVE  /\ placed[work'[h].buyer] = 0
                 /\ NextCartOf(work'[h].buyer) \subseteq Left(h)'
                 /\ work'[h].pc = "save" => work'[h].todo = {}
      <4> DEFINE b == work[h].buyer
      <4>0. /\ work[h].op = "webhook" /\ work'[h].buyer = b /\ b \in Buyers
            /\ payment[b] # "none" /\ ~Finish(h)
        <5>1. work[h].op = "webhook" /\ work'[h].buyer = b /\ b \in Buyers
          BY <2>3, <3>4, <1>w DEF Handler
        <5>2. ~Finish(h)
          BY <3>4, <1>t, IdleFields DEF Finish, TypeOK
        <5> QED  BY <5>1, <5>2, <1>t DEF PickedWasPaid, PaidInv
      <4>1. NextCartOf(b) \subseteq CartOf(b)
        BY <1>c, <4>0
      <4>2. CASE ReadCart(h)
        <5>1. /\ CartOf(b) # {} /\ cart' = cart
              /\ work'[h].todo = CartOf(b) /\ work'[h].pc = "check"
          BY <4>0, <4>2, <1>t, <1>w DEF ReadCart, TypeOK, Handler
        <5>2. placed[b] = 0
          BY <4>0, <5>1 DEF PlacedEmptied, PlacedInv
        <5> QED  BY <4>0, <4>1, <5>1, <5>2 DEF Left
      <4>3. CASE CheckProducts(h)
        <5>1. /\ work[h].pc = "check" /\ work'[h].pc = "take"
              /\ work'[h].todo = work[h].todo
          BY <4>0, <4>3, <1>t, <1>w DEF CheckProducts, Goto, TypeOK, Handler
        <5> QED  BY <4>0, <4>1, <5>1 DEF Left, CartIsLeft, Filling, PlacedInv
      <4>4. ASSUME NEW p \in Products, TakeProduct(h, p)
            PROVE  /\ placed[b] = 0
                   /\ NextCartOf(b) \subseteq Left(h)'
                   /\ work'[h].pc # "save"
        <5>1. /\ work[h].pc = "take" /\ work'[h].pc = "compare"
              /\ work'[h].todo = work[h].todo \ {p} /\ work'[h].product = p
          BY <4>0, <4>4, <1>t, <1>w DEF TakeProduct, TypeOK, Handler
        <5> QED  BY <4>0, <4>1, <5>1 DEF Left, CartIsLeft, Filling, PlacedInv
      <4>5. CASE CompareProduct(h)
        <5>1. /\ work[h].pc = "compare" /\ work'[h].pc = "write"
              /\ work'[h].todo = work[h].todo /\ work'[h].product = work[h].product
          BY <4>5, <1>t, <1>w DEF CompareProduct, TypeOK, Handler
        <5> QED  BY <4>0, <4>1, <5>1 DEF Left, CartIsLeft, Filling, PlacedInv
      <4>6. CASE WriteProduct(h)
        <5>1. /\ work[h].pc = "write" /\ work'[h].pc = "uncart"
              /\ work'[h].todo = work[h].todo /\ work'[h].product = work[h].product
          BY <4>0, <4>6, <1>t, <1>w
          DEF WriteProduct, Advance, AfterProduct, Goto, TypeOK, Handler
        <5> QED  BY <4>0, <4>1, <5>1 DEF Left, CartIsLeft, Filling, PlacedInv
      <4>7. CASE UncartProduct(h)
        <5>1. /\ work[h].pc = "uncart" /\ work'[h].todo = work[h].todo
              /\ work'[h].pc = IF work[h].todo = {} THEN "save" ELSE "take"
          BY <4>7, <1>t, <1>w DEF UncartProduct, Goto, TypeOK, Handler
        <5>2. NextCartOf(b) \subseteq CartOf(b) \ {work[h].product}
          BY <4>7 DEF UncartProduct, WithoutProduct, CartOf, NextCartOf
        <5> QED  BY <4>0, <5>1, <5>2 DEF Left, CartIsLeft, Filling, PlacedInv
      <4>8. ~InsertEntry(h) /\ ~EmptyCart(h) /\ ~HandlerFails(h)
        BY <4>0 DEF InsertEntry, EmptyCart, HandlerFails
      <4>9. ~CloseOrder(h)
        <5>1. CASE CloseOrder(h)
          <6>1. work'[h].pc \in {"idle", "compare", "close"}
            BY <4>0, <5>1, <1>t, <1>w DEF CloseOrder, Advance, Goto, TypeOK, Handler
          <6>2. work[h].op # "reject"
            BY <4>0
          <6> QED  BY <4>0, <5>1, <6>2 DEF CloseOrder, Advance
        <5> QED  BY <5>1
      <4> QED
        BY <1>5, <2>8, <4>0, <4>2, <4>3, <4>4, <4>5, <4>6, <4>7, <4>8, <4>9 DEF Step
    <3>5. CartIsLeft'
      BY <2>6, <3>1, <3>4 DEF CartIsLeft, CartOf, NextCartOf
    <3> QED  BY <1>t, <2>4, <3>2, <3>3, <3>5 DEF PlacedInv
  <2> QED  BY <2>7, <2>8
\* The handlers and the buyer orders stay as they are
<1>6. ASSUME UNCHANGED <<placed, work>>,
             \A b \in Buyers : payment[b] # "none" => payment'[b] # "none"
      PROVE  PlacedInv'
  <2>1. OneWebhook' /\ OneOrderPerPayment'
    BY <1>6 DEF OneWebhook, OneOrderPerPayment, PlacedInv
  <2>2. PlacedEmptied'
    BY <1>6, <1>c DEF PlacedEmptied, CartOf, NextCartOf, PlacedInv
  <2>3. \A h \in Handlers :
            work[h].op = "webhook" => NextCartOf(work[h].buyer) \subseteq CartOf(work[h].buyer)
    BY <1>c, <1>t, <1>w DEF Handler, PickedWasPaid, PaidInv
  <2>4. CartIsLeft'
    BY <1>6, <2>3 DEF CartIsLeft, Left, CartOf, NextCartOf, PlacedInv
  <2> QED
    BY <1>t, <2>1, <2>2, <2>4 DEF PlacedInv
<1>7. ASSUME NEW b \in Buyers, CreateCheckoutSession(b) \/ PaySession(b)
      PROVE  PlacedInv'
  BY <1>6, <1>7, <1>t DEF CreateCheckoutSession, PaySession, TypeOK
<1>8. ASSUME NEW b \in Buyers, NEW p \in Products, RemoveFromCart(b, p) \/ DeleteProduct(p)
      PROVE  PlacedInv'
  BY <1>6, <1>8 DEF RemoveFromCart, DeleteProduct
<1>9. CASE UNCHANGED vars
  BY <1>6, <1>9 DEF vars
<1> QED
  BY <1>1, <1>2, <1>3, <1>4, <1>5, <1>7, <1>8, <1>9, <1>a DEF Next

\* For calm buyers a payment makes at most one buyer order, however often its
\* event is delivered and wherever its handling fails, if Stripe waits for the
\* answer to a delivery before the next one of the event: webhookHandler itself
\* keeps two deliveries no more apart than it remembers the first
THEOREM OneOrderCorrect ==
    ASSUME Calm, DeliveriesApart
    PROVE  Spec => []OneOrderPerPayment
<1>1. Init => PlacedInv
  BY IdleType, IdleFields DEF Init, PlacedInv, PaidInv, TypeOK, StagesFit,
     AddsBeforeCheckout, PickedWasPaid, CartWasPaid, OrderedAfterCheckout, OrderedWasPaid,
     OneWebhook, CartIsLeft, PlacedEmptied, OneOrderPerPayment
<1>2. PlacedInv /\ [Next]_vars => PlacedInv'
  BY PlacedStep DEF DeliveriesApart
<1>3. PlacedInv => OneOrderPerPayment
  BY DEF PlacedInv
<1> QED
  BY <1>1, <1>2, <1>3, PTL DEF Spec

(***************************************************************************)
(* What the handlers hold                                                  *)
(***************************************************************************)

Enders == {"reject", "return"}

\* What the record of an operation in flight says in its stages
JobFits(s) ==
    /\ s.op \in {"none", "add", "edit", "webhook"} \cup Enders
    /\ s.op = "none" => s.pc = "idle"
    /\ s.op = "add" => s.pc = "insert"
    /\ s.op = "edit" => s.pc \in {"compare", "write"}
    /\ s.op = "webhook" =>
          /\ s.pc \in Filling \cup {"cart", "empty"}
          /\ s.todo \subseteq s.picked
          /\ s.pc \in {"compare", "write", "uncart"} => s.product \in s.picked
          /\ s.pc \in {"compare", "write"} => ~s.value
          /\ s.pc = "save" => s.todo = {}
    /\ s.op \in Enders =>
          /\ s.pc \in {"close", "compare", "write"}
          /\ s.value
          /\ \E o \in ordered : s.order = {o} /\ s.product = o[3] /\ s.todo \subseteq {o[3]}
          /\ EndedOnce /\ s.op = "reject" /\ s.pc = "close" => s.order \cap closed = {}
    /\ s.op \notin Enders => s.order = {}

JobsFit == \A h \in Handlers : JobFits(work[h])

\* Two handlers never end the same order
OrdersApart == \A h, g \in Handlers : h # g => work[h].order \cap work[g].order = {}

JobsInv == JobsFit /\ OrdersApart

LEMMA IdleFits ==
    Idle.op = "none" /\ Idle.pc = "idle" /\ Idle.order = {} /\ Idle.picked = {} /\ Idle.todo = {}
BY DEF Idle

\* The handler of an idle slot holds nothing
LEMMA IdleSlot ==
    ASSUME TypeOK, JobsInv, NEW h \in Handlers, work[h].pc = "idle"
    PROVE  work[h].op = "none" /\ work[h].order = {}
<1>1. JobFits(work[h])
  BY DEF JobsInv, JobsFit
<1>2. /\ work[h].op # "add" /\ work[h].op # "edit" /\ work[h].op # "webhook"
      /\ work[h].op \notin Enders
  BY <1>1 DEF JobFits, Filling
<1> QED
  BY <1>1, <1>2 DEF JobFits

\* What a handler begins with
StartsAs(s) ==
    \/ s.op = "add" /\ s.pc = "insert" /\ s.product \in available /\ s.order = {}
    \/ /\ s.op = "edit" /\ s.pc = "compare" /\ s.order = {}
       /\ s.value = (s.product \in available)
    \/ s.op = "webhook" /\ s.pc = "cart" /\ s.picked = {} /\ s.todo = {} /\ s.order = {}
    \/ \E o \in ordered :
          /\ MayEnd(o)
          /\ s.order = {o} /\ s.product = o[3] /\ s.todo = {o[3]} \ deleted /\ s.value
          /\ \/ s.op = "reject" /\ s.pc = "close"
             \/ s.op = "return" /\ s.pc = IF s.product \in deleted THEN "close" ELSE "compare"

LEMMA StartForm ==
    ASSUME TypeOK, NEW h \in Handlers,
           NEW b \in Buyers, NEW p \in Products,
           \/ AddToCart(h, b, p) \/ UpdateProduct(h, p) \/ DeliverEvent(h, b)
           \/ \E o \in ordered : RejectOrder(h, o) \/ ReturnOrder(h, o)
    PROVE  /\ work[h].pc = "idle" /\ \A g \in Handlers \ {h} : work'[g] = work[g]
           /\ work'[h].op \in Acts /\ StartsAs(work'[h])
           /\ \A g \in Handlers : {work'[h].op, work[g].op} \notin Apart
           /\ UNCHANGED <<available, deleted, cart, placed, ordered, closed>>
<1> USE DEF catalogue, sales
<1>1. ASSUME NEW op, NEW s, Begin(h, op, s), s.op = op
      PROVE  /\ work[h].pc = "idle" /\ \A g \in Handlers \ {h} : work'[g] = work[g]
             /\ work'[h] = s /\ work'[h].op \in Acts
             /\ \A g \in Handlers : {work'[h].op, work[g].op} \notin Apart
  BY <1>1 DEF Begin, TypeOK
<1>2. CASE AddToCart(h, b, p)
  <2> DEFINE s == [Idle EXCEPT !.op = "add", !.pc = "insert", !.buyer = b, !.product = p]
  <2>1. s.op = "add" /\ s.pc = "insert" /\ s.product = p /\ s.order = {}
    BY DEF Idle
  <2>2. Begin(h, "add", s) /\ p \in available
    BY <1>2 DEF AddToCart
  <2>3. StartsAs(s)
    BY <2>1, <2>2 DEF StartsAs
  <2> HIDE DEF s
  <2> QED  BY <1>1, <1>2, <2>1, <2>2, <2>3 DEF AddToCart
<1>3. CASE UpdateProduct(h, p)
  <2> DEFINE s == [Idle EXCEPT !.op = "edit", !.pc = "compare",
                               !.product = p, !.value = p \in available]
  <2>1. /\ s.op = "edit" /\ s.pc = "compare" /\ s.product = p /\ s.order = {}
        /\ s.value = (p \in available)
    BY DEF Idle
  <2>2. Begin(h, "edit", s)
    BY <1>3 DEF UpdateProduct
  <2>3. StartsAs(s)
    BY <2>1 DEF StartsAs
  <2> HIDE DEF s
  <2> QED  BY <1>1, <1>3, <2>1, <2>2, <2>3 DEF UpdateProduct
<1>4. CASE DeliverEvent(h, b)
  <2> DEFINE s == [Idle EXCEPT !.op = "webhook", !.pc = "cart", !.buyer = b]
  <2>1. s.op = "webhook" /\ s.pc = "cart" /\ s.picked = {} /\ s.todo = {} /\ s.order = {}
    BY DEF Idle
  <2>2. Begin(h, "webhook", s)
    BY <1>4 DEF DeliverEvent
  <2>3. StartsAs(s)
    BY <2>1 DEF StartsAs
  <2> HIDE DEF s
  <2> QED  BY <1>1, <1>4, <2>1, <2>2, <2>3 DEF DeliverEvent
<1>5. ASSUME NEW o \in ordered, RejectOrder(h, o) \/ ReturnOrder(h, o)
      PROVE  /\ work[h].pc = "idle" /\ \A g \in Handlers \ {h} : work'[g] = work[g]
             /\ work'[h].op \in Acts /\ StartsAs(work'[h])
             /\ \A g \in Handlers : {work'[h].op, work[g].op} \notin Apart
             /\ UNCHANGED <<available, deleted, cart, placed, ordered, closed>>
  <2>1. PICK op \in Enders, stage \in {"close", "compare"} :
            /\ Begin(h, op, EndOrder(op, stage, o))
            /\ op = "reject" => stage = "close"
            /\ op = "return" => stage = IF o[3] \in deleted THEN "close" ELSE "compare"
    BY <1>5 DEF RejectOrder, ReturnOrder, Enders
  <2> DEFINE s == EndOrder(op, stage, o)
  <2>0. Begin(h, op, s)
    BY <2>1
  <2>2. /\ s.op = op /\ s.pc = stage /\ s.product = o[3] /\ s.order = {o} /\ s.value
        /\ s.todo = {o[3]} \ deleted
    BY DEF EndOrder, Idle
  <2>3. MayEnd(o)
    BY <1>5 DEF RejectOrder, ReturnOrder
  <2>4. StartsAs(s)
    BY <2>1, <2>2, <2>3 DEF StartsAs, Enders
  <2> HIDE DEF s
  <2> QED  BY <1>1, <1>5, <2>0, <2>2, <2>4 DEF RejectOrder, ReturnOrder
<1> QED
  BY <1>2, <1>3, <1>4, <1>5

\* A handler that goes on, and what of its record the stage changes
Holds(h) ==
    /\ work'[h].product = work[h].product /\ work'[h].picked = work[h].picked
    /\ work'[h].todo = work[h].todo /\ work'[h].value = work[h].value
    /\ work'[h].dirty = work[h].dirty

GoesTo(h) ==
    /\ work'[h].op = work[h].op /\ work'[h].order = work[h].order
    /\ work'[h].buyer = work[h].buyer
    /\ \/ /\ ReadCart(h) /\ work'[h].pc = "check" /\ CartOf(work[h].buyer) # {}
          /\ work'[h].picked = CartOf(work[h].buyer) /\ work'[h].todo = CartOf(work[h].buyer)
       \/ CheckProducts(h) /\ work'[h].pc = "take" /\ Holds(h)
       \/ \E p \in work[h].todo :
             /\ TakeProduct(h, p) /\ work'[h].pc = "compare"
             /\ work'[h].product = p /\ work'[h].todo = work[h].todo \ {p}
             /\ work'[h].picked = work[h].picked /\ ~work'[h].value
       \/ /\ CompareProduct(h) /\ work'[h].pc = "write"
          /\ work'[h].product = work[h].product /\ work'[h].picked = work[h].picked
          /\ work'[h].todo = work[h].todo /\ work'[h].value = work[h].value
          /\ work'[h].dirty = ((work[h].product \in available) # work[h].value)
       \/ /\ WriteProduct(h) /\ Holds(h)
          /\ \/ work[h].op = "webhook" /\ work'[h].pc = "uncart"
             \/ work[h].op = "return" /\ work'[h].pc = "close"
       \/ /\ UncartProduct(h) /\ Holds(h)
          /\ work'[h].pc = IF work[h].todo = {} THEN "save" ELSE "take"
       \/ SaveOrders(h) /\ work'[h].pc = "empty" /\ Holds(h)
       \/ /\ CloseOrder(h) /\ work'[h].pc = "compare" /\ Holds(h)
          /\ work[h].op = "reject" /\ work[h].todo # {}

\* What ends a handler
Ends(h) ==
    \/ InsertEntry(h) \/ EmptyCart(h) \/ HandlerFails(h)
    \/ ReadCart(h)
    \/ CheckProducts(h) /\ work[h].picked \cap deleted # {}
    \/ \E p \in work[h].todo : TakeProduct(h, p) /\ p \in deleted
    \/ WriteProduct(h) /\ work[h].op \notin {"webhook", "return"}
    \/ CloseOrder(h) /\ (work[h].op # "reject" \/ work[h].todo = {})

LEMMA RunForm ==
    ASSUME TypeOK, NEW h \in Handlers, Step(h) \/ HandlerFails(h)
    PROVE  /\ \A g \in Handlers \ {h} : work'[g] = work[g]
           /\ (work'[h] = Idle /\ Ends(h)) \/ GoesTo(h)
<1> DEFINE Goal == /\ \A g \in Handlers \ {h} : work'[g] = work[g]
                   /\ (work'[h] = Idle /\ Ends(h)) \/ GoesTo(h)
<1>0. work[h] \in Handler /\ work \in [Handlers -> Handler]
  BY DEF TypeOK
<1>1. ASSUME Finish(h)
      PROVE  work'[h] = Idle /\ \A g \in Handlers \ {h} : work'[g] = work[g]
  BY <1>0, <1>1 DEF Finish
<1>2. ASSUME NEW stage, Goto(h, stage)
      PROVE  /\ \A g \in Handlers \ {h} : work'[g] = work[g]
             /\ work'[h].pc = stage /\ Holds(h) /\ work'[h].op = work[h].op
             /\ work'[h].order = work[h].order /\ work'[h].buyer = work[h].buyer
  BY <1>0, <1>2 DEF Goto, Handler, Holds
<1>3. CASE InsertEntry(h) \/ EmptyCart(h) \/ HandlerFails(h)
  BY <1>1, <1>3 DEF InsertEntry, EmptyCart, HandlerFails, Ends
<1>4. CASE ReadCart(h)
  <2> DEFINE items == CartOf(work[h].buyer)
             s == [work[h] EXCEPT !.pc = "check", !.picked = items, !.todo = items]
  <2>1. /\ s.pc = "check" /\ s.picked = items /\ s.todo = items /\ s.op = work[h].op
        /\ s.order = work[h].order /\ s.buyer = work[h].buyer
    BY <1>0 DEF Handler
  <2>2. Finish(h) \/ (items # {} /\ work' = [work EXCEPT ![h] = s])
    BY <1>0, <1>4 DEF ReadCart
  <2> HIDE DEF s
  <2>3. CASE Finish(h)
    BY <1>1, <1>4, <2>3 DEF Ends
  <2>4. CASE items # {} /\ work' = [work EXCEPT ![h] = s]
    BY <1>0, <1>4, <2>1, <2>4 DEF GoesTo
  <2> QED  BY <2>2, <2>3, <2>4
<1>5. CASE CheckProducts(h)
  BY <1>1, <1>2, <1>5 DEF CheckProducts, Ends, GoesTo
<1>6. ASSUME NEW p \in Products, TakeProduct(h, p)  PROVE Goal
  <2> DEFINE s == [work[h] EXCEPT !.pc = "compare", !.product = p,
                                  !.todo = @ \ {p}, !.value = FALSE]
  <2>1. /\ s.pc = "compare" /\ s.picked = work[h].picked /\ s.todo = work[h].todo \ {p}
        /\ s.op = work[h].op /\ s.product = p /\ s.value = FALSE
        /\ s.order = work[h].order /\ s.buyer = work[h].buyer
    BY <1>0 DEF Handler
  <2>2. p \in work[h].todo /\ ((Finish(h) /\ p \in deleted) \/ work' = [work EXCEPT ![h] = s])
    BY <1>0, <1>6 DEF TakeProduct
  <2> HIDE DEF s
  <2>3. CASE Finish(h) /\ p \in deleted
    BY <1>1, <1>6, <2>2, <2>3 DEF Ends
  <2>4. CASE work' = [work EXCEPT ![h] = s]
    <3>1. work'[h] = s /\ \A g \in Handlers \ {h} : work'[g] = work[g]
      BY <1>0, <2>4
    <3> QED  BY <1>6, <2>1, <2>2, <3>1 DEF GoesTo
  <2> QED  BY <2>2, <2>3, <2>4
<1>7. CASE CompareProduct(h)
  <2> DEFINE v == (work[h].product \in available) # work[h].value
             s == [work[h] EXCEPT !.pc = "write", !.dirty = v]
  <2>1. /\ s.pc = "write" /\ s.picked = work[h].picked /\ s.todo = work[h].todo
        /\ s.op = work[h].op /\ s.product = work[h].product /\ s.value = work[h].value
        /\ s.order = work[h].order /\ s.buyer = work[h].buyer /\ s.dirty = v
    BY <1>0 DEF Handler
  <2>2. work' = [work EXCEPT ![h] = s]
    BY <1>0, <1>7 DEF CompareProduct
  <2> HIDE DEF s
  <2>3. work'[h] = s /\ \A g \in Handlers \ {h} : work'[g] = work[g]
    BY <1>0, <2>2
  <2> QED  BY <1>7, <2>1, <2>3 DEF GoesTo
<1>8. CASE WriteProduct(h)
  BY <1>1, <1>2, <1>8 DEF WriteProduct, Advance, AfterProduct, Ends, GoesTo
<1>9. CASE UncartProduct(h) \/ SaveOrders(h)
  BY <1>2, <1>9 DEF UncartProduct, SaveOrders, GoesTo
<1>10. CASE CloseOrder(h)
  BY <1>1, <1>2, <1>10 DEF CloseOrder, Advance, Ends, GoesTo
<1> QED
  BY <1>3, <1>4, <1>5, <1>6, <1>7, <1>8, <1>9, <1>10 DEF Step

\* The steps that are no handler's
Others ==
    \/ \E b \in Buyers : CreateCheckoutSession(b) \/ PaySession(b)
    \/ \E b \in Buyers, p \in Products : RemoveFromCart(b, p)
    \/ \E p \in Products : DeleteProduct(p)
    \/ UNCHANGED vars

LEMMA OthersForm ==
    Others => UNCHANGED <<available, placed, ordered, closed, work>> /\ cart' \subseteq cart
BY DEF Others, CreateCheckoutSession, PaySession, RemoveFromCart, DeleteProduct,
   WithoutProduct, vars, catalogue, sales

LEMMA NextForm ==
    ASSUME [Next]_vars
    PROVE  \/ Others
           \/ \E h \in Handlers :
                 \/ \E b \in Buyers, p \in Products :
                       \/ AddToCart(h, b, p) \/ UpdateProduct(h, p) \/ DeliverEvent(h, b)
                       \/ \E o \in ordered : RejectOrder(h, o) \/ ReturnOrder(h, o)
                 \/ Step(h) \/ HandlerFails(h)
<1>1. Buyers # {} /\ Products # {}
  BY ConstantsAssumption
<1> QED
  BY <1>1 DEF Next, Others

\* One step keeps what the records say
LEMMA JobsStep ==
    ASSUME Calm, TypeOK, JobsInv, [Next]_vars
    PROVE  JobsInv'
<1>0. /\ \A h \in Handlers : JobFits(work[h]) /\ work[h] \in Handler
      /\ \A h, g \in Handlers : h # g => work[h].order \cap work[g].order = {}
  BY DEF TypeOK, JobsInv, JobsFit, OrdersApart
<1>1. CASE Others
  BY <1>0, <1>1, OthersForm DEF JobsInv, JobsFit, OrdersApart, JobFits
<1>2. ASSUME NEW h \in Handlers, NEW b \in Buyers, NEW p \in Products,
             \/ AddToCart(h, b, p) \/ UpdateProduct(h, p) \/ DeliverEvent(h, b)
             \/ \E o \in ordered : RejectOrder(h, o) \/ ReturnOrder(h, o)
      PROVE  JobsInv'
  <2>1. /\ \A g \in Handlers \ {h} : work'[g] = work[g]
        /\ StartsAs(work'[h]) /\ UNCHANGED <<ordered, closed>>
    BY <1>2, StartForm
  <2>2. JobFits(work[h])'
    BY <1>0, <2>1 DEF StartsAs, JobFits, Filling, Enders, MayEnd
  <2>3. \A g \in Handlers \ {h} : JobFits(work[g])'
    BY <1>0, <2>1 DEF JobFits
  <2>4. \A g \in Handlers \ {h} : work'[h].order \cap work[g].order = {}
    BY <1>0, <2>1 DEF StartsAs, MayEnd
  <2> QED  BY <1>0, <2>1, <2>2, <2>3, <2>4 DEF JobsInv, JobsFit, OrdersApart
<1>3. ASSUME NEW h \in Handlers, Step(h) \/ HandlerFails(h)
      PROVE  JobsInv'
  <2>1. /\ \A g \in Handlers \ {h} : work'[g] = work[g]
        /\ (work'[h] = Idle /\ Ends(h)) \/ GoesTo(h)
    BY <1>3, RunForm
  <2>2. ordered \subseteq ordered' /\ (closed' = closed \/ closed' = closed \cup work[h].order)
    BY <1>3 DEF Step, HandlerFails, InsertEntry, ReadCart, CheckProducts, TakeProduct,
       CompareProduct, WriteProduct, UncartProduct, SaveOrders, EmptyCart, CloseOrder, sales
  <2>3. \A g \in Handlers \ {h} : JobFits(work[g])'
    BY <1>0, <2>1, <2>2 DEF JobFits
  <2>4. JobFits(work[h])'
    <3>1. CASE work'[h] = Idle
      BY <3>1, IdleFits DEF JobFits, Enders
    <3>2. CASE GoesTo(h) /\ work[h].op = "webhook"
      <4>1. /\ work'[h].op = "webhook" /\ work'[h].order = {}
            /\ work'[h].pc \in Filling \cup {"cart", "empty"}
        BY <1>0, <3>2 DEF GoesTo, JobFits, Filling, Enders
      <4>2. /\ work'[h].todo \subseteq work'[h].picked
            /\ work'[h].pc \in {"compare", "write", "uncart"} => work'[h].product \in work'[h].picked
        BY <1>0, <3>2 DEF GoesTo, Holds, JobFits, CompareProduct, WriteProduct
      <4>3. /\ work'[h].pc \in {"compare", "write"} => ~work'[h].value
            /\ work'[h].pc = "save" => work'[h].todo = {}
        BY <1>0, <3>2 DEF GoesTo, Holds, JobFits, CompareProduct, WriteProduct
      <4> QED  BY <4>1, <4>2, <4>3 DEF JobFits, Enders
    <3>3. CASE GoesTo(h) /\ work[h].op \in Enders
      <4>1. /\ work'[h].op = work[h].op /\ work'[h].order = work[h].order
            /\ work[h].pc \in {"close", "compare", "write"} /\ work[h].value
            /\ \E o \in ordered : /\ work[h].order = {o} /\ work[h].product = o[3]
                                  /\ work[h].todo \subseteq {o[3]}
        BY <1>0, <3>3 DEF GoesTo, JobFits
      <4>2. /\ work'[h].product = work[h].product /\ work'[h].todo = work[h].todo
            /\ work'[h].value = work[h].value /\ work'[h].pc \in {"close", "compare", "write"}
            /\ work'[h].op = "reject" => work'[h].pc # "close"
        BY <3>3, <4>1 DEF GoesTo, Holds, ReadCart, CheckProducts, TakeProduct, UncartProduct,
           SaveOrders, Enders
      <4> QED  BY <2>2, <3>3, <4>1, <4>2 DEF JobFits, Enders
    <3>4. CASE GoesTo(h) /\ work[h].op \notin {"webhook"} \cup Enders
      <4>1. work'[h].op = work[h].op /\ work'[h].order = {} /\ work'[h].pc = "write" /\ work[h].op = "edit"
        BY <1>0, <3>4 DEF GoesTo, JobFits, ReadCart, CheckProducts, TakeProduct, CompareProduct,
           UncartProduct, SaveOrders, CloseOrder, Enders
      <4> QED  BY <4>1 DEF JobFits, Enders
    <3> QED  BY <2>1, <3>1, <3>2, <3>3, <3>4
  <2>5. \A g \in Handlers \ {h} : work'[h].order \cap work[g].order = {}
    BY <1>0, <2>1, IdleFits DEF GoesTo
  <2> QED  BY <1>0, <2>1, <2>3, <2>4, <2>5 DEF JobsInv, JobsFit, OrdersApart
<1> QED
  BY <1>1, <1>2, <1>3, NextForm

(***************************************************************************)
(* A product is rented once                                                *)
(*                                                                         *)
(* Whoever may make a product available again, or counts on its being      *)
(* withheld, has a claim on it: an open order, or a handler that frees the *)
(* product of an order that it ends.  A product has one claim at a time,   *)
(* and while it has one it is offered nowhere and in nobody's cart.        *)
(***************************************************************************)

Freeing(h) == work[h].op \in Enders /\ work[h].pc \in {"compare", "write"}

Claimed(p) ==
    \/ \E o \in Open : o[3] = p
    \/ \E h \in Handlers : Freeing(h) /\ work[h].product = p

OneClaim ==
    /\ RentedOnce
    /\ \A h, g \in Handlers :
          Freeing(h) /\ Freeing(g) /\ work[h].product = work[g].product => h = g
    /\ \A h \in Handlers, o \in Open : Freeing(h) => work[h].product # o[3]

Withdrawn(p) == p \notin available /\ \A b \in Buyers : <<b, p>> \notin cart

\* A handler that will put the product into a cart or make it available
Sought(g, p) ==
    /\ work[g].product = p
    /\ work[g].op = "add" \/ (work[g].op = "edit" /\ work[g].value)

ClaimsHold ==
    \A p \in Products : Claimed(p) => Withdrawn(p) /\ \A g \in Handlers : ~Sought(g, p)

WebhookAlone ==
    \A h, g \in Handlers :
        h # g /\ work[h].op = "webhook" => work[g].op \notin {"webhook", "add", "edit"}

\* A webhook picked products without a claim and withdraws them one by one
WebhooksTake ==
    \A h \in Handlers :
        work[h].op = "webhook" /\ work[h].pc \in Filling =>
            /\ \A p \in work[h].picked : ~Claimed(p)
            /\ \A p \in work[h].picked \ Left(h) : Withdrawn(p)
            /\ work[h].pc = "uncart" \/ (work[h].pc = "write" /\ ~work[h].dirty) =>
                  work[h].product \notin available

HeldInv == OneClaim /\ ClaimsHold /\ WebhookAlone /\ WebhooksTake

\* What the theorem is about: clients that wait for answers and end an order once,
\* returns that do not break off, and webhooks that nothing else reaches for the
\* products meanwhile.  The server sees to none of it
Guarded ==
    /\ Calm /\ EndedOnce
    /\ "return" \notin Fragile
    /\ {{"webhook"}, {"webhook", "add"}, {"webhook", "edit"}} \subseteq Apart

\* Claims depend on the orders and on the handlers that end them
LEMMA ClaimsSame ==
    ASSUME NEW h \in Handlers, \A g \in Handlers \ {h} : work'[g] = work[g],
           \/ work[h].op \notin Enders /\ work'[h].op \notin Enders
           \/ /\ work'[h].op = work[h].op /\ work'[h].order = work[h].order
              /\ work'[h].product = work[h].product /\ Freeing(h)' = Freeing(h),
           UNCHANGED <<ordered, closed>>
    PROVE  /\ Open' = Open /\ \A p : Claimed(p)' = Claimed(p)
           /\ OneClaim => OneClaim'
<1>1. \A g \in Handlers : Freeing(g)' = Freeing(g) /\ (Freeing(g) => work'[g].product = work[g].product)
  BY DEF Freeing
<1>2. \A o, g : g \in Handlers => (work'[g].op = "return" /\ o \in work'[g].order
                                   <=> work[g].op = "return" /\ o \in work[g].order)
  BY DEF Enders
<1>3. Open' = Open
  BY <1>2 DEF Open
<1>4. \A p : Claimed(p)' = Claimed(p)
  BY <1>1, <1>3 DEF Claimed
<1>5. OneClaim => OneClaim'
  BY <1>1, <1>3 DEF OneClaim, RentedOnce
<1> QED
  BY <1>3, <1>4, <1>5

\* Calls begin with no claim, but for a return, which takes over the order's
LEMMA HeldStart ==
    ASSUME Guarded, TypeOK, JobsInv, HeldInv,
           NEW h \in Handlers, NEW b \in Buyers, NEW p \in Products,
           \/ AddToCart(h, b, p) \/ UpdateProduct(h, p) \/ DeliverEvent(h, b)
           \/ \E o \in ordered : RejectOrder(h, o) \/ ReturnOrder(h, o)
    PROVE  HeldInv'
<1>1. /\ \A g \in Handlers \ {h} : work'[g] = work[g]
      /\ StartsAs(work'[h]) /\ UNCHANGED <<available, cart, ordered, closed>>
      /\ \A g \in Handlers : {work'[h].op, work[g].op} \notin Apart
      /\ work[h].pc = "idle"
  BY StartForm
<1>2. work[h].op = "none" /\ work[h].order = {}
  BY <1>1, IdleSlot
<1>3. WebhookAlone'
  <2>1. \A g \in Handlers : work'[h].op = "webhook" => work[g].op \notin {"webhook", "add", "edit"}
    BY <1>1 DEF Guarded
  <2>2. \A g \in Handlers : work[g].op = "webhook" => work'[h].op \notin {"webhook", "add", "edit"}
    BY <1>1 DEF Guarded
  <2> QED  BY <1>1, <2>1, <2>2 DEF HeldInv, WebhookAlone
<1>4. \A q : Withdrawn(q)' = Withdrawn(q)
  BY <1>1 DEF Withdrawn
<1>5. \A q : \A g \in Handlers \ {h} : Sought(g, q)' = Sought(g, q)
  BY <1>1 DEF Sought
<1>6. ~(work'[h].op = "webhook" /\ work'[h].pc \in Filling)
  BY <1>1 DEF StartsAs, Filling
<1>7. ASSUME OneClaim', \A q : Claimed(q)' => Claimed(q),
             \A q \in Products : Sought(h, q)' => ~Claimed(q)
      PROVE  HeldInv'
  <2>1. ClaimsHold'
    BY <1>4, <1>5, <1>7 DEF HeldInv, ClaimsHold
  <2>2. WebhooksTake'
    BY <1>1, <1>4, <1>6, <1>7 DEF HeldInv, WebhooksTake, Left
  <2> QED  BY <1>3, <1>7, <2>1, <2>2 DEF HeldInv
<1>8. CASE work'[h].op \notin Enders
  <2>1. OneClaim' /\ \A q : Claimed(q)' = Claimed(q)
    BY <1>1, <1>2, <1>8, ClaimsSame DEF HeldInv, Enders
  <2>2. ASSUME NEW q \in Products, Sought(h, q)'  PROVE ~Claimed(q)
    <3>1. q \in available
      BY <1>1, <1>8, <2>2 DEF StartsAs, Sought, Enders
    <3> QED  BY <3>1 DEF HeldInv, ClaimsHold, Withdrawn
  <2> QED  BY <1>7, <2>1, <2>2
<1>9. CASE work'[h].op \in Enders
  <2>1. PICK o \in ordered : /\ MayEnd(o) /\ work'[h].order = {o} /\ work'[h].product = o[3]
                             /\ \/ work'[h].op = "reject" /\ work'[h].pc = "close"
                                \/ work'[h].op = "return" /\ work'[h].pc \in {"close", "compare"}
    BY <1>1, <1>9 DEF StartsAs, Enders
  <2>2. o \in Open
    BY <2>1 DEF MayEnd, Open, Guarded
  <2>3. \A q : ~Sought(h, q)'
    BY <1>9 DEF Sought, Enders
  <2>4. Open' = IF work'[h].op = "return" THEN Open \ {o} ELSE Open
    BY <1>1, <1>2, <2>1 DEF Open
  <2>5. \A g \in Handlers \ {h} : Freeing(g)' = Freeing(g) /\ work'[g].product = work[g].product
    BY <1>1 DEF Freeing
  <2>6. ~Freeing(h) /\ (Freeing(h)' => work'[h].op = "return" /\ work'[h].product = o[3])
    BY <1>2, <2>1 DEF Freeing, Enders
  <2>7. \A q : Claimed(q)' => Claimed(q)
    BY <2>2, <2>4, <2>5, <2>6 DEF Claimed
  <2>8. OneClaim'
    BY <2>2, <2>4, <2>5, <2>6 DEF HeldInv, OneClaim, RentedOnce
  <2> QED  BY <1>7, <2>3, <2>7, <2>8
<1> QED
  BY <1>8, <1>9

\* A webhook withdraws what nobody has a claim on, and then claims it
LEMMA HeldWebhook ==
    ASSUME TypeOK, JobsInv, HeldInv, NEW h \in Handlers, Step(h) \/ HandlerFails(h),
           work[h].op = "webhook"
    PROVE  HeldInv'
<1>0. /\ \A g \in Handlers \ {h} : work'[g] = work[g]
      /\ (work'[h] = Idle /\ Ends(h)) \/ GoesTo(h)
      /\ JobFits(work[h]) /\ work[h] \in Handler
  BY RunForm DEF JobsInv, JobsFit, TypeOK
<1>1. /\ work[h].pc \in Filling \cup {"cart", "empty"}
      /\ work[h].todo \subseteq work[h].picked
      /\ work[h].pc \in {"compare", "write", "uncart"} => work[h].product \in work[h].picked
      /\ work[h].pc \in {"compare", "write"} => ~work[h].value
      /\ work[h].pc = "save" => work[h].todo = {}
      /\ work[h].order = {} /\ work[h].picked \subseteq Products /\ work[h].buyer \in Buyers
  BY <1>0 DEF JobFits, Handler, Enders
<1>2. /\ work'[h].op \in {"webhook", "none"} /\ work'[h].order = {}
      /\ \A g \in Handlers \ {h} : work[g].op \notin {"webhook", "add", "edit"}
  BY <1>0, <1>1, IdleFits DEF GoesTo, HeldInv, WebhookAlone
<1>3. WebhookAlone'
  BY <1>0, <1>2 DEF WebhookAlone
<1>4. \A q : \A g \in Handlers : ~Sought(g, q)'
  BY <1>0, <1>2 DEF Sought
<1>5. available' \subseteq available /\ cart' \subseteq cart /\ closed' = closed
  BY <1>1 DEF Step, HandlerFails, InsertEntry, ReadCart, CheckProducts, TakeProduct,
     CompareProduct, WriteProduct, UncartProduct, WithoutProduct, SaveOrders, EmptyCart,
     CloseOrder, catalogue, sales, Filling
<1>6. \A q : Withdrawn(q) => Withdrawn(q)'
  BY <1>5 DEF Withdrawn
<1>7. \A q \in Products : q \in CartOf(work[h].buyer) => ~Claimed(q)
  BY <1>1 DEF HeldInv, ClaimsHold, Withdrawn, CartOf
<1>8. work[h].pc \in Filling =>
            /\ \A q \in work[h].picked : ~Claimed(q)
            /\ \A q \in work[h].picked \ Left(h) : Withdrawn(q)
            /\ work[h].pc = "uncart" \/ (work[h].pc = "write" /\ ~work[h].dirty) =>
                  work[h].product \notin available
  BY DEF HeldInv, WebhooksTake
<1>9. CASE ~SaveOrders(h)
  <2>1. ordered' = ordered
    BY <1>9 DEF Step, HandlerFails, InsertEntry, ReadCart, CheckProducts, TakeProduct,
       CompareProduct, WriteProduct, UncartProduct, EmptyCart, CloseOrder, sales
  <2>2. OneClaim' /\ \A q : Claimed(q)' = Claimed(q)
    BY <1>0, <1>2, <1>5, <2>1, ClaimsSame DEF HeldInv, Enders
  <2>3. ClaimsHold'
    BY <1>4, <1>6, <2>2 DEF HeldInv, ClaimsHold
  <2>4. ASSUME work'[h].op = "webhook", work'[h].pc \in Filling
        PROVE  /\ \A q \in work'[h].picked : ~Claimed(q)
               /\ \A q \in work'[h].picked \ Left(h)' : Withdrawn(q)'
               /\ work'[h].pc = "uncart" \/ (work'[h].pc = "write" /\ ~work'[h].dirty) =>
                     work'[h].product \notin available'
    <3>1. GoesTo(h)
      BY <1>0, <2>4, IdleFits
    <3>2. CASE ReadCart(h)
      <4>1. /\ work'[h].pc = "check" /\ work'[h].picked = CartOf(work[h].buyer)
            /\ work'[h].todo = CartOf(work[h].buyer)
        BY <3>1, <3>2 DEF GoesTo, ReadCart, CheckProducts, TakeProduct, CompareProduct,
           WriteProduct, UncartProduct, SaveOrders, CloseOrder
      <4>2. CartOf(work[h].buyer) \subseteq Products
        BY DEF CartOf
      <4> QED  BY <1>7, <4>1, <4>2 DEF Left
    <3>3. CASE CheckProducts(h)
      <4>1. work[h].pc = "check" /\ work'[h].pc = "take" /\ Holds(h)
        BY <3>1, <3>3 DEF GoesTo, ReadCart, CheckProducts, TakeProduct, CompareProduct,
           WriteProduct, UncartProduct, SaveOrders, CloseOrder
      <4> QED  BY <1>6, <1>8, <4>1 DEF Left, Holds, Filling
    <3>4. ASSUME NEW q \in Products, TakeProduct(h, q)
          PROVE  /\ work'[h].pc = "compare" /\ work'[h].picked = work[h].picked
                 /\ \A p \in work'[h].picked \ Left(h)' : Withdrawn(p)'
      <4>1. /\ work[h].pc = "take" /\ work'[h].pc = "compare" /\ work'[h].picked = work[h].picked
            /\ \E p \in work[h].todo : work'[h].product = p /\ work'[h].todo = work[h].todo \ {p}
        BY <3>1, <3>4 DEF GoesTo, ReadCart, CheckProducts, TakeProduct, CompareProduct,
           WriteProduct, UncartProduct, SaveOrders, CloseOrder
      <4> QED  BY <1>6, <1>8, <4>1 DEF Left, Filling
    <3>5. CASE CompareProduct(h)
      <4>1. /\ work[h].pc = "compare" /\ work'[h].pc = "write" /\ available' = available
            /\ work'[h].product = work[h].product /\ work'[h].picked = work[h].picked
            /\ work'[h].todo = work[h].todo
            /\ work'[h].dirty = ((work[h].product \in available) # work[h].value)
        BY <3>1, <3>5 DEF GoesTo, ReadCart, CheckProducts, TakeProduct, CompareProduct,
           WriteProduct, UncartProduct, SaveOrders, CloseOrder, catalogue
      <4>2. ~work'[h].dirty => work'[h].product \notin available'
        BY <1>1, <4>1
      <4> QED  BY <1>6, <1>8, <4>1, <4>2 DEF Left, Filling
    <3>6. CASE WriteProduct(h)
      <4>1. work[h].pc = "write" /\ work'[h].pc = "uncart" /\ Holds(h)
        BY <3>1, <3>6 DEF GoesTo, ReadCart, CheckProducts, TakeProduct, CompareProduct,
           WriteProduct, UncartProduct, SaveOrders, CloseOrder
      <4>2. work'[h].product \notin available'
        BY <1>1, <1>8, <3>6, <4>1 DEF WriteProduct, Holds, Filling
      <4> QED  BY <1>6, <1>8, <4>1, <4>2 DEF Left, Holds, Filling
    <3>7. CASE UncartProduct(h)
      <4>1. /\ work[h].pc = "uncart" /\ work'[h].pc \in {"take", "save"} /\ Holds(h)
            /\ available' = available /\ cart' = WithoutProduct(work[h].product)
        BY <3>1, <3>7 DEF GoesTo, ReadCart, CheckProducts, TakeProduct, CompareProduct,
           WriteProduct, UncartProduct, SaveOrders, CloseOrder, catalogue
      <4>2. \A q : q = work[h].product => Withdrawn(q)'
        <5>1. work'[h].product = work[h].product /\ work[h].product \notin available'
          BY <1>8, <4>1 DEF Holds, Filling
        <5>2. \A c \in Buyers : <<c, work[h].product>> \notin cart'
          BY <4>1 DEF WithoutProduct
        <5>3. \A q : Withdrawn(q)' <=> q \notin available' /\ \A c \in Buyers : <<c, q>> \notin cart'
          BY DEF Withdrawn
        <5> QED  BY <5>1, <5>2, <5>3
      <4> QED  BY <1>6, <1>8, <4>1, <4>2 DEF Left, Holds, Filling
    <3> QED
      BY <1>1, <1>8, <1>9, <2>4, <3>1, <3>2, <3>3, <3>4, <3>5, <3>6, <3>7
      DEF GoesTo, CloseOrder, TakeProduct, Filling
  <2>5. WebhooksTake'
    BY <1>0, <1>2, <2>2, <2>4 DEF WebhooksTake
  <2> QED  BY <1>3, <2>2, <2>3, <2>5 DEF HeldInv
<1>10. CASE SaveOrders(h)
  <2> DEFINE b == work[h].buyer
             n == placed[b] + 1
             new == {<<b, n, q>> : q \in work[h].picked}
  <2>1. work[h].pc = "save" /\ ordered' = ordered \cup new /\ available' = available /\ cart' = cart
    BY <1>10 DEF SaveOrders, catalogue
  <2>2. work'[h].pc = "empty" \/ work'[h].op = "none"
    BY <1>0, <1>10, IdleFits DEF GoesTo, SaveOrders, ReadCart, CheckProducts, TakeProduct,
       CompareProduct, WriteProduct, UncartProduct, CloseOrder
  <2>3. \A q \in work[h].picked : ~Claimed(q) /\ Withdrawn(q)
    BY <1>1, <1>8, <2>1 DEF Left, Filling
  <2>4. \A o \in new : o[3] \in work[h].picked
    OBVIOUS
  <2>5. \A o, q \in new : o[3] = q[3] => o = q
    OBVIOUS
  <2>6. Open' \subseteq Open \cup new
    BY <1>0, <1>2, <1>5, <2>1 DEF Open
  <2>7. \A g \in Handlers : Freeing(g)' = Freeing(g) /\ (Freeing(g) => work'[g].product = work[g].product)
    BY <1>0, <1>2 DEF Freeing, Enders
  <2> HIDE DEF new
  <2>8. \A q : Claimed(q)' => Claimed(q) \/ q \in work[h].picked
    BY <2>4, <2>6, <2>7 DEF Claimed
  <2>9. OneClaim'
    <3>1. \A o \in new : \A q \in Open : o[3] # q[3]
      BY <2>3, <2>4 DEF Claimed
    <3>2. RentedOnce'
      BY <2>5, <2>6, <3>1 DEF HeldInv, OneClaim, RentedOnce
    <3>3. \A g \in Handlers, o \in new : Freeing(g) => work[g].product # o[3]
      BY <2>3, <2>4 DEF Claimed
    <3> QED  BY <2>6, <2>7, <3>2, <3>3 DEF HeldInv, OneClaim
  <2>10. ClaimsHold'
    BY <1>4, <1>6, <2>3, <2>8 DEF HeldInv, ClaimsHold
  <2>11. WebhooksTake'
    BY <1>0, <1>2, <2>2 DEF WebhooksTake, Filling
  <2> QED  BY <1>3, <2>9, <2>10, <2>11 DEF HeldInv
<1> QED
  BY <1>9, <1>10

\* Entries are inserted and copies saved of products that nobody has a claim on
LEMMA HeldCopy ==
    ASSUME TypeOK, JobsInv, HeldInv, NEW h \in Handlers, Step(h) \/ HandlerFails(h),
           work[h].op \in {"add", "edit"}
    PROVE  HeldInv'
<1>0. /\ \A g \in Handlers \ {h} : work'[g] = work[g]
      /\ (work'[h] = Idle /\ Ends(h)) \/ GoesTo(h)
      /\ JobFits(work[h]) /\ work[h] \in Handler
  BY RunForm DEF JobsInv, JobsFit, TypeOK
<1>1. /\ work[h].op = "add" => work[h].pc = "insert"
      /\ work[h].op = "edit" => work[h].pc \in {"compare", "write"}
      /\ work[h].buyer \in Buyers /\ work[h].product \in Products
      /\ work'[h].op \in {work[h].op, "none"} /\ work[h].op \notin Enders
  BY <1>0, IdleFits DEF JobFits, Handler, GoesTo, Enders
<1>2. /\ UNCHANGED <<ordered, closed>>
      /\ \/ available' = available \/ available' = available \ {work[h].product}
         \/ /\ available' = available \cup {work[h].product}
            /\ work[h].op = "edit" /\ work[h].value
      /\ cart' = cart \/ (cart' = cart \cup {<<work[h].buyer, work[h].product>>} /\ work[h].op = "add")
  BY <1>1 DEF Step, HandlerFails, InsertEntry, ReadCart, CheckProducts, TakeProduct,
     CompareProduct, WriteProduct, UncartProduct, SaveOrders, EmptyCart, CloseOrder, catalogue, sales
<1>3. OneClaim' /\ \A q : Claimed(q)' = Claimed(q)
  BY <1>0, <1>1, <1>2, ClaimsSame DEF HeldInv, Enders
<1>4. \A g \in Handlers : work[g].op # "webhook" /\ work'[g].op # "webhook"
  BY <1>0, <1>1, IdleFits DEF HeldInv, WebhookAlone
<1>5. \A q : \A g \in Handlers : Sought(g, q)' => Sought(g, q)
  <2>1. \A q : Sought(h, q)' => Sought(h, q)
    BY <1>0, <1>1, IdleFits DEF Sought, GoesTo, Holds, ReadCart, CheckProducts, TakeProduct,
       UncartProduct, SaveOrders, CloseOrder
  <2> QED  BY <1>0, <2>1 DEF Sought
<1>6. ASSUME NEW q \in Products, Claimed(q)  PROVE Withdrawn(q)'
  <2>1. Withdrawn(q) /\ ~Sought(h, q)
    BY <1>6 DEF HeldInv, ClaimsHold
  <2>2. /\ work[h].op = "add" => work[h].product # q
        /\ work[h].op = "edit" /\ work[h].value => work[h].product # q
    BY <2>1 DEF Sought
  <2> QED  BY <1>2, <2>1, <2>2 DEF Withdrawn
<1>7. ClaimsHold'
  BY <1>3, <1>5, <1>6 DEF HeldInv, ClaimsHold
<1>8. WebhookAlone' /\ WebhooksTake'
  BY <1>4 DEF WebhookAlone, WebhooksTake
<1> QED
  BY <1>3, <1>7, <1>8 DEF HeldInv

\* An order ends: its claim passes to the handler that frees its product, and
\* is given up when the product is available
LEMMA HeldEnd ==
    ASSUME Guarded, TypeOK, JobsInv, HeldInv, NEW h \in Handlers, Step(h) \/ HandlerFails(h),
           work[h].op \in Enders
    PROVE  HeldInv'
<1>0. /\ \A g \in Handlers \ {h} : work'[g] = work[g]
      /\ (work'[h] = Idle /\ Ends(h)) \/ GoesTo(h)
      /\ JobFits(work[h]) /\ work[h] \in Handler
  BY RunForm DEF JobsInv, JobsFit, TypeOK
<1>1. PICK o \in ordered :
          /\ work[h].order = {o} /\ work[h].product = o[3] /\ work[h].value
          /\ work[h].pc \in {"close", "compare", "write"}
          /\ work[h].op = "reject" /\ work[h].pc = "close" => o \notin closed
  BY <1>0 DEF JobFits, Guarded
<1>2. /\ work'[h].op \in {work[h].op, "none"} /\ work[h].op \notin {"webhook", "add", "edit", "none"}
      /\ \A g \in Handlers \ {h} : o \notin work[g].order
  BY <1>0, <1>1, IdleFits DEF GoesTo, Enders, JobsInv, OrdersApart
<1>3. /\ UNCHANGED <<ordered, cart>>
      /\ closed' = closed \/ (closed' = closed \cup {o} /\ CloseOrder(h))
      /\ available' = available \/ (available' = available \cup {o[3]} /\ WriteProduct(h))
  BY <1>1 DEF Step, HandlerFails, InsertEntry, ReadCart, CheckProducts, TakeProduct,
     CompareProduct, WriteProduct, UncartProduct, SaveOrders, EmptyCart, CloseOrder, catalogue, sales
<1>4. WebhookAlone'
  BY <1>0, <1>2, IdleFits DEF HeldInv, WebhookAlone
<1>5. \A q : \A g \in Handlers : Sought(g, q)' => Sought(g, q)
  BY <1>0, <1>2 DEF Sought
<1>6. ASSUME OneClaim', \A q : Claimed(q)' => Claimed(q),
             \/ available' = available
             \/ available' = available \cup {o[3]} /\ Claimed(o[3]) /\ \A q : Claimed(q)' => q # o[3]
      PROVE  HeldInv'
  <2>1. ClaimsHold'
    BY <1>3, <1>5, <1>6 DEF HeldInv, ClaimsHold, Withdrawn
  <2>2. ASSUME NEW g \in Handlers, work'[g].op = "webhook", work'[g].pc \in Filling
        PROVE  /\ \A p \in work'[g].picked : ~Claimed(p)'
               /\ \A p \in work'[g].picked \ Left(g)' : Withdrawn(p)'
               /\ work'[g].pc = "uncart" \/ (work'[g].pc = "write" /\ ~work'[g].dirty) =>
                     work'[g].product \notin available'
    <3>1. work'[g] = work[g] /\ JobFits(work[g])
      BY <1>0, <1>2, <2>2 DEF JobsInv, JobsFit
    <3>2. /\ \A p \in work[g].picked : ~Claimed(p)
          /\ \A p \in work[g].picked \ Left(g) : Withdrawn(p)
          /\ work[g].pc = "uncart" \/ (work[g].pc = "write" /\ ~work[g].dirty) =>
                work[g].product \notin available
          /\ work[g].pc \in {"uncart", "write"} => work[g].product \in work[g].picked
      BY <2>2, <3>1 DEF HeldInv, WebhooksTake, JobFits
    <3>3. \A p \in work[g].picked : p \notin available => p \notin available'
      BY <1>6, <3>2
    <3> QED  BY <1>3, <1>6, <3>1, <3>2, <3>3 DEF Left, Withdrawn
  <2>3. WebhooksTake'
    BY <2>2 DEF WebhooksTake
  <2> QED  BY <1>4, <1>6, <2>1, <2>3 DEF HeldInv
<1>7. ASSUME Open' \subseteq Open,
             Freeing(h)' => /\ work'[h].product = o[3]
                            /\ Freeing(h) \/ (o \in Open /\ o \notin Open')
      PROVE  OneClaim' /\ \A q : Claimed(q)' => Claimed(q)
  <2>1. \A g \in Handlers \ {h} : Freeing(g)' = Freeing(g) /\ work'[g].product = work[g].product
    BY <1>0 DEF Freeing
  <2>2. \A q : Claimed(q)' => Claimed(q)
    BY <1>1, <1>7, <2>1 DEF Claimed
  <2>3. RentedOnce'
    BY <1>7 DEF HeldInv, OneClaim, RentedOnce
  <2>4. \A g, f \in Handlers :
            Freeing(g)' /\ Freeing(f)' /\ work'[g].product = work'[f].product => g = f
    BY <1>1, <1>7, <2>1 DEF HeldInv, OneClaim
  <2>5. \A g \in Handlers, q \in Open' : Freeing(g)' => work'[g].product # q[3]
    BY <1>1, <1>7, <2>1 DEF HeldInv, OneClaim, RentedOnce
  <2> QED  BY <2>2, <2>3, <2>4, <2>5 DEF OneClaim
\* Unless a return breaks off, no order opens again
<1>8. ASSUME \/ work[h].op # "return" \/ o \in closed'
             \/ work'[h].op = "return" /\ work'[h].order = {o}
      PROVE  Open' \subseteq Open
  <2>1. SUFFICES ASSUME NEW q \in ordered, q \notin closed', q \notin closed,
                        \A g \in Handlers : ~(work'[g].op = "return" /\ q \in work'[g].order)
                 PROVE  \A g \in Handlers : ~(work[g].op = "return" /\ q \in work[g].order)
    BY <1>3 DEF Open
  <2>2. ~(work[h].op = "return" /\ q \in work[h].order)
    BY <1>1, <1>8, <2>1
  <2> QED  BY <1>0, <2>1, <2>2
<1>9. CASE HandlerFails(h)
  <2>1. work'[h] = Idle /\ UNCHANGED <<available, closed>> /\ work[h].op = "reject"
    BY <1>0, <1>9, FinishType DEF HandlerFails, Finish, Guarded, Enders, catalogue, sales, TypeOK
  <2>2. Open' \subseteq Open /\ ~Freeing(h)'
    BY <1>8, <2>1, IdleFits DEF Freeing, Enders
  <2> QED  BY <1>6, <1>7, <2>1, <2>2
<1>10. CASE CompareProduct(h)
  <2>1. /\ work'[h].op = work[h].op /\ work'[h].product = o[3] /\ UNCHANGED <<available, closed>>
        /\ work[h].pc = "compare" /\ work'[h].order = {o}
    BY <1>0, <1>1, <1>10 DEF CompareProduct, catalogue, sales, TypeOK, Handler
  <2>2. Open' \subseteq Open /\ Freeing(h)
    BY <1>8, <2>1 DEF Freeing
  <2> QED  BY <1>6, <1>7, <2>1, <2>2
<1>11. CASE WriteProduct(h)
  <2>1. /\ work[h].pc = "write" /\ closed' = closed
        /\ available' = available \/ available' = available \cup {o[3]}
    BY <1>1, <1>11 DEF WriteProduct, sales
  <2>2. /\ work'[h].pc \in {"close", "idle"}
        /\ work[h].op = "return" => work'[h].op = "return" /\ work'[h].order = {o}
    BY <1>0, <1>1, <1>11, <2>1, IdleFits DEF GoesTo, Ends, InsertEntry, EmptyCart, HandlerFails, Guarded,
       ReadCart, CheckProducts, TakeProduct, CompareProduct, UncartProduct, SaveOrders, CloseOrder, Enders
  <2>3. Open' \subseteq Open /\ Freeing(h) /\ ~Freeing(h)'
    BY <1>8, <2>1, <2>2 DEF Freeing
  <2>4. OneClaim' /\ \A q : Claimed(q)' => Claimed(q)
    BY <1>7, <2>3
  <2>5. Claimed(o[3])
    BY <1>1, <2>3 DEF Claimed
  <2>6. \A q : Claimed(q)' => q # o[3]
    <3>1. \A g \in Handlers : Freeing(g)' => work'[g].product # o[3]
      BY <1>0, <1>1, <2>3 DEF Freeing, HeldInv, OneClaim
    <3>2. \A q \in Open' : q[3] # o[3]
      BY <1>1, <2>3 DEF HeldInv, OneClaim
    <3> QED  BY <3>1, <3>2 DEF Claimed
  <2> QED  BY <1>6, <2>1, <2>4, <2>5, <2>6
<1>12. CASE CloseOrder(h)
  <2>1. /\ work[h].pc = "close" /\ closed' = closed \cup {o} /\ available' = available
    BY <1>1, <1>12 DEF CloseOrder, catalogue
  <2>2. o \notin Open'
    BY <2>1 DEF Open
  <2>3. Open' \subseteq Open
    BY <1>8, <2>1
  <2>4. Freeing(h)' => work'[h].product = o[3] /\ work[h].op = "reject"
    BY <1>0, <1>1, <1>2, <2>1, IdleFits DEF Freeing, Enders, GoesTo, Holds, ReadCart, CheckProducts,
       TakeProduct, CompareProduct, WriteProduct, UncartProduct, SaveOrders
  <2>5. work[h].op = "reject" => o \in Open
    BY <1>1, <1>2, <2>1 DEF Open
  <2> QED  BY <1>6, <1>7, <2>1, <2>2, <2>3, <2>4, <2>5
<1> QED
  BY <1>1, <1>9, <1>10, <1>11, <1>12 DEF Step, InsertEntry, ReadCart, CheckProducts, TakeProduct,
     UncartProduct, SaveOrders, EmptyCart

LEMMA HeldNext ==
    ASSUME Guarded, TypeOK, JobsInv, HeldInv, [Next]_vars
    PROVE  HeldInv'
<1>1. CASE Others
  <2>1. UNCHANGED <<available, ordered, closed, work>> /\ cart' \subseteq cart
    BY <1>1, OthersForm
  <2>2. /\ Open' = Open /\ \A q : Claimed(q)' = Claimed(q)
        /\ \A q : Withdrawn(q) => Withdrawn(q)'
    BY <2>1 DEF Open, Claimed, Freeing, Withdrawn
  <2>3. OneClaim' /\ ClaimsHold' /\ WebhookAlone'
    BY <2>1, <2>2 DEF HeldInv, OneClaim, RentedOnce, Freeing, ClaimsHold, Sought, WebhookAlone
  <2>4. WebhooksTake'
    BY <2>1, <2>2 DEF HeldInv, WebhooksTake, Left
  <2> QED  BY <2>3, <2>4 DEF HeldInv
<1>2. ASSUME NEW h \in Handlers, Step(h) \/ HandlerFails(h)  PROVE HeldInv'
  <2>1. JobFits(work[h])
    BY DEF JobsInv, JobsFit
  <2>2. CASE work[h].op = "none"
    <3>1. work[h].pc = "idle" /\ "none" \notin Op
      BY <2>1, <2>2 DEF JobFits, Op
    <3> QED
      BY <1>2, <2>2, <3>1, ConstantsAssumption DEF Step, HandlerFails, InsertEntry, ReadCart,
         CheckProducts, TakeProduct, CompareProduct, WriteProduct, UncartProduct, SaveOrders,
         EmptyCart, CloseOrder
  <2> QED
    BY <1>2, <2>1, <2>2, HeldWebhook, HeldCopy, HeldEnd DEF JobFits
<1> QED
  BY <1>1, <1>2, HeldStart, NextForm

LEMMA HeldInit == Init => JobsInv /\ HeldInv
<1> SUFFICES ASSUME Init PROVE JobsInv /\ HeldInv
  OBVIOUS
<1>1. /\ ordered = {} /\ closed = {}
      /\ \A h \in Handlers : work[h].op = "none" /\ work[h].pc = "idle" /\ work[h].order = {}
  BY IdleFits DEF Init
<1>2. JobsInv
  BY <1>1 DEF JobsInv, JobsFit, JobFits, OrdersApart, Enders
<1>3. Open = {} /\ \A p : ~Claimed(p)
  BY <1>1 DEF Open, Claimed, Freeing, Enders
<1>4. HeldInv
  BY <1>1, <1>3 DEF HeldInv, OneClaim, RentedOnce, Freeing, Enders, ClaimsHold, WebhookAlone,
     WebhooksTake
<1> QED
  BY <1>2, <1>4

LEMMA HeldAlways == ASSUME Guarded PROVE Spec => []HeldInv
<1>1. Init => TypeOK /\ JobsInv /\ HeldInv
  BY HeldInit, IdleType DEF Init, TypeOK
<1>2. (TypeOK /\ JobsInv /\ HeldInv) /\ [Next]_vars => (TypeOK /\ JobsInv /\ HeldInv)'
  BY TypeStep, JobsStep, HeldNext DEF Guarded
<1> QED
  BY <1>1, <1>2, PTL DEF Spec

\* createOrdersForUser never looks at isAvailable after it has read the cart.
\* No product is rented twice all the same, in however many carts it is and
\* however often webhooks fail and are repeated, if no webhook overlaps another,
\* an addToCart or an update of a product, and nobody rejects or returns an order
\* that has ended before
THEOREM RentedOnceCorrect == ASSUME Guarded PROVE Spec => []RentedOnce
<1>1. HeldInv => RentedOnce
  BY DEF HeldInv, OneClaim
<1> QED
  BY <1>1, HeldAlways, PTL

\* Nor, under the same hypotheses, does a late save of another copy of the product
\* (rejectOrder, returnOrder, updateProduct) offer a rented product again
THEOREM RentedNotAvailableCorrect == ASSUME Guarded PROVE Spec => []RentedNotAvailable
<1>1. HeldInv /\ TypeOK => RentedNotAvailable
  BY DEF HeldInv, ClaimsHold, Claimed, Withdrawn, RentedNotAvailable, Open, TypeOK, Order
<1> QED
  BY <1>1, HeldAlways, TypeCorrect, PTL

(***************************************************************************)
(* A product is withheld for a reason                                      *)
(*                                                                         *)
(* A product that is not available has a witness: an order that no return  *)
(* has freed it from, a webhook that picked it, or a rejectOrder that is   *)
(* about to free it.  A webhook hands its products over to orders that are *)
(* new, so no handler knows them yet.                                      *)
(***************************************************************************)

\* The handler does not return the order, or has its product still to free
Keeps(s, o) ==
    s.op = "return" /\ o \in s.order => s.pc = "compare" \/ (s.pc = "write" /\ s.dirty)

Fills(s, p) == s.op = "webhook" /\ s.pc \in Filling /\ p \in s.picked

Frees(s, p) ==
    s.op = "reject" /\ s.product = p /\ (s.pc = "compare" \/ (s.pc = "write" /\ s.dirty))

KeptOut(o) == \A h \in Handlers : Keeps(work[h], o)

Witness(p) ==
    \/ \E o \in ordered \ closed : o[3] = p /\ KeptOut(o)
    \/ \E h \in Handlers : Fills(work[h], p) \/ Frees(work[h], p)

OrdersNumbered == \A o \in ordered : o[2] <= placed[o[1]]

RejectsFree ==
    \A h \in Handlers :
        work[h].op = "reject" /\ work[h].pc = "close" => work[h].todo = {work[h].product}

AllWitnessed == \A p \in Products \ available : Witness(p)

WithheldInv ==
    /\ OrdersNumbered /\ closed \subseteq ordered /\ RejectsFree
    /\ deleted = {} /\ \A h \in Handlers : work[h].op # "edit"
    /\ AllWitnessed

\* What the theorem is about: calm clients, no edits and deletions, and no
\* webhook or rejectOrder that breaks off; these and all others may overlap
Unbroken ==
    /\ Calm
    /\ Acts \cap {"edit", "delete"} = {}
    /\ Fragile \cap {"webhook", "reject"} = {}

\* Handlers know orders that are saved
LEMMA OrdersKnown ==
    ASSUME JobsInv, NEW h \in Handlers
    PROVE  work[h].order \subseteq ordered
BY DEF JobsInv, JobsFit, JobFits

\* The orders that are saved have the next number of their buyer
LEMMA NumbersRun ==
    ASSUME TypeOK, OrdersNumbered, NEW h \in Handlers, Step(h) \/ HandlerFails(h)
    PROVE  ordered \subseteq ordered' /\ OrdersNumbered'
<1>1. CASE SaveOrders(h)
  <2> DEFINE b == work[h].buyer
             new == {<<b, placed[b] + 1, p>> : p \in work[h].picked}
  <2>1. /\ placed' = [placed EXCEPT ![b] = placed[b] + 1] /\ ordered' = ordered \cup new
        /\ b \in Buyers /\ placed \in [Buyers -> Nat] /\ ordered \subseteq Order
    BY <1>1 DEF SaveOrders, TypeOK, Handler
  <2>2. \A o \in new : o[1] = b /\ o[2] = placed[b] + 1
    OBVIOUS
  <2>3. \A o \in ordered : o[1] \in Buyers /\ o[2] \in Nat /\ o[2] <= placed[o[1]]
    BY <2>1 DEF Order, OrdersNumbered
  <2> HIDE DEF b, new
  <2>4. \A c \in Buyers : placed[c] \in Nat /\ placed'[c] = IF c = b THEN placed[b] + 1 ELSE placed[c]
    BY <2>1
  <2>5. \A o \in ordered' : o[2] <= placed'[o[1]]
    BY <2>1, <2>2, <2>3, <2>4
  <2> QED  BY <2>1, <2>5 DEF OrdersNumbered
<1>2. CASE ~SaveOrders(h)
  <2>1. ordered' = ordered /\ placed' = placed
    BY <1>2 DEF Step, HandlerFails, InsertEntry, ReadCart, CheckProducts, TakeProduct,
       CompareProduct, WriteProduct, UncartProduct, EmptyCart, CloseOrder, sales
  <2> QED  BY <2>1 DEF OrdersNumbered
<1> QED
  BY <1>1, <1>2

\* Only the handler that goes on can take a witness away
LEMMA WitnessStays ==
    ASSUME NEW h \in Handlers, \A g \in Handlers \ {h} : work'[g] = work[g],
           ordered \subseteq ordered', NEW p, Witness(p),
           \A o \in ordered \ closed :
              o[3] = p /\ KeptOut(o) => \/ o \notin closed' /\ Keeps(work'[h], o)
                                        \/ Witness(p)',
           Fills(work[h], p) \/ Frees(work[h], p) => Witness(p)'
    PROVE  Witness(p)'
<1>1. CASE \E o \in ordered \ closed : o[3] = p /\ KeptOut(o)
  <2>1. PICK o \in ordered \ closed : o[3] = p /\ KeptOut(o)
    BY <1>1
  <2>2. CASE o \notin closed' /\ Keeps(work'[h], o)
    <3>1. \A g \in Handlers : Keeps(work'[g], o)
      BY <2>1, <2>2 DEF KeptOut
    <3>2. KeptOut(o)'
      BY <3>1 DEF KeptOut, Keeps
    <3> QED  BY <2>1, <2>2, <3>2 DEF Witness
  <2> QED  BY <2>1, <2>2
<1>2. CASE \E g \in Handlers : Fills(work[g], p) \/ Frees(work[g], p)
  <2>1. PICK g \in Handlers : Fills(work[g], p) \/ Frees(work[g], p)
    BY <1>2
  <2>2. CASE g # h
    <3>1. Fills(work'[g], p) \/ Frees(work'[g], p)
      BY <2>1, <2>2
    <3> QED  BY <3>1 DEF Witness, Fills, Frees
  <2> QED  BY <2>1, <2>2
<1> QED
  BY <1>1, <1>2 DEF Witness

\* A handler that begins takes no witness away
LEMMA WithheldStart ==
    ASSUME Unbroken, TypeOK, JobsInv, WithheldInv,
           NEW h \in Handlers, NEW b \in Buyers, NEW p \in Products,
           \/ AddToCart(h, b, p) \/ UpdateProduct(h, p) \/ DeliverEvent(h, b)
           \/ \E o \in ordered : RejectOrder(h, o) \/ ReturnOrder(h, o)
    PROVE  WithheldInv'
<1>1. /\ \A g \in Handlers \ {h} : work'[g] = work[g]
      /\ work'[h].op \in Acts /\ StartsAs(work'[h])
      /\ UNCHANGED <<available, deleted, cart, placed, ordered, closed>>
      /\ work[h].pc = "idle"
  BY StartForm
<1>2. work[h].op = "none"
  BY <1>1, IdleSlot
<1>3. work'[h].op # "edit"
  BY <1>1 DEF Unbroken
<1>4. work'[h].op = "reject" /\ work'[h].pc = "close" => work'[h].todo = {work'[h].product}
  BY <1>1 DEF StartsAs, WithheldInv
<1>5. work'[h].op = "return" => work'[h].pc = "compare"
  BY <1>1 DEF StartsAs, WithheldInv
<1>6. ASSUME NEW q \in Products \ available  PROVE Witness(q)'
  <2>1. Witness(q)
    BY DEF WithheldInv, AllWitnessed
  <2>2. \A o : Keeps(work'[h], o)
    BY <1>5 DEF Keeps
  <2>3. ~Fills(work[h], q) /\ ~Frees(work[h], q)
    BY <1>2 DEF Fills, Frees
  <2> QED  BY <1>1, <2>1, <2>2, <2>3, WitnessStays
<1> QED
  BY <1>1, <1>3, <1>4, <1>6 DEF WithheldInv, OrdersNumbered, RejectsFree, AllWitnessed

\* A webhook goes on without a break, and leaves its products to new orders
LEMMA WithheldWebhook ==
    ASSUME Unbroken, TypeOK, JobsInv, WithheldInv, NEW h \in Handlers, Step(h) \/ HandlerFails(h),
           work[h].op = "webhook"
    PROVE  AllWitnessed'
<1>0. /\ \A g \in Handlers \ {h} : work'[g] = work[g]
      /\ (work'[h] = Idle /\ Ends(h)) \/ GoesTo(h)
      /\ JobFits(work[h]) /\ work[h] \in Handler
  BY RunForm DEF JobsInv, JobsFit, TypeOK
<1>1. /\ work[h].pc \in Filling \cup {"cart", "empty"}
      /\ work[h].pc \in {"compare", "write", "uncart"} => work[h].product \in work[h].picked
      /\ work[h].pc \in {"compare", "write"} => ~work[h].value
      /\ work[h].order = {} /\ ~HandlerFails(h) /\ deleted = {}
  BY <1>0 DEF JobFits, Enders, HandlerFails, Unbroken, WithheldInv
<1>2. closed' = closed /\ closed \subseteq ordered
  BY <1>1 DEF Step, InsertEntry, ReadCart, CheckProducts, TakeProduct, CompareProduct,
     WriteProduct, UncartProduct, SaveOrders, EmptyCart, CloseOrder, sales, Filling, WithheldInv
<1>3. \A o : Keeps(work'[h], o)
  BY <1>0, <1>1, IdleFits DEF Keeps, GoesTo
<1>4. \A q \in Products \ available : Witness(q)
  BY DEF WithheldInv, AllWitnessed
<1>5. \A q : ~Frees(work[h], q)
  BY DEF Frees
<1>6. CASE SaveOrders(h)
  <2> DEFINE b == work[h].buyer
             n == placed[b] + 1
             new == {<<b, n, q>> : q \in work[h].picked}
  <2>1. ordered' = ordered \cup new /\ available' = available
    BY <1>6 DEF SaveOrders, catalogue
  <2>2. new \cap ordered = {}
    <3>1. placed[b] \in Nat
      BY <1>0 DEF TypeOK, Handler
    <3>2. \A o \in new : o[2] = n /\ o[1] = b
      OBVIOUS
    <3>3. \A o \in ordered : o[2] <= placed[o[1]]
      BY DEF WithheldInv, OrdersNumbered
    <3> HIDE DEF b, new
    <3> QED  BY <3>1, <3>2, <3>3
  <2>3. \A g \in Handlers : work'[g].order \subseteq ordered
    BY <1>0, <1>1, OrdersKnown, IdleFits DEF GoesTo
  <2>4. ASSUME NEW q \in work[h].picked  PROVE Witness(q)'
    <3>0. <<b, n, q>> \in new /\ <<b, n, q>>[3] = q
      OBVIOUS
    <3>1. PICK o : o \in new /\ o[3] = q
      BY <3>0
    <3> HIDE DEF new
    <3>2. o \in ordered' \ closed' /\ \A g \in Handlers : o \notin work'[g].order
      BY <1>2, <2>1, <2>2, <2>3, <3>1
    <3>3. KeptOut(o)'
      BY <3>2 DEF KeptOut, Keeps
    <3> QED  BY <3>1, <3>2, <3>3 DEF Witness
  <2>5. ASSUME NEW q \in Products \ available, q \notin work[h].picked  PROVE Witness(q)'
    <3>1. ~Fills(work[h], q)
      BY <2>5 DEF Fills
    <3> HIDE DEF new
    <3> QED  BY <1>0, <1>2, <1>3, <1>4, <1>5, <2>1, <3>1, WitnessStays
  <2> QED  BY <2>1, <2>4, <2>5 DEF AllWitnessed
<1>7. CASE ~SaveOrders(h)
  <2>1. ordered' = ordered
    BY <1>1, <1>7 DEF Step, InsertEntry, ReadCart, CheckProducts, TakeProduct, CompareProduct,
       WriteProduct, UncartProduct, EmptyCart, CloseOrder, sales
  <2>2. work[h].pc \in Filling => /\ work'[h].op = "webhook" /\ work'[h].pc \in Filling
                                  /\ work'[h].picked = work[h].picked
    BY <1>0, <1>1, <1>7 DEF Filling, Ends, GoesTo, Holds, InsertEntry, EmptyCart, ReadCart,
       CheckProducts, TakeProduct, CompareProduct, WriteProduct, UncartProduct, CloseOrder
  <2>3. \A q : Fills(work[h], q) => Fills(work'[h], q)
    BY <2>2 DEF Fills
  <2>4. \A q : Fills(work'[h], q) => Witness(q)'
    BY DEF Witness, Fills
  <2>5. \A q \in Products \ available' : q \notin available \/ Fills(work[h], q)
    BY <1>1, <1>7 DEF Step, InsertEntry, ReadCart, CheckProducts, TakeProduct, CompareProduct,
       WriteProduct, UncartProduct, EmptyCart, CloseOrder, catalogue, Fills, Filling
  <2>6. ASSUME NEW q \in Products \ available  PROVE Witness(q)'
    BY <1>0, <1>2, <1>3, <1>4, <1>5, <2>1, <2>3, <2>4, WitnessStays
  <2> QED  BY <2>3, <2>4, <2>5, <2>6 DEF AllWitnessed
<1> QED
  BY <1>6, <1>7

\* A handler that ends an order frees the product it stops withholding
LEMMA WithheldEnd ==
    ASSUME Unbroken, TypeOK, JobsInv, WithheldInv, NEW h \in Handlers, Step(h) \/ HandlerFails(h),
           work[h].op \in Enders
    PROVE  AllWitnessed'
<1>0. /\ \A g \in Handlers \ {h} : work'[g] = work[g]
      /\ (work'[h] = Idle /\ Ends(h)) \/ GoesTo(h)
      /\ JobFits(work[h]) /\ work[h] \in Handler
  BY RunForm DEF JobsInv, JobsFit, TypeOK
<1>1. PICK o \in ordered :
          /\ work[h].order = {o} /\ work[h].product = o[3] /\ work[h].value
          /\ work[h].pc \in {"close", "compare", "write"}
  BY <1>0 DEF JobFits
<1>2. /\ ordered' = ordered
      /\ closed' = closed \/ (closed' = closed \cup {o} /\ CloseOrder(h))
      /\ \/ available' = available
         \/ available' = available \cup {o[3]} /\ WriteProduct(h) /\ work[h].dirty
  BY <1>1 DEF Step, HandlerFails, InsertEntry, ReadCart, CheckProducts, TakeProduct,
     CompareProduct, WriteProduct, UncartProduct, SaveOrders, EmptyCart, CloseOrder, catalogue, sales
<1>3. \A q : Frees(work'[h], q) => Witness(q)'
  BY DEF Witness, Frees
<1> SUFFICES ASSUME NEW q \in Products \ available'  PROVE Witness(q)'
  BY DEF AllWitnessed
<1>4. q \notin available /\ Witness(q) /\ ~Fills(work[h], q)
  BY <1>2 DEF WithheldInv, AllWitnessed, Fills, Enders
<1>5. ASSUME closed' = closed,
             Frees(work[h], q) => Witness(q)',
             o[3] = q /\ Keeps(work[h], o) => Keeps(work'[h], o),
             \A r : r # o => Keeps(work'[h], r)
      PROVE  Witness(q)'
  <2>1. \A r \in ordered \ closed : r[3] = q /\ KeptOut(r) => r \notin closed' /\ Keeps(work'[h], r)
    BY <1>5 DEF KeptOut
  <2> QED  BY <1>0, <1>2, <1>4, <1>5, <2>1, WitnessStays
<1>6. \A r : r # o => Keeps(work'[h], r)
  BY <1>0, <1>1, IdleFits DEF Keeps, GoesTo
<1>7. CASE HandlerFails(h)
  <2>1. work[h].op # "reject" /\ closed' = closed
    BY <1>7 DEF HandlerFails, Unbroken, sales
  <2>2. work'[h] = Idle
    BY <1>7 DEF HandlerFails, Finish, TypeOK
  <2> QED  BY <1>5, <1>6, <2>1, <2>2, IdleFits DEF Frees, Keeps
<1>8. CASE CompareProduct(h)
  <2>1. /\ work[h].pc = "compare" /\ work'[h].pc = "write" /\ closed' = closed
        /\ work'[h].op = work[h].op /\ work'[h].product = o[3]
        /\ work'[h].dirty = (o[3] \notin available)
    BY <1>0, <1>1, <1>8 DEF CompareProduct, sales, TypeOK, Handler
  <2>2. Frees(work[h], q) => Frees(work'[h], q)
    BY <1>1, <1>4, <2>1 DEF Frees
  <2>3. o[3] = q => Keeps(work'[h], o)
    BY <1>4, <2>1 DEF Keeps
  <2> QED  BY <1>3, <1>5, <1>6, <2>1, <2>2, <2>3
<1>9. CASE WriteProduct(h)
  <2>1. /\ work[h].pc = "write" /\ closed' = closed
        /\ work[h].dirty => q # o[3]
    BY <1>1, <1>9 DEF WriteProduct, sales
  <2>2. ~Frees(work[h], q) /\ (o[3] = q /\ Keeps(work[h], o) => work[h].op # "return")
    BY <1>1, <2>1 DEF Frees, Keeps
  <2>3. work[h].op # "return" => work'[h].op # "return"
    BY <1>0, IdleFits DEF GoesTo
  <2> QED  BY <1>5, <1>6, <2>1, <2>2, <2>3 DEF Keeps
<1>10. CASE CloseOrder(h)
  <2>1. work[h].pc = "close"
    BY <1>10 DEF CloseOrder
  <2>2. ~Frees(work[h], q)
    BY <2>1 DEF Frees
  <2>3. CASE work[h].op = "return"
    <3>1. ~KeptOut(o)
      BY <1>1, <2>1, <2>3 DEF KeptOut, Keeps
    <3> QED  BY <1>0, <1>2, <1>4, <1>6, <2>2, <3>1, WitnessStays
  <2>4. CASE work[h].op = "reject"
    <3>1. work[h].todo # {}
      BY <2>1, <2>4 DEF WithheldInv, RejectsFree
    <3>2. work'[h].op = "reject" /\ work'[h].pc = "compare" /\ work'[h].product = o[3]
      BY <1>0, <1>1, <1>10, <2>1, <2>4, <3>1, IdleFits DEF GoesTo, Ends, Holds, InsertEntry, EmptyCart,
         HandlerFails, Unbroken, ReadCart, CheckProducts, TakeProduct, CompareProduct, WriteProduct,
         UncartProduct, SaveOrders
    <3>3. o[3] = q => Frees(work'[h], q)
      BY <3>2 DEF Frees
    <3> QED  BY <1>0, <1>2, <1>3, <1>4, <1>6, <2>2, <3>3, WitnessStays
  <2> QED  BY <2>3, <2>4 DEF Enders
<1> QED
  BY <1>1, <1>7, <1>8, <1>9, <1>10 DEF Step, InsertEntry, ReadCart, CheckProducts, TakeProduct,
     UncartProduct, SaveOrders, EmptyCart

LEMMA WithheldNext ==
    ASSUME Unbroken, TypeOK, JobsInv, WithheldInv, [Next]_vars
    PROVE  WithheldInv'
<1>1. CASE Others
  <2>1. UNCHANGED <<available, placed, ordered, closed, work>>
    BY <1>1, OthersForm
  <2>2. deleted' = deleted
    BY <1>1 DEF Others, CreateCheckoutSession, PaySession, RemoveFromCart, DeleteProduct,
       Unbroken, vars, catalogue, sales
  <2>3. \A q : Witness(q) => Witness(q)'
    BY <2>1 DEF Witness, KeptOut, Keeps, Fills, Frees
  <2> QED
    BY <2>1, <2>2, <2>3 DEF WithheldInv, OrdersNumbered, RejectsFree, AllWitnessed
<1>2. ASSUME NEW h \in Handlers, Step(h) \/ HandlerFails(h)  PROVE WithheldInv'
  <2>0. /\ \A g \in Handlers \ {h} : work'[g] = work[g]
        /\ (work'[h] = Idle /\ Ends(h)) \/ GoesTo(h)
        /\ JobFits(work[h]) /\ work[h] \in Handler
    BY <1>2, RunForm DEF JobsInv, JobsFit, TypeOK
  <2>1. deleted' = deleted /\ (closed' = closed \/ closed' = closed \cup work[h].order)
    BY <1>2 DEF Step, HandlerFails, InsertEntry, ReadCart, CheckProducts, TakeProduct,
       CompareProduct, WriteProduct, UncartProduct, SaveOrders, EmptyCart, CloseOrder, catalogue, sales
  <2>2. ordered \subseteq ordered' /\ OrdersNumbered'
    BY <1>2, NumbersRun DEF WithheldInv
  <2>3. closed' \subseteq ordered'
    BY <2>1, <2>2, OrdersKnown DEF WithheldInv
  <2>4. work'[h].op \in {work[h].op, "none"} /\ ~(work'[h].op = "reject" /\ work'[h].pc = "close")
    BY <2>0, IdleFits DEF GoesTo, JobFits, ReadCart, CheckProducts, TakeProduct, CompareProduct,
       WriteProduct, UncartProduct, SaveOrders, CloseOrder, Enders
  <2>5. RejectsFree' /\ \A g \in Handlers : work'[g].op # "edit"
    BY <2>0, <2>4 DEF WithheldInv, RejectsFree
  <2>6. AllWitnessed'
    <3>1. CASE work[h].op = "add"
      <4>1. /\ available' = available /\ closed' = closed /\ work'[h].op \in {"add", "none"}
        BY <1>2, <2>0, <2>4, <3>1 DEF Step, HandlerFails, InsertEntry, ReadCart, CheckProducts,
           TakeProduct, CompareProduct, WriteProduct, UncartProduct, SaveOrders, EmptyCart,
           CloseOrder, catalogue, sales, JobFits
      <4>2. ASSUME NEW q \in Products \ available  PROVE Witness(q)'
        <5>1. Witness(q) /\ ~Fills(work[h], q) /\ ~Frees(work[h], q)
          BY <3>1 DEF WithheldInv, AllWitnessed, Fills, Frees
        <5>2. \A o : Keeps(work'[h], o)
          BY <4>1 DEF Keeps
        <5> QED  BY <2>0, <2>2, <4>1, <5>1, <5>2, WitnessStays
      <4> QED  BY <4>1, <4>2 DEF AllWitnessed
    <3>2. CASE work[h].op = "none"
      <4>1. work[h].pc = "idle" /\ "none" \notin Op
        BY <2>0, <3>2 DEF JobFits, Op
      <4> QED
        BY <1>2, <3>2, <4>1, ConstantsAssumption DEF Step, HandlerFails, InsertEntry, ReadCart,
           CheckProducts, TakeProduct, CompareProduct, WriteProduct, UncartProduct, SaveOrders,
           EmptyCart, CloseOrder
    <3> QED
      BY <1>2, <2>0, <3>1, <3>2, WithheldWebhook, WithheldEnd DEF JobFits, WithheldInv
  <2> QED  BY <2>1, <2>2, <2>3, <2>5, <2>6 DEF WithheldInv
<1> QED
  BY <1>1, <1>2, WithheldStart, NextForm

\* Where nothing breaks off, a product that is not offered is rented, is being
\* ordered or is being given back, whichever handlers overlap
\* (createOrdersForUser, rejectOrder, returnOrder)
THEOREM WithheldCorrect == ASSUME Unbroken PROVE Spec => []WithheldIsRented
<1>1. Init => TypeOK /\ JobsInv /\ WithheldInv
  BY HeldInit, IdleType, IdleFits
  DEF Init, TypeOK, WithheldInv, OrdersNumbered, RejectsFree, AllWitnessed
<1>2. (TypeOK /\ JobsInv /\ WithheldInv) /\ [Next]_vars => (TypeOK /\ JobsInv /\ WithheldInv)'
  BY TypeStep, JobsStep, WithheldNext DEF Unbroken
<1>3. WithheldInv => WithheldIsRented
  BY DEF WithheldInv, AllWitnessed, Witness, Fills, Frees, WithheldIsRented
<1> QED
  BY <1>1, <1>2, <1>3, PTL DEF Spec

(***************************************************************************)
(* Checkout implements Rental                                              *)
(*                                                                         *)
(* What this needs beside the claims: only CreateCheckoutSession asks for  *)
(* money, a webhook that goes on has something to order, and the orders it *)
(* saves are new, so no handler knows them and none of them is closed.     *)
(***************************************************************************)

AskedOnce == \A b \in Buyers : payment[b] = "none" => paidFor[b] = {}

PicksSomething ==
    \A h \in Handlers :
        work[h].op = "webhook" /\ work[h].pc \in Filling => work[h].picked # {}

RentalInv == AskedOnce /\ PicksSomething /\ OrdersNumbered /\ closed \subseteq ordered

LEMMA RentalNext ==
    ASSUME Calm, TypeOK, JobsInv, RentalInv, [Next]_vars
    PROVE  RentalInv'
<1>t. /\ payment \in [Buyers -> {"none", "open", "paid", "done"}]
      /\ paidFor \in [Buyers -> SUBSET Products]
      /\ \A h \in Handlers : work[h] \in Handler
  BY DEF TypeOK
<1>1. CASE Others
  <2>1. UNCHANGED <<placed, ordered, closed, work>>
    BY <1>1, OthersForm
  <2>2. AskedOnce'
    BY <1>t, <1>1 DEF Others, CreateCheckoutSession, PaySession, RemoveFromCart, DeleteProduct,
       vars, sales, RentalInv, AskedOnce
  <2> QED  BY <2>1, <2>2 DEF RentalInv, PicksSomething, OrdersNumbered
<1>2. ASSUME NEW h \in Handlers, NEW b \in Buyers, NEW p \in Products,
             \/ AddToCart(h, b, p) \/ UpdateProduct(h, p) \/ DeliverEvent(h, b)
             \/ \E o \in ordered : RejectOrder(h, o) \/ ReturnOrder(h, o)
      PROVE  RentalInv'
  <2>1. /\ \A g \in Handlers \ {h} : work'[g] = work[g]
        /\ StartsAs(work'[h]) /\ UNCHANGED <<placed, ordered, closed>>
    BY <1>2, StartForm
  <2>2. UNCHANGED <<payment, paidFor>>
    BY <1>2 DEF AddToCart, UpdateProduct, DeliverEvent, RejectOrder, ReturnOrder, sales
  <2>3. ~(work'[h].op = "webhook" /\ work'[h].pc \in Filling)
    BY <2>1 DEF StartsAs, Filling
  <2> QED  BY <2>1, <2>2, <2>3 DEF RentalInv, AskedOnce, PicksSomething, OrdersNumbered
<1>3. ASSUME NEW h \in Handlers, Step(h) \/ HandlerFails(h)
      PROVE  RentalInv'
  <2>1. /\ \A g \in Handlers \ {h} : work'[g] = work[g]
        /\ (work'[h] = Idle /\ Ends(h)) \/ GoesTo(h)
        /\ JobFits(work[h])
    BY <1>3, RunForm DEF JobsInv, JobsFit
  <2>2. paidFor' = paidFor /\ (payment' = payment \/ payment' = [payment EXCEPT ![work[h].buyer] = "done"])
    BY <1>3 DEF Step, HandlerFails, InsertEntry, ReadCart, CheckProducts, TakeProduct,
       CompareProduct, WriteProduct, UncartProduct, SaveOrders, EmptyCart, CloseOrder, sales
  <2>3. AskedOnce'
    BY <1>t, <2>2 DEF RentalInv, AskedOnce
  <2>4. ordered \subseteq ordered' /\ OrdersNumbered'
    BY <1>3, NumbersRun DEF RentalInv
  <2>5. closed' = closed \/ closed' = closed \cup work[h].order
    BY <1>3 DEF Step, HandlerFails, InsertEntry, ReadCart, CheckProducts, TakeProduct,
       CompareProduct, WriteProduct, UncartProduct, SaveOrders, EmptyCart, CloseOrder, sales
  <2>6. closed' \subseteq ordered'
    BY <2>4, <2>5, OrdersKnown DEF RentalInv
  <2>7. work'[h].op = "webhook" /\ work'[h].pc \in Filling => work'[h].picked # {}
    <3> SUFFICES ASSUME work'[h].op = "webhook", work'[h].pc \in Filling
                 PROVE  work'[h].picked # {}
      OBVIOUS
    <3>1. GoesTo(h) /\ work[h].op = "webhook"
      BY <2>1, IdleFits DEF GoesTo
    <3>2. CASE ReadCart(h)
      BY <3>1, <3>2 DEF GoesTo, ReadCart, CheckProducts, TakeProduct, CompareProduct,
         WriteProduct, UncartProduct, SaveOrders, CloseOrder
    <3>3. CASE ~ReadCart(h)
      <4>1. work[h].pc \in Filling /\ work'[h].picked = work[h].picked
        BY <2>1, <3>1, <3>3 DEF GoesTo, Holds, Filling, CheckProducts, TakeProduct, CompareProduct,
           WriteProduct, UncartProduct, SaveOrders, CloseOrder
      <4> QED  BY <3>1, <4>1 DEF RentalInv, PicksSomething
    <3> QED  BY <3>2, <3>3
  <2>8. PicksSomething'
    BY <2>1, <2>7 DEF RentalInv, PicksSomething
  <2> QED  BY <2>3, <2>4, <2>6, <2>8 DEF RentalInv
<1> QED
  BY <1>1, <1>2, <1>3, NextForm

Served == {b \in Buyers : placed[b] > 0}

With == {<<o[1], o[3]>> : o \in Open}

RentalShows == <<paidFor, Served, With>>

\* One order leaves the open ones: its product comes back
LEMMA EndIsGiveBack ==
    ASSUME TypeOK, RentedOnce, NEW o \in Open, Open' = Open \ {o}, UNCHANGED <<paidFor, placed>>
    PROVE  Rented!Next
<1>1. PICK b \in Buyers, p \in Products : b = o[1] /\ p = o[3]
  BY OrderParts DEF TypeOK, Open
<1>2. With' = With \ {<<b, p>>}
  <2>1. \A q \in Open : <<q[1], q[3]>> = <<b, p>> => q = o
    BY <1>1 DEF RentedOnce
  <2> QED  BY <1>1, <2>1 DEF With
<1>3. <<b, p>> \in With
  BY <1>1 DEF With
<1>4. Rented!GiveBack(b, p)
  BY <1>2, <1>3 DEF Rented!GiveBack, With
<1> QED
  BY <1>4 DEF Rented!Next

\* The orders a webhook saves are open at once, those of no claimed product
LEMMA SaveIsRent ==
    ASSUME Guarded, TypeOK, JobsInv, HeldInv, PlacedInv, RentalInv,
           NEW h \in Handlers, SaveOrders(h)
    PROVE  Rented!Next
<1>0. /\ \A g \in Handlers \ {h} : work'[g] = work[g]
      /\ (work'[h] = Idle /\ Ends(h)) \/ GoesTo(h)
      /\ JobFits(work[h]) /\ work[h] \in Handler
  BY RunForm DEF Step, JobsInv, JobsFit, TypeOK
<1>1. work[h].op = "webhook" /\ work[h].pc = "save" /\ work[h].pc \in Filling
  BY DEF SaveOrders, PlacedInv, PaidInv, StagesFit, Filling
<1>2. PICK b \in Buyers, S \in SUBSET Products : b = work[h].buyer /\ S = work[h].picked
  BY <1>0 DEF Handler
<1>3. placed[b] = 0 /\ S \in SUBSET paidFor[b] /\ S # {}
  BY <1>1, <1>2 DEF PlacedInv, CartIsLeft, PaidInv, PickedWasPaid, RentalInv, PicksSomething
<1> DEFINE new == {<<b, 1, p>> : p \in S}
<1>4. /\ ordered' = ordered \cup new /\ placed' = [placed EXCEPT ![b] = 1]
      /\ UNCHANGED <<paidFor, closed>>
  BY <1>2, <1>3 DEF SaveOrders
<1>5. new \cap ordered = {}
  <2>1. \A o \in new : o[1] = b /\ o[2] = 1
    OBVIOUS
  <2>2. \A o \in ordered : o[2] <= placed[o[1]]
    BY DEF RentalInv, OrdersNumbered
  <2> HIDE DEF new
  <2> QED  BY <1>3, <2>1, <2>2
<1>6. \A g \in Handlers : /\ work'[g].order = work[g].order /\ work[g].order \subseteq ordered
                          /\ work'[g].op = "return" <=> work[g].op = "return"
  <2>1. work[h].order = {}
    BY <1>0, <1>1 DEF JobFits, Enders
  <2> QED  BY <1>0, <1>1, <2>1, IdleFits, OrdersKnown DEF GoesTo
<1>7. Open' = Open \cup new
  <2>1. new \cap closed = {}
    BY <1>5 DEF RentalInv
  <2> HIDE DEF new
  <2> QED  BY <1>4, <1>5, <1>6, <2>1 DEF Open
<1>8. With' = With \cup ({b} \X S)
  <2>1. /\ \A o \in new : \E p \in S : o = <<b, 1, p>> /\ <<o[1], o[3]>> = <<b, p>>
        /\ \A p \in S : \E o \in new : <<o[1], o[3]>> = <<b, p>>
    <3>1. \A p : <<b, 1, p>>[1] = b /\ <<b, 1, p>>[3] = p
      OBVIOUS
    <3>2. ASSUME NEW o \in new  PROVE \E p \in S : o = <<b, 1, p>> /\ <<o[1], o[3]>> = <<b, p>>
      <4>1. PICK p \in S : o = <<b, 1, p>>
        OBVIOUS
      <4> QED  BY <3>1, <4>1
    <3>3. ASSUME NEW p \in S  PROVE \E o \in new : <<o[1], o[3]>> = <<b, p>>
      <4>1. <<b, 1, p>> \in new
        OBVIOUS
      <4> HIDE DEF new
      <4> QED  BY <3>1, <4>1
    <3> QED  BY <3>2, <3>3
  <2>2. {<<o[1], o[3]>> : o \in new} = {b} \X S
    BY <2>1
  <2> HIDE DEF new
  <2> QED  BY <1>7, <2>2 DEF With
<1>9. \A entry \in With : entry[2] \notin S
  <2>1. \A o \in Open : o[3] \notin S
    BY <1>1, <1>2 DEF HeldInv, WebhooksTake, Claimed
  <2> QED  BY <2>1 DEF With
<1>10. b \notin Served /\ Served' = Served \cup {b}
  <2>1. \A c \in Buyers : placed[c] \in Nat /\ placed'[c] = IF c = b THEN 1 ELSE placed[c]
    BY <1>4 DEF TypeOK
  <2>2. 1 > 0 /\ ~(0 > 0)
    OBVIOUS
  <2> QED  BY <1>3, <2>1, <2>2 DEF Served
<1>11. Rented!Rent(b)
  BY <1>3, <1>4, <1>8, <1>9, <1>10 DEF Rented!Rent, With, Served
<1> QED
  BY <1>11 DEF Rented!Next

LEMMA RentalStep ==
    ASSUME Guarded, TypeOK, JobsInv, HeldInv, PlacedInv, RentalInv, [Next]_vars
    PROVE  Rented!Next \/ UNCHANGED RentalShows
<1>1. UNCHANGED <<paidFor, placed>> /\ Open' = Open => UNCHANGED RentalShows
  BY DEF RentalShows, Served, With
<1>2. ASSUME NEW b \in Buyers, CreateCheckoutSession(b)
      PROVE  Rented!Next
  <2>1. PICK S \in SUBSET Products : S = CartOf(b)
    BY CartOfType
  <2>2. /\ S # {} /\ paidFor' = [paidFor EXCEPT ![b] = S] /\ paidFor[b] = {}
        /\ UNCHANGED <<placed, ordered, closed, work>>
    BY <1>2, <2>1 DEF CreateCheckoutSession, RentalInv, AskedOnce
  <2>3. Served' = Served /\ With' = With
    BY <2>2 DEF Served, With, Open
  <2>4. Rented!Ask(b)
    BY <2>2, <2>3 DEF Rented!Ask, Served, With
  <2> QED  BY <2>4 DEF Rented!Next
<1>3. CASE Others /\ ~\E b \in Buyers : CreateCheckoutSession(b)
  <2>1. UNCHANGED <<placed, ordered, closed, work>>
    BY <1>3, OthersForm
  <2>2. paidFor' = paidFor
    BY <1>3 DEF Others, PaySession, RemoveFromCart, DeleteProduct, vars, sales
  <2> QED  BY <1>1, <2>1, <2>2 DEF Open
<1>4. ASSUME NEW h \in Handlers, NEW b \in Buyers, NEW p \in Products,
             \/ AddToCart(h, b, p) \/ UpdateProduct(h, p) \/ DeliverEvent(h, b)
             \/ \E o \in ordered : RejectOrder(h, o) \/ ReturnOrder(h, o)
      PROVE  Rented!Next \/ UNCHANGED RentalShows
  <2>1. /\ \A g \in Handlers \ {h} : work'[g] = work[g]
        /\ StartsAs(work'[h]) /\ UNCHANGED <<placed, ordered, closed>>
        /\ work[h].op = "none"
    BY <1>4, StartForm, IdleSlot
  <2>2. paidFor' = paidFor
    BY <1>4 DEF AddToCart, UpdateProduct, DeliverEvent, RejectOrder, ReturnOrder, sales
  <2>3. CASE work'[h].op # "return"
    <3>1. Open' = Open
      BY <2>1, <2>3 DEF Open
    <3> QED  BY <1>1, <2>1, <2>2, <3>1
  <2>4. CASE work'[h].op = "return"
    <3>1. PICK o \in ordered : MayEnd(o) /\ work'[h].order = {o}
      BY <2>1, <2>4 DEF StartsAs
    <3>2. o \in Open
      BY <3>1 DEF MayEnd, Open, Guarded
    <3>3. Open' = Open \ {o}
      BY <2>1, <2>4, <3>1 DEF Open
    <3> QED  BY <2>1, <2>2, <3>2, <3>3, EndIsGiveBack DEF HeldInv, OneClaim
  <2> QED  BY <2>3, <2>4
<1>5. ASSUME NEW h \in Handlers, Step(h) \/ HandlerFails(h)
      PROVE  Rented!Next \/ UNCHANGED RentalShows
  <2>0. /\ \A g \in Handlers \ {h} : work'[g] = work[g]
        /\ (work'[h] = Idle /\ Ends(h)) \/ GoesTo(h)
        /\ JobFits(work[h])
    BY <1>5, RunForm DEF JobsInv, JobsFit
  <2>1. CASE SaveOrders(h)
    BY <2>1, SaveIsRent
  <2>2. CASE CloseOrder(h)
    <3>1. work[h].op \in Enders /\ UNCHANGED <<paidFor, placed, ordered>>
      BY <2>0, <2>2 DEF CloseOrder, JobFits, Filling
    <3>2. PICK o \in ordered :
              /\ work[h].order = {o}
              /\ work[h].op = "reject" => o \notin closed
      BY <2>0, <2>2, <3>1 DEF JobFits, CloseOrder, Guarded
    <3>3. /\ closed' = closed \cup {o}
          /\ \A g \in Handlers \ {h} : o \notin work[g].order
          /\ work'[h].op = "return" => work[h].op = "return" /\ work'[h].order = {o}
      BY <2>0, <2>2, <3>2, IdleFits DEF CloseOrder, JobsInv, OrdersApart, GoesTo
    <3>4. Open' = Open \ {o}
      BY <2>0, <3>1, <3>2, <3>3 DEF Open
    <3>5. CASE o \in Open
      BY <3>1, <3>4, <3>5, EndIsGiveBack DEF HeldInv, OneClaim
    <3>6. CASE o \notin Open
      <4>1. Open' = Open
        BY <3>4, <3>6
      <4> QED  BY <1>1, <3>1, <4>1
    <3> QED  BY <3>5, <3>6
  <2>3. CASE ~SaveOrders(h) /\ ~CloseOrder(h)
    <3>1. UNCHANGED <<paidFor, placed, ordered, closed>>
      BY <1>5, <2>3 DEF Step, HandlerFails, InsertEntry, ReadCart, CheckProducts, TakeProduct,
         CompareProduct, WriteProduct, UncartProduct, EmptyCart, sales
    <3>2. work[h].op = "return" => work'[h].op = "return" /\ work'[h].order = work[h].order
      <4> SUFFICES ASSUME work[h].op = "return"  PROVE GoesTo(h)
        BY DEF GoesTo
      <4>1. work[h].pc \in {"close", "compare", "write"}
        BY <2>0 DEF JobFits, Enders
      <4> QED
        BY <2>0, <2>3, <4>1 DEF Ends, Guarded, InsertEntry, EmptyCart, HandlerFails, ReadCart,
           CheckProducts, TakeProduct
    <3>3. work'[h].op = "return" => work[h].op = "return" /\ work'[h].order = work[h].order
      BY <2>0, IdleFits DEF GoesTo
    <3>4. Open' = Open
      BY <2>0, <3>1, <3>2, <3>3 DEF Open
    <3> QED  BY <1>1, <3>1, <3>4
  <2> QED  BY <2>1, <2>2, <2>3
<1> QED
  BY <1>2, <1>3, <1>4, <1>5, NextForm DEF Others

LEMMA RentalInit == Init => PlacedInv /\ RentalInv /\ Rented!Init
<1> SUFFICES ASSUME Init PROVE PlacedInv /\ RentalInv /\ Rented!Init
  OBVIOUS
<1>1. PlacedInv
  BY IdleType, IdleFields DEF Init, PlacedInv, PaidInv, TypeOK, StagesFit,
     AddsBeforeCheckout, PickedWasPaid, CartWasPaid, OrderedAfterCheckout, OrderedWasPaid,
     OneWebhook, CartIsLeft, PlacedEmptied, OneOrderPerPayment
<1>2. RentalInv
  BY IdleFits DEF Init, RentalInv, AskedOnce, PicksSomething, OrdersNumbered
<1>3. Rented!Init
  <2>1. Open = {} /\ {b \in Buyers : placed[b] > 0} = {}
    BY DEF Init, Open
  <2> QED  BY <2>1 DEF Init, Rented!Init
<1> QED
  BY <1>1, <1>2, <1>3

\* Buyers and vendors cannot tell from the orders that a webhook takes products
\* one by one, breaks off and is repeated: where it is kept apart from what
\* reaches for the same products, and nobody ends an order again that has ended,
\* checkout implements Rental, in which a buyer gets in one step free products
\* among those he paid for, and only once
\* (createCheckoutSession, createOrdersForUser, rejectOrder, returnOrder)
THEOREM RentalCorrect == ASSUME Guarded PROVE Spec => ImplementsRental
<1> DEFINE Inv == TypeOK /\ JobsInv /\ HeldInv /\ PlacedInv /\ RentalInv
<1>1. Init => Inv
  BY HeldInit, RentalInit DEF PlacedInv, PaidInv
<1>2. Inv /\ [Next]_vars => Inv'
  BY TypeStep, JobsStep, HeldNext, PlacedStep, RentalNext DEF Guarded, DeliveriesApart
<1>3. Inv /\ [Next]_vars
        => [Rented!Next]_<<paidFor, {b \in Buyers : placed[b] > 0}, {<<o[1], o[3]>> : o \in Open}>>
  BY RentalStep DEF RentalShows, Served, With
<1> HIDE DEF Inv
<1> QED
  BY <1>1, <1>2, <1>3, RentalInit, PTL DEF Spec, ImplementsRental, Rented!Spec, Rented!vars
=============================================================================
