--------------------------- MODULE OrderFulfilment ---------------------------
(***************************************************************************)
(* The orders of ONE buyer order after checkout: OrdersService             *)
(* (src/src/modules/orders/orders.service.ts) with the three StripeService *)
(* calls that move the buyer's money.  A buyer pays once; the payment is   *)
(* held by Stripe; every vendor sends or rejects its own order; when all   *)
(* have, the held amount is captured for the sent orders or returned.      *)
(*                                                                         *)
(* The Node process runs many handlers at once and switches between them   *)
(* at every await, so a handler is a worker that advances one stage at a   *)
(* time: the entity it loaded is a private copy that may be stale when it  *)
(* is saved.                                                               *)
(***************************************************************************)
EXTENDS Naturals, FiniteSets

CONSTANTS
    Orders,        \* the orders of the buyer order, one per vendor
    Products,      \* the rented products
    ProductsOf,    \* ProductsOf[o]: the products of order o
    Requests,      \* HTTP requests and Stripe webhooks that may be in flight
    Cron,          \* the @Interval job that marks orders overdue
    Calls,         \* <<handler, status>>: what clients call on an order so shown
    OneAtATime,    \* TRUE: clients wait for an answer before the next call on an order
    Faults,        \* what may go wrong around the handlers, a subset of Fault
    MaxCalls       \* bound on the calls clients make

Status == {"New order", "Sent", "Received", "Sent back", "Overdue",
           "Returned", "Rejected"}

ClientOps == {"reject", "send", "receive", "sendBack", "return", "paySend"}

Ops == ClientOps \cup {"setSentBack", "overdue"}

Fault == {"mail", "offline", "stripe", "fee", "lockWait", "redelivery", "crash"}

ASSUME ConstantsAssumption ==
    /\ Orders # {}
    /\ ProductsOf \in [Orders -> SUBSET Products]
    /\ Cron \notin Requests
    /\ Calls \subseteq ClientOps \X Status
    /\ OneAtATime \in BOOLEAN
    /\ Faults \subseteq Fault
    /\ MaxCalls \in Nat

VARIABLES
    row,        \* the orders table
    history,    \* statuses each order has had (for the properties only)
    available,  \* products whose isAvailable column is true
    intent,     \* the Stripe payment intent: "held", "captured" or "canceled"
    captured,   \* the orders whose price and shipping were captured
    transfers,  \* transfers to the vendor made for each order
    rejectMail, \* orders whose rejection mail was sent
    sessions,   \* orders with an overdue checkout page the buyer can pay
    events,     \* orders with a paid overdue session Stripe has to report
    calls,      \* calls made so far
    req,        \* the handlers in flight
    batch       \* the orders the overdue job has loaded and not visited

db     == <<row, history, available>>
money  == <<intent, captured, transfers>>
world  == <<rejectMail, sessions, events, calls>>
vars   == <<db, money, world, req, batch>>

Workers == Requests \cup {Cron}

(***************************************************************************)
(* Types                                                                   *)
(***************************************************************************)

\* "out" is a number set by the vendor, "back" one set by the buyer
Tracking == {"none", "out", "back"}

\* the columns of Order the properties tell apart; received: receivedAt is set
Row == [status: Status, tracking: Tracking, received: BOOLEAN]

Columns == {"status", "tracking", "received"}

Stages == {"idle", "diff", "write", "free", "session", "mail", "notify",
           "check", "settle", "transfer", "commit", "scan"}

BlankRow == [status |-> "New order", tracking |-> "none", received |-> FALSE]

AnyOrder == CHOOSE o \in Orders : TRUE

\* order: the order handled; entity: its in-memory copy; dirty: the columns
\* the UPDATE will write; free: products still to be made available;
\* plan: the orders to capture, none of them meaning to cancel
Request == [pc: Stages, op: Ops \cup {"none"}, order: Orders, entity: Row,
            dirty: SUBSET Columns, free: SUBSET Products, plan: SUBSET Orders]

Idle == [pc |-> "idle", op |-> "none", order |-> AnyOrder, entity |-> BlankRow,
         dirty |-> {}, free |-> {}, plan |-> {}]

NothingLoaded == [orders |-> {}, rows |-> [o \in Orders |-> BlankRow]]

TypeOK ==
    /\ row \in [Orders -> Row]
    /\ history \in [Orders -> SUBSET Status]
    /\ available \subseteq Products
    /\ intent \in {"held", "captured", "canceled"}
    /\ captured \subseteq Orders
    /\ transfers \in [Orders -> Nat]
    /\ rejectMail \subseteq Orders
    /\ sessions \subseteq Orders
    /\ events \subseteq Orders
    /\ calls \in Nat
    /\ req \in [Workers -> Request]
    /\ batch \in [orders: SUBSET Orders, rows: [Orders -> Row]]

(***************************************************************************)
(* Entities                                                                *)
(***************************************************************************)

\* The handlers that run inside entityManager.transaction
TxOps == {"receive", "sendBack"}

\* repository.save compares the entity with the row and writes what differs
Diff(entity, stored) == {c \in Columns : entity[c] # stored[c]}

\* Inside a transaction the comparison sees the snapshot the entity was
\* loaded from; receivedAt = new Date() always differs
DiffInTx(op, entity, loaded) ==
    Diff(entity, loaded) \cup (IF op = "receive" THEN {"received"} ELSE {})

Written(entity, dirty, stored) ==
    [status   |-> IF "status"   \in dirty THEN entity.status   ELSE stored.status,
     tracking |-> IF "tracking" \in dirty THEN entity.tracking ELSE stored.tracking,
     received |-> IF "received" \in dirty THEN entity.received ELSE stored.received]

\* An open transaction that has written its row keeps it locked to the end
Locked(o) ==
    \E r \in Requests :
        /\ req[r].op \in TxOps /\ req[r].order = o /\ req[r].dirty # {}
        /\ req[r].pc \in {"mail", "notify", "transfer", "commit"}

(***************************************************************************)
(* Control of a handler                                                    *)
(***************************************************************************)

Goto(w, stage) == req' = [req EXCEPT ![w].pc = stage]

\* The answer is sent; what an open transaction wrote and did not commit is lost
Finish(w) == req' = [req EXCEPT ![w] = Idle]

\* A slip: returnOrder saves the order and never its products
SlipReturnKeepsProducts(op) == IF op \in TxOps THEN "write" ELSE "diff"

FirstStage(op) ==
    CASE op \in TxOps  -> "write"
      [] op = "return" -> "free"
      [] OTHER         -> "diff"

AfterWrite(op) ==
    CASE op = "reject"      -> "free"
      [] op = "send"        -> "mail"
      [] op \in TxOps       -> "mail"
      [] op = "return"      -> "notify"
      [] op = "paySend"     -> "session"
      [] op = "overdue"     -> "scan"
      [] OTHER              -> "idle"

\* A slip: only rejectOrder looks whether the money can be settled
SlipSendDoesNotCheck(op) ==
    CASE op = "reject"   -> "check"
      [] op = "receive"  -> "transfer"
      [] op = "sendBack" -> "commit"
      [] OTHER           -> "idle"

AfterNotify(op) ==
    CASE op \in {"reject", "send"} -> "check"
      [] op = "receive"            -> "transfer"
      [] op = "sendBack"           -> "commit"
      [] OTHER                     -> "idle"

\* A handler whose last stage is done leaves nothing behind
Advance(w, stage) == IF stage = "idle" THEN Finish(w) ELSE Goto(w, stage)

Store(o, stored) ==
    /\ row' = [row EXCEPT ![o] = stored]
    /\ history' = [history EXCEPT ![o] = @ \cup {stored.status}]

(***************************************************************************)
(* Calls                                                                   *)
(***************************************************************************)

\* findOne: the handler goes on with entity, the row it read as it changed it,
\* and with the products of the order to make available
Load(r, op, o, entity, free) ==
    req' = [req EXCEPT ![r] =
              [pc |-> FirstStage(op), op |-> op, order |-> o, entity |-> entity,
               dirty |-> IF op \in TxOps THEN DiffInTx(op, entity, row[o]) ELSE {},
               free |-> free, plan |-> {}]]

Busy(o) == \E r \in Requests : req[r].pc # "idle" /\ req[r].order = o

\* A client calls a handler.  No handler looks at the status of the order;
\* Calls says which calls the clients make.
ClientCall(r, op, o, entity, free) ==
    /\ req[r].pc = "idle"
    /\ calls < MaxCalls
    /\ <<op, row[o].status>> \in Calls
    /\ OneAtATime => ~Busy(o) /\ o \notin sessions \cup events
    /\ Load(r, op, o, entity, free)
    /\ calls' = calls + 1
    /\ UNCHANGED <<db, money, rejectMail, sessions, events, batch>>

\* diff, write, products, mail, notification, check, settle
RejectOrder(r, o) ==
    ClientCall(r, "reject", o, [row[o] EXCEPT !.status = "Rejected"], ProductsOf[o])

\* A slip: the tracking number is read from a missing field
SlipUndefinedNumber(r, o) ==
    ClientCall(r, "send", o,
               [row[o] EXCEPT !.status = "Sent", !.tracking = "undefined"], {})

\* diff, write, mail, notification, check, settle
SendOrderByVendor(r, o) ==
    ClientCall(r, "send", o,
               [row[o] EXCEPT !.status = "Sent", !.tracking = "out"], {})

\* A slip: the date is stored and the status forgotten
SlipReceiveKeepsStatus(r, o) ==
    ClientCall(r, "receive", o,
               [row[o] EXCEPT !.tracking = "none", !.received = TRUE], {})

\* in a transaction: write, mail, notification, transfer, commit
ReceiveOrderByBuyer(r, o) ==
    ClientCall(r, "receive", o,
               [status |-> "Received", tracking |-> "none", received |-> TRUE], {})

\* A slip: the number is not stored
SlipSendBackWithoutNumber(r, o) ==
    ClientCall(r, "sendBack", o, [row[o] EXCEPT !.status = "Sent back"], {})

\* in a transaction: write, mail, notification, commit
SendOrderByBuyer(r, o) ==
    ClientCall(r, "sendBack", o,
               [row[o] EXCEPT !.status = "Sent back", !.tracking = "back"], {})

\* products, diff, write, notification
ReturnOrder(r, o) ==
    ClientCall(r, "return", o,
               [row[o] EXCEPT !.status = "Returned", !.tracking = "none"], ProductsOf[o])

\* A slip: the order is marked overdue as it is fined
SlipPaySendOverdue(r, o) ==
    ClientCall(r, "paySend", o,
               [row[o] EXCEPT !.status = "Overdue", !.tracking = "back"], {})

\* diff, write, session, notification; the status stays until the fine is paid
PaySendOrder(r, o) ==
    ClientCall(r, "paySend", o, [row[o] EXCEPT !.tracking = "back"], {})

Call(r, o) ==
    \/ RejectOrder(r, o) \/ SendOrderByVendor(r, o) \/ ReceiveOrderByBuyer(r, o)
    \/ SendOrderByBuyer(r, o) \/ ReturnOrder(r, o) \/ PaySendOrder(r, o)

\* The buyer pays the overdue checkout page
PayFine(o) ==
    /\ o \in sessions
    /\ sessions' = sessions \ {o}
    /\ events' = events \cup {o}
    /\ UNCHANGED <<db, money, rejectMail, calls, req, batch>>

\* Stripe reports the paid session: webhookHandler calls setSentBack.  An
\* event may be delivered again.
OverdueWebhook(r, o) ==
    /\ req[r].pc = "idle"
    /\ o \in events
    /\ \/ events' = events \ {o}
       \/ "redelivery" \in Faults /\ events' = events
    /\ Load(r, "setSentBack", o, [row[o] EXCEPT !.status = "Sent back"], {})
    /\ UNCHANGED <<db, money, rejectMail, sessions, calls, batch>>

(***************************************************************************)
(* Saving the order                                                        *)
(***************************************************************************)

\* Outside a transaction save() reads the row again to find what changed
CompareWithRow(w) ==
    /\ req[w].pc = "diff"
    /\ req' = [req EXCEPT ![w].pc = "write",
                          ![w].dirty = Diff(req[w].entity, row[req[w].order])]
    /\ UNCHANGED <<db, money, world, batch>>

\* ... and sends the UPDATE, which waits for a locked row
UpdateRow(w) ==
    /\ req[w].pc = "write" /\ req[w].op \notin TxOps
    /\ req[w].dirty = {} \/ ~Locked(req[w].order)
    /\ LET o == req[w].order
       IN Store(o, Written(req[w].entity, req[w].dirty, row[o]))
    /\ Advance(w, AfterWrite(req[w].op))
    /\ UNCHANGED <<available, money, world, batch>>

\* Inside a transaction the UPDATE takes the lock; the row shows at the commit
UpdateInTx(r) ==
    /\ req[r].pc = "write" /\ req[r].op \in TxOps
    /\ req[r].dirty = {} \/ ~Locked(req[r].order)
    /\ Goto(r, AfterWrite(req[r].op))
    /\ UNCHANGED <<db, money, world, batch>>

\* innodb_lock_wait_timeout: the handler fails where it stands
LockWaitTimeout(w) ==
    /\ "lockWait" \in Faults
    /\ req[w].pc = "write" /\ req[w].dirty # {} /\ Locked(req[w].order)
    /\ Finish(w)
    /\ batch' = IF w = Cron THEN NothingLoaded ELSE batch
    /\ UNCHANGED <<db, money, world>>

Commit(r) ==
    /\ req[r].pc = "commit"
    /\ LET o == req[r].order
       IN Store(o, Written(req[r].entity, req[r].dirty, row[o]))
    /\ Finish(r)
    /\ UNCHANGED <<available, money, world, batch>>

\* The products of the order become available, one save after the other
FreeProduct(r, p) ==
    /\ req[r].pc = "free" /\ p \in req[r].free
    /\ available' = available \cup {p}
    /\ req' = [req EXCEPT ![r].free = @ \ {p}]
    /\ UNCHANGED <<row, history, money, world, batch>>

ProductsFreed(r) ==
    /\ req[r].pc = "free" /\ req[r].free = {}
    /\ Goto(r, IF req[r].op = "reject" THEN "mail" ELSE "diff")
    /\ UNCHANGED <<db, money, world, batch>>

(***************************************************************************)
(* Telling the parties                                                     *)
(***************************************************************************)

\* createOverdueSession; paySendOrder ignores whether its mail was sent
SessionCreated(r) ==
    /\ req[r].pc = "session"
    /\ \/ Goto(r, "notify")
       \/ Faults \cap {"stripe", "fee"} # {} /\ Finish(r)
    /\ UNCHANGED <<db, money, world, batch>>

MailSent(r) ==
    /\ req[r].pc = "mail"
    /\ Goto(r, "notify")
    /\ rejectMail' = IF req[r].op = "reject"
                     THEN rejectMail \cup {req[r].order} ELSE rejectMail
    /\ UNCHANGED <<db, money, sessions, events, calls, batch>>

\* ServiceUnavailableException, or the partner's account is gone: the handler
\* ends; a transaction rolls back
MailFails(r) ==
    /\ "mail" \in Faults
    /\ req[r].pc = "mail"
    /\ Finish(r)
    /\ UNCHANGED <<db, money, world, batch>>

\* handleCreateNotification for each party; paySendOrder then answers with the
\* checkout page
Notified(r) ==
    /\ req[r].pc = "notify"
    /\ Advance(r, AfterNotify(req[r].op))
    /\ sessions' = IF req[r].op = "paySend"
                   THEN sessions \cup {req[r].order} ELSE sessions
    /\ UNCHANGED <<db, money, rejectMail, events, calls, batch>>

\* The party has no open socket: client is null and client.userId throws
NotifyFails(r) ==
    /\ "offline" \in Faults
    /\ req[r].pc = "notify"
    /\ Finish(r)
    /\ UNCHANGED <<db, money, world, batch>>

(***************************************************************************)
(* Money                                                                   *)
(***************************************************************************)

\* A slip: the whole price is captured although an order was rejected
SlipAllOrders == Orders

SentOrders == {o \in Orders : row[o].status = "Sent"}

\* A slip: some for every
SlipSomeSentOrRejected == \E o \in Orders : row[o].status \in {"Sent", "Rejected"}

AllSentOrRejected == \A o \in Orders : row[o].status \in {"Sent", "Rejected"}

\* checkIfOrdersAreSentOrRejected reads every order and decides
CheckIfOrdersAreSentOrRejected(r) ==
    /\ req[r].pc = "check"
    /\ IF AllSentOrRejected
       THEN req' = [req EXCEPT ![r].pc = "settle", ![r].plan = SentOrders]
       ELSE Finish(r)
    /\ UNCHANGED <<db, money, world, batch>>

\* captureMoney or returnMoney: Stripe settles a held intent once
Settle(r) ==
    /\ req[r].pc = "settle"
    /\ intent = "held"
    /\ intent' = IF req[r].plan = {} THEN "canceled" ELSE "captured"
    /\ captured' = req[r].plan
    /\ Finish(r)
    /\ UNCHANGED <<db, transfers, world, batch>>

\* ... and refuses otherwise; the handler ignores the result
SettleRefused(r) ==
    /\ req[r].pc = "settle"
    /\ intent # "held" \/ "stripe" \in Faults
    /\ Finish(r)
    /\ UNCHANGED <<db, money, world, batch>>

\* A slip: the vendor is mailed after the transfer, and that may fail
SlipTransferBeforeMail(r) ==
    /\ req[r].pc = "transfer"
    /\ transfers' = [transfers EXCEPT ![req[r].order] = @ + 1]
    /\ \/ Goto(r, "commit")
       \/ "mail" \in Faults /\ Finish(r)
    /\ UNCHANGED <<db, intent, captured, world, batch>>

\* transferMoneyToVendor, whose failure is ignored
TransferMoneyToVendor(r) ==
    /\ req[r].pc = "transfer"
    /\ \/ transfers' = [transfers EXCEPT ![req[r].order] = @ + 1]
       \/ "stripe" \in Faults /\ UNCHANGED transfers
    /\ Goto(r, "commit")
    /\ UNCHANGED <<db, intent, captured, world, batch>>

\* getApplicationFee finds no record and throws: the transaction rolls back
FeeMissing(r) ==
    /\ "fee" \in Faults
    /\ req[r].pc = "transfer"
    /\ Finish(r)
    /\ UNCHANGED <<db, money, world, batch>>

(***************************************************************************)
(* The overdue job                                                         *)
(***************************************************************************)

ReceivedOrders == {o \in Orders : row[o].status = "Received"}

\* The job loads every received order at once
HandleOverdueOrders ==
    LET found == ReceivedOrders
    IN /\ req[Cron].pc = "idle" /\ found # {}
       /\ batch' = [orders |-> found,
                    rows |-> [o \in Orders |-> IF o \in found THEN row[o] ELSE BlankRow]]
       /\ Goto(Cron, "scan")
       /\ UNCHANGED <<db, money, world>>

\* The rental period of a loaded order is over: its copy is saved as overdue
MarkOverdue(o) ==
    /\ req[Cron].pc = "scan" /\ o \in batch.orders
    /\ batch.rows[o].received
    /\ req' = [req EXCEPT ![Cron] =
                [Idle EXCEPT !.pc = "diff", !.op = "overdue", !.order = o,
                             !.entity = [batch.rows[o] EXCEPT !.status = "Overdue"]]]
    /\ batch' = [orders |-> batch.orders \ {o},
                 rows |-> [batch.rows EXCEPT ![o] = BlankRow]]
    /\ UNCHANGED <<db, money, world>>

\* The order is not due yet
SkipOrder(o) ==
    /\ req[Cron].pc = "scan" /\ o \in batch.orders
    /\ batch' = [orders |-> batch.orders \ {o},
                 rows |-> [batch.rows EXCEPT ![o] = BlankRow]]
    /\ UNCHANGED <<db, money, world, req>>

OverdueJobDone ==
    /\ req[Cron].pc = "scan" /\ batch.orders = {}
    /\ Finish(Cron)
    /\ UNCHANGED <<db, money, world, batch>>

(***************************************************************************)
(* The process dies: handlers are lost, open transactions roll back        *)
(***************************************************************************)

Crash ==
    /\ "crash" \in Faults
    /\ \E w \in Workers : req[w].pc # "idle"
    /\ req' = [w \in Workers |-> Idle]
    /\ batch' = NothingLoaded
    /\ UNCHANGED <<db, money, world>>

(***************************************************************************)
(* Specification                                                           *)
(***************************************************************************)

\* Just after checkout: new orders, their products taken, the payment held
Init ==
    /\ row = [o \in Orders |-> BlankRow]
    /\ history = [o \in Orders |-> {"New order"}]
    /\ available = Products \ UNION {ProductsOf[o] : o \in Orders}
    /\ intent = "held"
    /\ captured = {}
    /\ transfers = [o \in Orders |-> 0]
    /\ rejectMail = {} /\ sessions = {} /\ events = {}
    /\ calls = 0
    /\ req = [w \in Workers |-> Idle]
    /\ batch = NothingLoaded

\* A handler in flight goes on
Step(r) ==
    \/ CompareWithRow(r) \/ UpdateRow(r) \/ UpdateInTx(r) \/ LockWaitTimeout(r)
    \/ Commit(r) \/ ProductsFreed(r) \/ \E p \in Products : FreeProduct(r, p)
    \/ SessionCreated(r) \/ MailSent(r) \/ MailFails(r)
    \/ Notified(r) \/ NotifyFails(r)
    \/ CheckIfOrdersAreSentOrRejected(r) \/ Settle(r) \/ SettleRefused(r)
    \/ TransferMoneyToVendor(r) \/ FeeMissing(r)

\* The overdue job goes on
CronStep ==
    \/ CompareWithRow(Cron) \/ UpdateRow(Cron) \/ LockWaitTimeout(Cron)
    \/ OverdueJobDone
    \/ \E o \in Orders : MarkOverdue(o) \/ SkipOrder(o)

Next ==
    \/ \E r \in Requests, o \in Orders : Call(r, o) \/ OverdueWebhook(r, o)
    \/ \E o \in Orders : PayFine(o)
    \/ \E r \in Requests : Step(r)
    \/ HandleOverdueOrders
    \/ CronStep
    \/ Crash

Spec == Init /\ [][Next]_vars

\* The event loop runs every handler to its end; nobody has to call
FairSpec == Spec /\ WF_vars(CronStep) /\ \A r \in Requests : WF_vars(Step(r))

(***************************************************************************)
(* Properties                                                              *)
(***************************************************************************)

Justified(S) ==
    \A o \in Orders : (IF o \in S THEN "Sent" ELSE "Rejected") \in history[o]

\* When the money is settled, by whatever interleaving of the vendors' calls,
\* every order the buyer pays for was sent by its vendor and every order the
\* buyer does not pay for was rejected (checkIfOrdersAreSentOrRejected)
SettlementJustified == intent # "held" => Justified(captured)

\* Only an order that was received becomes overdue, whatever stale copy of it
\* a handler saves (handleOverdueOrders, paySendOrder)
OverdueWasReceived ==
    \A o \in Orders : row[o].status = "Overdue" => "Received" \in history[o]

\* As long as the process stays up, money goes to a vendor only for a receipt
\* that is committed or about to be (receiveOrderByBuyer: nothing can fail
\* between the transfer and the commit)
TransferMeansReceived ==
    \A o \in Orders :
        transfers[o] > 0 =>
            \/ "Received" \in history[o]
            \/ \E r \in Requests : req[r].pc = "commit" /\ req[r].order = o

\* With clients that follow the workflow and wait for answers, a vendor is
\* paid at most once for an order although receiving it can fail and be tried
\* again (receiveOrderByBuyer)
VendorPaidOnce == \A o \in Orders : transfers[o] <= 1

\* What the rejection mail promises: an order whose rejection was mailed is not
\* paid for (reject-order.hbs, rejectOrder, checkIfOrdersAreSentOrRejected)
RejectedOrderNotCharged == rejectMail \cap captured = {}

\* The tracking number on an order is the one of the parcel under way
TrackingMatchesParcel ==
    \A o \in Orders :
        /\ row[o].status = "Sent" => row[o].tracking = "out"
        /\ row[o].status = "Sent back" => row[o].tracking = "back"

\* An order that is over has given its products back, or is giving them back
\* (rejectOrder, returnOrder)
FinishedOrderFreesProducts ==
    \A o \in Orders :
        row[o].status \in {"Rejected", "Returned"} =>
            \A p \in ProductsOf[o] :
                \/ p \in available
                \/ \E r \in Requests : req[r].order = o /\ p \in req[r].free

\* Once every order is sent or rejected the held money is captured or
\* returned: the last of the concurrent vendors sees them all
MoneySettledEventually == AllSentOrRejected ~> intent # "held"

\* Clients that follow the workflow see the plain lifecycle of OrderLifecycle,
\* with the money settled in one step, whatever the handlers' interleaving
Lifecycle == INSTANCE OrderLifecycle
    WITH status <- [o \in Orders |-> row[o].status],
         money <- intent, charged <- captured

ImplementsLifecycle == Lifecycle!Spec
=============================================================================
