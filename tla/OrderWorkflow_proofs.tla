------------------------- MODULE OrderWorkflow_proofs -------------------------
(***************************************************************************)
(* Theorems about OrderFulfilment with clients that follow the workflow:   *)
(* they call what the screens offer for an order, and wait for an answer   *)
(* before the next call on it.  The overdue job waits for nobody: it saves *)
(* copies of orders that handlers have changed since.                      *)
(*                                                                         *)
(* One invariant says what each handler in flight has found and what it    *)
(* still has to do; everything else follows from it, and that the handlers *)
(* together implement OrderLifecycle.                                      *)
(***************************************************************************)
EXTENDS OrderFulfilment_proofs

\* What the screens offer for an order in each status
Offered == {<<"reject", "New order">>, <<"send", "New order">>, <<"receive", "Sent">>,
            <<"sendBack", "Received">>, <<"paySend", "Overdue">>, <<"return", "Sent back">>}

\* What the theorems are about: the clients above, a process that stays up and
\* events that Stripe delivers once; everything else may fail
Orderly ==
    /\ OneAtATime
    /\ Calls \subseteq Offered
    /\ Faults \cap {"crash", "redelivery"} = {}

(***************************************************************************)
(* What a handler in flight has found                                      *)
(***************************************************************************)

\* The stages of an operation
Path(op) ==
    CASE op = "reject"      -> {"diff", "write", "free", "mail", "notify", "check", "settle"}
      [] op = "send"        -> {"diff", "write", "mail", "notify", "check", "settle"}
      [] op = "receive"     -> {"write", "mail", "notify", "transfer", "commit"}
      [] op = "sendBack"    -> {"write", "mail", "notify", "commit"}
      [] op = "return"      -> {"free", "diff", "write", "notify"}
      [] op = "paySend"     -> {"diff", "write", "session", "notify"}
      [] op = "setSentBack" -> {"diff", "write"}
      [] op = "overdue"     -> {"diff", "write", "scan"}
      [] OTHER              -> {"idle", "scan"}

\* The statuses the overdue job can still overwrite
Lent == {"Received", "Sent back", "Returned"}

\* The statuses an order has until the handler saves it
Before(op) ==
    CASE op \in {"reject", "send"}         -> {"New order"}
      [] op = "receive"                    -> {"Sent"}
      [] op = "sendBack"                   -> {"Received", "Overdue"}
      [] op = "return"                     -> {"Sent back", "Overdue"}
      [] op \in {"paySend", "setSentBack"} -> {"Overdue"}
      [] OTHER                             -> Lent

\* ... and the status the handler saves
Target(op) ==
    CASE op = "reject"                      -> "Rejected"
      [] op = "send"                        -> "Sent"
      [] op = "receive"                     -> "Received"
      [] op \in {"sendBack", "setSentBack"} -> "Sent back"
      [] op = "return"                      -> "Returned"
      [] OTHER                              -> "Overdue"

\* The handler has its order still to save; paySendOrder leaves the status alone
Unsaved(s) ==
    \/ s.op \in TxOps \cup {"paySend"}
    \/ s.pc \in {"diff", "write"}
    \/ s.op = "return" /\ s.pc = "free"

EntityFits(s) ==
    /\ s.entity.status = Target(s.op)
    /\ s.op = "send" => s.entity.tracking = "out"
    /\ s.op = "receive" => s.entity.tracking = "none"
    /\ s.op \in {"sendBack", "setSentBack", "paySend"} => s.entity.tracking = "back"

\* The UPDATE writes what the handler is for
DirtyFits(s) ==
    /\ s.op # "paySend" => "status" \in s.dirty
    /\ s.op \in {"send", "receive", "sendBack"} => "tracking" \in s.dirty

\* The number of the parcel that comes back late is stored before the fine is
\* asked for
FineFits(s) ==
    /\ s.op = "paySend" =>
        /\ s.pc = "write" => "tracking" \in s.dirty \/ row[s.order].tracking = "back"
        /\ s.pc \in {"session", "notify"} => row[s.order].tracking = "back"
    /\ s.op = "setSentBack" => row[s.order].tracking = "back"

ProductsFit(s) ==
    /\ s.op = "reject" =>
        /\ s.pc \in {"diff", "write"} => s.free = ProductsOf[s.order]
        /\ s.pc \notin {"diff", "write", "free"} => s.free = {}
    /\ s.op = "return" =>
        /\ \A p \in ProductsOf[s.order] : p \in available \/ p \in s.free
        /\ s.pc # "free" => s.free = {}

JobFits(s) ==
    /\ s.pc \in Path(s.op)
    /\ s.op \notin {"reject", "return"} => s.free = {}
    /\ s.op # "none" =>
        /\ EntityFits(s) /\ FineFits(s) /\ ProductsFit(s)
        /\ Unsaved(s) => row[s.order].status \in Before(s.op)
        /\ s.pc = "write" \/ s.op \in TxOps => DirtyFits(s)
        /\ s.op = "reject" /\ ~Unsaved(s) => row[s.order].status = "Rejected"

(***************************************************************************)
(* The inductive invariant                                                 *)
(***************************************************************************)

\* The overdue job does its own work only, the handlers theirs
Roles ==
    /\ req[Cron].op \in {"none", "overdue"}
    /\ \A r \in Requests : req[r].op # "overdue" /\ req[r].pc # "scan"

JobsFit == (\A w \in Workers : JobFits(req[w])) /\ Roles

OneHandler ==
    \A r, s \in Requests :
        r # s /\ req[r].pc # "idle" /\ req[s].pc # "idle" => req[r].order # req[s].order

\* The overdue job has at most one copy of an order
CopiesFit ==
    /\ \A o \in batch.orders : row[o].status \in Lent
    /\ req[Cron].pc \in {"diff", "write"} => req[Cron].order \notin batch.orders

\* An order whose fine is being paid waits for Stripe's event
SessionsWait ==
    /\ sessions \cap events = {}
    /\ \A o \in sessions \cup events :
        row[o].status = "Overdue" /\ row[o].tracking = "back" /\ ~Busy(o)

ColumnsFit ==
    \A o \in Orders :
        /\ row[o].status \in {"New order", "Received"} => row[o].tracking = "none"
        /\ row[o].status = "Sent" => row[o].tracking = "out"
        /\ row[o].status = "Sent back" => row[o].tracking = "back"

\* A plan stays right until it is settled, although orders move on
PlansFit ==
    \A r \in Requests :
        req[r].pc = "settle" =>
            /\ \A o \in Orders : row[o].status # "New order"
            /\ req[r].plan = {o \in Orders : row[o].status # "Rejected"}

ChargesFit ==
    /\ \A o \in captured : row[o].status \notin {"New order", "Rejected"}
    /\ \A o \in rejectMail : row[o].status = "Rejected"

Committing(o) ==
    \E r \in Requests : req[r].pc = "commit" /\ req[r].op = "receive" /\ req[r].order = o

TransfersFit ==
    \A o \in Orders :
        \/ transfers[o] = 0
        \/ /\ transfers[o] = 1
           /\ row[o].status \notin {"New order", "Sent", "Rejected"} \/ Committing(o)

FlowInv ==
    /\ JobsFit /\ OneHandler /\ CopiesFit /\ SessionsWait /\ ColumnsFit
    /\ PlansFit /\ ChargesFit /\ TransfersFit /\ FinishedOrderFreesProducts

(***************************************************************************)
(* Handlers that begin                                                     *)
(***************************************************************************)

\* A handler for op has been loaded with the order
Begun(r, op, o, e, free) ==
    /\ req'[r].pc = FirstStage(op) /\ req'[r].op = op /\ req'[r].order = o
    /\ req'[r].entity = e /\ req'[r].free = free
    /\ op \in TxOps => req'[r].dirty = DiffInTx(op, e, row[o])

LEMMA LoadForm ==
    ASSUME TypeOK, NEW r \in Requests, NEW op, NEW o, NEW e, NEW free, Load(r, op, o, e, free)
    PROVE  Begun(r, op, o, e, free) /\ \A v \in Workers \ {r} : req'[v] = req[v]
<1>1. req \in [Workers -> Request] /\ r \in Workers
  BY DEF TypeOK, Workers
<1> QED
  BY <1>1 DEF Load, Begun

\* A client or Stripe finds the order free, in a status the operation is for
LEMMA StartForm ==
    ASSUME Orderly, TypeOK, FlowInv, NEW r \in Requests, NEW o \in Orders,
           Call(r, o) \/ OverdueWebhook(r, o)
    PROVE  /\ req[r].pc = "idle" /\ \A v \in Workers \ {r} : req'[v] = req[v]
           /\ UNCHANGED <<row, available, intent, captured, transfers, rejectMail, batch, sessions>>
           /\ events' \subseteq events /\ o \notin sessions \cup events' /\ ~Busy(o)
           /\ req'[r].order = o /\ req'[r].op \in Ops \ {"overdue"}
           /\ req'[r].pc \in {"diff", "write", "free"} /\ JobFits(req[r])'
<1>0. row[o] \in Row /\ ColumnsFit
  BY DEF TypeOK, FlowInv
<1>1. ASSUME NEW op, NEW e, NEW free, ClientCall(r, op, o, e, free)
      PROVE  Begun(r, op, o, e, free) /\ <<op, row[o].status>> \in Offered
  BY <1>1, LoadForm DEF ClientCall, Orderly
<1>2. /\ req[r].pc = "idle" /\ \A v \in Workers \ {r} : req'[v] = req[v]
      /\ UNCHANGED <<row, available, intent, captured, transfers, rejectMail, batch, sessions>>
      /\ events' \subseteq events /\ o \notin sessions \cup events' /\ ~Busy(o)
  <2>1. ASSUME NEW op, NEW e, NEW free, ClientCall(r, op, o, e, free)
        PROVE  /\ req[r].pc = "idle" /\ \A v \in Workers \ {r} : req'[v] = req[v]
               /\ UNCHANGED <<row, available, intent, captured, transfers, rejectMail, batch>>
               /\ UNCHANGED <<sessions, events>> /\ o \notin sessions \cup events /\ ~Busy(o)
    BY <2>1, LoadForm DEF ClientCall, Orderly, db, money
  <2>2. CASE Call(r, o)
    BY <2>1, <2>2, CalledWith
  <2>3. CASE OverdueWebhook(r, o)
    <3>1. /\ req[r].pc = "idle" /\ \A v \in Workers \ {r} : req'[v] = req[v]
          /\ UNCHANGED <<row, available, intent, captured, transfers, rejectMail, batch, sessions>>
      BY <2>3, LoadForm DEF OverdueWebhook, db, money
    <3>2. o \in events /\ events' = events \ {o}
      BY <2>3 DEF OverdueWebhook, Orderly
    <3> QED  BY <3>1, <3>2 DEF FlowInv, SessionsWait
  <2> QED  BY <2>2, <2>3
<1>3. CASE RejectOrder(r, o)
  <2> DEFINE e == [row[o] EXCEPT !.status = "Rejected"]
  <2>1. e.status = "Rejected"
    BY <1>0 DEF Row
  <2>2. ClientCall(r, "reject", o, e, ProductsOf[o])
    BY <1>3 DEF RejectOrder
  <2> HIDE DEF e
  <2>3. Begun(r, "reject", o, e, ProductsOf[o]) /\ <<"reject", row[o].status>> \in Offered
    BY <1>1, <2>2
  <2>4. row[o].status = "New order"
    BY <2>3 DEF Offered
  <2>6. JobFits(req[r])'
    BY <1>2, <2>1, <2>3, <2>4
    DEF Begun, JobFits, Path, EntityFits, Target, FineFits, ProductsFit, DirtyFits,
        Unsaved, Before, FirstStage, TxOps
  <2> QED  BY <1>2, <2>3, <2>6 DEF Begun, FirstStage, TxOps, Ops, ClientOps
<1>4. CASE SendOrderByVendor(r, o)
  <2> DEFINE e == [row[o] EXCEPT !.status = "Sent", !.tracking = "out"]
  <2>1. e.status = "Sent" /\ e.tracking = "out"
    BY <1>0 DEF Row
  <2>2. ClientCall(r, "send", o, e, {})
    BY <1>4 DEF SendOrderByVendor
  <2> HIDE DEF e
  <2>3. Begun(r, "send", o, e, {}) /\ <<"send", row[o].status>> \in Offered
    BY <1>1, <2>2
  <2>4. row[o].status = "New order"
    BY <2>3 DEF Offered
  <2>6. JobFits(req[r])'
    BY <1>2, <2>1, <2>3, <2>4
    DEF Begun, JobFits, Path, EntityFits, Target, FineFits, ProductsFit, DirtyFits,
        Unsaved, Before, FirstStage, TxOps
  <2> QED  BY <1>2, <2>3, <2>6 DEF Begun, FirstStage, TxOps, Ops, ClientOps
<1>5. CASE ReceiveOrderByBuyer(r, o)
  <2> DEFINE e == [status |-> "Received", tracking |-> "none", received |-> TRUE]
  <2>1. e.status = "Received" /\ e.tracking = "none"
    OBVIOUS
  <2>2. ClientCall(r, "receive", o, e, {})
    BY <1>5 DEF ReceiveOrderByBuyer
  <2> HIDE DEF e
  <2>3. Begun(r, "receive", o, e, {}) /\ <<"receive", row[o].status>> \in Offered
    BY <1>1, <2>2
  <2>4. row[o].status = "Sent"
    BY <2>3 DEF Offered
  <2>5. {"status", "tracking"} \subseteq DiffInTx("receive", e, row[o])
    BY <1>0, <2>1, <2>4 DEF DiffInTx, Diff, Columns, ColumnsFit
  <2>6. JobFits(req[r])'
    BY <1>2, <2>1, <2>3, <2>4, <2>5
    DEF Begun, JobFits, Path, EntityFits, Target, FineFits, ProductsFit, DirtyFits,
        Unsaved, Before, FirstStage, TxOps
  <2> QED  BY <1>2, <2>3, <2>6 DEF Begun, FirstStage, TxOps, Ops, ClientOps
<1>6. CASE SendOrderByBuyer(r, o)
  <2> DEFINE e == [row[o] EXCEPT !.status = "Sent back", !.tracking = "back"]
  <2>1. e.status = "Sent back" /\ e.tracking = "back"
    BY <1>0 DEF Row
  <2>2. ClientCall(r, "sendBack", o, e, {})
    BY <1>6 DEF SendOrderByBuyer
  <2> HIDE DEF e
  <2>3. Begun(r, "sendBack", o, e, {}) /\ <<"sendBack", row[o].status>> \in Offered
    BY <1>1, <2>2
  <2>4. row[o].status = "Received"
    BY <2>3 DEF Offered
  <2>5. {"status", "tracking"} \subseteq DiffInTx("sendBack", e, row[o])
    BY <1>0, <2>1, <2>4 DEF DiffInTx, Diff, Columns, ColumnsFit
  <2>6. JobFits(req[r])'
    BY <1>2, <2>1, <2>3, <2>4, <2>5
    DEF Begun, JobFits, Path, EntityFits, Target, FineFits, ProductsFit, DirtyFits,
        Unsaved, Before, FirstStage, TxOps
  <2> QED  BY <1>2, <2>3, <2>6 DEF Begun, FirstStage, TxOps, Ops, ClientOps
<1>7. CASE ReturnOrder(r, o)
  <2> DEFINE e == [row[o] EXCEPT !.status = "Returned", !.tracking = "none"]
  <2>1. e.status = "Returned"
    BY <1>0 DEF Row
  <2>2. ClientCall(r, "return", o, e, ProductsOf[o])
    BY <1>7 DEF ReturnOrder
  <2> HIDE DEF e
  <2>3. Begun(r, "return", o, e, ProductsOf[o]) /\ <<"return", row[o].status>> \in Offered
    BY <1>1, <2>2
  <2>4. row[o].status = "Sent back"
    BY <2>3 DEF Offered
  <2>6. JobFits(req[r])'
    BY <1>2, <2>1, <2>3, <2>4
    DEF Begun, JobFits, Path, EntityFits, Target, FineFits, ProductsFit, DirtyFits,
        Unsaved, Before, FirstStage, TxOps
  <2> QED  BY <1>2, <2>3, <2>6 DEF Begun, FirstStage, TxOps, Ops, ClientOps
<1>8. CASE PaySendOrder(r, o)
  <2> DEFINE e == [row[o] EXCEPT !.tracking = "back"]
  <2>1. e.status = row[o].status /\ e.tracking = "back"
    BY <1>0 DEF Row
  <2>2. ClientCall(r, "paySend", o, e, {})
    BY <1>8 DEF PaySendOrder
  <2> HIDE DEF e
  <2>3. Begun(r, "paySend", o, e, {}) /\ <<"paySend", row[o].status>> \in Offered
    BY <1>1, <2>2
  <2>4. row[o].status = "Overdue"
    BY <2>3 DEF Offered
  <2>6. JobFits(req[r])'
    BY <1>2, <2>1, <2>3, <2>4
    DEF Begun, JobFits, Path, EntityFits, Target, FineFits, ProductsFit, DirtyFits,
        Unsaved, Before, FirstStage, TxOps
  <2> QED  BY <1>2, <2>3, <2>6 DEF Begun, FirstStage, TxOps, Ops, ClientOps
<1>9. CASE OverdueWebhook(r, o)
  <2> DEFINE e == [row[o] EXCEPT !.status = "Sent back"]
  <2>1. e.status = "Sent back" /\ e.tracking = row[o].tracking
    BY <1>0 DEF Row
  <2>2. Load(r, "setSentBack", o, e, {}) /\ o \in events
    BY <1>9 DEF OverdueWebhook
  <2> HIDE DEF e
  <2>3. Begun(r, "setSentBack", o, e, {})
    BY <2>2, LoadForm
  <2>4. row[o].status = "Overdue" /\ row[o].tracking = "back"
    BY <2>2 DEF FlowInv, SessionsWait
  <2>6. JobFits(req[r])'
    BY <1>2, <2>1, <2>3, <2>4
    DEF Begun, JobFits, Path, EntityFits, Target, FineFits, ProductsFit, DirtyFits,
        Unsaved, Before, FirstStage, TxOps
  <2> QED  BY <1>2, <2>3, <2>6 DEF Begun, FirstStage, TxOps, Ops, ClientOps
<1> QED
  BY <1>3, <1>4, <1>5, <1>6, <1>7, <1>8, <1>9 DEF Call

(***************************************************************************)
(* Handlers that go on                                                     *)
(***************************************************************************)

\* A handler in flight, or the overdue job with its copy of an order, goes on
Runs(w) ==
    \/ w \in Requests /\ Step(w)
    \/ w = Cron /\ (CompareWithRow(w) \/ UpdateRow(w) \/ LockWaitTimeout(w) \/ OverdueJobDone)

SameFree(w) == req'[w].free = req[w].free

SameDirty(w) == req'[w].dirty = req[w].dirty

\* ... and what of its record the stage changes
GoesTo(w) ==
    /\ req'[w].op = req[w].op /\ req'[w].order = req[w].order
    /\ req'[w].entity = req[w].entity
    /\ \/ /\ CompareWithRow(w) /\ req'[w].pc = "write" /\ SameFree(w)
          /\ req'[w].dirty = Diff(req[w].entity, row[req[w].order])
       \/ /\ UpdateRow(w) /\ SameFree(w)
          /\ req'[w].pc = AfterWrite(req[w].op) /\ req'[w].pc # "idle"
       \/ UpdateInTx(w) /\ req'[w].pc = "mail" /\ SameFree(w) /\ SameDirty(w)
       \/ /\ ProductsFreed(w) /\ SameFree(w) /\ SameDirty(w)
          /\ req'[w].pc = IF req[w].op = "reject" THEN "mail" ELSE "diff"
       \/ \E p \in Products :
             FreeProduct(w, p) /\ req'[w].pc = "free" /\ req'[w].free = req[w].free \ {p}
       \/ SessionCreated(w) /\ req'[w].pc = "notify" /\ SameFree(w)
       \/ MailSent(w) /\ req'[w].pc = "notify" /\ SameFree(w) /\ SameDirty(w)
       \/ /\ Notified(w) /\ SameFree(w) /\ SameDirty(w)
          /\ req'[w].pc = AfterNotify(req[w].op) /\ req'[w].pc # "idle"
       \/ /\ CheckIfOrdersAreSentOrRejected(w) /\ SameFree(w)
          /\ req'[w].pc = "settle" /\ AllSentOrRejected /\ req'[w].plan = SentOrders
       \/ TransferMoneyToVendor(w) /\ req'[w].pc = "commit" /\ SameFree(w) /\ SameDirty(w)

LEMMA RunForm ==
    ASSUME TypeOK, NEW w \in Workers, Runs(w)
    PROVE  /\ \A v \in Workers \ {w} : req'[v] = req[v]
           /\ req'[w] = Idle \/ GoesTo(w)
<1>0. req \in [Workers -> Request] /\ req[w] \in Request
  BY DEF TypeOK
<1>1. ASSUME Finish(w)
      PROVE  req'[w] = Idle /\ \A v \in Workers \ {w} : req'[v] = req[v]
  BY <1>0, <1>1 DEF Finish
<1>2. ASSUME NEW stage, Goto(w, stage)
      PROVE  /\ req'[w].pc = stage /\ SameFree(w) /\ SameDirty(w)
             /\ req'[w].op = req[w].op /\ req'[w].order = req[w].order
             /\ req'[w].entity = req[w].entity
             /\ \A v \in Workers \ {w} : req'[v] = req[v]
  BY <1>0, <1>2 DEF Goto, Request, SameFree, SameDirty
<1>3. CASE CompareWithRow(w)
  <2> DEFINE d == Diff(req[w].entity, row[req[w].order])
             s == [req[w] EXCEPT !.pc = "write", !.dirty = d]
  <2>1. /\ s.pc = "write" /\ s.dirty = d /\ s.op = req[w].op /\ s.order = req[w].order
        /\ s.entity = req[w].entity /\ s.free = req[w].free
    BY <1>0 DEF Request
  <2>2. req' = [req EXCEPT ![w] = s]
    BY <1>0, <1>3 DEF CompareWithRow
  <2> HIDE DEF s
  <2>3. req'[w] = s /\ \A v \in Workers \ {w} : req'[v] = req[v]
    BY <1>0, <2>2
  <2> QED  BY <1>3, <2>1, <2>3 DEF GoesTo, SameFree
<1>4. CASE CheckIfOrdersAreSentOrRejected(w)
  <2>1. CASE AllSentOrRejected
    <3> DEFINE s == [req[w] EXCEPT !.pc = "settle", !.plan = SentOrders]
    <3>1. /\ s.pc = "settle" /\ s.plan = SentOrders /\ s.op = req[w].op /\ s.order = req[w].order
          /\ s.entity = req[w].entity /\ s.free = req[w].free
      BY <1>0 DEF Request
    <3>2. req' = [req EXCEPT ![w] = s]
      BY <1>0, <1>4, <2>1 DEF CheckIfOrdersAreSentOrRejected
    <3> HIDE DEF s
    <3>3. req'[w] = s /\ \A v \in Workers \ {w} : req'[v] = req[v]
      BY <1>0, <3>2
    <3> QED  BY <1>4, <2>1, <3>1, <3>3 DEF GoesTo, SameFree
  <2>2. CASE ~AllSentOrRejected
    BY <1>1, <1>4, <2>2 DEF CheckIfOrdersAreSentOrRejected
  <2> QED  BY <2>1, <2>2
<1>5. ASSUME NEW p \in Products, FreeProduct(w, p)
      PROVE  GoesTo(w) /\ \A v \in Workers \ {w} : req'[v] = req[v]
  <2>1. /\ req'[w].free = req[w].free \ {p} /\ req'[w].pc = "free"
        /\ req'[w].op = req[w].op /\ req'[w].order = req[w].order
        /\ req'[w].entity = req[w].entity
        /\ \A v \in Workers \ {w} : req'[v] = req[v]
    BY <1>0, <1>5 DEF FreeProduct, Request
  <2> QED  BY <1>5, <2>1 DEF GoesTo
<1>6. CASE UpdateRow(w)
  BY <1>1, <1>2, <1>6 DEF UpdateRow, Advance, GoesTo
<1>7. CASE UpdateInTx(w)
  <2>1. AfterWrite(req[w].op) = "mail"
    BY <1>7 DEF UpdateInTx, AfterWrite, TxOps
  <2> QED  BY <1>2, <1>7, <2>1 DEF UpdateInTx, GoesTo
<1>8. CASE ProductsFreed(w)
  BY <1>2, <1>8 DEF ProductsFreed, GoesTo
<1>9. CASE SessionCreated(w)
  BY <1>1, <1>2, <1>9 DEF SessionCreated, GoesTo
<1>10. CASE MailSent(w)
  BY <1>2, <1>10 DEF MailSent, GoesTo
<1>11. CASE Notified(w)
  BY <1>1, <1>2, <1>11 DEF Notified, Advance, GoesTo
<1>12. CASE TransferMoneyToVendor(w)
  BY <1>2, <1>12 DEF TransferMoneyToVendor, GoesTo
<1>13. CASE \/ LockWaitTimeout(w) \/ Commit(w) \/ MailFails(w) \/ NotifyFails(w)
            \/ Settle(w) \/ SettleRefused(w) \/ FeeMissing(w)
  BY <1>1, <1>13 DEF LockWaitTimeout, Commit, MailFails, NotifyFails, Settle, SettleRefused,
     FeeMissing
<1>14. CASE w = Cron /\ OverdueJobDone
  BY <1>1, <1>14 DEF OverdueJobDone
<1> QED
  BY <1>3, <1>4, <1>5, <1>6, <1>7, <1>8, <1>9, <1>10, <1>11, <1>12, <1>13, <1>14 DEF Runs, Step

\* What else the stages change
LEMMA RunEffects ==
    ASSUME NEW w \in Workers, Runs(w)
    PROVE  /\ ~UpdateRow(w) /\ ~Commit(w) => row' = row
           /\ (\A p \in Products : ~FreeProduct(w, p)) => available' = available
           /\ available \subseteq available'
           /\ ~Settle(w) => captured' = captured /\ intent' = intent
           /\ ~TransferMoneyToVendor(w) => transfers' = transfers
           /\ ~MailSent(w) => rejectMail' = rejectMail
           /\ ~Notified(w) => sessions' = sessions
           /\ events' = events
           /\ batch' = batch \/ batch' = NothingLoaded
<1> USE DEF db, money, world
<1>1. CASE \/ CompareWithRow(w) \/ UpdateRow(w) \/ UpdateInTx(w) \/ LockWaitTimeout(w)
           \/ Commit(w) \/ ProductsFreed(w) \/ \E p \in Products : FreeProduct(w, p)
           \/ SessionCreated(w) \/ OverdueJobDone
  BY <1>1 DEF CompareWithRow, UpdateRow, UpdateInTx, LockWaitTimeout, Commit, ProductsFreed,
     FreeProduct, SessionCreated, OverdueJobDone
<1>2. CASE \/ MailSent(w) \/ MailFails(w) \/ Notified(w) \/ NotifyFails(w)
           \/ CheckIfOrdersAreSentOrRejected(w) \/ Settle(w) \/ SettleRefused(w)
           \/ TransferMoneyToVendor(w) \/ FeeMissing(w)
  BY <1>2 DEF MailSent, MailFails, Notified, NotifyFails, CheckIfOrdersAreSentOrRejected,
     Settle, SettleRefused, TransferMoneyToVendor, FeeMissing
<1> QED
  BY <1>1, <1>2 DEF Runs, Step

\* A save moves one order from a status its handler may find to its target
Saved(w) ==
    LET o == req[w].order
        op == req[w].op
    IN /\ op \in Ops /\ Unsaved(req[w])
       /\ \A x \in Orders \ {o} : row'[x] = row[x]
       /\ row[o].status \in Before(op) /\ row'[o].status = Target(op)
       /\ op = "send" => row'[o].tracking = "out"
       /\ op = "receive" => row'[o].tracking = "none"
       /\ op \in {"sendBack", "setSentBack", "paySend"} => row'[o].tracking = "back"

LEMMA SaveForm ==
    ASSUME TypeOK, NEW w \in Workers, JobFits(req[w]), UpdateRow(w) \/ Commit(w)
    PROVE  Saved(w)
<1> DEFINE o == req[w].order
           s == req[w]
<1>1. /\ s \in Request /\ o \in Orders /\ row \in [Orders -> Row] /\ s.op \in Ops \cup {"none"}
  BY DEF TypeOK, Request
<1>2. /\ s.pc \in {"write", "commit"}
      /\ row' = [row EXCEPT ![o] = Written(s.entity, s.dirty, row[o])]
  BY DEF UpdateRow, Commit, Store
<1>3. s.op \in Ops /\ (s.pc = "commit" => s.op \in TxOps)
  BY <1>1, <1>2 DEF JobFits, Path, TxOps
<1>4. Unsaved(s)
  BY <1>2, <1>3 DEF Unsaved
<1>5. EntityFits(s) /\ FineFits(s) /\ DirtyFits(s) /\ row[o].status \in Before(s.op)
  BY <1>2, <1>3, <1>4 DEF JobFits, Ops, ClientOps
<1>6. row'[o] = Written(s.entity, s.dirty, row[o]) /\ \A x \in Orders \ {o} : row'[x] = row[x]
  BY <1>1, <1>2
<1>7. row'[o].status = Target(s.op)
  <2>1. CASE s.op = "paySend"
    BY <1>5, <1>6, <2>1 DEF Written, EntityFits, Target, Before
  <2>2. CASE s.op # "paySend"
    BY <1>5, <1>6, <2>2 DEF Written, EntityFits, DirtyFits
  <2> QED  BY <2>1, <2>2
<1>8. /\ s.op = "send" => row'[o].tracking = "out"
      /\ s.op = "receive" => row'[o].tracking = "none"
      /\ s.op \in {"sendBack", "setSentBack", "paySend"} => row'[o].tracking = "back"
  BY <1>2, <1>3, <1>5, <1>6 DEF Written, EntityFits, DirtyFits, FineFits, TxOps
<1> QED
  BY <1>3, <1>4, <1>5, <1>6, <1>7, <1>8 DEF Saved

\* What saves do to the status of an order (OrderLifecycle)
LEMMA SavedMoves ==
    ASSUME NEW w \in Workers, Saved(w), NEW x \in Orders
    PROVE  \/ row'[x].status = row[x].status
           \/ <<row[x].status, row'[x].status>> \in Lifecycle!Moves
<1>1. CASE x # req[w].order
  BY <1>1 DEF Saved
<1>2. CASE x = req[w].order
  BY <1>2 DEF Saved, Before, Target, Lent, Ops, ClientOps, Lifecycle!Moves
<1> QED
  BY <1>1, <1>2

LEMMA MovesForward ==
    ASSUME NEW w \in Workers, Saved(w), NEW x \in Orders
    PROVE  /\ row'[x].status = "New order" => row[x].status = "New order"
           /\ row[x].status = "Rejected" => row'[x].status = "Rejected"
           /\ row'[x].status = "Rejected" => row[x].status \in {"New order", "Rejected"}
           /\ row'[x].status \in {"Sent", "Rejected"} =>
                 row[x].status \in {"New order", "Sent", "Rejected"}
BY SavedMoves DEF Lifecycle!Moves

\* The overdue job and the handler of an order bear each other's saves; no
\* other two workers have the same order
LEMMA OthersFit ==
    ASSUME TypeOK, FlowInv, NEW w \in Workers, \A v \in Workers \ {w} : req'[v] = req[v],
           UNCHANGED row \/ Saved(w), available \subseteq available',
           NEW v \in Workers \ {w}
    PROVE  JobFits(req[v])'
<1> DEFINE s == req[v]
           o == s.order
<1>0. /\ req'[v] = s /\ JobFits(s) /\ s \in Request /\ o \in Orders /\ JobFits(req[w])
      /\ s.op \in Ops \cup {"none"}
  BY DEF TypeOK, FlowInv, JobsFit, Request
<1>1. CASE s.op = "none"
  BY <1>0, <1>1 DEF JobFits
<1>2. CASE row'[o] = row[o] /\ s.op # "none"
  <2>1. EntityFits(s)' /\ FineFits(s)' /\ ProductsFit(s)'
    BY <1>0, <1>2 DEF JobFits, EntityFits, FineFits, ProductsFit
  <2> QED  BY <1>0, <1>2, <2>1 DEF JobFits, Unsaved, DirtyFits
<1>3. CASE row'[o] # row[o] /\ s.op # "none"
  <2>1. Saved(w) /\ req[w].order = o
    BY <1>0, <1>3 DEF Saved
  <2>2. req[w].op \in Ops /\ req[w].pc # "idle" /\ s.pc # "idle"
    BY <1>0, <1>3, <2>1 DEF Saved, JobFits, Path, Ops, ClientOps
  <2>3. w = Cron \/ v = Cron
    BY <2>1, <2>2 DEF FlowInv, OneHandler, Workers
  <2>4. EntityFits(s) /\ EntityFits(s)' /\ ProductsFit(s)'
    BY <1>0, <1>3 DEF JobFits, EntityFits, ProductsFit
  <2>5. CASE w = Cron
    <3>1. /\ req[w].op = "overdue" /\ row[o].status \in Lent /\ row'[o].status = "Overdue"
          /\ s.op \in Ops \ {"overdue"}
      BY <1>0, <1>3, <2>1, <2>2, <2>5
      DEF Saved, Before, Target, FlowInv, JobsFit, Roles, Workers, Ops, ClientOps
    <3>2. /\ s.op \notin {"reject", "receive", "paySend", "setSentBack"}
          /\ s.op = "send" => ~Unsaved(s)
      BY <1>0, <1>3, <3>1 DEF JobFits, Unsaved, Before, Path, Lent, TxOps
    <3>3. Unsaved(s) => s.op \in {"sendBack", "return"}
      BY <3>1, <3>2 DEF Ops, ClientOps
    <3> QED
      BY <1>0, <1>3, <2>4, <3>1, <3>2, <3>3 DEF JobFits, Unsaved, DirtyFits, FineFits, Before
  <2>6. CASE v = Cron
    <3>1. s.op = "overdue"
      BY <1>3, <2>6 DEF FlowInv, JobsFit, Roles
    <3>2. req[w].op \in Ops \ {"overdue"}
      BY <2>2, <2>6 DEF FlowInv, JobsFit, Roles, Workers
    <3>3. Unsaved(s) => row'[o].status \in Lent
      BY <1>0, <2>1, <3>1, <3>2 DEF JobFits, Saved, Before, Target, Lent, Ops, ClientOps
    <3> QED
      BY <1>0, <2>4, <3>1, <3>3 DEF JobFits, Unsaved, DirtyFits, FineFits, Before, TxOps
  <2> QED  BY <2>3, <2>5, <2>6
<1> QED
  BY <1>1, <1>2, <1>3

\* A handler that goes on finds what its next stage counts on
LEMMA OwnFits ==
    ASSUME TypeOK, FlowInv, NEW w \in Workers, Runs(w), GoesTo(w)
    PROVE  JobFits(req[w])'
<1> DEFINE s == req[w]
           t == req'[w]
           o == req[w].order
<1>0. /\ s \in Request /\ o \in Orders /\ JobFits(s) /\ ProductsOf[o] \subseteq Products
      /\ t.op = s.op /\ t.order = o /\ t.entity = s.entity
      /\ s.op \in Ops \cup {"none"}
  BY ConstantsAssumption DEF TypeOK, FlowInv, JobsFit, Request, GoesTo
<1>1. CASE CompareWithRow(w)
  <2>1. /\ s.pc = "diff" /\ UNCHANGED <<row, available>> /\ t.pc = "write" /\ t.free = s.free
        /\ t.dirty = Diff(s.entity, row[o])
    BY <1>1 DEF CompareWithRow, db, GoesTo, SameFree, UpdateRow, UpdateInTx, ProductsFreed,
       FreeProduct, SessionCreated, MailSent, Notified, CheckIfOrdersAreSentOrRejected,
       TransferMoneyToVendor
  <2>2. /\ s.op \in {"reject", "send", "return", "paySend", "setSentBack", "overdue"}
        /\ row[o].status \in Before(s.op) /\ EntityFits(s) /\ FineFits(s) /\ ProductsFit(s)
    BY <1>0, <2>1 DEF JobFits, Path, Unsaved, Ops, ClientOps
  <2>3. s.op # "paySend" => "status" \in t.dirty
    BY <2>1, <2>2 DEF Diff, Columns, EntityFits, Target, Before, Lent
  <2>4. s.op = "send" => "tracking" \in t.dirty
    BY <1>0, <2>1, <2>2 DEF Diff, Columns, EntityFits, Before, FlowInv, ColumnsFit
  <2>5. s.op = "paySend" => "tracking" \in t.dirty \/ row[o].tracking = "back"
    BY <2>1, <2>2 DEF Diff, Columns, EntityFits
  <2> QED
    BY <1>0, <2>1, <2>2, <2>3, <2>4, <2>5
    DEF JobFits, Path, Unsaved, EntityFits, DirtyFits, FineFits, ProductsFit, TxOps
<1>2. CASE UpdateRow(w)
  <2>1. s.pc = "write" /\ s.op \notin TxOps /\ available' = available /\ Saved(w)
    BY <1>0, <1>2, SaveForm DEF UpdateRow
  <2>2. t.pc = AfterWrite(s.op) /\ t.pc # "idle" /\ t.free = s.free
    BY <1>2, <2>1 DEF GoesTo, SameFree, CompareWithRow, UpdateInTx, ProductsFreed,
       FreeProduct, SessionCreated, MailSent, Notified, CheckIfOrdersAreSentOrRejected,
       TransferMoneyToVendor
  <2>3. /\ s.op \in {"reject", "send", "return", "paySend", "setSentBack", "overdue"}
        /\ EntityFits(s) /\ FineFits(s) /\ ProductsFit(s)
    BY <1>0, <2>1 DEF JobFits, Path, Unsaved, Ops, ClientOps, TxOps
  <2>4. s.op # "setSentBack"
    BY <2>2, <2>3 DEF AfterWrite, TxOps
  <2> QED
    BY <1>0, <2>1, <2>2, <2>3, <2>4
    DEF JobFits, Path, AfterWrite, Unsaved, EntityFits, FineFits, ProductsFit, Saved,
        Target, Before, TxOps
\* The other stages find the order as it is, and free what they free
<1>3. ASSUME s.pc \in {"free", "session", "mail", "notify", "check", "transfer"},
             t.pc \in Path(s.op) \ {"diff", "write", "free"}, UNCHANGED <<row, available>>,
             t.free = s.free, s.pc = "free" => s.free = {},
             s.op \in TxOps => t.dirty = s.dirty
      PROVE  JobFits(req[w])'
  <2>1. /\ s.op # "none" /\ EntityFits(s) /\ FineFits(s) /\ ProductsFit(s)
        /\ s.op \notin {"setSentBack", "overdue"}
    BY <1>0, <1>3 DEF JobFits, Path
  <2>2. Unsaved(s)' => Unsaved(s)
    BY <1>0, <1>3 DEF Unsaved
  <2>3. s.op = "reject" => ~Unsaved(s)
    BY <1>3 DEF Unsaved, TxOps
  <2>4. s.op = "paySend" => s.pc \in {"session", "notify"}
    BY <1>0, <1>3 DEF JobFits, Path
  <2> QED
    BY <1>0, <1>3, <2>1, <2>2, <2>3, <2>4 DEF JobFits, EntityFits, DirtyFits, FineFits, ProductsFit
<1>4. CASE UpdateInTx(w)
  <2>1. /\ s.pc = "write" /\ s.op \in TxOps /\ UNCHANGED <<row, available>> /\ t.pc = "mail"
        /\ t.dirty = s.dirty /\ t.free = s.free
    BY <1>4 DEF UpdateInTx, db, GoesTo, SameFree, SameDirty, CompareWithRow, UpdateRow, ProductsFreed,
       FreeProduct, SessionCreated, MailSent, Notified, CheckIfOrdersAreSentOrRejected,
       TransferMoneyToVendor
  <2> QED
    BY <1>0, <2>1 DEF JobFits, Path, Unsaved, EntityFits, DirtyFits, FineFits, ProductsFit, TxOps
<1>5. CASE ProductsFreed(w)
  <2>1. /\ s.pc = "free" /\ s.free = {} /\ UNCHANGED <<row, available>> /\ t.free = s.free
        /\ t.dirty = s.dirty /\ t.pc = IF s.op = "reject" THEN "mail" ELSE "diff"
    BY <1>5 DEF ProductsFreed, db, GoesTo, SameFree, SameDirty, CompareWithRow, UpdateRow, UpdateInTx,
       FreeProduct, SessionCreated, MailSent, Notified, CheckIfOrdersAreSentOrRejected,
       TransferMoneyToVendor
  <2>2. CASE s.op = "reject"
    BY <1>3, <2>1, <2>2 DEF Path, TxOps
  <2>3. CASE s.op # "reject"
    <3>1. s.op = "return"
      BY <1>0, <2>1, <2>3 DEF JobFits, Path, Ops, ClientOps
    <3> QED
      BY <1>0, <2>1, <3>1 DEF JobFits, Path, Unsaved, EntityFits, DirtyFits, FineFits, ProductsFit, TxOps
  <2> QED  BY <2>2, <2>3
<1>6. ASSUME NEW p \in Products, FreeProduct(w, p)
      PROVE  JobFits(req[w])'
  <2>1. s.pc = "free" /\ available' = available \cup {p} /\ row' = row
    BY <1>6 DEF FreeProduct
  <2>2. t.free = s.free \ {p} /\ t.pc = "free"
    BY <1>0, <1>6 DEF FreeProduct, Request, TypeOK
  <2>3. s.op \in {"reject", "return"}
    BY <1>0, <2>1 DEF JobFits, Path, Ops, ClientOps
  <2> QED
    BY <1>0, <2>1, <2>2, <2>3
    DEF JobFits, Path, Unsaved, EntityFits, DirtyFits, FineFits, ProductsFit, TxOps
<1>7. CASE SessionCreated(w) \/ CheckIfOrdersAreSentOrRejected(w)
  <2>1. /\ s.pc \in {"session", "check"} /\ UNCHANGED <<row, available>> /\ t.free = s.free
        /\ t.pc = IF s.pc = "session" THEN "notify" ELSE "settle"
    BY <1>7 DEF SessionCreated, CheckIfOrdersAreSentOrRejected, db, GoesTo, SameFree, CompareWithRow,
       UpdateRow, UpdateInTx, ProductsFreed, FreeProduct, MailSent, Notified, TransferMoneyToVendor
  <2>2. s.op \notin TxOps /\ t.pc \in Path(s.op) \ {"diff", "write", "free"}
    BY <1>0, <2>1 DEF JobFits, Path, TxOps, Ops, ClientOps
  <2> QED  BY <1>3, <2>1, <2>2
<1>8. CASE MailSent(w) \/ Notified(w) \/ TransferMoneyToVendor(w)
  <2>1. /\ s.pc \in {"mail", "notify", "transfer"} /\ UNCHANGED <<row, available>> /\ t.free = s.free
        /\ t.dirty = s.dirty
        /\ s.pc = "mail" => t.pc = "notify"
        /\ s.pc = "notify" => t.pc = AfterNotify(s.op) /\ t.pc # "idle"
        /\ s.pc = "transfer" => t.pc = "commit"
    BY <1>8 DEF MailSent, Notified, TransferMoneyToVendor, db, GoesTo, SameFree, SameDirty,
       CompareWithRow, UpdateRow, UpdateInTx, ProductsFreed, FreeProduct, SessionCreated,
       CheckIfOrdersAreSentOrRejected
  <2>2. t.pc \in Path(s.op) \ {"diff", "write", "free"}
    BY <1>0, <2>1 DEF JobFits, Path, AfterNotify, Ops, ClientOps
  <2> QED  BY <1>3, <2>1, <2>2
<1> QED
  BY <1>1, <1>2, <1>4, <1>5, <1>6, <1>7, <1>8 DEF GoesTo

\* Every stage is a stage of its operation
LEMMA RunStage ==
    ASSUME TypeOK, FlowInv, NEW w \in Workers, Runs(w)
    PROVE  /\ req[w].pc # "idle" /\ JobFits(req[w]) /\ req[w].order \in Orders
           /\ w \in Requests => req[w].op \in Ops \ {"overdue"}
           /\ w = Cron => req[w].op \in {"none", "overdue"}
           /\ req'[w] = Idle \/ (req'[w].op = req[w].op /\ req'[w].order = req[w].order)
<1>1. req[w].pc # "idle"
  BY DEF Runs, Step, CompareWithRow, UpdateRow, UpdateInTx, LockWaitTimeout, Commit, ProductsFreed,
     FreeProduct, SessionCreated, MailSent, MailFails, Notified, NotifyFails,
     CheckIfOrdersAreSentOrRejected, Settle, SettleRefused, TransferMoneyToVendor, FeeMissing,
     OverdueJobDone
<1>2. /\ JobFits(req[w]) /\ req[w].order \in Orders /\ req[w].op \in Ops \cup {"none"}
      /\ w \in Requests => req[w].op # "overdue" /\ req[w].pc # "scan"
      /\ w = Cron => req[w].op \in {"none", "overdue"}
  BY DEF TypeOK, Request, FlowInv, JobsFit, Roles
<1>3. w \in Requests => req[w].op # "none"
  BY <1>1, <1>2 DEF JobFits, Path
<1> QED
  BY <1>1, <1>2, <1>3, RunForm DEF GoesTo

LEMMA IdleJob == Idle.op = "none" /\ Idle.pc = "idle" /\ Idle.free = {}
BY DEF Idle

\* Only a check leads to the settlement
LEMMA SettleForm ==
    ASSUME TypeOK, FlowInv, NEW w \in Workers, Runs(w), req'[w].pc = "settle"
    PROVE  UNCHANGED row /\ AllSentOrRejected /\ req'[w].plan = SentOrders
<1>1. GoesTo(w)
  BY RunForm, IdleJob
<1>2. \A op : AfterWrite(op) # "settle" /\ AfterNotify(op) # "settle"
  BY DEF AfterWrite, AfterNotify
<1>3. CheckIfOrdersAreSentOrRejected(w) /\ AllSentOrRejected /\ req'[w].plan = SentOrders
  BY <1>1, <1>2 DEF GoesTo
<1> QED
  BY <1>3 DEF CheckIfOrdersAreSentOrRejected, db

LEMMA RowSaved ==
    ASSUME TypeOK, FlowInv, NEW w \in Workers, Runs(w)
    PROVE  UNCHANGED row \/ Saved(w)
BY RunEffects, RunStage, SaveForm

LEMMA JobsRun ==
    ASSUME TypeOK, FlowInv, NEW w \in Workers, Runs(w)
    PROVE  JobsFit' /\ OneHandler'
<1>0. /\ \A v \in Workers \ {w} : req'[v] = req[v]
      /\ req'[w] = Idle \/ GoesTo(w)
      /\ UNCHANGED row \/ Saved(w)
      /\ available \subseteq available'
  BY RunForm, RowSaved, RunEffects
<1>1. \A v \in Workers \ {w} : JobFits(req[v])'
  BY <1>0, OthersFit
<1>2. JobFits(req[w])'
  <2>1. CASE req'[w] = Idle
    BY <2>1, IdleJob DEF JobFits, Path
  <2> QED  BY <1>0, <2>1, OwnFits
<1>3. Roles'
  <2>1. w \in Requests => req'[w].op # "overdue"
    BY RunStage, IdleJob
  <2>2. w \in Requests => req'[w].pc # "scan"
    <3>1. \A op : (AfterWrite(op) = "scan" => op = "overdue") /\ AfterNotify(op) # "scan"
      BY DEF AfterWrite, AfterNotify, TxOps
    <3>2. GoesTo(w) /\ w \in Requests => req'[w].pc # "scan"
      BY <3>1, RunStage DEF GoesTo
    <3> QED  BY <1>0, <3>2, IdleJob
  <2>3. w = Cron => req'[w].op \in {"none", "overdue"}
    BY RunStage, IdleJob
  <2> QED  BY <1>0, <2>1, <2>2, <2>3 DEF FlowInv, JobsFit, Roles, Workers
<1>4. OneHandler'
  BY <1>0, RunStage, IdleJob DEF FlowInv, OneHandler, Workers
<1> QED
  BY <1>1, <1>2, <1>3, <1>4 DEF JobsFit

LEMMA RowsRun ==
    ASSUME TypeOK, FlowInv, NEW w \in Workers, Runs(w)
    PROVE  CopiesFit' /\ SessionsWait' /\ ColumnsFit'
<1> DEFINE o == req[w].order
<1>0. /\ \A v \in Workers \ {w} : req'[v] = req[v]
      /\ req'[w] = Idle \/ GoesTo(w)
      /\ UNCHANGED row \/ Saved(w)
      /\ batch' = batch \/ batch' = NothingLoaded
      /\ events' = events
  BY RunForm, RowSaved, RunEffects
<1>1. CopiesFit'
  <2>1. batch'.orders \subseteq batch.orders
    BY <1>0 DEF NothingLoaded
  <2>2. ASSUME NEW x \in batch.orders  PROVE row'[x].status \in Lent
    <3>1. row[x].status \in Lent /\ x \in Orders
      BY DEF FlowInv, CopiesFit, TypeOK
    <3>2. CASE row'[x] = row[x]
      BY <3>1, <3>2
    <3>3. CASE Saved(w) /\ x = o
      <4>1. w # Cron
        BY <3>3, RunStage DEF Saved, Unsaved, FlowInv, CopiesFit, TxOps, Ops
      <4> QED
        BY <3>1, <3>3, <4>1, RunStage DEF Saved, Before, Target, Lent, Workers, Ops, ClientOps
    <3> QED  BY <1>0, <3>1, <3>2, <3>3 DEF Saved
  <2>3. req'[Cron].pc \in {"diff", "write"} =>
            req[Cron].pc \in {"diff", "write"} /\ req'[Cron].order = req[Cron].order
    <3>1. CASE w = Cron
      BY <1>0, <3>1, RunStage, IdleJob DEF GoesTo, AfterWrite, AfterNotify, TxOps, CompareWithRow,
         ProductsFreed, JobFits, Path
    <3> QED  BY <1>0, <3>1 DEF Workers
  <2> QED  BY <2>1, <2>2, <2>3 DEF FlowInv, CopiesFit
<1>2. SessionsWait'
  <2>1. \A x \in sessions \cup events :
            row[x].status = "Overdue" /\ row[x].tracking = "back" /\ ~Busy(x) /\ x \in Orders
    BY DEF FlowInv, SessionsWait, TypeOK
  <2>2. \A x : ~Busy(x) => ~Busy(x)'
    BY <1>0, RunStage, IdleJob DEF Busy, Workers
  <2>3. ASSUME NEW x \in sessions \cup events  PROVE row'[x] = row[x]
    <3>1. CASE Saved(w) /\ x = o
      <4>1. w = Cron
        BY <2>1, <3>1, RunStage DEF Busy, Workers
      <4> QED  BY <2>1, <3>1, <4>1, RunStage DEF Saved, Before, Lent, Ops, ClientOps
    <3> QED  BY <1>0, <2>1, <3>1 DEF Saved
  <2>4. CASE sessions' = sessions
    BY <1>0, <2>1, <2>2, <2>3, <2>4 DEF FlowInv, SessionsWait
  <2>5. CASE sessions' # sessions
    <3>1. Notified(w) /\ req[w].op = "paySend" /\ sessions' = sessions \cup {o}
      BY <2>5, RunEffects DEF Notified
    <3>2. req'[w].pc = "idle" /\ w \in Requests
      BY <1>0, <3>1, RunStage, IdleJob DEF Notified, AfterNotify, Advance, Finish, TypeOK, Workers
    <3>3. row[o].status = "Overdue" /\ row[o].tracking = "back" /\ UNCHANGED row
      BY <3>1, RunStage DEF Notified, db, JobFits, FineFits, Unsaved, Before
    <3>4. Busy(o) /\ \A x : x = o => ~Busy(x)'
      <4>1. \A r \in Requests : r # w /\ req[r].pc # "idle" => req[r].order # o
        BY <3>2, RunStage DEF FlowInv, OneHandler
      <4>2. \A r \in Requests : ~(req'[r].pc # "idle" /\ req'[r].order = o)
        BY <1>0, <3>2, <4>1 DEF Workers
      <4>3. Busy(o)
        BY <3>2, RunStage DEF Busy
      <4>4. \A x : x = o => ~Busy(x)'
        BY <4>2 DEF Busy
      <4> QED  BY <4>3, <4>4
    <3> QED  BY <1>0, <2>1, <2>2, <3>1, <3>3, <3>4 DEF FlowInv, SessionsWait
  <2> QED  BY <2>4, <2>5
<1>3. ColumnsFit'
  <2>1. CASE UNCHANGED row
    BY <2>1 DEF FlowInv, ColumnsFit
  <2>2. CASE Saved(w)
    BY <2>2 DEF Saved, Target, FlowInv, ColumnsFit, Ops, ClientOps
  <2> QED  BY <1>0, <2>1, <2>2
<1> QED
  BY <1>1, <1>2, <1>3

\* A plan that has been made stays right until it is settled
LEMMA PlansRun ==
    ASSUME TypeOK, FlowInv, NEW w \in Workers, Runs(w)
    PROVE  PlansFit'
<1>0. /\ \A v \in Workers \ {w} : req'[v] = req[v]
      /\ UNCHANGED row \/ Saved(w)
  BY RunForm, RowSaved
<1> SUFFICES ASSUME NEW r \in Requests, req'[r].pc = "settle"
             PROVE  /\ \A o \in Orders : row'[o].status # "New order"
                    /\ req'[r].plan = {o \in Orders : row'[o].status # "Rejected"}
  BY DEF PlansFit
<1>1. CASE r = w
  <2>1. UNCHANGED row /\ AllSentOrRejected /\ req'[r].plan = SentOrders
    BY <1>1, SettleForm
  <2> QED  BY <2>1 DEF AllSentOrRejected, SentOrders
<1>2. CASE r # w
  <2>1. /\ \A o \in Orders : row[o].status # "New order"
        /\ req'[r].plan = {o \in Orders : row[o].status # "Rejected"}
    BY <1>0, <1>2 DEF FlowInv, PlansFit, Workers
  <2>2. \A o \in Orders : /\ row'[o].status = "New order" => row[o].status = "New order"
                          /\ row[o].status = "Rejected" => row'[o].status = "Rejected"
                          /\ row'[o].status = "Rejected" => row[o].status \in {"New order", "Rejected"}
    BY <1>0, MovesForward
  <2> QED  BY <2>1, <2>2
<1> QED
  BY <1>1, <1>2

LEMMA ChargesRun ==
    ASSUME TypeOK, FlowInv, NEW w \in Workers, Runs(w)
    PROVE  ChargesFit'
<1>0. UNCHANGED row \/ Saved(w)
  BY RowSaved
<1>1. \A o \in Orders : /\ row'[o].status = "New order" => row[o].status = "New order"
                        /\ row[o].status = "Rejected" => row'[o].status = "Rejected"
                        /\ row'[o].status = "Rejected" => row[o].status \in {"New order", "Rejected"}
  BY <1>0, MovesForward
<1>2. captured \subseteq Orders /\ rejectMail \subseteq Orders
  BY DEF TypeOK
<1>3. \A o \in captured' : row'[o].status \notin {"New order", "Rejected"}
  <2>1. CASE captured' = captured
    BY <1>1, <1>2, <2>1 DEF FlowInv, ChargesFit
  <2>2. CASE Settle(w)
    <3>1. req[w].pc = "settle" /\ captured' = req[w].plan /\ UNCHANGED row
      BY <2>2 DEF Settle, db
    <3>2. w \in Requests
      BY <3>1, RunStage DEF JobFits, Path, Workers
    <3> QED  BY <3>1, <3>2 DEF FlowInv, PlansFit
  <2> QED  BY <2>1, <2>2, RunEffects
<1>4. \A o \in rejectMail' : row'[o].status = "Rejected"
  <2>1. CASE rejectMail' = rejectMail
    BY <1>1, <1>2, <2>1 DEF FlowInv, ChargesFit
  <2>2. CASE MailSent(w)
    <3>1. /\ req[w].pc = "mail" /\ UNCHANGED row
          /\ \/ rejectMail' = rejectMail
             \/ req[w].op = "reject" /\ rejectMail' = rejectMail \cup {req[w].order}
      BY <2>2 DEF MailSent, db
    <3>2. req[w].op = "reject" => row[req[w].order].status = "Rejected"
      BY <3>1, RunStage DEF JobFits, Unsaved, TxOps
    <3> QED  BY <3>1, <3>2 DEF FlowInv, ChargesFit
  <2> QED  BY <2>1, <2>2, RunEffects
<1> QED
  BY <1>3, <1>4 DEF ChargesFit

\* From the transfer to the commit nobody else has the order
LEMMA TransfersRun ==
    ASSUME TypeOK, FlowInv, NEW w \in Workers, Runs(w)
    PROVE  TransfersFit'
<1> DEFINE o == req[w].order
<1>0. /\ \A v \in Workers \ {w} : req'[v] = req[v]
      /\ UNCHANGED row \/ Saved(w)
      /\ transfers \in [Orders -> Nat]
  BY RunForm, RowSaved DEF TypeOK
<1>1. \A x \in Orders : row'[x].status \in {"New order", "Sent", "Rejected"} =>
                            row[x].status \in {"New order", "Sent", "Rejected"}
  BY <1>0, MovesForward
<1>2. ASSUME NEW x \in Orders, NEW r \in Requests, r # w, req[r].pc = "commit",
             req[r].op = "receive", req[r].order = x
      PROVE  \E q \in Requests : /\ req'[q].pc = "commit" /\ req'[q].op = "receive"
                                 /\ req'[q].order = x
  BY <1>0, <1>2 DEF Workers
<1>3. ASSUME req[w].pc = "commit", req[w].op = "receive"
      PROVE  row'[o].status = "Received"
  <2>1. Commit(w)
    BY <1>3 DEF Runs, Step, CompareWithRow, UpdateRow, UpdateInTx, LockWaitTimeout, Commit,
       ProductsFreed, FreeProduct, SessionCreated, MailSent, MailFails, Notified, NotifyFails,
       CheckIfOrdersAreSentOrRejected, Settle, SettleRefused, TransferMoneyToVendor, FeeMissing,
       OverdueJobDone
  <2>2. Saved(w)
    BY <2>1, RunStage, SaveForm
  <2> QED  BY <1>3, <2>2 DEF Saved, Target
<1> SUFFICES ASSUME NEW x \in Orders
             PROVE  \/ transfers'[x] = 0
                    \/ /\ transfers'[x] = 1
                       /\ \/ row'[x].status \notin {"New order", "Sent", "Rejected"}
                          \/ \E q \in Requests : /\ req'[q].pc = "commit" /\ req'[q].op = "receive"
                                                 /\ req'[q].order = x
  BY DEF TransfersFit, Committing
<1>4. \/ transfers[x] = 0
      \/ /\ transfers[x] = 1
         /\ \/ row[x].status \notin {"New order", "Sent", "Rejected"}
            \/ \E q \in Requests : /\ req[q].pc = "commit" /\ req[q].op = "receive"
                                   /\ req[q].order = x
  BY DEF FlowInv, TransfersFit, Committing
<1>5. CASE transfers'[x] = transfers[x]
  BY <1>1, <1>2, <1>3, <1>4, <1>5
<1>6. CASE transfers'[x] # transfers[x]
  <2>1. TransferMoneyToVendor(w)
    BY <1>6, RunEffects
  <2>2. /\ req[w].pc = "transfer" /\ req'[w].pc = "commit" /\ x = o
        /\ transfers'[x] = transfers[x] + 1 /\ req'[w].op = req[w].op /\ req'[w].order = x
    <3>1. /\ req[w].pc = "transfer" /\ Goto(w, "commit")
          /\ transfers' = [transfers EXCEPT ![o] = @ + 1]
      BY <1>6, <2>1 DEF TransferMoneyToVendor
    <3>2. req'[w].pc = "commit" /\ req'[w].op = req[w].op /\ req'[w].order = req[w].order
      BY <3>1 DEF Goto, TypeOK, Request
    <3>3. x = o /\ transfers'[x] = transfers[x] + 1
      BY <1>0, <1>6, <3>1
    <3> QED  BY <3>1, <3>2, <3>3
  <2>3. req[w].op = "receive" /\ w \in Requests
    BY <2>2, RunStage DEF JobFits, Path, Ops, ClientOps, Workers
  <2>4. row[x].status = "Sent"
    BY <2>2, <2>3, RunStage DEF JobFits, Unsaved, TxOps, Before
  <2>5. \A q \in Requests : ~(req[q].pc = "commit" /\ req[q].order = x)
    BY <2>2, <2>3 DEF FlowInv, OneHandler
  <2>6. transfers[x] = 0
    BY <1>4, <2>4, <2>5
  <2>7. transfers'[x] = 1
    BY <2>2, <2>6
  <2>8. /\ w \in Requests /\ req'[w].pc = "commit" /\ req'[w].op = "receive"
        /\ req'[w].order = x
    BY <2>2, <2>3
  <2> QED  BY <2>7, <2>8
<1> QED
  BY <1>5, <1>6

\* Products of a finished order are free, or the handler that finished it still
\* has them to free
LEMMA FinishedRun ==
    ASSUME TypeOK, FlowInv, NEW w \in Workers, Runs(w)
    PROVE  FinishedOrderFreesProducts'
<1> DEFINE o == req[w].order
           s == req[w]
<1>0. /\ \A v \in Workers \ {w} : req'[v] = req[v]
      /\ req'[w] = Idle \/ GoesTo(w)
      /\ available \subseteq available'
      /\ s \in Request /\ JobFits(s) /\ o \in Orders
      /\ s.op \notin {"none", "overdue"} => w \in Requests
  BY RunForm, RunEffects, RunStage DEF TypeOK, Workers
<1>1. GoesTo(w) => /\ req'[w].order = o
                   /\ s.free \subseteq req'[w].free \cup available'
                   /\ s.pc = "write" => req'[w].free = s.free
  BY <1>0 DEF GoesTo, SameFree, FreeProduct, ProductsFreed, CompareWithRow, UpdateRow, UpdateInTx
<1>2. s.pc = "free" => req'[w] # Idle
  <2>1. ASSUME s.pc = "free"
        PROVE  ProductsFreed(w) \/ \E p \in Products : FreeProduct(w, p)
    BY <2>1 DEF Runs, Step, CompareWithRow, UpdateRow, UpdateInTx, LockWaitTimeout, Commit,
       SessionCreated, MailSent, MailFails, Notified, NotifyFails,
       CheckIfOrdersAreSentOrRejected, Settle, SettleRefused, TransferMoneyToVendor, FeeMissing,
       OverdueJobDone
  <2>2. ProductsFreed(w) => req'[w].pc # "idle"
    BY DEF ProductsFreed, Goto, TypeOK, Request
  <2>3. (\E p \in Products : FreeProduct(w, p)) => req'[w].pc # "idle"
    BY DEF FreeProduct, TypeOK, Request
  <2> QED  BY <2>1, <2>2, <2>3, IdleJob
<1> SUFFICES ASSUME NEW x \in Orders, row'[x].status \in {"Rejected", "Returned"},
                    NEW p \in ProductsOf[x]
             PROVE  \/ p \in available'
                    \/ \E r \in Requests : req'[r].order = x /\ p \in req'[r].free
  BY DEF FinishedOrderFreesProducts
<1>3. CASE row'[x] = row[x]
  <2>1. \/ p \in available
        \/ \E r \in Requests : req[r].order = x /\ p \in req[r].free
    BY <1>3 DEF FlowInv, FinishedOrderFreesProducts
  <2>2. CASE p \in available
    BY <1>0, <2>2
  <2>3. ASSUME NEW r \in Requests, req[r].order = x, p \in req[r].free
        PROVE  \/ p \in available'
               \/ \E q \in Requests : req'[q].order = x /\ p \in req'[q].free
    <3>1. CASE r # w
      BY <1>0, <2>3, <3>1 DEF Workers
    <3>2. CASE r = w /\ GoesTo(w)
      BY <1>1, <2>3, <3>2
    <3>3. CASE r = w /\ req'[w] = Idle
      <4>1. s.pc # "free" /\ x = o /\ s.free # {}
        BY <1>2, <2>3, <3>3
      <4>2. s.op = "reject" /\ s.pc \in {"diff", "write"}
        BY <1>0, <4>1 DEF JobFits, ProductsFit, Path
      <4> QED  BY <1>0, <1>3, <4>1, <4>2 DEF JobFits, Unsaved, Before
    <3> QED  BY <1>0, <3>1, <3>2, <3>3
  <2> QED  BY <2>1, <2>2, <2>3
<1>4. CASE row'[x] # row[x]
  <2>1. (UpdateRow(w) \/ Commit(w)) /\ Saved(w) /\ x = o
    <3>1. UpdateRow(w) \/ Commit(w)
      BY <1>4, RunEffects
    <3> QED  BY <1>0, <1>4, <3>1, SaveForm DEF Saved
  <2>2. s.op \in {"reject", "return"} /\ w \in Requests
    BY <1>0, <2>1 DEF Saved, Target, Ops, ClientOps
  <2>3. s.pc = "write" /\ ProductsFit(s)
    BY <1>0, <2>1, <2>2 DEF UpdateRow, Commit, JobFits, Path
  <2>4. CASE s.op = "return"
    BY <1>0, <2>1, <2>3, <2>4 DEF ProductsFit
  <2>5. CASE s.op = "reject"
    <3>1. Goto(w, "free")
      BY <2>1, <2>3, <2>5 DEF UpdateRow, Commit, Advance, AfterWrite, TxOps
    <3>2. req'[w].pc = "free"
      BY <3>1 DEF Goto, TypeOK, Request
    <3> QED  BY <1>0, <1>1, <2>1, <2>2, <2>3, <2>5, <3>2, IdleJob DEF ProductsFit
  <2> QED  BY <2>2, <2>4, <2>5
<1> QED
  BY <1>3, <1>4

LEMMA FlowRun ==
    ASSUME TypeOK, FlowInv, NEW w \in Workers, Runs(w)
    PROVE  FlowInv'
BY JobsRun, RowsRun, PlansRun, ChargesRun, TransfersRun, FinishedRun DEF FlowInv

(***************************************************************************)
(* Handlers, payments and visits of the job that begin                     *)
(***************************************************************************)

LEMMA FlowStart ==
    ASSUME Orderly, TypeOK, FlowInv, NEW r \in Requests, NEW o \in Orders,
           Call(r, o) \/ OverdueWebhook(r, o)
    PROVE  FlowInv'
<1>1. /\ req[r].pc = "idle" /\ \A v \in Workers \ {r} : req'[v] = req[v]
      /\ UNCHANGED <<row, available, captured, transfers, rejectMail, batch, sessions>>
      /\ events' \subseteq events /\ o \notin sessions \cup events' /\ ~Busy(o)
      /\ req'[r].order = o /\ req'[r].op \in Ops \ {"overdue"}
      /\ req'[r].pc \in {"diff", "write", "free"} /\ JobFits(req[r])'
      /\ r \in Workers /\ r # Cron
  BY StartForm, ConstantsAssumption DEF Workers
<1>2. req[r].op = "none"
  BY <1>1 DEF FlowInv, JobsFit, JobFits, Path, TypeOK, Request, Ops, ClientOps
<1>3. JobsFit'
  <2>1. ASSUME NEW v \in Workers \ {r}  PROVE JobFits(req[v])'
    <3>1. JobFits(req[v]) /\ req'[v] = req[v]
      BY <1>1 DEF FlowInv, JobsFit
    <3> QED  BY <1>1, <3>1 DEF JobFits, Unsaved, EntityFits, DirtyFits, FineFits, ProductsFit
  <2>2. Roles'
    BY <1>1 DEF FlowInv, JobsFit, Roles, Workers
  <2> QED  BY <1>1, <2>1, <2>2 DEF JobsFit
<1>4. OneHandler'
  <2>1. \A q \in Requests : req[q].pc # "idle" => req[q].order # o
    BY <1>1 DEF Busy
  <2> QED  BY <1>1, <2>1 DEF FlowInv, OneHandler, Workers
<1>5. CopiesFit'
  BY <1>1 DEF FlowInv, CopiesFit, Workers
<1>6. SessionsWait'
  <2>1. \A x : ~Busy(x) /\ x # o => ~Busy(x)'
    BY <1>1 DEF Busy, Workers
  <2> QED  BY <1>1, <2>1 DEF FlowInv, SessionsWait
<1>7. PlansFit' /\ ColumnsFit' /\ ChargesFit'
  BY <1>1 DEF FlowInv, PlansFit, ColumnsFit, ChargesFit, Workers
<1>8. TransfersFit'
  <2>1. \A x : Committing(x) => Committing(x)'
    BY <1>1 DEF Committing, Workers
  <2> QED  BY <1>1, <2>1 DEF FlowInv, TransfersFit
<1>9. FinishedOrderFreesProducts'
  <2>1. req[r].free = {}
    BY <1>1, <1>2 DEF FlowInv, JobsFit, JobFits
  <2> QED  BY <1>1, <2>1 DEF FlowInv, FinishedOrderFreesProducts, Workers
<1> QED
  BY <1>3, <1>4, <1>5, <1>6, <1>7, <1>8, <1>9 DEF FlowInv

LEMMA FlowPayFine ==
    ASSUME FlowInv, NEW o \in Orders, PayFine(o)
    PROVE  FlowInv'
<1>1. /\ UNCHANGED <<row, available, captured, transfers, rejectMail, req, batch>>
      /\ o \in sessions /\ sessions' = sessions \ {o} /\ events' = events \cup {o}
  BY DEF PayFine, db, money
<1>2. JobsFit'
  BY <1>1 DEF FlowInv, JobsFit, JobFits, Roles, Unsaved, EntityFits, DirtyFits, FineFits, ProductsFit
<1>3. SessionsWait'
  <2>1. \A x : Busy(x)' = Busy(x)
    BY <1>1 DEF Busy
  <2> QED  BY <1>1, <2>1 DEF FlowInv, SessionsWait
<1>4. \A x : Committing(x)' = Committing(x)
  BY <1>1 DEF Committing
<1> QED
  BY <1>1, <1>2, <1>3, <1>4 DEF FlowInv, OneHandler, CopiesFit, ColumnsFit, PlansFit, ChargesFit,
     TransfersFit, FinishedOrderFreesProducts

\* What the overdue job loads and visits is its own
LEMMA JobMoves ==
    ASSUME FlowInv, UNCHANGED <<db, money, world>>,
           \A v \in Workers \ {Cron} : req'[v] = req[v],
           JobFits(req[Cron])', req'[Cron].op \in {"none", "overdue"}, CopiesFit'
    PROVE  FlowInv'
<1>1. /\ UNCHANGED <<row, available, captured, transfers, rejectMail, sessions, events>>
      /\ \A r \in Requests : req'[r] = req[r]
  BY ConstantsAssumption DEF db, money, world, Workers
<1>2. JobsFit'
  <2>1. ASSUME NEW v \in Workers \ {Cron}  PROVE JobFits(req[v])'
    <3>1. JobFits(req[v]) /\ req'[v] = req[v]
      BY DEF FlowInv, JobsFit
    <3> QED  BY <1>1, <3>1 DEF JobFits, Unsaved, EntityFits, DirtyFits, FineFits, ProductsFit
  <2>2. Roles'
    BY <1>1 DEF FlowInv, JobsFit, Roles
  <2> QED  BY <2>1, <2>2 DEF JobsFit
<1>3. SessionsWait'
  <2>1. \A x : Busy(x)' = Busy(x)
    BY <1>1 DEF Busy
  <2> QED  BY <1>1, <2>1 DEF FlowInv, SessionsWait
<1>4. \A x : Committing(x)' = Committing(x)
  BY <1>1 DEF Committing
<1>5. OneHandler' /\ PlansFit'
  BY <1>1 DEF FlowInv, OneHandler, PlansFit
<1>6. FinishedOrderFreesProducts'
  BY <1>1 DEF FlowInv, FinishedOrderFreesProducts
<1>7. ColumnsFit' /\ ChargesFit' /\ TransfersFit'
  BY <1>1, <1>4 DEF FlowInv, ColumnsFit, ChargesFit, TransfersFit
<1> QED
  BY <1>2, <1>3, <1>5, <1>6, <1>7 DEF FlowInv

LEMMA FlowOverdueJob ==
    ASSUME TypeOK, FlowInv, NEW o \in Orders,
           HandleOverdueOrders \/ MarkOverdue(o) \/ SkipOrder(o)
    PROVE  FlowInv'
<1>0. /\ JobFits(req[Cron]) /\ CopiesFit /\ req[Cron].op \in {"none", "overdue"}
      /\ req \in [Workers -> Request] /\ Cron \in Workers
  BY DEF FlowInv, JobsFit, Roles, Workers, TypeOK
<1>1. CASE HandleOverdueOrders
  <2>1. /\ UNCHANGED <<db, money, world>> /\ req[Cron].pc = "idle" /\ Goto(Cron, "scan")
        /\ batch'.orders = {x \in Orders : row[x].status = "Received"}
    BY <1>1 DEF HandleOverdueOrders, ReceivedOrders
  <2>2. req[Cron].op = "none"
    BY <1>0, <2>1 DEF JobFits, Path
  <2>3. /\ \A v \in Workers \ {Cron} : req'[v] = req[v]
        /\ req'[Cron].pc = "scan" /\ req'[Cron].op = "none" /\ req'[Cron].free = req[Cron].free
    BY <1>0, <2>1, <2>2 DEF Goto, Request
  <2>4. JobFits(req[Cron])'
    BY <1>0, <2>2, <2>3 DEF JobFits, Path
  <2>5. CopiesFit'
    BY <2>1, <2>3 DEF CopiesFit, Lent, db
  <2> QED  BY <2>1, <2>3, <2>4, <2>5, JobMoves
<1>2. CASE MarkOverdue(o)
  <2> DEFINE e == [batch.rows[o] EXCEPT !.status = "Overdue"]
             s == [Idle EXCEPT !.pc = "diff", !.op = "overdue", !.order = o, !.entity = e]
  <2>1. e.status = "Overdue"
    BY DEF TypeOK, Row
  <2>2. /\ s.pc = "diff" /\ s.op = "overdue" /\ s.order = o /\ s.entity = e /\ s.free = {}
    BY DEF Idle
  <2>3. /\ UNCHANGED <<db, money, world>> /\ o \in batch.orders /\ req' = [req EXCEPT ![Cron] = s]
        /\ batch'.orders = batch.orders \ {o}
    BY <1>2 DEF MarkOverdue
  <2> HIDE DEF s, e
  <2>4. req'[Cron] = s /\ \A v \in Workers \ {Cron} : req'[v] = req[v]
    BY <1>0, <2>3
  <2>5. row[o].status \in Lent /\ row' = row
    BY <1>0, <2>3 DEF CopiesFit, db
  <2>6. JobFits(req[Cron])'
    BY <2>1, <2>2, <2>4, <2>5
    DEF JobFits, Path, EntityFits, Target, FineFits, ProductsFit, Unsaved, Before, TxOps
  <2>7. CopiesFit'
    BY <1>0, <2>2, <2>3, <2>4, <2>5 DEF CopiesFit
  <2> QED  BY <2>2, <2>3, <2>4, <2>6, <2>7, JobMoves
<1>3. CASE SkipOrder(o)
  <2>1. UNCHANGED <<db, money, world, row, req, available>> /\ batch'.orders = batch.orders \ {o}
    BY <1>3 DEF SkipOrder, db
  <2>2. JobFits(req[Cron])'
    BY <1>0, <2>1 DEF JobFits, Unsaved, EntityFits, DirtyFits, FineFits, ProductsFit
  <2>3. CopiesFit'
    BY <1>0, <2>1 DEF CopiesFit
  <2> QED  BY <1>0, <2>1, <2>2, <2>3, JobMoves
<1> QED
  BY <1>1, <1>2, <1>3

(***************************************************************************)
(* Every step                                                              *)
(***************************************************************************)

\* A process that stays up does one of these
LEMMA OrderlySteps ==
    ASSUME Orderly, Next
    PROVE  \/ \E r \in Requests, o \in Orders : Call(r, o) \/ OverdueWebhook(r, o)
           \/ \E o \in Orders : PayFine(o)
           \/ \E w \in Workers : Runs(w)
           \/ \E o \in Orders : HandleOverdueOrders \/ MarkOverdue(o) \/ SkipOrder(o)
<1>1. ~Crash
  BY DEF Orderly, Crash
<1>2. HandleOverdueOrders => \E o \in Orders : HandleOverdueOrders
  BY ConstantsAssumption
<1>3. ASSUME NEW r \in Requests, Step(r)
      PROVE  \E w \in Workers : Runs(w)
  BY <1>3 DEF Runs, Workers
<1>4. CronStep => \/ \E w \in Workers : Runs(w)
                  \/ \E o \in Orders : MarkOverdue(o) \/ SkipOrder(o)
  BY DEF CronStep, Runs, Workers
<1> QED
  BY <1>1, <1>2, <1>3, <1>4 DEF Next

LEMMA FlowInit == Init => FlowInv
<1> SUFFICES ASSUME Init  PROVE FlowInv
  OBVIOUS
<1>1. /\ \A o \in Orders : row[o] = BlankRow /\ transfers[o] = 0
      /\ captured = {} /\ rejectMail = {} /\ sessions = {} /\ events = {} /\ batch.orders = {}
      /\ \A w \in Workers : req[w] = Idle
      /\ BlankRow.status = "New order" /\ BlankRow.tracking = "none"
  BY DEF Init, NothingLoaded, BlankRow
<1>2. JobsFit /\ OneHandler
  BY <1>1, IdleJob DEF JobsFit, JobFits, Path, Roles, OneHandler, Workers
<1>3. CopiesFit /\ SessionsWait /\ ColumnsFit /\ PlansFit /\ ChargesFit /\ TransfersFit
  BY <1>1, IdleJob DEF CopiesFit, SessionsWait, ColumnsFit, PlansFit, ChargesFit, TransfersFit, Workers
<1>4. FinishedOrderFreesProducts
  BY <1>1 DEF FinishedOrderFreesProducts
<1> QED
  BY <1>2, <1>3, <1>4 DEF FlowInv

LEMMA FlowNext ==
    ASSUME Orderly, TypeOK, FlowInv, [Next]_vars
    PROVE  FlowInv'
<1>1. CASE Next
  BY <1>1, OrderlySteps, FlowStart, FlowPayFine, FlowRun, FlowOverdueJob
<1>2. CASE UNCHANGED vars
  <2>1. /\ UNCHANGED <<db, money, world, row, available, req, batch>>
    BY <1>2 DEF vars, db
  <2>2. JobFits(req[Cron])'
    BY <2>1 DEF FlowInv, JobsFit, Workers, JobFits, Unsaved, EntityFits, DirtyFits, FineFits, ProductsFit
  <2>3. CopiesFit'
    BY <2>1 DEF FlowInv, CopiesFit
  <2> QED  BY <2>1, <2>2, <2>3, JobMoves DEF FlowInv, JobsFit, Roles
<1> QED
  BY <1>1, <1>2

LEMMA FlowAlways ==
    ASSUME Orderly
    PROVE  Spec => [](TypeOK /\ FlowInv)
<1>1. Init => FlowInv
  BY FlowInit
<1>2. Orderly /\ TypeOK /\ FlowInv /\ [Next]_vars => FlowInv'
  BY FlowNext
<1> QED
  BY <1>1, <1>2, TypeCorrect, PTL DEF Spec

(***************************************************************************)
(* Theorems                                                                *)
(***************************************************************************)

\* Receiving an order may fail and be tried again, but once its transfer is made
\* nothing is left that can fail before the commit: the vendor is paid once
\* (receiveOrderByBuyer)
THEOREM PaidOnceCorrect ==
    ASSUME Orderly
    PROVE  Spec => []VendorPaidOnce
<1>1. FlowInv => VendorPaidOnce
  <2>1. FlowInv => \A o \in Orders : transfers[o] \in {0, 1}
    BY DEF FlowInv, TransfersFit
  <2>2. 0 <= 1 /\ 1 <= 1
    OBVIOUS
  <2> QED  BY <2>1, <2>2 DEF VendorPaidOnce
<1> QED
  BY <1>1, FlowAlways, PTL

\* The rejection is stored before it is mailed and stays stored, and what is
\* captured was no rejected order when the plan was made, nor later: the buyer
\* does not pay for an order whose rejection was mailed (rejectOrder,
\* checkIfOrdersAreSentOrRejected, captureMoney)
THEOREM RejectedCorrect ==
    ASSUME Orderly
    PROVE  Spec => []RejectedOrderNotCharged
<1>1. FlowInv => RejectedOrderNotCharged
  BY DEF FlowInv, ChargesFit, RejectedOrderNotCharged
<1> QED
  BY <1>1, FlowAlways, PTL

\* No save, also not one of the overdue job's stale copy, leaves an order under
\* way with the number of another parcel (sendOrderByVendor, sendOrderByBuyer,
\* paySendOrder, setSentBack, handleOverdueOrders)
THEOREM TrackingCorrect ==
    ASSUME Orderly
    PROVE  Spec => []TrackingMatchesParcel
<1>1. FlowInv => TrackingMatchesParcel
  BY DEF FlowInv, ColumnsFit, TrackingMatchesParcel
<1> QED
  BY <1>1, FlowAlways, PTL

\* A returned order was saved after its products, a rejected one before: either
\* they are available or the handler that rejected it still has them to free
\* (rejectOrder, returnOrder)
THEOREM FinishedCorrect ==
    ASSUME Orderly
    PROVE  Spec => []FinishedOrderFreesProducts
<1>1. FlowInv => FinishedOrderFreesProducts
  BY DEF FlowInv
<1> QED
  BY <1>1, FlowAlways, PTL

(***************************************************************************)
(* The handlers implement OrderLifecycle: what clients see of an order is  *)
(* its status, and of the money the intent and the captured orders         *)
(***************************************************************************)

Shown == [o \in Orders |-> row[o].status]

\* Only a save shows, as one move of one order
LEMMA SaveIsMove ==
    ASSUME TypeOK, FlowInv, NEW w \in Workers, Saved(w), UNCHANGED <<intent, captured>>
    PROVE  Lifecycle!Next \/ Shown' = Shown
<1>1. PICK o \in Orders : o = req[w].order
  BY DEF TypeOK, Request
<1> DEFINE to == row'[o].status
<1>2. Shown' = [Shown EXCEPT ![o] = to] /\ Shown[o] = row[o].status
  BY <1>1 DEF Saved, Shown
<1>3. CASE <<row[o].status, to>> \in Lifecycle!Moves
  <2>1. to \in {m[2] : m \in Lifecycle!Moves}
    BY <1>3
  <2>2. Lifecycle!Move(o)
    BY <1>2, <1>3, <2>1 DEF Lifecycle!Move, Shown
  <2> QED  BY <2>2 DEF Lifecycle!Next
<1>4. CASE to = row[o].status
  BY <1>2, <1>4 DEF Shown
<1> QED
  BY <1>3, <1>4, SavedMoves

\* What is captured is what the lifecycle charges, although the plan was made
\* some steps ago
LEMMA SettleIsSettleMoney ==
    ASSUME TypeOK, FlowInv, NEW w \in Workers, Runs(w), Settle(w)
    PROVE  Lifecycle!Next
<1>1. /\ req[w].pc = "settle" /\ intent = "held" /\ captured' = req[w].plan /\ UNCHANGED row
      /\ intent' = IF req[w].plan = {} THEN "canceled" ELSE "captured"
  BY DEF Settle, db
<1>2. w \in Requests
  BY <1>1, RunStage DEF JobFits, Path, Workers
<1>3. /\ \A o \in Orders : row[o].status # "New order"
      /\ req[w].plan = {o \in Orders : row[o].status # "Rejected"}
  BY <1>1, <1>2 DEF FlowInv, PlansFit
<1>4. /\ \A o \in Orders : Shown[o] # "New order"
      /\ req[w].plan = {o \in Orders : Shown[o] # "Rejected"}
      /\ Shown' = Shown
  BY <1>1, <1>3 DEF Shown
<1>5. Lifecycle!SettleMoney
  BY <1>1, <1>4 DEF Lifecycle!SettleMoney, Shown
<1> QED
  BY <1>5 DEF Lifecycle!Next

LEMMA LifecycleStep ==
    ASSUME Orderly, TypeOK, FlowInv, [Next]_vars
    PROVE  Lifecycle!Next \/ UNCHANGED <<Shown, intent, captured>>
<1>1. UNCHANGED <<row, intent, captured>> => UNCHANGED <<Shown, intent, captured>>
  BY DEF Shown
<1>2. CASE UNCHANGED vars
  BY <1>1, <1>2 DEF vars, db, money
<1>3. ASSUME NEW r \in Requests, NEW o \in Orders, Call(r, o) \/ OverdueWebhook(r, o)
      PROVE  UNCHANGED <<Shown, intent, captured>>
  BY <1>1, <1>3, StartForm
<1>4. ASSUME NEW o \in Orders, PayFine(o) \/ HandleOverdueOrders \/ MarkOverdue(o) \/ SkipOrder(o)
      PROVE  UNCHANGED <<Shown, intent, captured>>
  BY <1>1, <1>4 DEF PayFine, HandleOverdueOrders, MarkOverdue, SkipOrder, db, money
<1>5. ASSUME NEW w \in Workers, Runs(w)
      PROVE  Lifecycle!Next \/ UNCHANGED <<Shown, intent, captured>>
  <2>1. CASE Settle(w)
    BY <1>5, <2>1, SettleIsSettleMoney
  <2>2. CASE ~Settle(w)
    <3>1. UNCHANGED <<intent, captured>>
      BY <1>5, <2>2, RunEffects
    <3>2. UNCHANGED row \/ Saved(w)
      BY <1>5, RowSaved
    <3> QED  BY <1>1, <3>1, <3>2, SaveIsMove
  <2> QED  BY <2>1, <2>2
<1> QED
  BY <1>2, <1>3, <1>4, <1>5, OrderlySteps

LEMMA LifecycleInit == Init => Lifecycle!Init
<1>1. Init => row = [o \in Orders |-> BlankRow] /\ intent = "held" /\ captured = {}
  BY DEF Init
<1>2. BlankRow.status = "New order"
  BY DEF BlankRow
<1> QED
  BY <1>1, <1>2 DEF Lifecycle!Init

\* With clients that follow the workflow the handlers, however they interleave
\* and whatever fails around them, implement the plain lifecycle: each order
\* moves one save at a time, and the money is settled in one step for all the
\* orders that were not rejected (OrdersService, handleOverdueOrders,
\* StripeService.captureMoney and returnMoney)
THEOREM LifecycleCorrect ==
    ASSUME Orderly
    PROVE  Spec => ImplementsLifecycle
<1>1. Orderly /\ TypeOK /\ FlowInv /\ [Next]_vars
        => [Lifecycle!Next]_<<[o \in Orders |-> row[o].status], intent, captured>>
  BY LifecycleStep DEF Shown
<1> QED
  BY <1>1, LifecycleInit, FlowAlways, PTL DEF Spec, ImplementsLifecycle, Lifecycle!Spec
=============================================================================
