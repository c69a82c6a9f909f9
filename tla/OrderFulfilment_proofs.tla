------------------------ MODULE OrderFulfilment_proofs ------------------------
(***************************************************************************)
(* Theorems about OrderFulfilment, for every set of orders, products and   *)
(* requests, every client behaviour and every combination of faults.       *)
(***************************************************************************)
EXTENDS OrderFulfilment, TLAPS

(***************************************************************************)
(* Type correctness                                                        *)
(***************************************************************************)

LEMMA BlankRowType == BlankRow \in Row
BY DEF BlankRow, Row, Status, Tracking

LEMMA AnyOrderType == AnyOrder \in Orders
BY ConstantsAssumption DEF AnyOrder

LEMMA IdleType == Idle \in Request
BY BlankRowType, AnyOrderType DEF Idle, Request, Stages

LEMMA NothingLoadedType ==
    NothingLoaded \in [orders: SUBSET Orders, rows: [Orders -> Row]]
BY BlankRowType DEF NothingLoaded

LEMMA WrittenType ==
    ASSUME NEW e \in Row, NEW dirty, NEW stored \in Row
    PROVE  Written(e, dirty, stored) \in Row
BY DEF Written, Row

\* The stages the control operators name are stages
LEMMA StageTypes ==
    ASSUME NEW op
    PROVE  /\ FirstStage(op) \in Stages
           /\ AfterWrite(op) \in Stages
           /\ AfterNotify(op) \in Stages
BY DEF FirstStage, AfterWrite, AfterNotify, Stages

LEMMA GotoType ==
    ASSUME req \in [Workers -> Request], NEW w \in Workers,
           NEW stage \in Stages, Goto(w, stage)
    PROVE  req' \in [Workers -> Request]
BY DEF Goto, Request

LEMMA FinishType ==
    ASSUME req \in [Workers -> Request], NEW w \in Workers, Finish(w)
    PROVE  req' \in [Workers -> Request]
BY IdleType DEF Finish

LEMMA AdvanceType ==
    ASSUME req \in [Workers -> Request], NEW w \in Workers,
           NEW stage \in Stages, Advance(w, stage)
    PROVE  req' \in [Workers -> Request]
BY GotoType, FinishType DEF Advance

LEMMA StoreType ==
    ASSUME TypeOK, NEW o \in Orders, NEW stored \in Row, Store(o, stored)
    PROVE  /\ row' \in [Orders -> Row]
           /\ history' \in [Orders -> SUBSET Status]
BY DEF Store, TypeOK, Row

LEMMA LoadType ==
    ASSUME TypeOK, NEW r \in Requests, NEW op \in Ops, NEW o \in Orders,
           NEW e \in Row, NEW free \in SUBSET Products, Load(r, op, o, e, free)
    PROVE  req' \in [Workers -> Request]
<1>1. DiffInTx(op, e, row[o]) \in SUBSET Columns
  BY DEF DiffInTx, Diff, Columns
<1>2. FirstStage(op) \in Stages
  BY StageTypes
<1> QED
  BY <1>1, <1>2 DEF Load, TypeOK, Request, Workers

\* What the handlers make of the row they read
CallFits(op, o, e) ==
    /\ e.status = "Overdue" => row[o].status = "Overdue"
    /\ op = "receive" => e.status = "Received"

LEMMA CalledWith ==
    ASSUME TypeOK, NEW r \in Requests, NEW o \in Orders, Call(r, o)
    PROVE  \E op \in ClientOps, e \in Row, free \in SUBSET Products :
                ClientCall(r, op, o, e, free) /\ CallFits(op, o, e)
<1>0. row[o] \in Row /\ ProductsOf[o] \in SUBSET Products
  BY ConstantsAssumption DEF TypeOK
<1>1. CASE RejectOrder(r, o)
  <2> DEFINE e == [row[o] EXCEPT !.status = "Rejected"]
  <2>1. e \in Row /\ CallFits("reject", o, e)
    BY <1>0 DEF Row, Status, CallFits
  <2> QED  BY <1>0, <1>1, <2>1 DEF RejectOrder, ClientOps
<1>2. CASE SendOrderByVendor(r, o)
  <2> DEFINE e == [row[o] EXCEPT !.status = "Sent", !.tracking = "out"]
  <2>1. e \in Row /\ CallFits("send", o, e)
    BY <1>0 DEF Row, Status, Tracking, CallFits
  <2> QED  BY <1>2, <2>1 DEF SendOrderByVendor, ClientOps
<1>3. CASE ReceiveOrderByBuyer(r, o)
  <2> DEFINE e == [status |-> "Received", tracking |-> "none", received |-> TRUE]
  <2>1. e \in Row /\ CallFits("receive", o, e)
    BY DEF Row, Status, Tracking, CallFits
  <2> QED  BY <1>3, <2>1 DEF ReceiveOrderByBuyer, ClientOps
<1>4. CASE SendOrderByBuyer(r, o)
  <2> DEFINE e == [row[o] EXCEPT !.status = "Sent back", !.tracking = "back"]
  <2>1. e \in Row /\ CallFits("sendBack", o, e)
    BY <1>0 DEF Row, Status, Tracking, CallFits
  <2> QED  BY <1>4, <2>1 DEF SendOrderByBuyer, ClientOps
<1>5. CASE ReturnOrder(r, o)
  <2> DEFINE e == [row[o] EXCEPT !.status = "Returned", !.tracking = "none"]
  <2>1. e \in Row /\ CallFits("return", o, e)
    BY <1>0 DEF Row, Status, Tracking, CallFits
  <2> QED  BY <1>0, <1>5, <2>1 DEF ReturnOrder, ClientOps
<1>6. CASE PaySendOrder(r, o)
  <2> DEFINE e == [row[o] EXCEPT !.tracking = "back"]
  <2>1. e \in Row /\ CallFits("paySend", o, e)
    BY <1>0 DEF Row, Tracking, CallFits
  <2> QED  BY <1>6, <2>1 DEF PaySendOrder, ClientOps
<1> QED
  BY <1>1, <1>2, <1>3, <1>4, <1>5, <1>6 DEF Call

\* A call changes no more than its handler
LEMMA CallKeeps ==
    ASSUME NEW r \in Requests, NEW o \in Orders, Call(r, o)
    PROVE  UNCHANGED <<db, money, rejectMail, sessions, events, batch>>
BY DEF Call, RejectOrder, SendOrderByVendor, ReceiveOrderByBuyer, SendOrderByBuyer,
   ReturnOrder, PaySendOrder, ClientCall

\* The handlers clients and Stripe start
Starts(r, o) ==
    \E op \in Ops \ {"overdue"}, e \in Row, free \in SUBSET Products :
        Load(r, op, o, e, free) /\ CallFits(op, o, e)

LEMMA HandlerStarts ==
    ASSUME TypeOK, NEW r \in Requests, NEW o \in Orders,
           Call(r, o) \/ OverdueWebhook(r, o)
    PROVE  Starts(r, o)
<1>1. CASE Call(r, o)
  <2>1. PICK op \in ClientOps, e \in Row, free \in SUBSET Products :
             ClientCall(r, op, o, e, free) /\ CallFits(op, o, e)
    BY <1>1, CalledWith
  <2> QED  BY <2>1 DEF ClientCall, Starts, Ops, ClientOps
<1>2. CASE OverdueWebhook(r, o)
  <2> DEFINE e == [row[o] EXCEPT !.status = "Sent back"]
  <2>0. row[o] \in Row
    BY DEF TypeOK
  <2>1. e \in Row /\ CallFits("setSentBack", o, e)
    BY <2>0 DEF Row, Status, CallFits
  <2>2. {} \in SUBSET Products /\ "setSentBack" \in Ops \ {"overdue"}
    BY DEF Ops
  <2>3. Load(r, "setSentBack", o, e, {})
    BY <1>2 DEF OverdueWebhook
  <2> QED  BY <2>1, <2>2, <2>3 DEF Starts
<1> QED  BY <1>1, <1>2

\* No step leaves the types (the invariant of every run)
LEMMA StepType ==
    ASSUME TypeOK, NEW r \in Requests, Step(r)
    PROVE  TypeOK'
<1> r \in Workers
  BY DEF Workers
<1> USE DEF db, money, world
<1>0. req \in [Workers -> Request] /\ req[r] \in Request
  BY DEF TypeOK
<1>1. CASE CompareWithRow(r)
  <2>1. Diff(req[r].entity, row[req[r].order]) \in SUBSET Columns
    BY DEF Diff
  <2>2. req' \in [Workers -> Request]
    BY <1>0, <1>1, <2>1 DEF CompareWithRow, Request, Stages
  <2> QED  BY <1>1, <2>2 DEF CompareWithRow, TypeOK
<1>2. CASE UpdateRow(r)
  <2>1. Written(req[r].entity, req[r].dirty, row[req[r].order]) \in Row
    BY <1>0, WrittenType DEF TypeOK, Request
  <2>2. row' \in [Orders -> Row] /\ history' \in [Orders -> SUBSET Status]
    BY <1>0, <1>2, <2>1, StoreType DEF UpdateRow, Request
  <2>3. req' \in [Workers -> Request]
    BY <1>0, <1>2, StageTypes, AdvanceType DEF UpdateRow
  <2> QED  BY <1>2, <2>2, <2>3 DEF UpdateRow, TypeOK
<1>3. CASE UpdateInTx(r)
  <2>1. req' \in [Workers -> Request]
    BY <1>0, <1>3, StageTypes, GotoType DEF UpdateInTx
  <2> QED  BY <1>3, <2>1 DEF UpdateInTx, TypeOK
<1>4. CASE LockWaitTimeout(r)
  <2>1. req' \in [Workers -> Request]
    BY <1>0, <1>4, FinishType DEF LockWaitTimeout
  <2>2. batch' \in [orders: SUBSET Orders, rows: [Orders -> Row]]
    BY <1>4, NothingLoadedType DEF LockWaitTimeout, TypeOK
  <2> QED  BY <1>4, <2>1, <2>2 DEF LockWaitTimeout, TypeOK
<1>5. CASE Commit(r)
  <2>1. Written(req[r].entity, req[r].dirty, row[req[r].order]) \in Row
    BY <1>0, WrittenType DEF TypeOK, Request
  <2>2. row' \in [Orders -> Row] /\ history' \in [Orders -> SUBSET Status]
    BY <1>0, <1>5, <2>1, StoreType DEF Commit, Request
  <2>3. req' \in [Workers -> Request]
    BY <1>0, <1>5, FinishType DEF Commit
  <2> QED  BY <1>5, <2>2, <2>3 DEF Commit, TypeOK
<1>6. CASE ProductsFreed(r)
  <2>1. req' \in [Workers -> Request]
    BY <1>0, <1>6, GotoType DEF ProductsFreed, Stages
  <2> QED  BY <1>6, <2>1 DEF ProductsFreed, TypeOK
<1>7. ASSUME NEW p \in Products, FreeProduct(r, p)  PROVE TypeOK'
  <2>1. req' \in [Workers -> Request]
    BY <1>0, <1>7 DEF FreeProduct, Request
  <2> QED  BY <1>7, <2>1 DEF FreeProduct, TypeOK
<1>8. CASE SessionCreated(r)
  <2>1. req' \in [Workers -> Request]
    BY <1>0, <1>8, GotoType, FinishType DEF SessionCreated, Stages
  <2> QED  BY <1>8, <2>1 DEF SessionCreated, TypeOK
<1>9. CASE MailSent(r)
  <2>1. req' \in [Workers -> Request]
    BY <1>0, <1>9, GotoType DEF MailSent, Stages
  <2>2. req[r].order \in Orders
    BY <1>0 DEF Request
  <2> QED  BY <1>9, <2>1, <2>2 DEF MailSent, TypeOK
<1>10. CASE MailFails(r) \/ NotifyFails(r) \/ FeeMissing(r) \/ SettleRefused(r)
  <2>1. req' \in [Workers -> Request]
    BY <1>0, <1>10, FinishType DEF MailFails, NotifyFails, FeeMissing, SettleRefused
  <2> QED  BY <1>10, <2>1 DEF MailFails, NotifyFails, FeeMissing, SettleRefused, TypeOK
<1>11. CASE Notified(r)
  <2>1. req' \in [Workers -> Request]
    BY <1>0, <1>11, AdvanceType, StageTypes DEF Notified
  <2>2. req[r].order \in Orders
    BY <1>0 DEF Request
  <2> QED  BY <1>11, <2>1, <2>2 DEF Notified, TypeOK
<1>12. CASE CheckIfOrdersAreSentOrRejected(r)
  <2>1. SentOrders \in SUBSET Orders
    BY DEF SentOrders
  <2>2. req' \in [Workers -> Request]
    BY <1>0, <1>12, <2>1, FinishType
       DEF CheckIfOrdersAreSentOrRejected, Request, Stages
  <2> QED  BY <1>12, <2>2 DEF CheckIfOrdersAreSentOrRejected, TypeOK
<1>13. CASE Settle(r)
  <2>1. req' \in [Workers -> Request]
    BY <1>0, <1>13, FinishType DEF Settle
  <2>2. captured' \subseteq Orders
    BY <1>0, <1>13 DEF Settle, Request
  <2> QED  BY <1>13, <2>1, <2>2 DEF Settle, TypeOK
<1>14. CASE TransferMoneyToVendor(r)
  <2>1. req' \in [Workers -> Request]
    BY <1>0, <1>14, GotoType DEF TransferMoneyToVendor, Stages
  <2>2. req[r].order \in Orders
    BY <1>0 DEF Request
  <2>3. transfers' \in [Orders -> Nat]
    BY <1>14, <2>2 DEF TransferMoneyToVendor, TypeOK
  <2> QED  BY <1>14, <2>1, <2>3 DEF TransferMoneyToVendor, TypeOK
<1> QED
  BY <1>1, <1>2, <1>3, <1>4, <1>5, <1>6, <1>7, <1>8, <1>9, <1>10, <1>11,
     <1>12, <1>13, <1>14 DEF Step

LEMMA CronType ==
    ASSUME TypeOK, CronStep \/ HandleOverdueOrders
    PROVE  TypeOK'
<1> Cron \in Workers
  BY DEF Workers
<1> USE DEF db, money, world
<1>0. req \in [Workers -> Request] /\ req[Cron] \in Request
  BY DEF TypeOK
<1>1. CASE CompareWithRow(Cron)
  <2>1. Diff(req[Cron].entity, row[req[Cron].order]) \in SUBSET Columns
    BY DEF Diff
  <2>2. req' \in [Workers -> Request]
    BY <1>0, <1>1, <2>1 DEF CompareWithRow, Request, Stages
  <2> QED  BY <1>1, <2>2 DEF CompareWithRow, TypeOK
<1>2. CASE UpdateRow(Cron)
  <2>1. Written(req[Cron].entity, req[Cron].dirty, row[req[Cron].order]) \in Row
    BY <1>0, WrittenType DEF TypeOK, Request
  <2>2. row' \in [Orders -> Row] /\ history' \in [Orders -> SUBSET Status]
    BY <1>0, <1>2, <2>1, StoreType DEF UpdateRow, Request
  <2>3. req' \in [Workers -> Request]
    BY <1>0, <1>2, StageTypes, AdvanceType DEF UpdateRow
  <2> QED  BY <1>2, <2>2, <2>3 DEF UpdateRow, TypeOK
<1>3. CASE LockWaitTimeout(Cron)
  <2>1. req' \in [Workers -> Request]
    BY <1>0, <1>3, FinishType DEF LockWaitTimeout
  <2> QED  BY <1>3, <2>1, NothingLoadedType DEF LockWaitTimeout, TypeOK
<1>4. CASE OverdueJobDone
  <2>1. req' \in [Workers -> Request]
    BY <1>0, <1>4, FinishType DEF OverdueJobDone
  <2> QED  BY <1>4, <2>1 DEF OverdueJobDone, TypeOK
<1>5. ASSUME NEW o \in Orders, MarkOverdue(o)  PROVE TypeOK'
  <2>1. batch.rows[o] \in Row
    BY DEF TypeOK
  <2>2. [batch.rows[o] EXCEPT !.status = "Overdue"] \in Row
    BY <2>1 DEF Row, Status
  <2>3. req' \in [Workers -> Request]
    BY <1>0, <1>5, <2>2, IdleType DEF MarkOverdue, Request, Stages, Ops
  <2>4. batch' \in [orders: SUBSET Orders, rows: [Orders -> Row]]
    BY <1>5, BlankRowType DEF MarkOverdue, TypeOK
  <2> QED  BY <1>5, <2>3, <2>4 DEF MarkOverdue, TypeOK
<1>6. ASSUME NEW o \in Orders, SkipOrder(o)  PROVE TypeOK'
  <2>1. batch' \in [orders: SUBSET Orders, rows: [Orders -> Row]]
    BY <1>6, BlankRowType DEF SkipOrder, TypeOK
  <2> QED  BY <1>6, <2>1 DEF SkipOrder, TypeOK
<1>7. CASE HandleOverdueOrders
  <2>1. req' \in [Workers -> Request]
    BY <1>0, <1>7, GotoType DEF HandleOverdueOrders, Stages
  <2>2. batch' \in [orders: SUBSET Orders, rows: [Orders -> Row]]
    BY <1>7, BlankRowType DEF HandleOverdueOrders, ReceivedOrders, TypeOK
  <2> QED  BY <1>7, <2>1, <2>2 DEF HandleOverdueOrders, TypeOK
<1> QED
  BY <1>1, <1>2, <1>3, <1>4, <1>5, <1>6, <1>7 DEF CronStep

LEMMA NextType == TypeOK /\ [Next]_vars => TypeOK'
<1> SUFFICES ASSUME TypeOK, [Next]_vars  PROVE TypeOK'
  OBVIOUS
<1> USE DEF db, money, world
<1>1. ASSUME NEW r \in Requests, NEW o \in Orders, Call(r, o)
      PROVE  TypeOK'
  <2>0. PICK op \in ClientOps, e \in Row, free \in SUBSET Products :
                ClientCall(r, op, o, e, free)
    BY <1>1, CalledWith
  <2>1. req' \in [Workers -> Request]
    BY <2>0, LoadType DEF ClientCall, Ops
  <2>2. calls' \in Nat
    BY <2>0 DEF ClientCall, TypeOK
  <2> QED  BY <2>0, <2>1, <2>2 DEF ClientCall, TypeOK
<1>2. ASSUME NEW r \in Requests, NEW o \in Orders, OverdueWebhook(r, o)
      PROVE  TypeOK'
  <2>1. req' \in [Workers -> Request]
    BY <1>2, HandlerStarts, LoadType DEF Starts
  <2> QED  BY <1>2, <2>1 DEF OverdueWebhook, TypeOK
<1>3. ASSUME NEW o \in Orders, PayFine(o)  PROVE TypeOK'
  BY <1>3 DEF PayFine, TypeOK
<1>4. ASSUME NEW r \in Requests, Step(r)  PROVE TypeOK'
  BY <1>4, StepType
<1>5. CASE HandleOverdueOrders \/ CronStep
  BY <1>5, CronType
<1>6. CASE Crash
  BY <1>6, IdleType, NothingLoadedType DEF Crash, TypeOK
<1>7. CASE UNCHANGED vars
  BY <1>7 DEF vars, TypeOK
<1> QED
  BY <1>1, <1>2, <1>3, <1>4, <1>5, <1>6, <1>7 DEF Next

\* In every behaviour every variable keeps its type
THEOREM TypeCorrect == Spec => []TypeOK
<1>1. ASSUME Init  PROVE TypeOK
  <2>1. row \in [Orders -> Row] /\ history \in [Orders -> SUBSET Status]
    BY <1>1, BlankRowType DEF Init, Status
  <2>2. available \subseteq Products /\ transfers \in [Orders -> Nat]
    BY <1>1 DEF Init
  <2>3. req \in [Workers -> Request]
    BY <1>1, IdleType DEF Init
  <2>4. batch \in [orders: SUBSET Orders, rows: [Orders -> Row]]
    BY <1>1, NothingLoadedType DEF Init
  <2> QED  BY <1>1, <2>1, <2>2, <2>3, <2>4 DEF Init, TypeOK
<1> QED
  BY <1>1, NextType, PTL DEF Spec

(***************************************************************************)
(* What a step does to the rows and their history                          *)
(***************************************************************************)

\* Rows change only by a save that the history records
LEMMA OnlyStores ==
    ASSUME TypeOK, [Next]_vars
    PROVE  \/ UNCHANGED <<row, history>>
           \/ \E w \in Workers :
                /\ req[w].pc \in {"write", "commit"}
                /\ Store(req[w].order,
                         Written(req[w].entity, req[w].dirty, row[req[w].order]))
<1> USE DEF db, Workers
<1>1. ASSUME NEW w \in Workers, UpdateRow(w) \/ Commit(w)
      PROVE  /\ req[w].pc \in {"write", "commit"}
             /\ Store(req[w].order,
                      Written(req[w].entity, req[w].dirty, row[req[w].order]))
  BY <1>1 DEF UpdateRow, Commit
<1>2. ASSUME NEW r \in Requests, Step(r)
      PROVE  UpdateRow(r) \/ Commit(r) \/ UNCHANGED <<row, history>>
  BY <1>2 DEF Step, CompareWithRow, UpdateInTx, LockWaitTimeout, ProductsFreed,
     FreeProduct, SessionCreated, MailSent, MailFails, Notified, NotifyFails,
     CheckIfOrdersAreSentOrRejected, Settle, SettleRefused,
     TransferMoneyToVendor, FeeMissing
<1>3. ASSUME CronStep
      PROVE  UpdateRow(Cron) \/ UNCHANGED <<row, history>>
  BY <1>3 DEF CronStep, CompareWithRow, LockWaitTimeout, OverdueJobDone,
     MarkOverdue, SkipOrder
<1>4. ASSUME \/ \E r \in Requests, o \in Orders : Call(r, o)
             \/ \E r \in Requests, o \in Orders : OverdueWebhook(r, o)
             \/ \E o \in Orders : PayFine(o)
             \/ HandleOverdueOrders \/ Crash \/ UNCHANGED vars
      PROVE  UNCHANGED <<row, history>>
  BY <1>4, CallKeeps DEF db, OverdueWebhook, PayFine, HandleOverdueOrders, Crash, vars
<1> QED
  BY <1>1, <1>2, <1>3, <1>4 DEF Next

\* The row of an order always shows in its history
HistoryRecords == \A o \in Orders : row[o].status \in history[o]

LEMMA HistoryGrows ==
    ASSUME TypeOK, HistoryRecords, [Next]_vars
    PROVE  /\ \A o \in Orders : history[o] \subseteq history'[o]
           /\ HistoryRecords'
<1>1. CASE UNCHANGED <<row, history>>
  BY <1>1 DEF HistoryRecords
<1>2. ASSUME NEW o \in Orders, NEW stored, Store(o, stored)
      PROVE  /\ \A x \in Orders : history[x] \subseteq history'[x]
             /\ HistoryRecords'
  BY <1>2 DEF Store, HistoryRecords, TypeOK
<1>3. \A w \in Workers : req[w].order \in Orders
  BY DEF TypeOK, Request
<1> QED
  BY <1>1, <1>2, <1>3, OnlyStores

(***************************************************************************)
(* The settlement is justified                                             *)
(***************************************************************************)

\* Only the check makes a plan, and it has seen every order answered
LEMMA PlanFromCheck ==
    ASSUME TypeOK, [Next]_vars, NEW w \in Workers, req'[w].pc = "settle"
    PROVE  \/ req[w].pc = "settle" /\ req'[w].plan = req[w].plan
           \/ AllSentOrRejected /\ req'[w].plan = SentOrders
<1> USE DEF Workers
<1>0. req \in [Workers -> Request]
  BY DEF TypeOK
<1>1. ASSUME NEW v \in Workers, NEW stage, stage # "settle", Goto(v, stage)
      PROVE  req[w].pc = "settle" /\ req'[w].plan = req[w].plan
  BY <1>0, <1>1 DEF Goto, Request
<1>2. ASSUME NEW v \in Workers, Finish(v)
      PROVE  req[w].pc = "settle" /\ req'[w].plan = req[w].plan
  BY <1>0, <1>2 DEF Finish, Idle
<1>3. ASSUME NEW v \in Workers, NEW stage, stage # "settle", Advance(v, stage)
      PROVE  req[w].pc = "settle" /\ req'[w].plan = req[w].plan
  BY <1>1, <1>2, <1>3 DEF Advance
<1>4. ASSUME NEW r \in Requests, NEW o \in Orders, Starts(r, o)
      PROVE  req[w].pc = "settle" /\ req'[w].plan = req[w].plan
  BY <1>0, <1>4 DEF Starts, Load, FirstStage
<1>5. \A op : AfterWrite(op) # "settle" /\ AfterNotify(op) # "settle"
  BY DEF AfterWrite, AfterNotify
<1>6. ASSUME NEW v \in Workers, CompareWithRow(v) \/ UpdateRow(v) \/ LockWaitTimeout(v)
      PROVE  req[w].pc = "settle" /\ req'[w].plan = req[w].plan
  <2>1. CASE CompareWithRow(v)
    BY <1>0, <2>1 DEF CompareWithRow, Request
  <2>2. CASE UpdateRow(v)
    BY <1>3, <1>5, <2>2 DEF UpdateRow
  <2>3. CASE LockWaitTimeout(v)
    BY <1>2, <2>3 DEF LockWaitTimeout
  <2> QED  BY <1>6, <2>1, <2>2, <2>3
<1>7. ASSUME NEW r \in Requests, Step(r), ~CheckIfOrdersAreSentOrRejected(r)
      PROVE  req[w].pc = "settle" /\ req'[w].plan = req[w].plan
  <2>1. CASE UpdateInTx(r)
    BY <1>1, <1>5, <2>1 DEF UpdateInTx
  <2>2. CASE Commit(r) \/ MailFails(r) \/ NotifyFails(r) \/ FeeMissing(r)
              \/ Settle(r) \/ SettleRefused(r)
    BY <1>2, <2>2 DEF Commit, MailFails, NotifyFails, FeeMissing, Settle, SettleRefused
  <2>3. CASE ProductsFreed(r) \/ MailSent(r) \/ TransferMoneyToVendor(r)
    BY <1>1, <2>3 DEF ProductsFreed, MailSent, TransferMoneyToVendor
  <2>4. CASE \E p \in Products : FreeProduct(r, p)
    BY <1>0, <2>4 DEF FreeProduct, Request
  <2>5. CASE SessionCreated(r)
    BY <1>1, <1>2, <2>5 DEF SessionCreated
  <2>6. CASE Notified(r)
    BY <1>3, <1>5, <2>6 DEF Notified
  <2> QED  BY <1>6, <1>7, <2>1, <2>2, <2>3, <2>4, <2>5, <2>6 DEF Step
<1>8. ASSUME NEW r \in Requests, CheckIfOrdersAreSentOrRejected(r)
      PROVE  \/ req[w].pc = "settle" /\ req'[w].plan = req[w].plan
             \/ AllSentOrRejected /\ req'[w].plan = SentOrders
  <2>1. CASE AllSentOrRejected
    BY <1>0, <1>8, <2>1 DEF CheckIfOrdersAreSentOrRejected, Request
  <2>2. CASE ~AllSentOrRejected
    BY <1>2, <1>8, <2>2 DEF CheckIfOrdersAreSentOrRejected
  <2> QED  BY <2>1, <2>2
<1>9. ASSUME CronStep
      PROVE  req[w].pc = "settle" /\ req'[w].plan = req[w].plan
  <2>1. CASE OverdueJobDone
    BY <1>2, <2>1 DEF OverdueJobDone
  <2>2. ASSUME NEW o \in Orders, MarkOverdue(o)
        PROVE  req[w].pc = "settle" /\ req'[w].plan = req[w].plan
    BY <1>0, <2>2 DEF MarkOverdue, Idle
  <2>3. ASSUME NEW o \in Orders, SkipOrder(o)
        PROVE  req[w].pc = "settle" /\ req'[w].plan = req[w].plan
    BY <2>3 DEF SkipOrder
  <2> QED  BY <1>6, <1>9, <2>1, <2>2, <2>3 DEF CronStep
<1>10. CASE HandleOverdueOrders
  BY <1>1, <1>10 DEF HandleOverdueOrders
<1>11. CASE \/ \E r \in Requests, o \in Orders : Call(r, o)
            \/ \E r \in Requests, o \in Orders : OverdueWebhook(r, o)
  BY <1>4, <1>11, HandlerStarts
<1>12. CASE \/ \E o \in Orders : PayFine(o)
            \/ UNCHANGED vars
  BY <1>12 DEF PayFine, vars
<1>13. CASE Crash
  BY <1>13 DEF Crash, Idle
<1> QED
  BY <1>7, <1>8, <1>9, <1>10, <1>11, <1>12, <1>13 DEF Next

\* The money moves only by settling a plan
LEMMA OnlySettleMovesMoney ==
    ASSUME TypeOK, [Next]_vars
    PROVE  \/ UNCHANGED <<intent, captured>>
           \/ \E r \in Requests : req[r].pc = "settle" /\ captured' = req[r].plan
<1>1. ASSUME NEW r \in Requests, Step(r)
      PROVE  Settle(r) \/ UNCHANGED <<intent, captured>>
  BY <1>1 DEF money, Step, CompareWithRow, UpdateRow, UpdateInTx, LockWaitTimeout,
     Commit, ProductsFreed, FreeProduct, SessionCreated, MailSent, MailFails,
     Notified, NotifyFails, CheckIfOrdersAreSentOrRejected, SettleRefused,
     TransferMoneyToVendor, FeeMissing
<1>2. ASSUME CronStep  PROVE UNCHANGED <<intent, captured>>
  BY <1>2 DEF money, CronStep, CompareWithRow, UpdateRow, LockWaitTimeout,
     OverdueJobDone, MarkOverdue, SkipOrder
<1>3. ASSUME \/ \E r \in Requests, o \in Orders : Call(r, o)
             \/ \E r \in Requests, o \in Orders : OverdueWebhook(r, o)
             \/ \E o \in Orders : PayFine(o)
             \/ HandleOverdueOrders \/ Crash \/ UNCHANGED vars
      PROVE  UNCHANGED <<intent, captured>>
  BY <1>3, CallKeeps DEF money, OverdueWebhook, PayFine, HandleOverdueOrders, Crash, vars
<1> QED
  BY <1>1, <1>2, <1>3 DEF Next, Settle

\* The inductive invariant: a plan that is about to be settled was justified
\* when it was made, and history only grows
SettlementInv ==
    /\ HistoryRecords
    /\ \A w \in Workers : req[w].pc = "settle" => Justified(req[w].plan)
    /\ SettlementJustified

LEMMA JustifiedStays ==
    ASSUME TypeOK, HistoryRecords, [Next]_vars, NEW S, Justified(S)
    PROVE  \A o \in Orders :
               (IF o \in S THEN "Sent" ELSE "Rejected") \in history'[o]
BY HistoryGrows DEF Justified

\* No run of the handlers, whatever fails and whoever calls, makes the buyer
\* pay for an order no vendor sent or returns the money of one nobody rejected
THEOREM SettlementCorrect == Spec => []SettlementJustified
<1>1. ASSUME Init  PROVE SettlementInv
  BY <1>1 DEF Init, SettlementInv, HistoryRecords, SettlementJustified, Idle, BlankRow
<1>2. ASSUME TypeOK, SettlementInv, [Next]_vars  PROVE SettlementInv'
  <2>1. HistoryRecords'
    BY <1>2, HistoryGrows DEF SettlementInv
  <2>2. AllSentOrRejected => Justified(SentOrders)
    BY <1>2 DEF AllSentOrRejected, SentOrders, Justified, SettlementInv, HistoryRecords
  <2>3. ASSUME NEW w \in Workers, req'[w].pc = "settle"
        PROVE  Justified(req[w].plan)'
    <3>1. \/ req[w].pc = "settle" /\ req'[w].plan = req[w].plan
          \/ AllSentOrRejected /\ req'[w].plan = SentOrders
      BY <1>2, <2>3, PlanFromCheck
    <3>2. PICK S : Justified(S) /\ req'[w].plan = S
      BY <1>2, <2>2, <3>1 DEF SettlementInv
    <3>3. \A o \in Orders :
              (IF o \in S THEN "Sent" ELSE "Rejected") \in history'[o]
      BY <1>2, <3>2, JustifiedStays DEF SettlementInv
    <3> QED  BY <3>2, <3>3 DEF Justified
  <2>4. SettlementJustified'
    <3>1. CASE UNCHANGED <<intent, captured>>
      BY <1>2, <3>1, HistoryGrows DEF SettlementInv, SettlementJustified, Justified
    <3>2. ASSUME NEW r \in Requests, req[r].pc = "settle", captured' = req[r].plan
          PROVE  SettlementJustified'
      BY <1>2, <3>2, HistoryGrows
         DEF SettlementInv, SettlementJustified, Justified, Workers
    <3> QED  BY <1>2, <3>1, <3>2, OnlySettleMovesMoney
  <2> QED  BY <2>1, <2>3, <2>4 DEF SettlementInv
<1>3. SettlementInv => SettlementJustified
  BY DEF SettlementInv
<1> QED
  BY <1>1, <1>2, <1>3, TypeCorrect, PTL DEF Spec

(***************************************************************************)
(* The life of a handler                                                   *)
(***************************************************************************)

\* The handler goes on with the entity it has loaded
SameJob(w) ==
    /\ req'[w].op = req[w].op
    /\ req'[w].order = req[w].order
    /\ req'[w].entity = req[w].entity
    /\ req[w].pc # "diff" => req'[w].dirty = req[w].dirty

\* A handler keeps its entity until it ends; a new one is loaded from the row,
\* or from the orders the overdue job has loaded
LEMMA HandlerLife ==
    ASSUME TypeOK, [Next]_vars, NEW w \in Workers
    PROVE  \/ SameJob(w)
           \/ req'[w] = Idle
           \/ /\ w \in Requests
              /\ \E o \in Orders : Starts(w, o)
           \/ w = Cron /\ \E o \in Orders : MarkOverdue(o)
<1> DEFINE Goal == \/ SameJob(w)
                   \/ req'[w] = Idle
                   \/ /\ w \in Requests
                      /\ \E o \in Orders : Starts(w, o)
                   \/ w = Cron /\ \E o \in Orders : MarkOverdue(o)
<1> USE DEF Workers
<1>0. req \in [Workers -> Request]
  BY DEF TypeOK
<1>1. ASSUME NEW v \in Workers, NEW stage, Goto(v, stage)  PROVE SameJob(w)
  BY <1>0, <1>1 DEF Goto, SameJob, Request
<1>2. ASSUME NEW v \in Workers, Finish(v)  PROVE SameJob(w) \/ req'[w] = Idle
  BY <1>0, <1>2 DEF Finish, SameJob
<1>3. ASSUME NEW v \in Workers, NEW stage, Advance(v, stage)
      PROVE  SameJob(w) \/ req'[w] = Idle
  BY <1>1, <1>2, <1>3 DEF Advance
<1>4. ASSUME NEW v \in Workers, CompareWithRow(v) \/ UpdateRow(v) \/ LockWaitTimeout(v)
      PROVE  Goal
  <2>1. CASE CompareWithRow(v)
    BY <1>0, <2>1 DEF CompareWithRow, SameJob, Request
  <2>2. CASE UpdateRow(v)
    BY <1>3, <2>2 DEF UpdateRow
  <2>3. CASE LockWaitTimeout(v)
    BY <1>2, <2>3 DEF LockWaitTimeout
  <2> QED  BY <1>4, <2>1, <2>2, <2>3
<1>5. ASSUME NEW r \in Requests, Step(r)  PROVE Goal
  <2>1. CASE UpdateInTx(r) \/ ProductsFreed(r) \/ MailSent(r) \/ TransferMoneyToVendor(r)
    BY <1>1, <2>1 DEF UpdateInTx, ProductsFreed, MailSent, TransferMoneyToVendor
  <2>2. CASE Commit(r) \/ MailFails(r) \/ NotifyFails(r) \/ FeeMissing(r)
              \/ Settle(r) \/ SettleRefused(r)
    BY <1>2, <2>2 DEF Commit, MailFails, NotifyFails, FeeMissing, Settle, SettleRefused
  <2>3. CASE \E p \in Products : FreeProduct(r, p)
    BY <1>0, <2>3 DEF FreeProduct, SameJob, Request
  <2>4. CASE SessionCreated(r)
    BY <1>1, <1>2, <2>4 DEF SessionCreated
  <2>5. CASE Notified(r)
    BY <1>3, <2>5 DEF Notified
  <2>6. CASE CheckIfOrdersAreSentOrRejected(r)
    <3>1. CASE AllSentOrRejected
      BY <1>0, <2>6, <3>1 DEF CheckIfOrdersAreSentOrRejected, SameJob, Request
    <3>2. CASE ~AllSentOrRejected
      BY <1>2, <2>6, <3>2 DEF CheckIfOrdersAreSentOrRejected
    <3> QED  BY <3>1, <3>2
  <2> QED  BY <1>4, <1>5, <2>1, <2>2, <2>3, <2>4, <2>5, <2>6 DEF Step
<1>6. ASSUME CronStep  PROVE Goal
  <2>1. CASE OverdueJobDone
    BY <1>2, <2>1 DEF OverdueJobDone
  <2>2. ASSUME NEW o \in Orders, MarkOverdue(o)  PROVE Goal
    <3>1. CASE w = Cron
      BY <2>2, <3>1
    <3>2. CASE w # Cron
      BY <1>0, <2>2, <3>2 DEF MarkOverdue, SameJob
    <3> QED  BY <3>1, <3>2
  <2>3. ASSUME NEW o \in Orders, SkipOrder(o)  PROVE Goal
    BY <2>3 DEF SkipOrder, SameJob
  <2> QED  BY <1>4, <1>6, <2>1, <2>2, <2>3 DEF CronStep
<1>7. ASSUME NEW r \in Requests, NEW o \in Orders, Starts(r, o)
      PROVE  Goal
  <2>1. CASE w = r
    BY <1>7, <2>1
  <2>2. CASE w # r
    BY <1>0, <1>7, <2>2 DEF Starts, Load, SameJob
  <2> QED  BY <2>1, <2>2
<1>8. CASE \/ \E r \in Requests, o \in Orders : Call(r, o)
           \/ \E r \in Requests, o \in Orders : OverdueWebhook(r, o)
  BY <1>7, <1>8, HandlerStarts
<1>9. CASE HandleOverdueOrders
  BY <1>1, <1>9 DEF HandleOverdueOrders
<1>10. CASE (\E o \in Orders : PayFine(o)) \/ UNCHANGED vars
  BY <1>10 DEF PayFine, vars, SameJob
<1>11. CASE Crash
  BY <1>11 DEF Crash
<1> QED
  BY <1>5, <1>6, <1>8, <1>9, <1>10, <1>11 DEF Next

(***************************************************************************)
(* Overdue orders were received                                            *)
(***************************************************************************)

\* The overdue job holds orders it found received
LEMMA BatchFrom ==
    ASSUME [Next]_vars, NEW o \in Orders, o \in batch'.orders
    PROVE  o \in batch.orders \/ row[o].status = "Received"
<1>1. ASSUME NEW r \in Requests, Step(r)  PROVE UNCHANGED batch \/ batch' = NothingLoaded
  BY <1>1 DEF Step, CompareWithRow, UpdateRow, UpdateInTx, LockWaitTimeout,
     Commit, ProductsFreed, FreeProduct, SessionCreated, MailSent, MailFails,
     Notified, NotifyFails, CheckIfOrdersAreSentOrRejected, Settle, SettleRefused,
     TransferMoneyToVendor, FeeMissing
<1>2. ASSUME CronStep
      PROVE  \/ UNCHANGED batch \/ batch' = NothingLoaded
             \/ \E x \in Orders : batch'.orders = batch.orders \ {x}
  <2>1. ASSUME NEW x \in Orders, MarkOverdue(x) \/ SkipOrder(x)
        PROVE  batch'.orders = batch.orders \ {x}
    BY <2>1 DEF MarkOverdue, SkipOrder
  <2>2. ASSUME CompareWithRow(Cron) \/ UpdateRow(Cron) \/ LockWaitTimeout(Cron)
               \/ OverdueJobDone
        PROVE  UNCHANGED batch \/ batch' = NothingLoaded
    BY <2>2 DEF CompareWithRow, UpdateRow, LockWaitTimeout, OverdueJobDone
  <2> QED  BY <1>2, <2>1, <2>2 DEF CronStep
<1>3. CASE HandleOverdueOrders
  BY <1>3 DEF HandleOverdueOrders, ReceivedOrders
<1>4. ASSUME \/ \E r \in Requests, x \in Orders : Call(r, x)
             \/ \E r \in Requests, x \in Orders : OverdueWebhook(r, x)
             \/ \E x \in Orders : PayFine(x)
             \/ Crash \/ UNCHANGED vars
      PROVE  UNCHANGED batch \/ batch' = NothingLoaded
  BY <1>4, CallKeeps DEF OverdueWebhook, PayFine, Crash, vars
<1> QED
  BY <1>1, <1>2, <1>3, <1>4 DEF Next, NothingLoaded

\* The inductive invariant: whatever copy could still be saved as overdue is
\* the copy of an order that was received
OverdueInv ==
    /\ HistoryRecords
    /\ OverdueWasReceived
    /\ \A w \in Workers :
        req[w].entity.status = "Overdue" => "Received" \in history[req[w].order]
    /\ \A o \in batch.orders : "Received" \in history[o]

\* No stale copy turns an order overdue that the buyer never received
THEOREM OverdueCorrect == Spec => []OverdueWasReceived
<1>1. ASSUME Init  PROVE OverdueInv
  BY <1>1 DEF Init, OverdueInv, HistoryRecords, OverdueWasReceived, Idle,
     BlankRow, NothingLoaded
<1>2. ASSUME TypeOK, OverdueInv, [Next]_vars  PROVE OverdueInv'
  <2>1. HistoryRecords' /\ \A o \in Orders : history[o] \subseteq history'[o]
    BY <1>2, HistoryGrows DEF OverdueInv
  <2>2. OverdueWasReceived'
    <3>1. CASE UNCHANGED <<row, history>>
      BY <1>2, <3>1 DEF OverdueInv, OverdueWasReceived
    <3>2. ASSUME NEW w \in Workers, NEW stored,
                 stored.status \in {req[w].entity.status, row[req[w].order].status},
                 Store(req[w].order, stored)
          PROVE  OverdueWasReceived'
      <4>1. req[w].order \in Orders /\ row \in [Orders -> Row]
        BY <1>2 DEF TypeOK, Request
      <4>2. stored.status = "Overdue" => "Received" \in history[req[w].order]
        BY <1>2, <3>2, <4>1 DEF OverdueInv, OverdueWasReceived
      <4>3. row' = [row EXCEPT ![req[w].order] = stored]
        BY <3>2 DEF Store
      <4>4. ASSUME NEW o \in Orders, row'[o].status = "Overdue"
            PROVE  "Received" \in history[o]
        BY <1>2, <4>1, <4>2, <4>3, <4>4 DEF OverdueInv, OverdueWasReceived
      <4> QED  BY <2>1, <4>4 DEF OverdueWasReceived
    <3>3. ASSUME NEW w \in Workers
          PROVE  Written(req[w].entity, req[w].dirty, row[req[w].order]).status
                    \in {req[w].entity.status, row[req[w].order].status}
      BY DEF Written
    <3> QED  BY <1>2, <3>1, <3>2, <3>3, OnlyStores
  <2>3. ASSUME NEW w \in Workers, req'[w].entity.status = "Overdue"
        PROVE  "Received" \in history'[req'[w].order]
    <3>0. req \in [Workers -> Request] /\ req[w].order \in Orders
      BY <1>2 DEF TypeOK, Request
    <3>1. CASE SameJob(w)
      BY <1>2, <2>1, <2>3, <3>0, <3>1 DEF SameJob, OverdueInv
    <3>2. CASE req'[w] = Idle
      <4>1. Idle.entity.status = "New order"
        BY DEF Idle, BlankRow
      <4> QED  BY <2>3, <3>2, <4>1
    <3>3. ASSUME w \in Requests, NEW o \in Orders, Starts(w, o)
          PROVE  "Received" \in history'[req'[w].order]
      <4>1. /\ req'[w].order = o
            /\ req'[w].entity.status = "Overdue" => row[o].status = "Overdue"
        BY <3>0, <3>3 DEF Starts, Load, CallFits, Workers
      <4> QED  BY <1>2, <2>1, <2>3, <4>1 DEF OverdueInv, OverdueWasReceived
    <3>4. ASSUME w = Cron, NEW o \in Orders, MarkOverdue(o)
          PROVE  "Received" \in history'[req'[w].order]
      <4>1. req'[w].order = o /\ o \in batch.orders
        BY <3>0, <3>4 DEF MarkOverdue, Idle
      <4> QED  BY <1>2, <2>1, <4>1 DEF OverdueInv
    <3> QED  BY <1>2, <3>1, <3>2, <3>3, <3>4, HandlerLife
  <2>4. ASSUME NEW o \in batch'.orders  PROVE "Received" \in history'[o]
    <3>1. TypeOK'
      BY <1>2, NextType
    <3>2. o \in Orders
      BY <3>1 DEF TypeOK
    <3>3. "Received" \in history[o]
      BY <1>2, <3>2, BatchFrom DEF OverdueInv, HistoryRecords
    <3> QED  BY <2>1, <3>2, <3>3
  <2> QED  BY <2>1, <2>2, <2>3, <2>4 DEF OverdueInv
<1>3. OverdueInv => OverdueWasReceived
  BY DEF OverdueInv
<1> QED
  BY <1>1, <1>2, <1>3, TypeCorrect, PTL DEF Spec

(***************************************************************************)
(* Transfers and receipts                                                  *)
(***************************************************************************)

\* Which handlers reach which stages
StageFits(stage, op) ==
    /\ stage \in {"idle", "free", "diff", "session", "scan"} => op \notin TxOps
    /\ stage = "transfer" => op = "receive"
    /\ stage = "commit" => op \in TxOps

StageInv == \A w \in Workers : StageFits(req[w].pc, req[w].op)

LEMMA GotoStage ==
    ASSUME TypeOK, StageInv, NEW w \in Workers, NEW stage,
           StageFits(stage, req[w].op), Goto(w, stage)
    PROVE  StageInv'
BY DEF TypeOK, Goto, StageInv, Request

LEMMA FinishStage ==
    ASSUME TypeOK, StageInv, NEW w \in Workers, Finish(w)
    PROVE  StageInv'
BY DEF TypeOK, Finish, StageInv, StageFits, Idle, TxOps

LEMMA AdvanceStage ==
    ASSUME TypeOK, StageInv, NEW w \in Workers, NEW stage,
           StageFits(stage, req[w].op), Advance(w, stage)
    PROVE  StageInv'
BY GotoStage, FinishStage DEF Advance

LEMMA StageStep ==
    ASSUME TypeOK, StageInv, [Next]_vars
    PROVE  StageInv'
<1> USE DEF Workers
<1>0. req \in [Workers -> Request]
  BY DEF TypeOK
<1>1. \A op : /\ StageFits(AfterWrite(op), op)
              /\ StageFits(AfterNotify(op), op)
              /\ StageFits(FirstStage(op), op)
  BY DEF StageFits, AfterWrite, AfterNotify, FirstStage, TxOps
<1>2. ASSUME NEW w \in Workers, CompareWithRow(w) \/ UpdateRow(w) \/ LockWaitTimeout(w)
      PROVE  StageInv'
  <2>1. CASE CompareWithRow(w)
    BY <1>0, <2>1 DEF CompareWithRow, StageInv, StageFits, Request
  <2>2. CASE UpdateRow(w)
    BY <1>1, <2>2, AdvanceStage DEF UpdateRow
  <2>3. CASE LockWaitTimeout(w)
    BY <2>3, FinishStage DEF LockWaitTimeout
  <2> QED  BY <1>2, <2>1, <2>2, <2>3
<1>3. ASSUME NEW r \in Requests, Step(r)  PROVE StageInv'
  <2>0. StageFits(req[r].pc, req[r].op)
    BY DEF StageInv
  <2>1. CASE UpdateInTx(r)
    BY <1>1, <2>1, GotoStage DEF UpdateInTx
  <2>2. CASE Commit(r) \/ MailFails(r) \/ NotifyFails(r) \/ FeeMissing(r)
              \/ Settle(r) \/ SettleRefused(r)
    BY <2>2, FinishStage DEF Commit, MailFails, NotifyFails, FeeMissing, Settle, SettleRefused
  <2>3. CASE ProductsFreed(r)
    <3>1. StageFits(IF req[r].op = "reject" THEN "mail" ELSE "diff", req[r].op)
      BY <2>0, <2>3 DEF ProductsFreed, StageFits
    <3> QED  BY <2>3, <3>1, GotoStage DEF ProductsFreed
  <2>4. CASE MailSent(r)
    BY <2>4, GotoStage DEF MailSent, StageFits
  <2>5. CASE TransferMoneyToVendor(r)
    BY <2>0, <2>5, GotoStage DEF TransferMoneyToVendor, StageFits, TxOps
  <2>6. CASE \E p \in Products : FreeProduct(r, p)
    BY <1>0, <2>6 DEF FreeProduct, StageInv, Request
  <2>7. CASE SessionCreated(r)
    <3>1. StageFits("notify", req[r].op)
      BY DEF StageFits
    <3> QED  BY <2>7, <3>1, GotoStage, FinishStage DEF SessionCreated
  <2>8. CASE Notified(r)
    BY <1>1, <2>8, AdvanceStage DEF Notified
  <2>9. CASE CheckIfOrdersAreSentOrRejected(r)
    <3>1. CASE AllSentOrRejected
      BY <1>0, <2>9, <3>1 DEF CheckIfOrdersAreSentOrRejected, StageInv, StageFits, Request
    <3>2. CASE ~AllSentOrRejected
      BY <2>9, <3>2, FinishStage DEF CheckIfOrdersAreSentOrRejected
    <3> QED  BY <3>1, <3>2
  <2> QED  BY <1>2, <1>3, <2>1, <2>2, <2>3, <2>4, <2>5, <2>6, <2>7, <2>8, <2>9 DEF Step
<1>4. ASSUME CronStep  PROVE StageInv'
  <2>1. CASE OverdueJobDone
    BY <2>1, FinishStage DEF OverdueJobDone
  <2>2. ASSUME NEW o \in Orders, MarkOverdue(o)  PROVE StageInv'
    BY <1>0, <2>2 DEF MarkOverdue, Idle, StageInv, StageFits, TxOps
  <2>3. ASSUME NEW o \in Orders, SkipOrder(o)  PROVE StageInv'
    BY <2>3 DEF SkipOrder, StageInv
  <2> QED  BY <1>2, <1>4, <2>1, <2>2, <2>3 DEF CronStep
<1>5. CASE HandleOverdueOrders
  <2>1. StageFits("scan", req[Cron].op)
    BY <1>5 DEF HandleOverdueOrders, StageInv, StageFits
  <2> QED  BY <1>5, <2>1, GotoStage DEF HandleOverdueOrders
<1>6. ASSUME NEW r \in Requests, NEW o \in Orders, Starts(r, o)  PROVE StageInv'
  BY <1>0, <1>1, <1>6 DEF Starts, Load, StageInv
<1>7. CASE \/ \E r \in Requests, o \in Orders : Call(r, o)
           \/ \E r \in Requests, o \in Orders : OverdueWebhook(r, o)
  BY <1>6, <1>7, HandlerStarts
<1>8. CASE (\E o \in Orders : PayFine(o)) \/ UNCHANGED vars
  BY <1>8 DEF PayFine, vars, StageInv
<1>9. CASE Crash
  BY <1>9 DEF Crash, Idle, StageInv, StageFits, TxOps
<1> QED
  BY <1>3, <1>4, <1>5, <1>7, <1>8, <1>9 DEF Next

\* A handler about to commit does, unless the process dies
LEMMA CommitStays ==
    ASSUME "crash" \notin Faults, TypeOK, [Next]_vars,
           NEW r \in Requests, req[r].pc = "commit"
    PROVE  req'[r] = req[r] \/ Commit(r)
<1> USE DEF Workers
<1>0. req \in [Workers -> Request] /\ Cron # r
  BY ConstantsAssumption DEF TypeOK
<1>1. ASSUME NEW w \in Workers, NEW stage, w # r, Advance(w, stage) \/ Goto(w, stage) \/ Finish(w)
      PROVE  req'[r] = req[r]
  BY <1>0, <1>1 DEF Advance, Goto, Finish
<1>2. ASSUME NEW w \in Workers, CompareWithRow(w) \/ UpdateRow(w) \/ LockWaitTimeout(w)
      PROVE  req'[r] = req[r]
  <2>1. w # r
    BY <1>2 DEF CompareWithRow, UpdateRow, LockWaitTimeout
  <2> QED  BY <1>0, <1>1, <1>2, <2>1 DEF CompareWithRow, UpdateRow, LockWaitTimeout
<1>3. ASSUME NEW x \in Requests, Step(x), ~Commit(r)  PROVE req'[r] = req[r]
  <2>1. CASE x = r
    BY <1>2, <1>3, <2>1 DEF Step, CompareWithRow, UpdateRow, UpdateInTx, LockWaitTimeout,
       ProductsFreed, FreeProduct, SessionCreated, MailSent, MailFails,
       Notified, NotifyFails, CheckIfOrdersAreSentOrRejected, Settle, SettleRefused,
       TransferMoneyToVendor, FeeMissing
  <2>2. CASE x # r
    <3>1. CASE \/ UpdateInTx(x) \/ Commit(x) \/ ProductsFreed(x) \/ SessionCreated(x)
               \/ MailSent(x) \/ MailFails(x) \/ Notified(x) \/ NotifyFails(x)
               \/ Settle(x) \/ SettleRefused(x) \/ TransferMoneyToVendor(x) \/ FeeMissing(x)
      BY <1>1, <2>2, <3>1 DEF UpdateInTx, Commit, ProductsFreed, SessionCreated, MailSent,
         MailFails, Notified, NotifyFails, Settle, SettleRefused,
         TransferMoneyToVendor, FeeMissing
    <3>2. CASE CheckIfOrdersAreSentOrRejected(x)
      BY <1>0, <2>2, <3>2 DEF CheckIfOrdersAreSentOrRejected, Finish
    <3>3. CASE \E p \in Products : FreeProduct(x, p)
      BY <1>0, <2>2, <3>3 DEF FreeProduct
    <3> QED  BY <1>2, <1>3, <3>1, <3>2, <3>3 DEF Step
  <2> QED  BY <2>1, <2>2
<1>4. CASE CronStep \/ HandleOverdueOrders
  <2>1. CASE OverdueJobDone \/ HandleOverdueOrders
    BY <1>0, <1>1, <2>1 DEF OverdueJobDone, HandleOverdueOrders
  <2>2. CASE \E o \in Orders : MarkOverdue(o) \/ SkipOrder(o)
    BY <1>0, <2>2 DEF MarkOverdue, SkipOrder
  <2> QED  BY <1>2, <1>4, <2>1, <2>2 DEF CronStep
<1>5. CASE \/ \E x \in Requests, o \in Orders : Call(x, o)
           \/ \E x \in Requests, o \in Orders : OverdueWebhook(x, o)
  <2>1. ASSUME NEW x \in Requests, NEW o \in Orders, Call(x, o) \/ OverdueWebhook(x, o)
        PROVE  req'[r] = req[r]
    <3>1. req[x].pc = "idle"
      BY <2>1 DEF Call, RejectOrder, SendOrderByVendor, ReceiveOrderByBuyer,
         SendOrderByBuyer, ReturnOrder, PaySendOrder, ClientCall, OverdueWebhook
    <3> QED  BY <1>0, <2>1, <3>1, HandlerStarts DEF Starts, Load
  <2> QED  BY <1>5, <2>1
<1>6. CASE (\E o \in Orders : PayFine(o)) \/ UNCHANGED vars
  BY <1>6 DEF PayFine, vars
<1> QED
  BY <1>3, <1>4, <1>5, <1>6 DEF Next, Crash

\* Transfers are made by receiveOrderByBuyer only
LEMMA OnlyReceiveTransfers ==
    ASSUME TypeOK, StageInv, [Next]_vars
    PROVE  \/ UNCHANGED transfers
           \/ \E r \in Requests :
                /\ req'[r] = [req[r] EXCEPT !.pc = "commit"]
                /\ req[r].op = "receive"
                /\ \A o \in Orders : o # req[r].order => transfers'[o] = transfers[o]
<1>1. ASSUME NEW r \in Requests, Step(r)
      PROVE  TransferMoneyToVendor(r) \/ UNCHANGED transfers
  BY <1>1 DEF money, Step, CompareWithRow, UpdateRow, UpdateInTx, LockWaitTimeout,
     Commit, ProductsFreed, FreeProduct, SessionCreated, MailSent, MailFails,
     Notified, NotifyFails, CheckIfOrdersAreSentOrRejected, Settle, SettleRefused,
     FeeMissing
<1>2. ASSUME CronStep  PROVE UNCHANGED transfers
  BY <1>2 DEF money, CronStep, CompareWithRow, UpdateRow, LockWaitTimeout,
     OverdueJobDone, MarkOverdue, SkipOrder
<1>3. ASSUME \/ \E r \in Requests, o \in Orders : Call(r, o)
             \/ \E r \in Requests, o \in Orders : OverdueWebhook(r, o)
             \/ \E o \in Orders : PayFine(o)
             \/ HandleOverdueOrders \/ Crash \/ UNCHANGED vars
      PROVE  UNCHANGED transfers
  BY <1>3, CallKeeps DEF money, OverdueWebhook, PayFine, HandleOverdueOrders, Crash, vars
<1>4. ASSUME NEW r \in Requests, TransferMoneyToVendor(r)
      PROVE  /\ req'[r] = [req[r] EXCEPT !.pc = "commit"]
             /\ req[r].op = "receive"
             /\ \A o \in Orders : o # req[r].order => transfers'[o] = transfers[o]
  <2>1. req[r].op = "receive"
    BY <1>4 DEF TransferMoneyToVendor, StageInv, StageFits, Workers
  <2>2. req'[r] = [req[r] EXCEPT !.pc = "commit"]
    BY <1>4 DEF TransferMoneyToVendor, Goto, TypeOK, Workers
  <2>3. \A o \in Orders : o # req[r].order => transfers'[o] = transfers[o]
    BY <1>4 DEF TransferMoneyToVendor, TypeOK
  <2> QED  BY <2>1, <2>2, <2>3
<1> QED
  BY <1>1, <1>2, <1>3, <1>4 DEF Next

\* The receipt r is about to commit shows in the history, or will
ReceiptSecured(r) ==
    \/ "Received" \in history[req[r].order]
    \/ "status" \in req[r].dirty /\ req[r].entity.status = "Received"

\* The inductive invariant: a handler of receiveOrderByBuyer carries the
\* receipt with it, and a transfer without a recorded receipt has its handler
\* still before the commit
TransferInv ==
    /\ StageInv
    /\ HistoryRecords
    /\ \A r \in Requests : req[r].op = "receive" => ReceiptSecured(r)
    /\ \A o \in Orders :
        transfers[o] > 0 =>
            \/ "Received" \in history[o]
            \/ \E r \in Requests :
                /\ req[r].pc = "commit" /\ req[r].op = "receive"
                /\ req[r].order = o

\* As long as the process does not die, money goes to a vendor only for a
\* receipt that is recorded or about to be, whatever else fails
THEOREM TransferCorrect ==
    ASSUME "crash" \notin Faults
    PROVE  Spec => []TransferMeansReceived
<1> USE DEF Workers
<1>1. ASSUME Init  PROVE TransferInv
  <2>1. StageInv /\ HistoryRecords
    BY <1>1 DEF Init, StageInv, StageFits, HistoryRecords, Idle, BlankRow, TxOps
  <2>2. \A r \in Requests : req[r].op # "receive"
    BY <1>1 DEF Init, Idle
  <2>3. \A o \in Orders : transfers[o] = 0
    BY <1>1 DEF Init
  <2> QED  BY <2>1, <2>2, <2>3 DEF TransferInv
<1>2. ASSUME TypeOK, TransferInv, [Next]_vars  PROVE TransferInv'
  <2>1. StageInv'
    BY <1>2, StageStep DEF TransferInv
  <2>2. HistoryRecords' /\ \A o \in Orders : history[o] \subseteq history'[o]
    BY <1>2, HistoryGrows DEF TransferInv
  <2>3. ASSUME NEW r \in Requests, req'[r].op = "receive"  PROVE ReceiptSecured(r)'
    <3>0. /\ req \in [Workers -> Request] /\ req[r].order \in Orders
          /\ row \in [Orders -> Row] /\ StageFits(req[r].pc, req[r].op)
      BY <1>2 DEF TypeOK, Request, TransferInv, StageInv
    <3>1. CASE SameJob(r)
      <4>1. req[r].op = "receive" /\ req[r].pc # "diff"
        BY <2>3, <3>0, <3>1 DEF SameJob, StageFits, TxOps
      <4>2. ReceiptSecured(r)
        BY <1>2, <4>1 DEF TransferInv
      <4> QED  BY <2>2, <3>0, <3>1, <4>1, <4>2 DEF SameJob, ReceiptSecured
    <3>2. CASE req'[r] = Idle
      BY <2>3, <3>2 DEF Idle
    <3>3. ASSUME NEW o \in Orders, Starts(r, o)
          PROVE  ReceiptSecured(r)'
      <4>1. PICK e \in Row :
              /\ req'[r].order = o /\ req'[r].entity = e
              /\ req'[r].dirty = DiffInTx("receive", e, row[o])
              /\ e.status = "Received"
        BY <2>3, <3>0, <3>3 DEF Starts, CallFits, Load, TxOps
      <4>2. CASE row[o].status = "Received"
        BY <1>2, <2>2, <4>1, <4>2 DEF TransferInv, HistoryRecords, ReceiptSecured
      <4>3. CASE row[o].status # "Received"
        <5>1. "status" \in Diff(e, row[o])
          BY <4>1, <4>3 DEF Diff, Columns
        <5> QED  BY <4>1, <5>1 DEF DiffInTx, ReceiptSecured
      <4> QED  BY <4>2, <4>3
    <3>4. r # Cron
      BY ConstantsAssumption
    <3> QED  BY <1>2, <3>1, <3>2, <3>3, <3>4, HandlerLife
  <2>4. ASSUME NEW o \in Orders, transfers'[o] > 0, "Received" \notin history'[o]
        PROVE  \E r \in Requests :
                 /\ req'[r].pc = "commit" /\ req'[r].op = "receive"
                 /\ req'[r].order = o
    <3>1. ASSUME NEW r \in Requests, req[r].op = "receive", req[r].order = o,
                 req[r].pc = "commit"
          PROVE  req'[r] = req[r]
      <4>1. ASSUME Commit(r)  PROVE FALSE
        <5>1. ReceiptSecured(r)
          BY <1>2, <3>1 DEF TransferInv
        <5>2. "status" \in req[r].dirty /\ req[r].entity.status = "Received"
          BY <2>2, <2>4, <3>1, <5>1 DEF ReceiptSecured
        <5>3. Written(req[r].entity, req[r].dirty, row[o]).status = "Received"
          BY <5>2 DEF Written
        <5>4. Store(o, Written(req[r].entity, req[r].dirty, row[o]))
          BY <3>1, <4>1 DEF Commit
        <5>5. "Received" \in history'[o]
          BY <1>2, <5>3, <5>4 DEF Store, TypeOK
        <5> QED  BY <2>4, <5>5
      <4> QED  BY <1>2, <3>1, <4>1, CommitStays
    <3>2. CASE UNCHANGED transfers
      BY <1>2, <2>2, <2>4, <3>1, <3>2 DEF TransferInv
    <3>3. ASSUME NEW x \in Requests,
                 req'[x] = [req[x] EXCEPT !.pc = "commit"], req[x].op = "receive",
                 \A y \in Orders : y # req[x].order => transfers'[y] = transfers[y]
          PROVE  \E r \in Requests :
                   /\ req'[r].pc = "commit" /\ req'[r].op = "receive"
                   /\ req'[r].order = o
      <4>1. CASE req[x].order = o
        <5>1. req[x] \in Request
          BY <1>2 DEF TypeOK
        <5>2. req'[x].pc = "commit" /\ req'[x].op = "receive" /\ req'[x].order = o
          BY <3>3, <4>1, <5>1 DEF Request
        <5> QED  BY <5>2
      <4>2. CASE req[x].order # o
        BY <1>2, <2>2, <2>4, <3>1, <3>3, <4>2 DEF TransferInv
      <4> QED  BY <4>1, <4>2
    <3> QED
      BY <1>2, <3>2, <3>3, OnlyReceiveTransfers DEF TransferInv
  <2> QED  BY <2>1, <2>2, <2>3, <2>4 DEF TransferInv
<1>3. TransferInv => TransferMeansReceived
  BY DEF TransferInv, TransferMeansReceived
<1> QED
  BY <1>1, <1>2, <1>3, TypeCorrect, PTL DEF Spec
=============================================================================
