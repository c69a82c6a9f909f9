---------------------------- MODULE Reviews_proofs ----------------------------
(***************************************************************************)
(* Theorems about Reviews, for every set of users, reviews and requests,   *)
(* whatever fails and however many calls are made.                         *)
(***************************************************************************)
EXTENDS Reviews, FiniteSetTheorems, TLAPS

(***************************************************************************)
(* Type correctness                                                        *)
(***************************************************************************)

LEMMA IdleType == Idle \in Request /\ NoRow \in Row
BY DEF Idle, Request, Stages, NoRow, Row

LEMMA NothingLoadedType ==
    NothingLoaded \in [users: SUBSET Users, rows: [Users -> Row]]
BY IdleType DEF NothingLoaded

LEMMA GotoType ==
    ASSUME TypeOK, NEW w \in Workers, NEW stage \in Stages, Goto(w, stage)
    PROVE  req' \in [Workers -> Request]
BY DEF Goto, TypeOK, Request

LEMMA FinishType ==
    ASSUME TypeOK, NEW w \in Workers, Finish(w)
    PROVE  req' \in [Workers -> Request]
BY IdleType DEF Finish, TypeOK

LEMMA StartType ==
    ASSUME TypeOK, NEW r \in Requests, NEW u, NEW request \in Request, Start(r, u, request)
    PROVE  req' \in [Workers -> Request] /\ calls' \in 0..MaxCalls
BY ConstantsAssumption DEF Start, TypeOK, Workers

\* A handler of a request goes on
LEMMA StepType ==
    ASSUME TypeOK, NEW r \in Workers, Step(r)
    PROVE  TypeOK'
<1> USE DEF db
<1>0. /\ req[r] \in Request
      /\ req \in [Workers -> Request] /\ user \in [Users -> Row]
  BY DEF TypeOK
<1>1. CASE FindUsersAndOrder(r)
  <2>1. req' \in [Workers -> Request]
    BY <1>0, <1>1, FinishType DEF FindUsersAndOrder, TypeOK, Request, Stages
  <2> QED  BY <1>1, <2>1 DEF FindUsersAndOrder, TypeOK
<1>2. CASE UpdateUserRating(r)
  <2>1. PICK u \in req[r].user :
          /\ req' = [req EXCEPT ![r].pc = "count", ![r].seen = About(u, @) \cup req[r].review]
          /\ UNCHANGED <<reviews, deleted, user, token, warned, calls, batch>>
    BY <1>2 DEF UpdateUserRating
  <2>2. About(u, req[r].seen) \cup req[r].review \in SUBSET Reviews
    BY <1>0 DEF About, Request
  <2>3. req' \in [Workers -> Request]
    BY <1>0, <2>1, <2>2 DEF Request, Stages
  <2> QED  BY <2>1, <2>3 DEF TypeOK
<1>3. CASE HandleLowRatingReviews(r)
  <2>1. req' \in [Workers -> Request]
    BY <1>3, GotoType DEF HandleLowRatingReviews, Stages
  <2> QED  BY <1>3, <2>1 DEF HandleLowRatingReviews, TypeOK
<1>4. CASE SendWarning(r)
  <2>1. req' \in [Workers -> Request]
    BY <1>4, GotoType, FinishType DEF SendWarning, Stages
  <2>2. warned' \subseteq Users
    BY <1>0, <1>4 DEF SendWarning, TypeOK, Request
  <2> QED  BY <1>4, <2>1, <2>2 DEF SendWarning, TypeOK
<1>5. CASE SaveDeactivatedUser(r)
  <2>1. req' \in [Workers -> Request]
    BY <1>5, GotoType, FinishType DEF SaveDeactivatedUser, Stages
  <2>2. user' \in [Users -> Row]
    <3>1. PICK u \in req[r].user :
            user' = user \/ user' = [user EXCEPT ![u].active = FALSE, ![u].window = TRUE]
      BY <1>5 DEF SaveDeactivatedUser
    <3>2. u \in Users
      BY <1>0 DEF Request
    <3>3. [user[u] EXCEPT !.active = FALSE, !.window = TRUE] \in Row
      BY <1>0, <3>2 DEF Row
    <3>4. user' = user \/ user' = [user EXCEPT ![u] = [user[u] EXCEPT !.active = FALSE, !.window = TRUE]]
      BY <1>0, <3>1, <3>2
    <3> QED  BY <1>0, <3>2, <3>3, <3>4
  <2> QED  BY <1>5, <2>1, <2>2 DEF SaveDeactivatedUser, TypeOK
<1>6. CASE CommitReview(r)
  <2>1. req' \in [Workers -> Request]
    BY <1>6, FinishType DEF CommitReview
  <2>2. user' \in [Users -> Row] /\ reviews' \subseteq Reviews
    <3>1. PICK u \in req[r].user :
            user' = [user EXCEPT ![u] = [user[u] EXCEPT !.rated = req[r].seen]]
      BY <1>0, <1>6 DEF CommitReview
    <3>2. u \in Users /\ req[r].seen \in SUBSET Reviews
      BY <1>0 DEF Request
    <3>3. [user[u] EXCEPT !.rated = req[r].seen] \in Row
      BY <1>0, <3>2 DEF Row
    <3>4. reviews' \subseteq Reviews
      BY <1>0, <1>6 DEF CommitReview, Request, TypeOK
    <3> QED  BY <1>0, <3>1, <3>3, <3>4
  <2> QED  BY <1>6, <2>1, <2>2 DEF CommitReview, TypeOK
<1>7. CASE MailBeforeSave(r)
  <2>1. req' \in [Workers -> Request]
    BY <1>7, GotoType, FinishType DEF MailBeforeSave, Stages
  <2> QED  BY <1>7, <2>1 DEF MailBeforeSave, TypeOK
<1>8. CASE CompareWithRow(r)
  <2>1. PICK u \in req[r].user :
          /\ req' = [req EXCEPT ![r].pc = "write",
                       ![r].dirty = {c \in Columns : req[r].entity[c] # user[u][c]}]
          /\ UNCHANGED <<reviews, deleted, user, token, warned, calls, batch>>
    BY <1>8 DEF CompareWithRow
  <2>2. req' \in [Workers -> Request]
    BY <1>0, <2>1 DEF Request, Stages
  <2> QED  BY <2>1, <2>2 DEF TypeOK
<1>9. CASE UpdateRow(r)
  <2>1. req' \in [Workers -> Request]
    BY <1>9, GotoType, FinishType DEF UpdateRow, Stages
  <2>2. \A dirty : \A e, row \in Row : Written(e, dirty, row) \in Row
    BY DEF Written, Row
  <2>3. user' \in [Users -> Row]
    BY <1>0, <1>9, <2>2 DEF UpdateRow, Request
  <2> QED  BY <1>9, <2>1, <2>3 DEF UpdateRow, TypeOK
<1>10. CASE LockWaitTimeout(r)
  <2>1. req' \in [Workers -> Request]
    BY <1>10, FinishType DEF LockWaitTimeout
  <2> QED  BY <1>10, <2>1, NothingLoadedType DEF LockWaitTimeout, TypeOK
<1> QED
  BY <1>1, <1>2, <1>3, <1>4, <1>5, <1>6, <1>7, <1>8, <1>9, <1>10 DEF Step

LEMMA NextType == TypeOK /\ [Next]_vars => TypeOK'
<1> SUFFICES ASSUME TypeOK, [Next]_vars  PROVE TypeOK'
  OBVIOUS
<1> USE DEF db
<1>0. /\ Job \in Workers /\ \A r \in Requests : r \in Workers
      /\ req \in [Workers -> Request] /\ user \in [Users -> Row]
  BY DEF TypeOK, Workers
<1>1. ASSUME NEW r \in Requests, NEW v \in Reviews, CreateReview(r, v)  PROVE TypeOK'
  <2>1. [Idle EXCEPT !.pc = "find", !.user = {UserOf[v]}, !.review = {v}] \in Request
    <3>1. UserOf[v] \in Users
      BY ConstantsAssumption
    <3> QED  BY <3>1, IdleType DEF Request, Stages
  <2>2. req' \in [Workers -> Request] /\ calls' \in 0..MaxCalls
    BY <1>1, <2>1, StartType DEF CreateReview
  <2> QED  BY <1>1, <2>2 DEF CreateReview, TypeOK
<1>2. ASSUME NEW v \in Reviews, DeleteReview(v)  PROVE TypeOK'
  BY <1>2, ConstantsAssumption DEF DeleteReview, TypeOK
<1>3. ASSUME NEW r \in Requests, NEW u \in Users, NEW active \in BOOLEAN,
             UpdateUserProfileByAdmin(r, u, active)
      PROVE  TypeOK'
  <2>1. [user[u] EXCEPT !.active = active] \in Row
    BY <1>0 DEF Row
  <2>2. [Idle EXCEPT !.pc = IF active THEN "diff" ELSE "mail", !.user = {u},
                     !.entity = [user[u] EXCEPT !.active = active]] \in Request
    BY <2>1, IdleType DEF Request, Stages
  <2>3. req' \in [Workers -> Request] /\ calls' \in 0..MaxCalls
    BY <1>3, <2>2, StartType DEF UpdateUserProfileByAdmin
  <2> QED  BY <1>3, <2>3 DEF UpdateUserProfileByAdmin, TypeOK
<1>4. ASSUME NEW due \in SUBSET Users, ReactivateUsers(due)  PROVE TypeOK'
  <2>1. req' \in [Workers -> Request]
    BY <1>0, <1>4, GotoType DEF ReactivateUsers, Stages
  <2>2. batch' \in [users: SUBSET Users, rows: [Users -> Row]]
    BY <1>0, <1>4, IdleType DEF ReactivateUsers
  <2> QED  BY <1>4, <2>1, <2>2 DEF ReactivateUsers, TypeOK
<1>5. ASSUME NEW r \in Requests, Step(r)  PROVE TypeOK'
  BY <1>0, <1>5, StepType
<1>6. CASE JobStep
  <2>1. CASE CompareWithRow(Job) \/ UpdateRow(Job) \/ LockWaitTimeout(Job)
    BY <1>0, <2>1, StepType DEF Step
  <2>2. CASE ReactivationMail
    <3>1. req' \in [Workers -> Request]
      BY <1>0, <2>2, IdleType, FinishType DEF ReactivationMail, Request, Stages
    <3> QED  BY <2>2, <3>1, NothingLoadedType DEF ReactivationMail, TypeOK
  <2>3. CASE ReactivateUsersDone
    BY <1>0, <2>3, FinishType DEF ReactivateUsersDone, TypeOK
  <2>4. ASSUME NEW u \in Users, ReactivateUser(u)  PROVE TypeOK'
    <3>1. batch.rows[u] \in Row /\ batch \in [users: SUBSET Users, rows: [Users -> Row]]
      BY DEF TypeOK
    <3>2. [batch.rows[u] EXCEPT !.active = TRUE, !.window = FALSE] \in Row
      BY <3>1 DEF Row
    <3>3. req' \in [Workers -> Request]
      BY <1>0, <2>4, <3>2, IdleType DEF ReactivateUser, Request, Stages
    <3>4. batch' \in [users: SUBSET Users, rows: [Users -> Row]]
      BY <2>4, <3>1, IdleType DEF ReactivateUser
    <3> QED  BY <2>4, <3>3, <3>4 DEF ReactivateUser, TypeOK
  <2> QED  BY <1>6, <2>1, <2>2, <2>3, <2>4 DEF JobStep
<1>7. CASE Crash
  BY <1>7, IdleType, NothingLoadedType, ConstantsAssumption DEF Crash, TypeOK
<1>8. CASE UNCHANGED vars
  BY <1>8 DEF vars, TypeOK
<1>9. ASSUME NEW r \in Requests, NEW u \in Users, ChangeEmail(r, u)  PROVE TypeOK'
  <2>1. token[u] \in Row
    BY DEF TypeOK
  <2>2. [Idle EXCEPT !.pc = "mail", !.user = {u}, !.entity = token[u]] \in Request
    BY <2>1, IdleType DEF Request, Stages
  <2>3. req' \in [Workers -> Request] /\ calls' \in 0..MaxCalls
    BY <1>9, <2>2, StartType DEF ChangeEmail
  <2> QED  BY <1>9, <2>3 DEF ChangeEmail, TypeOK
<1>10. ASSUME NEW u \in Users, RefreshToken(u)  PROVE TypeOK'
  BY <1>0, <1>10 DEF RefreshToken, TypeOK
<1> QED
  BY <1>1, <1>2, <1>3, <1>4, <1>5, <1>6, <1>7, <1>8, <1>9, <1>10 DEF Next

LEMMA InitType == Init => TypeOK
<1>1. Init => user \in [Users -> Row]
  BY ConstantsAssumption DEF Init, Row, About
<1>2. Init => req \in [Workers -> Request]
  BY IdleType DEF Init
<1> QED
  BY <1>1, <1>2, NothingLoadedType, ConstantsAssumption DEF Init, TypeOK

\* In every behaviour every variable keeps its type
THEOREM TypeCorrect == Spec => []TypeOK
BY InitType, NextType, PTL DEF Spec

(***************************************************************************)
(* Whose step it is                                                        *)
(***************************************************************************)

\* The steps that change what worker w is doing
ActionOf(w) ==
    \/ /\ w \in Requests
       /\ \/ Step(w)
          \/ \E v \in Reviews : CreateReview(w, v)
          \/ \E u \in Users, active \in BOOLEAN : UpdateUserProfileByAdmin(w, u, active)
          \/ \E u \in Users : ChangeEmail(w, u)
    \/ /\ w = Job
       /\ JobStep \/ \E due \in SUBSET Users : ReactivateUsers(due)

\* A step of one worker leaves the others where they are
LEMMA OthersStay ==
    ASSUME TypeOK, NEW x \in Workers, NEW w \in Workers, x # w, ActionOf(x)
    PROVE  req'[w] = req[w]
<1>0. req \in [Workers -> Request] /\ Job \in Workers
  BY DEF TypeOK, Workers
<1>1. ASSUME \/ Finish(x) \/ \E stage : Goto(x, stage)
      PROVE  req'[w] = req[w]
  BY <1>0, <1>1 DEF Finish, Goto
<1>2. ASSUME Step(x)  PROVE req'[w] = req[w]
  <2>1. CASE FindUsersAndOrder(x)
    BY <1>0, <1>1, <2>1 DEF FindUsersAndOrder
  <2>2. CASE UpdateUserRating(x) \/ CompareWithRow(x)
    BY <1>0, <2>2 DEF UpdateUserRating, CompareWithRow
  <2>3. CASE \/ HandleLowRatingReviews(x) \/ SendWarning(x) \/ SaveDeactivatedUser(x)
             \/ CommitReview(x) \/ MailBeforeSave(x) \/ UpdateRow(x) \/ LockWaitTimeout(x)
    BY <1>1, <2>3 DEF HandleLowRatingReviews, SendWarning, SaveDeactivatedUser,
       CommitReview, MailBeforeSave, UpdateRow, LockWaitTimeout
  <2> QED  BY <1>2, <2>1, <2>2, <2>3 DEF Step
<1>3. CASE \/ \E v \in Reviews : CreateReview(x, v)
           \/ \E u \in Users, active \in BOOLEAN : UpdateUserProfileByAdmin(x, u, active)
           \/ \E u \in Users : ChangeEmail(x, u)
  BY <1>0, <1>3 DEF CreateReview, UpdateUserProfileByAdmin, ChangeEmail, Start
<1>4. CASE x = Job /\ (JobStep \/ \E due \in SUBSET Users : ReactivateUsers(due))
  <2>1. CASE CompareWithRow(Job) \/ UpdateRow(Job) \/ LockWaitTimeout(Job)
    BY <1>2, <1>4, <2>1 DEF Step
  <2>2. CASE ReactivationMail \/ \E u \in Users : ReactivateUser(u)
    BY <1>0, <1>1, <1>4, <2>2 DEF ReactivationMail, ReactivateUser
  <2>3. CASE ReactivateUsersDone \/ \E due \in SUBSET Users : ReactivateUsers(due)
    BY <1>1, <1>4, <2>3 DEF ReactivateUsersDone, ReactivateUsers
  <2> QED  BY <1>4, <2>1, <2>2, <2>3 DEF JobStep
<1> QED
  BY <1>2, <1>3, <1>4 DEF ActionOf

\* One worker goes on at a time, unless the process dies
LEMMA OneActs ==
    ASSUME TypeOK, [Next]_vars
    PROVE  \/ Crash \/ UNCHANGED req
           \/ \E x \in Workers : ActionOf(x) /\ \A w \in Workers \ {x} : req'[w] = req[w]
<1>1. CASE \/ \E v \in Reviews : DeleteReview(v)
           \/ \E u \in Users : RefreshToken(u)
           \/ UNCHANGED vars
  BY <1>1 DEF DeleteReview, RefreshToken, vars
<1>2. ASSUME NEW x \in Workers, ActionOf(x)
      PROVE  \A w \in Workers \ {x} : req'[w] = req[w]
  BY <1>2, OthersStay
<1> QED
  BY <1>1, <1>2 DEF Next, ActionOf, Workers

LEMMA OwnSteps ==
    ASSUME TypeOK, [Next]_vars, NEW w \in Workers
    PROVE  req'[w] = req[w] \/ ActionOf(w) \/ Crash
BY OneActs

(***************************************************************************)
(* The lock of a user's row                                                *)
(*                                                                         *)
(* The counts of low ratings are read outside the transaction.  They are   *)
(* still right when the review is committed, because a transaction counts  *)
(* after its UPDATE has taken the lock of the user's row, and whoever      *)
(* commits another review of that user holds that lock, too.               *)
(***************************************************************************)

Holding == {"count", "warn", "deactivate", "commit"}

Reviewing == {"find", "rate"} \cup Holding

\* A review handler is about one review and its user
AboutOne ==
    \A w \in Workers :
        req[w].pc \in Reviewing =>
            \E v \in Reviews : req[w].review = {v} /\ req[w].user = {UserOf[v]}

OneHolder ==
    \A q, r \in Requests :
        req[q].pc \in Holding /\ req[r].pc \in Holding /\ req[q].user = req[r].user => q = r

\* How a request r comes to hold the lock, and goes on with it
Holds(r) ==
    /\ req'[r].user = req[r].user /\ req'[r].review = req[r].review
    /\ UNCHANGED reviews
    /\ \/ /\ req[r].pc = "rate" /\ req'[r].pc = "count"
          /\ \A u \in req[r].user : ~Locked(u)
       \/ req[r].pc = "count" /\ HandleLowRatingReviews(r)
       \/ req[r].pc = "warn" /\ req'[r].pc = "commit" /\ req[r].user \subseteq warned'

LEMMA OneStaysOne ==
    ASSUME TypeOK, AboutOne, [Next]_vars
    PROVE  AboutOne'
<1> SUFFICES ASSUME NEW w \in Workers, req'[w].pc \in Reviewing
             PROVE  \E v \in Reviews : req'[w].review = {v} /\ req'[w].user = {UserOf[v]}
  BY DEF AboutOne
<1> USE DEF Reviewing, Holding
<1>0. /\ req \in [Workers -> Request] /\ req[w] \in Request
      /\ Job \in Workers /\ \A r \in Requests : r \in Workers
  BY DEF TypeOK, Workers
<1>1. CASE req'[w] = req[w]
  BY <1>1 DEF AboutOne
<1>2. CASE Crash \/ Finish(w)
  BY <1>0, <1>2 DEF Crash, Finish, Idle
<1>3. ASSUME NEW stage, Goto(w, stage), req[w].pc \in Reviewing
      PROVE  \E v \in Reviews : req'[w].review = {v} /\ req'[w].user = {UserOf[v]}
  BY <1>0, <1>3 DEF Goto, AboutOne, Request
<1>4. CASE Step(w)
  <2>1. CASE FindUsersAndOrder(w) \/ UpdateUserRating(w)
    BY <1>0, <1>2, <2>1 DEF FindUsersAndOrder, UpdateUserRating, AboutOne, Request
  <2>2. CASE \/ HandleLowRatingReviews(w) \/ SendWarning(w) \/ SaveDeactivatedUser(w)
             \/ CommitReview(w)
    BY <1>2, <1>3, <2>2
       DEF HandleLowRatingReviews, SendWarning, SaveDeactivatedUser, CommitReview
  <2>3. CASE MailBeforeSave(w) \/ CompareWithRow(w) \/ UpdateRow(w) \/ LockWaitTimeout(w)
    BY <1>0, <1>2, <2>3
       DEF MailBeforeSave, CompareWithRow, UpdateRow, LockWaitTimeout, Goto, Request
  <2> QED  BY <1>4, <2>1, <2>2, <2>3 DEF Step
<1>5. CASE w \in Requests /\ \E v \in Reviews : CreateReview(w, v)
  BY <1>0, <1>5 DEF CreateReview, Start, Idle
<1>6. CASE /\ w \in Requests
           /\ \/ \E u \in Users, active \in BOOLEAN : UpdateUserProfileByAdmin(w, u, active)
              \/ \E u \in Users : ChangeEmail(w, u)
  <2>1. ASSUME NEW u \in Users, NEW active \in BOOLEAN, UpdateUserProfileByAdmin(w, u, active)
        PROVE  req'[w].pc \in {"diff", "mail"}
    BY <1>0, <2>1 DEF UpdateUserProfileByAdmin, Start, Idle
  <2>2. ASSUME NEW u \in Users, ChangeEmail(w, u)  PROVE req'[w].pc \in {"diff", "mail"}
    BY <1>0, <2>2 DEF ChangeEmail, Start, Idle
  <2> QED  BY <1>6, <2>1, <2>2
<1>7. CASE w = Job /\ (JobStep \/ \E due \in SUBSET Users : ReactivateUsers(due))
  <2>1. CASE CompareWithRow(Job) \/ UpdateRow(Job) \/ LockWaitTimeout(Job)
    BY <1>4, <1>7, <2>1 DEF Step
  <2>2. CASE ReactivationMail
    BY <1>0, <1>2, <1>7, <2>2 DEF ReactivationMail, Idle
  <2>4. ASSUME NEW u \in Users, ReactivateUser(u)  PROVE req'[w].pc = "diff"
    BY <1>0, <1>7, <2>4 DEF ReactivateUser, Idle
  <2>3. CASE ReactivateUsersDone \/ \E due \in SUBSET Users : ReactivateUsers(due)
    BY <1>0, <1>2, <1>7, <2>3 DEF ReactivateUsersDone, ReactivateUsers, Goto, Request
  <2> QED  BY <1>7, <2>1, <2>2, <2>3, <2>4 DEF JobStep
<1> QED
  BY <1>1, <1>2, <1>4, <1>5, <1>6, <1>7, OwnSteps DEF ActionOf

LEMMA LockLife ==
    ASSUME TypeOK, AboutOne, [Next]_vars, NEW r \in Requests, req'[r].pc \in Holding
    PROVE  req'[r] = req[r] \/ Holds(r)
<1> USE DEF Holding, Reviewing
<1>0. /\ req \in [Workers -> Request] /\ r \in Workers /\ r # Job /\ req[r] \in Request
  BY ConstantsAssumption DEF TypeOK, Workers
<1>1. ~Crash /\ ~Finish(r)
  BY <1>0 DEF Crash, Finish, Idle
<1>2. CASE Step(r)
  <2>1. CASE FindUsersAndOrder(r)
    BY <1>0, <1>1, <2>1 DEF FindUsersAndOrder, Request
  <2>2. CASE UpdateUserRating(r)
    <3>1. \A u \in req[r].user : ~Locked(u)
      BY <1>0, <2>2 DEF UpdateUserRating, AboutOne
    <3> QED  BY <1>0, <2>2, <3>1 DEF UpdateUserRating, Holds, Request, db
  <2>3. CASE HandleLowRatingReviews(r)
    BY <1>0, <2>3 DEF HandleLowRatingReviews, Holds, Goto, Request, db
  <2>4. CASE SendWarning(r)
    BY <1>0, <1>1, <2>4 DEF SendWarning, Holds, Goto, Request, db
  <2>5. CASE SaveDeactivatedUser(r)
    <3>1. \A u \in req[r].user : Locked(u)
      BY <1>0, <2>5 DEF SaveDeactivatedUser, AboutOne, Locked, LockedBy
    <3> QED  BY <1>1, <2>5, <3>1 DEF SaveDeactivatedUser
  <2>6. CASE CommitReview(r) \/ LockWaitTimeout(r) \/ UpdateRow(r)
    BY <1>0, <1>1, <2>6 DEF CommitReview, LockWaitTimeout, UpdateRow
  <2>7. CASE MailBeforeSave(r) \/ CompareWithRow(r)
    BY <1>0, <1>1, <2>7 DEF MailBeforeSave, CompareWithRow, Goto, Request
  <2> QED  BY <1>2, <2>1, <2>2, <2>3, <2>4, <2>5, <2>6, <2>7 DEF Step
<1>3. ASSUME NEW v \in Reviews, CreateReview(r, v)  PROVE FALSE
  BY <1>0, <1>3 DEF CreateReview, Start, Idle
<1>4. ASSUME NEW u \in Users, NEW active \in BOOLEAN, UpdateUserProfileByAdmin(r, u, active)
      PROVE  FALSE
  BY <1>0, <1>4 DEF UpdateUserProfileByAdmin, Start, Idle
<1>5. ASSUME NEW u \in Users, ChangeEmail(r, u)  PROVE FALSE
  BY <1>0, <1>5 DEF ChangeEmail, Start, Idle
<1> QED
  BY <1>0, <1>1, <1>2, <1>3, <1>4, <1>5, OwnSteps DEF ActionOf

LEMMA OneHolderStep ==
    ASSUME TypeOK, AboutOne, OneHolder, [Next]_vars
    PROVE  OneHolder'
<1> SUFFICES ASSUME NEW q \in Requests, NEW r \in Requests, q # r,
                    req'[q].pc \in Holding, req'[r].pc \in Holding, req'[q].user = req'[r].user
             PROVE  FALSE
  BY DEF OneHolder
<1> USE DEF Holding, Reviewing
<1>0. req[q].user = req[r].user /\ q \in Workers /\ r \in Workers
  BY LockLife DEF Holds, Workers
\* Nobody takes a lock that somebody holds
<1>1. ASSUME NEW x \in Requests, NEW y \in Requests, req[x].pc = "rate",
             req[x].user = req[y].user, \A u \in req[x].user : ~Locked(u),
             x \in Workers, y \in Workers
      PROVE  req[y].pc \notin Holding
  BY <1>1 DEF AboutOne, Locked, LockedBy
\* Two requests do not take a step at once
<1>2. req'[q] = req[q] \/ req'[r] = req[r]
  <2>1. ~Crash
    BY <1>0 DEF Crash, Idle
  <2> QED  BY <1>0, <2>1, OneActs
<1> QED
  BY <1>0, <1>1, <1>2, LockLife DEF Holds, OneHolder

(***************************************************************************)
(* Low ratings                                                             *)
(***************************************************************************)

Lows(u) == Cardinality(LowOf(u))

LEMMA LowsFinite ==
    ASSUME TypeOK, NEW u
    PROVE  IsFiniteSet(LowOf(u)) /\ Lows(u) \in Nat
<1>1. LowOf(u) \in SUBSET Reviews
  BY DEF LowOf, About, TypeOK
<1> QED
  BY <1>1, ConstantsAssumption, FS_Subset, FS_CardinalityType DEF Lows

\* Losing reviews, or gaining one, of a set
LEMMA LowsBounds ==
    ASSUME TypeOK, TypeOK', NEW u
    PROVE  /\ LowOf(u)' \subseteq LowOf(u) => Lows(u)' <= Lows(u)
           /\ \A v : LowOf(u)' \subseteq LowOf(u) \cup {v} => Lows(u)' <= Lows(u) + 1
<1>1. IsFiniteSet(LowOf(u)) /\ IsFiniteSet(LowOf(u)')
  <2>1. LowOf(u)' \in SUBSET Reviews
    BY DEF LowOf, About, TypeOK
  <2> QED  BY <2>1, LowsFinite, ConstantsAssumption, FS_Subset
<1>2. Lows(u) \in Nat /\ Lows(u)' \in Nat
  BY <1>1, FS_CardinalityType DEF Lows
<1>3. LowOf(u)' \subseteq LowOf(u) => Lows(u)' <= Lows(u)
  BY <1>1, FS_Subset DEF Lows
<1>4. ASSUME NEW v, LowOf(u)' \subseteq LowOf(u) \cup {v}
      PROVE  Lows(u)' <= Lows(u) + 1
  <2>1. /\ IsFiniteSet(LowOf(u) \cup {v})
        /\ Cardinality(LowOf(u) \cup {v}) <= Lows(u) + 1
    BY <1>1, <1>2, FS_AddElement DEF Lows
  <2>2. Lows(u)' <= Cardinality(LowOf(u) \cup {v})
    BY <1>4, <2>1, FS_Subset DEF Lows
  <2>3. Cardinality(LowOf(u) \cup {v}) \in Nat
    BY <2>1, FS_CardinalityType
  <2> QED  BY <1>2, <2>1, <2>2, <2>3
<1> QED
  BY <1>3, <1>4

\* What a handler that holds the lock knows about the stored reviews
CountsHold ==
    \A r \in Requests : \A u \in req[r].user :
        /\ req[r].pc = "warn" => Lows(u) <= 1
        /\ req[r].pc = "commit" /\ req[r].review \cap Low # {} =>
               Lows(u) = 0 \/ (Lows(u) <= 1 /\ u \in warned)

\* The inductive invariant
LimitInv ==
    /\ TypeOK /\ AboutOne /\ OneHolder
    /\ CountsHold
    /\ \A u \in Users : Lows(u) = 0 \/ Lows(u) = 1 \/ (Lows(u) = 2 /\ u \in warned)

\* Reviews are added by a commit only, one at a time
LEMMA ReviewsGrow ==
    ASSUME TypeOK, AboutOne, [Next]_vars
    PROVE  /\ warned \subseteq warned'
           /\ \/ reviews' \subseteq reviews
              \/ \E r \in Requests : CommitReview(r) /\ UNCHANGED warned
<1> USE DEF db
<1>1. ASSUME NEW w \in Workers, Step(w), ~CommitReview(w)
      PROVE  reviews' = reviews /\ warned \subseteq warned'
  BY <1>1 DEF Step, FindUsersAndOrder, UpdateUserRating, HandleLowRatingReviews, SendWarning,
     SaveDeactivatedUser, MailBeforeSave, CompareWithRow, UpdateRow, LockWaitTimeout
<1>2. ASSUME NEW w \in Workers, CommitReview(w)  PROVE UNCHANGED warned
  BY <1>2 DEF CommitReview
<1>3. CASE JobStep
  <2>1. CASE CompareWithRow(Job) \/ UpdateRow(Job) \/ LockWaitTimeout(Job)
    BY <2>1 DEF CompareWithRow, UpdateRow, LockWaitTimeout
  <2> QED
    BY <1>3, <2>1 DEF JobStep, ReactivationMail, ReactivateUsersDone, ReactivateUser
<1>4. ASSUME NEW r \in Requests,
             \/ \E v \in Reviews : CreateReview(r, v)
             \/ \E u \in Users, active \in BOOLEAN : UpdateUserProfileByAdmin(r, u, active)
             \/ \E u \in Users : ChangeEmail(r, u)
      PROVE  UNCHANGED <<reviews, warned>>
  BY <1>4 DEF CreateReview, UpdateUserProfileByAdmin, ChangeEmail
<1>5. CASE \/ \E v \in Reviews : DeleteReview(v)
           \/ \E u \in Users : RefreshToken(u)
           \/ \E due \in SUBSET Users : ReactivateUsers(due)
           \/ Crash \/ UNCHANGED vars
  BY <1>5 DEF DeleteReview, RefreshToken, ReactivateUsers, Crash, vars
<1> QED
  BY <1>1, <1>2, <1>3, <1>4, <1>5 DEF Next, Workers

LEMMA LimitStep ==
    ASSUME LimitInv, [Next]_vars
    PROVE  LimitInv'
<1> USE DEF Holding, Reviewing
<1>t. TypeOK /\ TypeOK' /\ AboutOne /\ AboutOne' /\ OneHolder'
  BY NextType, OneStaysOne, OneHolderStep DEF LimitInv
<1>n. \A u : Lows(u) \in Nat /\ Lows(u)' \in Nat
  <2>1. ASSUME NEW u  PROVE Lows(u) \in Nat
    BY <1>t, LowsFinite
  <2>2. ASSUME NEW u  PROVE Lows(u)' \in Nat
    <3>1. LowOf(u)' \in SUBSET Reviews
      BY <1>t DEF LowOf, About, TypeOK
    <3> QED  BY <3>1, ConstantsAssumption, FS_Subset, FS_CardinalityType DEF Lows
  <2> QED  BY <2>1, <2>2
<1>w. \A r \in Requests : r \in Workers /\ req[r] \in Request /\ req[r].user \subseteq Users
  BY <1>t DEF TypeOK, Workers, Request
\* Reviews are read, deleted or left alone
<1>1. ASSUME reviews' \subseteq reviews, warned \subseteq warned'
      PROVE  LimitInv'
  <2>1. \A u : Lows(u)' <= Lows(u)
    BY <1>t, <1>1, LowsBounds DEF LowOf, About
  <2>2. \A u \in Users : Lows(u)' = 0 \/ Lows(u)' = 1 \/ (Lows(u)' = 2 /\ u \in warned')
    BY <1>1, <1>n, <2>1 DEF LimitInv
  <2>3. ASSUME NEW r \in Requests, NEW u \in req'[r].user, req'[r].pc \in {"warn", "commit"}
        PROVE  /\ req'[r].pc = "warn" => Lows(u)' <= 1
               /\ req'[r].pc = "commit" /\ req'[r].review \cap Low # {} =>
                      Lows(u)' = 0 \/ (Lows(u)' <= 1 /\ u \in warned')
    <3>1. CASE req'[r] = req[r]
      BY <1>1, <1>n, <2>1, <2>3, <3>1 DEF LimitInv, CountsHold
    <3>2. CASE Holds(r)
      <4>1. u \in req[r].user /\ req'[r].review = req[r].review /\ Lows(u)' = Lows(u)
        BY <2>3, <3>2 DEF Holds, Lows, LowOf
      <4>2. CASE req[r].pc = "count" /\ HandleLowRatingReviews(r)
        <5>1. req[r].user = {u}
          BY <1>t, <1>w, <4>1, <4>2 DEF AboutOne
        <5> DEFINE low == IF req[r].review \subseteq Low THEN Lows(u) ELSE 0
        <5>2. Goto(r, CASE low = LOW_RATINGS_COUNT_ONE  -> "warn"
                        [] low >= LOW_RATINGS_COUNT_TWO -> "deactivate"
                        [] OTHER                        -> "commit")
          BY <4>2, <5>1 DEF HandleLowRatingReviews, Lows
        <5> HIDE DEF low
        <5>3. /\ low = 1 => req'[r].pc = "warn"
              /\ low >= 2 => req'[r].pc = "deactivate"
              /\ low = 0 => req'[r].pc = "commit"
          BY <1>t, <1>w, <5>2
             DEF Goto, TypeOK, Request, LOW_RATINGS_COUNT_ONE, LOW_RATINGS_COUNT_TWO
        <5>4. low = Lows(u) \/ (low = 0 /\ req[r].review \cap Low = {})
          BY <1>t, <1>w, <4>2 DEF low, AboutOne
        <5> QED  BY <1>n, <4>1, <5>3, <5>4
      <4>3. CASE req[r].pc = "warn" /\ req'[r].pc = "commit" /\ req[r].user \subseteq warned'
        BY <4>1, <4>3 DEF LimitInv, CountsHold
      <4> QED  BY <2>3, <3>2, <4>2, <4>3 DEF Holds
    <3> QED  BY <1>t, <2>3, <3>1, <3>2, LockLife
  <2>4. CountsHold'
    BY <2>3 DEF CountsHold
  <2> QED  BY <1>t, <2>2, <2>4 DEF LimitInv
\* A review is stored, by the one who holds the lock
<1>2. ASSUME NEW r \in Requests, CommitReview(r), UNCHANGED warned
      PROVE  LimitInv'
  <2>1. PICK v \in Reviews : req[r].review = {v} /\ req[r].user = {UserOf[v]}
    BY <1>t, <1>w, <1>2 DEF CommitReview, AboutOne
  <2>2. req[r].pc = "commit" /\ reviews' = reviews \cup {v} /\ req'[r] = Idle
    BY <1>t, <1>w, <1>2, <2>1 DEF CommitReview, Finish, TypeOK
  <2>3. \A u : u # UserOf[v] => Lows(u)' <= Lows(u)
    BY <1>t, <2>2, LowsBounds DEF LowOf, About
  <2>4. ASSUME v \notin Low
        PROVE  \A u \in Users : Lows(u)' = 0 \/ Lows(u)' = 1 \/ (Lows(u)' = 2 /\ u \in warned')
    <3>1. \A u : Lows(u)' <= Lows(u)
      BY <1>t, <2>2, <2>4, LowsBounds DEF LowOf, About
    <3> QED  BY <1>2, <1>n, <3>1 DEF LimitInv
  <2>5. ASSUME v \in Low
        PROVE  \A u \in Users : Lows(u)' = 0 \/ Lows(u)' = 1 \/ (Lows(u)' = 2 /\ u \in warned')
    <3>1. Lows(UserOf[v])' <= Lows(UserOf[v]) + 1
      BY <1>t, <2>2, LowsBounds DEF LowOf, About
    <3>2. Lows(UserOf[v]) = 0 \/ (Lows(UserOf[v]) <= 1 /\ UserOf[v] \in warned)
      BY <2>1, <2>2, <2>5 DEF LimitInv, CountsHold
    <3> QED  BY <1>2, <1>n, <2>3, <3>1, <3>2 DEF LimitInv
  <2>6. ASSUME NEW q \in Requests, req'[q].pc \in {"warn", "commit"}
        PROVE  req'[q] = req[q] /\ \A u \in req[q].user : Lows(u)' <= Lows(u)
    <3>1. q # r
      BY <2>2, <2>6 DEF Idle
    <3>2. req'[q] = req[q]
      BY <1>t, <1>w, <1>2, <3>1, OthersStay DEF ActionOf, Step
    <3>3. PICK x \in Reviews : req[q].user = {UserOf[x]}
      BY <1>t, <1>w, <2>6, <3>2 DEF AboutOne
    <3>4. UserOf[x] # UserOf[v]
      BY <2>1, <2>2, <2>6, <3>1, <3>2, <3>3 DEF LimitInv, OneHolder
    <3> QED  BY <2>3, <3>2, <3>3, <3>4
  <2>7. CountsHold'
    BY <1>2, <1>n, <2>6, <1>w DEF LimitInv, CountsHold
  <2> QED  BY <1>t, <2>4, <2>5, <2>7 DEF LimitInv
<1> QED
  BY <1>t, <1>1, <1>2, ReviewsGrow

LEMMA LimitsHold == Spec => []LimitInv
<1>1. ASSUME Init  PROVE LimitInv
  <2>1. \A w \in Workers : req[w] = Idle
    BY <1>1 DEF Init
  <2>2. Idle.pc = "idle" /\ \A r \in Requests : r \in Workers
    BY DEF Idle, Workers
  <2>3. AboutOne /\ OneHolder /\ CountsHold
    BY <2>1, <2>2 DEF AboutOne, OneHolder, CountsHold, Reviewing, Holding
\* One low review of a user is stored already, at most
  <2>4. ASSUME NEW u \in Users  PROVE Lows(u) = 0 \/ Lows(u) = 1
    <3>1. \A v, x \in LowOf(u) : v = x
      BY <1>1, ConstantsAssumption DEF Init, LowOf, About
    <3>2. CASE LowOf(u) = {}
      BY <3>2, FS_EmptySet DEF Lows
    <3>3. ASSUME NEW v \in LowOf(u)  PROVE Lows(u) = 1
      <4>1. LowOf(u) = {v}
        BY <3>1, <3>3
      <4> QED  BY <4>1, FS_Singleton DEF Lows
    <3> QED  BY <3>2, <3>3
  <2> QED  BY <1>1, <2>3, <2>4, InitType DEF LimitInv
<1> QED
  BY <1>1, LimitStep, PTL DEF Spec

\* Nobody has two low reviews without the warning mail, however many requests
\* post them at once, whatever fails (handleLowRatingReviews)
THEOREM WarningCorrect == Spec => []SecondLowReviewWarns
<1>1. LimitInv => SecondLowReviewWarns
  BY DEF LimitInv, SecondLowReviewWarns, Lows, LOW_RATINGS_COUNT_ONE
<1> QED
  BY <1>1, LimitsHold, PTL

\* No account keeps more low reviews than the limit, for the review that would
\* exceed it is rolled back (handleLowRatingReviews, createReview)
THEOREM LimitCorrect == Spec => []ActiveAccountWithinLimit
<1>1. LimitInv => ActiveAccountWithinLimit
  BY DEF LimitInv, ActiveAccountWithinLimit, Lows, LOW_RATINGS_COUNT_TWO
<1> QED
  BY <1>1, LimitsHold, PTL

(***************************************************************************)
(* What the rating is taken of                                             *)
(***************************************************************************)

Stored(u) == About(u, reviews \cup deleted)

\* A stored review is not forgotten
LEMMA StoredStays ==
    ASSUME [Next]_vars, NEW u
    PROVE  Stored(u) \subseteq Stored(u)'
<1> USE DEF db
<1>1. ASSUME NEW w \in Workers, Step(w)  PROVE reviews \cup deleted \subseteq reviews' \cup deleted'
  BY <1>1 DEF Step, FindUsersAndOrder, UpdateUserRating, HandleLowRatingReviews, SendWarning,
     SaveDeactivatedUser, CommitReview, MailBeforeSave, CompareWithRow, UpdateRow, LockWaitTimeout
<1>2. ASSUME JobStep  PROVE reviews \cup deleted \subseteq reviews' \cup deleted'
  <2>1. CASE CompareWithRow(Job) \/ UpdateRow(Job) \/ LockWaitTimeout(Job)
    BY <2>1 DEF CompareWithRow, UpdateRow, LockWaitTimeout
  <2> QED
    BY <1>2, <2>1 DEF JobStep, ReactivationMail, ReactivateUsersDone, ReactivateUser
<1>3. ASSUME NEW r \in Requests,
             \/ \E v \in Reviews : CreateReview(r, v)
             \/ \E x \in Users, active \in BOOLEAN : UpdateUserProfileByAdmin(r, x, active)
             \/ \E x \in Users : ChangeEmail(r, x)
      PROVE  UNCHANGED <<reviews, deleted>>
  BY <1>3 DEF CreateReview, UpdateUserProfileByAdmin, ChangeEmail
<1>4. CASE \E v \in Reviews : DeleteReview(v)
  BY <1>4 DEF DeleteReview, Stored, About
<1>5. CASE \/ \E due \in SUBSET Users : ReactivateUsers(due)
           \/ \E x \in Users : RefreshToken(x)
           \/ Crash \/ UNCHANGED vars
  BY <1>5 DEF ReactivateUsers, RefreshToken, Crash, vars, Stored, About
<1> QED
  BY <1>1, <1>2, <1>3, <1>4, <1>5 DEF Next, Workers, Stored, About

\* How a rating gets into a user's row: with a review, or with a whole copy of it
LEMMA RatingWritten ==
    ASSUME TypeOK, [Next]_vars, NEW u \in Users
    PROVE  \/ user'[u].rated = user[u].rated
           \/ \E w \in Workers :
                  /\ u \in req[w].user
                  /\ \/ CommitReview(w) /\ user'[u].rated = req[w].seen
                     \/ UpdateRow(w) /\ user'[u].rated = req[w].entity.rated
<1> USE DEF db
<1>0. user \in [Users -> Row]
  BY DEF TypeOK
<1>1. ASSUME NEW w \in Workers, Step(w)
      PROVE  \/ user'[u].rated = user[u].rated
             \/ u \in req[w].user /\ CommitReview(w) /\ user'[u].rated = req[w].seen
             \/ u \in req[w].user /\ UpdateRow(w) /\ user'[u].rated = req[w].entity.rated
  <2>1. CASE CommitReview(w)
    <3>1. PICK x \in req[w].user : user' = [user EXCEPT ![x].rated = req[w].seen]
      BY <2>1 DEF CommitReview
    <3> QED  BY <1>0, <2>1, <3>1
  <2>2. CASE UpdateRow(w)
    <3>1. PICK x \in req[w].user :
            user' = [user EXCEPT ![x] = Written(req[w].entity, req[w].dirty, @)]
      BY <2>2 DEF UpdateRow
    <3> QED  BY <1>0, <2>2, <3>1 DEF Written
  <2>3. CASE SaveDeactivatedUser(w)
    <3>1. PICK x \in req[w].user :
            user' = user \/ user' = [user EXCEPT ![x].active = FALSE, ![x].window = TRUE]
      BY <2>3 DEF SaveDeactivatedUser
    <3>2. x \in Users
      BY DEF TypeOK, Request
    <3>3. user' = user \/ user' = [user EXCEPT ![x] = [user[x] EXCEPT !.active = FALSE, !.window = TRUE]]
      BY <1>0, <3>1, <3>2
    <3>4. [user[x] EXCEPT !.active = FALSE, !.window = TRUE].rated = user[x].rated
      BY <1>0, <3>2 DEF Row
    <3> QED  BY <1>0, <3>2, <3>3, <3>4
  <2>4. CASE \/ FindUsersAndOrder(w) \/ UpdateUserRating(w) \/ HandleLowRatingReviews(w)
             \/ SendWarning(w) \/ MailBeforeSave(w) \/ CompareWithRow(w) \/ LockWaitTimeout(w)
    BY <2>4 DEF FindUsersAndOrder, UpdateUserRating, HandleLowRatingReviews, SendWarning,
       MailBeforeSave, CompareWithRow, LockWaitTimeout
  <2> QED  BY <1>1, <2>1, <2>2, <2>3, <2>4 DEF Step
<1>2. CASE JobStep
  <2>1. CASE CompareWithRow(Job) \/ UpdateRow(Job) \/ LockWaitTimeout(Job)
    BY <1>1, <2>1 DEF Step, Workers
  <2> QED
    BY <1>2, <2>1 DEF JobStep, ReactivationMail, ReactivateUsersDone, ReactivateUser
<1>3. ASSUME NEW r \in Requests,
             \/ \E v \in Reviews : CreateReview(r, v)
             \/ \E x \in Users, active \in BOOLEAN : UpdateUserProfileByAdmin(r, x, active)
             \/ \E x \in Users : ChangeEmail(r, x)
      PROVE  UNCHANGED user
  BY <1>3 DEF CreateReview, UpdateUserProfileByAdmin, ChangeEmail
<1>4. CASE \/ \E v \in Reviews : DeleteReview(v)
           \/ \E due \in SUBSET Users : ReactivateUsers(due)
           \/ \E x \in Users : RefreshToken(x)
           \/ Crash \/ UNCHANGED vars
  BY <1>4 DEF DeleteReview, ReactivateUsers, RefreshToken, Crash, vars
<1> QED
  BY <1>1, <1>2, <1>3, <1>4 DEF Next, Workers

\* What the job has loaded of a user, it read in his row
LEMMA RatingLoaded ==
    ASSUME TypeOK, [Next]_vars, NEW u \in Users
    PROVE  \/ batch'.rows[u].rated = {} /\ u \notin batch'.users
           \/ batch'.rows[u].rated = batch.rows[u].rated /\ (u \in batch'.users => u \in batch.users)
           \/ batch'.rows[u].rated = user[u].rated
<1> USE DEF db
<1>0. NoRow.rated = {} /\ NothingLoaded.rows[u] = NoRow /\ NothingLoaded.users = {}
  BY DEF NoRow, NothingLoaded
<1>t. batch \in [users: SUBSET Users, rows: [Users -> Row]]
  BY DEF TypeOK
<1>1. ASSUME NEW w \in Workers, Step(w)
      PROVE  batch' = batch \/ batch' = NothingLoaded
  BY <1>1 DEF Step, FindUsersAndOrder, UpdateUserRating, HandleLowRatingReviews, SendWarning,
     SaveDeactivatedUser, CommitReview, MailBeforeSave, CompareWithRow, UpdateRow, LockWaitTimeout
<1>2. CASE JobStep
  <2>1. CASE CompareWithRow(Job) \/ UpdateRow(Job) \/ LockWaitTimeout(Job)
    BY <1>0, <1>1, <2>1 DEF Step, Workers
  <2>2. ASSUME NEW x \in Users, ReactivateUser(x)
        PROVE  \/ batch'.rows[u] = NoRow /\ u \notin batch'.users
               \/ batch'.rows[u] = batch.rows[u] /\ batch'.users \subseteq batch.users
    BY <1>t, <2>2 DEF ReactivateUser
  <2>3. CASE ReactivationMail \/ ReactivateUsersDone
    BY <1>0, <2>3 DEF ReactivationMail, ReactivateUsersDone
  <2> QED  BY <1>0, <1>2, <2>1, <2>2, <2>3 DEF JobStep
<1>3. ASSUME NEW r \in Requests,
             \/ \E v \in Reviews : CreateReview(r, v)
             \/ \E x \in Users, active \in BOOLEAN : UpdateUserProfileByAdmin(r, x, active)
             \/ \E x \in Users : ChangeEmail(r, x)
      PROVE  UNCHANGED batch
  BY <1>3 DEF CreateReview, UpdateUserProfileByAdmin, ChangeEmail
<1>4. CASE \/ \E v \in Reviews : DeleteReview(v)
           \/ \E x \in Users : RefreshToken(x)
           \/ Crash \/ UNCHANGED vars
  BY <1>0, <1>4 DEF DeleteReview, RefreshToken, Crash, vars
<1>5. ASSUME NEW due \in SUBSET Users, ReactivateUsers(due)
      PROVE  \/ batch'.rows[u].rated = {} /\ u \notin batch'.users
             \/ batch'.rows[u].rated = user[u].rated
  BY <1>0, <1>5 DEF ReactivateUsers
<1> QED
  BY <1>0, <1>1, <1>2, <1>3, <1>4, <1>5 DEF Next, Workers

\* What a token carries of a user, it carried before or was signed with from his row
LEMMA TokenSigned ==
    ASSUME TypeOK, [Next]_vars, NEW u \in Users
    PROVE  token'[u].rated = token[u].rated \/ token'[u].rated = user[u].rated
<1>1. ASSUME NEW w \in Workers, Step(w)  PROVE token' = token
  BY <1>1 DEF Step, FindUsersAndOrder, UpdateUserRating, HandleLowRatingReviews, SendWarning,
     SaveDeactivatedUser, CommitReview, MailBeforeSave, CompareWithRow, UpdateRow, LockWaitTimeout
<1>2. CASE JobStep
  <2>1. CASE CompareWithRow(Job) \/ UpdateRow(Job) \/ LockWaitTimeout(Job)
    BY <1>1, <2>1 DEF Step, Workers
  <2> QED
    BY <1>2, <2>1 DEF JobStep, ReactivationMail, ReactivateUsersDone, ReactivateUser
<1>3. ASSUME NEW r \in Requests,
             \/ \E v \in Reviews : CreateReview(r, v)
             \/ \E x \in Users, active \in BOOLEAN : UpdateUserProfileByAdmin(r, x, active)
             \/ \E x \in Users : ChangeEmail(r, x)
      PROVE  token' = token
  BY <1>3 DEF CreateReview, UpdateUserProfileByAdmin, ChangeEmail
<1>4. CASE \/ \E v \in Reviews : DeleteReview(v)
           \/ \E due \in SUBSET Users : ReactivateUsers(due)
           \/ Crash \/ UNCHANGED vars
  BY <1>4 DEF DeleteReview, ReactivateUsers, Crash, vars
<1>5. ASSUME NEW x \in Users, RefreshToken(x)
      PROVE  token'[u] = token[u] \/ token'[u] = user[u]
  BY <1>5 DEF RefreshToken, TypeOK
<1> QED
  BY <1>1, <1>2, <1>3, <1>4, <1>5 DEF Next, Workers

\* A handler's copy of the row, and what its transaction has seen, are of stored
\* reviews and of the review the handler is about to store
SeenStored ==
    \A w \in Workers : \A u \in req[w].user :
        /\ req[w].entity.rated \subseteq Stored(u)
        /\ req[w].pc = "rate" => req[w].seen \subseteq reviews \cup deleted
        /\ req[w].pc \in Holding => req[w].seen \subseteq Stored(u) \cup req[w].review

\* The inductive invariant
StoredInv ==
    /\ TypeOK /\ AboutOne
    /\ SeenStored
    /\ RatingOfStoredReviews
    /\ \A u \in Users : batch.rows[u].rated \subseteq Stored(u)
    /\ \A u \in Users : token[u].rated \subseteq Stored(u)

LEMMA SeenStoredStep ==
    ASSUME StoredInv, [Next]_vars
    PROVE  SeenStored'
<1> SUFFICES ASSUME NEW w \in Workers, NEW u \in req'[w].user
             PROVE  /\ req'[w].entity.rated \subseteq Stored(u)'
                    /\ req'[w].pc = "rate" => req'[w].seen \subseteq reviews' \cup deleted'
                    /\ req'[w].pc \in Holding => req'[w].seen \subseteq Stored(u)' \cup req'[w].review
  BY DEF SeenStored
<1> USE DEF Holding, Reviewing
<1>0. /\ req \in [Workers -> Request] /\ req[w] \in Request
      /\ Job \in Workers /\ \A r \in Requests : r \in Workers
  BY DEF TypeOK, Workers, StoredInv
<1>s. /\ Stored(u) \subseteq Stored(u)'
      /\ reviews \cup deleted \subseteq reviews' \cup deleted'
  <2>1. \A v \in Reviews : Stored(UserOf[v]) \subseteq Stored(UserOf[v])'
    BY StoredStays
  <2> QED  BY <2>1, StoredStays DEF Stored, About, StoredInv, TypeOK
<1>u. ASSUME u \in Users  PROVE user[u].rated \subseteq Stored(u)
  BY <1>u DEF StoredInv, RatingOfStoredReviews, Stored
<1>1. CASE req'[w] = req[w]
  BY <1>s, <1>1 DEF StoredInv, SeenStored
<1>2. CASE Crash \/ Finish(w)
  BY <1>0, <1>2 DEF Crash, Finish, Idle
<1>3. ASSUME NEW stage, Goto(w, stage), stage # "rate",
             stage \in Holding => req[w].pc \in Holding
      PROVE  /\ req'[w].entity.rated \subseteq Stored(u)'
             /\ req'[w].pc # "rate"
             /\ req'[w].pc \in Holding => req'[w].seen \subseteq Stored(u)' \cup req'[w].review
  BY <1>0, <1>s, <1>3 DEF Goto, StoredInv, SeenStored, Request
<1>4. CASE Step(w)
  <2>1. CASE FindUsersAndOrder(w)
    BY <1>0, <1>2, <1>s, <2>1 DEF FindUsersAndOrder, StoredInv, SeenStored, Request
  <2>2. CASE UpdateUserRating(w)
    <3>1. PICK x \in req[w].user :
            req' = [req EXCEPT ![w].pc = "count", ![w].seen = About(x, @) \cup req[w].review]
      BY <2>2 DEF UpdateUserRating
    <3>2. x = u /\ u \in req[w].user
      BY <1>0, <2>2, <3>1 DEF UpdateUserRating, StoredInv, AboutOne, Request
    <3>3. req'[w].seen = About(u, req[w].seen) \cup req[w].review
      BY <1>0, <3>1, <3>2 DEF Request
    <3>4. About(u, req[w].seen) \subseteq Stored(u)
      BY <2>2, <3>2 DEF UpdateUserRating, StoredInv, SeenStored, Stored, About
    <3> QED  BY <1>0, <1>s, <3>1, <3>2, <3>3, <3>4 DEF StoredInv, SeenStored, Request
  <2>3. CASE \/ HandleLowRatingReviews(w) \/ SendWarning(w) \/ SaveDeactivatedUser(w)
             \/ CommitReview(w) \/ MailBeforeSave(w) \/ UpdateRow(w) \/ LockWaitTimeout(w)
    BY <1>2, <1>3, <2>3 DEF HandleLowRatingReviews, SendWarning, SaveDeactivatedUser,
       CommitReview, MailBeforeSave, UpdateRow, LockWaitTimeout
  <2>4. CASE CompareWithRow(w)
    BY <1>0, <1>s, <2>4 DEF CompareWithRow, StoredInv, SeenStored, Request
  <2> QED  BY <1>4, <2>1, <2>2, <2>3, <2>4 DEF Step
<1>5. CASE w \in Requests /\ \E v \in Reviews : CreateReview(w, v)
  BY <1>0, <1>5 DEF CreateReview, Start, Idle, NoRow
<1>6. ASSUME NEW x \in Users, NEW active \in BOOLEAN, UpdateUserProfileByAdmin(w, x, active)
      PROVE  /\ req'[w].entity.rated \subseteq Stored(u)'
             /\ req'[w].pc \notin {"rate"} \cup Holding
  <2>1. /\ req'[w] = [Idle EXCEPT !.pc = IF active THEN "diff" ELSE "mail", !.user = {x},
                                  !.entity = [user[x] EXCEPT !.active = active]]
        /\ user[x] \in Row
    BY <1>0, <1>6 DEF UpdateUserProfileByAdmin, Start, StoredInv, TypeOK
  <2>2. x = u /\ req'[w].entity.rated = user[u].rated
    BY <2>1 DEF Idle, Row
  <2> QED  BY <1>s, <1>u, <2>1, <2>2 DEF Idle
<1>8. ASSUME NEW x \in Users, ChangeEmail(w, x)
      PROVE  /\ req'[w].entity.rated \subseteq Stored(u)'
             /\ req'[w].pc \notin {"rate"} \cup Holding
  <2>1. req'[w] = [Idle EXCEPT !.pc = "mail", !.user = {x}, !.entity = token[x]]
    BY <1>0, <1>8 DEF ChangeEmail, Start
  <2>2. x = u /\ req'[w].entity.rated = token[u].rated /\ req'[w].pc = "mail"
    BY <2>1 DEF Idle
  <2> QED  BY <1>s, <2>2 DEF StoredInv
<1>7. CASE w = Job /\ (JobStep \/ \E due \in SUBSET Users : ReactivateUsers(due))
  <2>1. CASE CompareWithRow(Job) \/ UpdateRow(Job) \/ LockWaitTimeout(Job)
    BY <1>4, <1>7, <2>1 DEF Step
  <2>2. CASE ReactivationMail
    BY <1>0, <1>2, <1>7, <2>2 DEF ReactivationMail, Idle
  <2>3. CASE ReactivateUsersDone \/ \E due \in SUBSET Users : ReactivateUsers(due)
    BY <1>2, <1>3, <1>7, <2>3 DEF ReactivateUsersDone, ReactivateUsers
  <2>4. ASSUME NEW x \in Users, ReactivateUser(x)
        PROVE  /\ req'[w].entity.rated \subseteq Stored(u)'
               /\ req'[w].pc \notin {"rate"} \cup Holding
    <3>1. /\ req'[w] = [Idle EXCEPT !.pc = "diff", !.user = {x},
                                    !.entity = [batch.rows[x] EXCEPT !.active = TRUE, !.window = FALSE]]
          /\ batch.rows[x] \in Row
      BY <1>0, <1>7, <2>4 DEF ReactivateUser, StoredInv, TypeOK
    <3>2. x = u /\ req'[w].pc = "diff"
      BY <3>1 DEF Idle
    <3>3. [batch.rows[x] EXCEPT !.active = TRUE, !.window = FALSE].rated = batch.rows[x].rated
      BY <3>1 DEF Row
    <3>4. req'[w].entity.rated = batch.rows[u].rated
      BY <3>1, <3>2, <3>3 DEF Idle
    <3> QED  BY <1>s, <3>2, <3>4 DEF StoredInv
  <2> QED  BY <1>7, <2>1, <2>2, <2>3, <2>4 DEF JobStep
<1> QED
  BY <1>1, <1>2, <1>4, <1>5, <1>6, <1>7, <1>8, OwnSteps DEF ActionOf, StoredInv

LEMMA StoredStep ==
    ASSUME StoredInv, [Next]_vars
    PROVE  StoredInv'
<1>1. TypeOK' /\ AboutOne' /\ SeenStored'
  BY NextType, OneStaysOne, SeenStoredStep DEF StoredInv
<1>2. ASSUME NEW u \in Users  PROVE user'[u].rated \subseteq Stored(u)'
  <2>0. Stored(u) \subseteq Stored(u)' /\ user[u].rated \subseteq Stored(u)
    BY StoredStays DEF StoredInv, RatingOfStoredReviews, Stored
  <2>1. ASSUME NEW w \in Workers, u \in req[w].user, CommitReview(w)
        PROVE  req[w].seen \subseteq Stored(u)'
    <3>1. PICK v \in Reviews : req[w].review = {v} /\ req[w].user = {UserOf[v]}
      BY <2>1 DEF CommitReview, StoredInv, AboutOne, Reviewing, Holding
    <3>2. req[w].review \subseteq Stored(u)'
      BY <2>1, <3>1 DEF CommitReview, Stored, About
    <3>3. req[w].seen \subseteq Stored(u) \cup req[w].review
      BY <2>1 DEF CommitReview, StoredInv, SeenStored, Holding
    <3> QED  BY <2>0, <3>2, <3>3
  <2>2. ASSUME NEW w \in Workers, u \in req[w].user, UpdateRow(w)
        PROVE  req[w].entity.rated \subseteq Stored(u)'
    BY <2>0, <2>2 DEF StoredInv, SeenStored
  <2> QED  BY <2>0, <2>1, <2>2, RatingWritten DEF StoredInv
<1>3. ASSUME NEW u \in Users  PROVE batch'.rows[u].rated \subseteq Stored(u)'
  <2>1. /\ Stored(u) \subseteq Stored(u)' /\ user[u].rated \subseteq Stored(u)
        /\ batch.rows[u].rated \subseteq Stored(u)
    BY StoredStays DEF StoredInv, RatingOfStoredReviews, Stored
  <2>2. batch'.rows[u].rated \in {{}, batch.rows[u].rated, user[u].rated}
    BY RatingLoaded DEF StoredInv
  <2> QED  BY <2>1, <2>2
<1>4. ASSUME NEW u \in Users  PROVE token'[u].rated \subseteq Stored(u)'
  <2>1. /\ Stored(u) \subseteq Stored(u)' /\ user[u].rated \subseteq Stored(u)
        /\ token[u].rated \subseteq Stored(u)
    BY StoredStays DEF StoredInv, RatingOfStoredReviews, Stored
  <2>2. token'[u].rated = token[u].rated \/ token'[u].rated = user[u].rated
    BY TokenSigned DEF StoredInv
  <2> QED  BY <2>1, <2>2
<1> QED
  BY <1>1, <1>2, <1>3, <1>4 DEF StoredInv, RatingOfStoredReviews, Stored

\* A rating is an average of reviews that were stored: a handler that fails, or is
\* rolled back, leaves no trace in it (createReview, updateUserRating, and the saves
\* of whole rows by the administrator, the job and, from however old a token,
\* changeEmail)
THEOREM RatingCorrect == Spec => []RatingOfStoredReviews
<1>1. ASSUME Init  PROVE StoredInv
  <2>1. /\ \A w \in Workers : req[w] = Idle
        /\ \A u \in Users : batch.rows[u] = NoRow
        /\ \A u \in Users : /\ user[u].rated = About(u, reviews)
                           /\ token[u].rated = About(u, reviews)
    BY <1>1 DEF Init, NothingLoaded
  <2>2. Idle.pc = "idle" /\ Idle.user = {} /\ NoRow.rated = {}
    BY DEF Idle, NoRow
  <2> QED
    BY <1>1, <2>1, <2>2, InitType
       DEF StoredInv, AboutOne, SeenStored, RatingOfStoredReviews, Reviewing, Holding,
           Stored, About
<1>2. StoredInv => RatingOfStoredReviews
  BY DEF StoredInv
<1> QED
  BY <1>1, <1>2, StoredStep, PTL DEF Spec

(***************************************************************************)
(* Users whose requests come one at a time                                 *)
(***************************************************************************)

\* One worker at most is about user u, and none while the job has yet to visit him
Alone(u) ==
    /\ \A w, x \in Workers : u \in req[w].user /\ u \in req[x].user => w = x
    /\ u \in batch.users => \A w \in Workers : u \notin req[w].user

Editing == {"mail", "diff", "write"}

\* Every copy of the rating that may be written back misses no review
HandlersComplete(u) ==
    \A w \in Workers :
        u \in req[w].user =>
            /\ req[w].pc \in Editing => About(u, reviews) \subseteq req[w].entity.rated
            /\ req[w].pc \in {"rate"} \cup Holding => About(u, reviews) \subseteq req[w].seen
            /\ req[w].pc \in Holding => req[w].review \subseteq req[w].seen

Complete(u) ==
    /\ About(u, reviews) \subseteq user[u].rated
    /\ u \in batch.users => About(u, reviews) \subseteq batch.rows[u].rated
    /\ HandlersComplete(u)

\* The inductive invariant
AloneInv == TypeOK /\ AboutOne /\ \A u \in Apart : Alone(u) /\ Complete(u)

\* Who takes up a user finds nobody else busy with him; the job takes up the users
\* it has loaded
LEMMA Taking ==
    ASSUME TypeOK, [Next]_vars, NEW u \in Apart, NEW w \in Workers, u \in req'[w].user
    PROVE  \/ u \in req[w].user
           \/ ~Busy(u) /\ UNCHANGED batch
           \/ u \in batch.users /\ u \notin batch'.users
<1>0. /\ req \in [Workers -> Request] /\ Job \in Workers
      /\ batch \in [users: SUBSET Users, rows: [Users -> Row]]
  BY DEF TypeOK, Workers
<1>1. CASE Crash \/ Finish(w) \/ \E stage : Goto(w, stage)
  BY <1>0, <1>1 DEF Crash, Finish, Goto, Idle, Request
<1>2. CASE Step(w)
  <2>1. CASE FindUsersAndOrder(w) \/ UpdateUserRating(w) \/ CompareWithRow(w)
    BY <1>0, <1>1, <2>1 DEF FindUsersAndOrder, UpdateUserRating, CompareWithRow, Request
  <2>2. CASE \/ HandleLowRatingReviews(w) \/ SendWarning(w) \/ SaveDeactivatedUser(w)
             \/ CommitReview(w) \/ MailBeforeSave(w) \/ UpdateRow(w) \/ LockWaitTimeout(w)
    BY <1>1, <2>2 DEF HandleLowRatingReviews, SendWarning, SaveDeactivatedUser,
       CommitReview, MailBeforeSave, UpdateRow, LockWaitTimeout
  <2> QED  BY <1>2, <2>1, <2>2 DEF Step
<1>3. ASSUME NEW v \in Reviews, CreateReview(w, v)  PROVE ~Busy(u) /\ UNCHANGED batch
  BY <1>0, <1>3 DEF CreateReview, Start, Idle
<1>4. ASSUME NEW x \in Users, NEW active \in BOOLEAN, UpdateUserProfileByAdmin(w, x, active)
      PROVE  ~Busy(u) /\ UNCHANGED batch
  BY <1>0, <1>4 DEF UpdateUserProfileByAdmin, Start, Idle
<1>5. CASE w = Job /\ (JobStep \/ \E due \in SUBSET Users : ReactivateUsers(due))
  <2>1. CASE CompareWithRow(Job) \/ UpdateRow(Job) \/ LockWaitTimeout(Job)
    BY <1>2, <1>5, <2>1 DEF Step
  <2>2. CASE ReactivationMail
    BY <1>0, <1>1, <1>5, <2>2 DEF ReactivationMail, Idle
  <2>3. CASE ReactivateUsersDone \/ \E due \in SUBSET Users : ReactivateUsers(due)
    BY <1>1, <1>5, <2>3 DEF ReactivateUsersDone, ReactivateUsers
  <2>4. ASSUME NEW x \in Users, ReactivateUser(x)
        PROVE  u \in batch.users /\ u \notin batch'.users
    BY <1>0, <1>5, <2>4 DEF ReactivateUser, Idle
  <2> QED  BY <1>5, <2>1, <2>2, <2>3, <2>4 DEF JobStep
<1>6. ASSUME NEW x \in Users, ChangeEmail(w, x)  PROVE ~Busy(u) /\ UNCHANGED batch
  BY <1>0, <1>6 DEF ChangeEmail, Start, Idle
<1> QED
  BY <1>1, <1>2, <1>3, <1>4, <1>5, <1>6, OwnSteps DEF ActionOf

\* What the job loads, nobody is busy with
LEMMA Loading ==
    ASSUME TypeOK, [Next]_vars, NEW u \in Apart, u \in batch'.users
    PROVE  \/ u \in batch.users
           \/ ~Busy(u) /\ \A w \in Workers : req'[w].user = req[w].user
<1> USE DEF db
<1>1. ASSUME NEW w \in Workers, Step(w)  PROVE batch' = batch \/ batch' = NothingLoaded
  BY <1>1 DEF Step, FindUsersAndOrder, UpdateUserRating, HandleLowRatingReviews, SendWarning,
     SaveDeactivatedUser, CommitReview, MailBeforeSave, CompareWithRow, UpdateRow, LockWaitTimeout
<1>2. CASE JobStep
  <2>1. CASE CompareWithRow(Job) \/ UpdateRow(Job) \/ LockWaitTimeout(Job)
    BY <1>1, <2>1 DEF Step, Workers, NothingLoaded
  <2>2. CASE ReactivationMail \/ ReactivateUsersDone
    BY <2>2 DEF ReactivationMail, ReactivateUsersDone, NothingLoaded
  <2>3. ASSUME NEW x \in Users, ReactivateUser(x)  PROVE u \in batch.users
    BY <2>3 DEF ReactivateUser
  <2> QED  BY <1>2, <2>1, <2>2, <2>3 DEF JobStep
<1>3. ASSUME NEW r \in Requests,
             \/ \E v \in Reviews : CreateReview(r, v)
             \/ \E x \in Users, active \in BOOLEAN : UpdateUserProfileByAdmin(r, x, active)
             \/ \E x \in Users : ChangeEmail(r, x)
      PROVE  UNCHANGED batch
  BY <1>3 DEF CreateReview, UpdateUserProfileByAdmin, ChangeEmail
<1>4. CASE \/ \E v \in Reviews : DeleteReview(v)
           \/ \E x \in Users : RefreshToken(x)
           \/ Crash \/ UNCHANGED vars
  BY <1>4 DEF DeleteReview, RefreshToken, Crash, vars, NothingLoaded
<1>5. ASSUME NEW due \in SUBSET Users, ReactivateUsers(due)
      PROVE  ~Busy(u) /\ \A w \in Workers : req'[w].user = req[w].user
  BY <1>5 DEF ReactivateUsers, Goto, TypeOK, Request
<1> QED
  BY <1>1, <1>2, <1>3, <1>4, <1>5 DEF Next, Workers, NothingLoaded

LEMMA AloneStep ==
    ASSUME TypeOK, [Next]_vars, NEW u \in Apart, Alone(u)
    PROVE  Alone(u)'
<1>1. ASSUME NEW w \in Workers, NEW x \in Workers, u \in req'[w].user, u \in req'[x].user, w # x
      PROVE  FALSE
  <2>1. req'[w] = req[w] \/ req'[x] = req[x]
    <3>1. ~Crash
      BY <1>1 DEF Crash, Idle
    <3> QED  BY <1>1, <3>1, OneActs
  \* Nobody takes up a user somebody has
  <2>2. ASSUME NEW y \in Workers, NEW z \in Workers, u \in req'[y].user, u \in req[z].user
        PROVE  u \in req[y].user
    BY <2>2, Taking DEF Alone, Busy
  <2> QED  BY <1>1, <2>1, <2>2 DEF Alone
<1>2. ASSUME NEW w \in Workers, u \in req'[w].user, u \in batch'.users  PROVE FALSE
  BY <1>2, Taking, Loading DEF Alone, Busy
<1> QED
  BY <1>1, <1>2 DEF Alone

\* The handler that goes on keeps a complete copy
LEMMA HandlersStep ==
    ASSUME AloneInv, [Next]_vars, NEW u \in Apart,
           About(u, reviews)' \subseteq About(u, reviews)
    PROVE  HandlersComplete(u)'
<1> DEFINE A == About(u, reviews)
           Ok(w) == /\ req'[w].pc \in Editing => A \subseteq req'[w].entity.rated
                    /\ req'[w].pc \in {"rate"} \cup Holding => A \subseteq req'[w].seen
                    /\ req'[w].pc \in Holding => req'[w].review \subseteq req'[w].seen
<1> SUFFICES ASSUME NEW w \in Workers, u \in req'[w].user
             PROVE  Ok(w)
  BY DEF HandlersComplete
<1> USE DEF Holding, Reviewing, Editing
<1>0. /\ req \in [Workers -> Request] /\ req[w] \in Request
      /\ Job \in Workers /\ \A r \in Requests : r \in Workers
      /\ A \subseteq user[u].rated /\ A \subseteq reviews
      /\ \A v \in A : UserOf[v] = u
      /\ HandlersComplete(u)
  BY DEF TypeOK, Workers, AloneInv, Complete, About
<1> HIDE DEF A
<1>d. HandlersComplete(u) <=>
        \A x \in Workers :
            u \in req[x].user =>
                /\ req[x].pc \in Editing => A \subseteq req[x].entity.rated
                /\ req[x].pc \in {"rate"} \cup Holding => A \subseteq req[x].seen
                /\ req[x].pc \in Holding => req[x].review \subseteq req[x].seen
  BY DEF HandlersComplete, A
<1>1. CASE req'[w] = req[w]
  BY <1>0, <1>d, <1>1
<1>2. CASE Crash \/ Finish(w)
  BY <1>0, <1>2 DEF Crash, Finish, Idle
<1>3. ASSUME NEW stage, Goto(w, stage),
             stage \in Editing => req[w].pc \in Editing,
             stage \in {"rate"} \cup Holding => req[w].pc \in Holding
      PROVE  Ok(w)
  BY <1>0, <1>d, <1>3 DEF Goto, Request
<1>4. CASE Step(w)
  <2>1. CASE FindUsersAndOrder(w)
    BY <1>0, <1>2, <2>1 DEF FindUsersAndOrder, Request
  <2>2. CASE UpdateUserRating(w)
    <3>1. PICK x \in req[w].user :
            req' = [req EXCEPT ![w].pc = "count", ![w].seen = About(x, @) \cup req[w].review]
      BY <2>2 DEF UpdateUserRating
    <3>2. x = u /\ u \in req[w].user /\ req[w].pc = "rate"
      BY <1>0, <2>2, <3>1 DEF UpdateUserRating, AloneInv, AboutOne, Request
    <3>3. /\ req'[w].seen = About(u, req[w].seen) \cup req[w].review
          /\ req'[w].pc = "count" /\ req'[w].review = req[w].review
      BY <1>0, <3>1, <3>2 DEF Request
    <3>4. A \subseteq About(u, req[w].seen)
      BY <1>0, <1>d, <3>2 DEF About
    <3> QED  BY <3>3, <3>4
  <2>3. CASE \/ HandleLowRatingReviews(w) \/ SendWarning(w) \/ SaveDeactivatedUser(w)
             \/ CommitReview(w) \/ MailBeforeSave(w) \/ UpdateRow(w) \/ LockWaitTimeout(w)
    BY <1>2, <1>3, <2>3 DEF HandleLowRatingReviews, SendWarning, SaveDeactivatedUser,
       CommitReview, MailBeforeSave, UpdateRow, LockWaitTimeout
  <2>4. CASE CompareWithRow(w)
    BY <1>0, <1>d, <2>4 DEF CompareWithRow, Request
  <2> QED  BY <1>4, <2>1, <2>2, <2>3, <2>4 DEF Step
<1>5. CASE w \in Requests /\ \E v \in Reviews : CreateReview(w, v)
  BY <1>0, <1>5 DEF CreateReview, Start, Idle
<1>6. ASSUME NEW x \in Users, NEW active \in BOOLEAN, UpdateUserProfileByAdmin(w, x, active)
      PROVE  Ok(w)
  <2>1. /\ req'[w] = [Idle EXCEPT !.pc = IF active THEN "diff" ELSE "mail", !.user = {x},
                                  !.entity = [user[x] EXCEPT !.active = active]]
        /\ user[x] \in Row
    BY <1>0, <1>6 DEF UpdateUserProfileByAdmin, Start, AloneInv, TypeOK
  <2>2. x = u /\ req'[w].entity.rated = user[u].rated
    BY <2>1 DEF Idle, Row
  <2> QED  BY <1>0, <2>1, <2>2 DEF Idle
\* The token of u carries his row
<1>8. ASSUME NEW x \in Users, ChangeEmail(w, x)  PROVE Ok(w)
  <2>1. req'[w] = [Idle EXCEPT !.pc = "mail", !.user = {x}, !.entity = token[x]]
    BY <1>0, <1>8 DEF ChangeEmail, Start
  <2>2. x = u /\ req'[w].entity = token[u] /\ req'[w].pc = "mail"
    BY <2>1 DEF Idle
  <2>3. token[u] = user[u]
    BY <1>8, <2>2 DEF ChangeEmail
  <2> QED  BY <1>0, <2>2, <2>3
<1>7. CASE w = Job /\ (JobStep \/ \E due \in SUBSET Users : ReactivateUsers(due))
  <2>1. CASE CompareWithRow(Job) \/ UpdateRow(Job) \/ LockWaitTimeout(Job)
    BY <1>4, <1>7, <2>1 DEF Step
  <2>2. CASE ReactivationMail
    BY <1>0, <1>2, <1>7, <2>2 DEF ReactivationMail, Idle
  <2>3. CASE ReactivateUsersDone \/ \E due \in SUBSET Users : ReactivateUsers(due)
    BY <1>2, <1>3, <1>7, <2>3 DEF ReactivateUsersDone, ReactivateUsers
  <2>4. ASSUME NEW x \in Users, ReactivateUser(x)  PROVE Ok(w)
    <3>1. /\ req'[w] = [Idle EXCEPT !.pc = "diff", !.user = {x},
                                    !.entity = [batch.rows[x] EXCEPT !.active = TRUE, !.window = FALSE]]
          /\ batch.rows[x] \in Row /\ x \in batch.users
      BY <1>0, <1>7, <2>4 DEF ReactivateUser, AloneInv, TypeOK
    <3>2. x = u /\ req'[w].pc = "diff"
      BY <3>1 DEF Idle
    <3>3. [batch.rows[x] EXCEPT !.active = TRUE, !.window = FALSE].rated = batch.rows[x].rated
      BY <3>1 DEF Row
    <3>4. req'[w].entity.rated = batch.rows[u].rated
      BY <3>1, <3>2, <3>3 DEF Idle
    <3>5. A \subseteq batch.rows[u].rated
      BY <3>1, <3>2 DEF A, AloneInv, Complete
    <3> QED  BY <3>2, <3>4, <3>5
  <2> QED  BY <1>7, <2>1, <2>2, <2>3, <2>4 DEF JobStep
<1> QED
  BY <1>1, <1>2, <1>4, <1>5, <1>6, <1>7, <1>8, OwnSteps DEF ActionOf, AloneInv

LEMMA CompleteStep ==
    ASSUME AloneInv, [Next]_vars, NEW u \in Apart
    PROVE  Complete(u)'
<1> USE DEF Holding, Reviewing, Editing
<1>0. /\ u \in Users /\ req \in [Workers -> Request] /\ Alone(u) /\ Complete(u)
      /\ \A r \in Requests : r \in Workers
  BY ConstantsAssumption DEF AloneInv, TypeOK, Workers
\* No review of u is stored
<1>1. CASE About(u, reviews)' \subseteq About(u, reviews)
  <2>1. ASSUME NEW w \in Workers, u \in req[w].user, CommitReview(w) \/ UpdateRow(w)
        PROVE  /\ CommitReview(w) => About(u, reviews) \subseteq req[w].seen
               /\ UpdateRow(w) => About(u, reviews) \subseteq req[w].entity.rated
    BY <1>0, <2>1 DEF CommitReview, UpdateRow, Complete, HandlersComplete
  <2>2. About(u, reviews)' \subseteq user'[u].rated
    BY <1>0, <1>1, <2>1, RatingWritten DEF AloneInv, Complete
  <2>3. u \in batch'.users => About(u, reviews)' \subseteq batch'.rows[u].rated
    BY <1>0, <1>1, RatingLoaded DEF AloneInv, Complete
  <2> QED  BY <1>1, <2>2, <2>3, HandlersStep DEF Complete
\* The handler that stores one has no rival
<1>2. ASSUME NEW r \in Requests, CommitReview(r), u \in req[r].user
      PROVE  Complete(u)'
  <2>1. PICK v \in Reviews : req[r].review = {v} /\ req[r].user = {u}
    BY <1>0, <1>2 DEF CommitReview, AloneInv, AboutOne
  <2>2. /\ user'[u].rated = req[r].seen /\ reviews' = reviews \cup {v}
        /\ batch' = batch /\ req'[r] = Idle
    BY <1>0, <1>2, <2>1 DEF CommitReview, Finish, AloneInv, TypeOK
  <2>3. About(u, reviews) \subseteq req[r].seen /\ v \in req[r].seen
    BY <1>0, <1>2, <2>1 DEF CommitReview, Complete, HandlersComplete
  <2>4. u \notin batch'.users
    BY <1>0, <1>2, <2>2 DEF Alone
  <2>5. \A w \in Workers : u \notin req'[w].user
    BY <1>0, <1>2, <2>2 DEF CommitReview, Finish, Alone, Idle
  <2> QED  BY <2>2, <2>3, <2>4, <2>5 DEF Complete, HandlersComplete, About
<1>3. \/ About(u, reviews)' \subseteq About(u, reviews)
      \/ \E r \in Requests : CommitReview(r) /\ u \in req[r].user
  <2>1. ASSUME NEW r \in Requests, CommitReview(r), u \notin req[r].user
        PROVE  About(u, reviews)' \subseteq About(u, reviews)
    BY <1>0, <2>1 DEF CommitReview, AloneInv, AboutOne, About
  <2> QED  BY <2>1, ReviewsGrow DEF AloneInv, About
<1> QED
  BY <1>1, <1>2, <1>3

\* As long as the requests about a user do not overlap, and his email is changed with
\* a token of his row as it is, no review is missing from his rating, whoever saves the
\* row as a whole, and whatever fails (updateUserRating, deleteReview,
\* updateUserProfileByAdmin, reactivateUsers, changeEmail)
THEOREM RatingComplete == Spec => []RatingMissesNoReview
<1>1. ASSUME Init  PROVE AloneInv
  <2>1. /\ \A w \in Workers : req[w] = Idle
        /\ \A u \in Users : user[u].rated = About(u, reviews)
        /\ batch.users = {}
    BY <1>1 DEF Init, NothingLoaded
  <2>2. Idle.pc = "idle" /\ Idle.user = {}
    BY DEF Idle
  <2>3. AboutOne
    BY <2>1, <2>2 DEF AboutOne, Reviewing, Holding
  <2>4. \A u \in Users : Alone(u) /\ Complete(u)
    BY <2>1, <2>2 DEF Alone, Complete, HandlersComplete, About
  <2> QED  BY <1>1, <2>3, <2>4, InitType, ConstantsAssumption DEF AloneInv
<1>2. ASSUME AloneInv, [Next]_vars  PROVE AloneInv'
  BY <1>2, NextType, OneStaysOne, AloneStep, CompleteStep DEF AloneInv
<1>3. AloneInv => RatingMissesNoReview
  BY DEF AloneInv, RatingMissesNoReview, Complete
<1> QED
  BY <1>1, <1>2, <1>3, PTL DEF Spec
=============================================================================
