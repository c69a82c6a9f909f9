---------------------------- MODULE Accounts_proofs ----------------------------
(***************************************************************************)
(* Theorems about Accounts, for every set of addresses and handlers,       *)
(* whatever calls overlap and however many are made.                       *)
(***************************************************************************)
EXTENDS Accounts, TLAPS

(***************************************************************************)
(* The stages of a handler                                                 *)
(***************************************************************************)

\* The handlers that create the account, and those that save a copy of the row
Joining == {"register", "create", "google"}

Saving == {"edit", "role", "profile"}

StagesOf(kind) ==
    CASE kind \in Joining             -> {"check", "google", "insert", "mail", "code", "sign"}
      [] kind = "login"               -> {"load", "mail", "code", "sign"}
      [] kind \in {"resend", "forgot"} -> {"load", "mail", "code"}
      [] kind = "verify"              -> {"load", "confirm", "sign"}
      [] kind = "email"               -> {"check", "code", "mail", "save"}
      [] kind \in Saving              -> {"load", "save"}
      [] kind = "password"            -> {"password"}
      [] kind = "erase"               -> {"load", "erase"}
      [] kind = "remove"              -> {"load", "remove"}
      [] kind = "none"                -> {"idle"}

\* The stages in which a handler has read the row and may still write because of it
HasCopy == {"mail", "code", "confirm", "save"}

ShapeOf(q) ==
    /\ q \in Request
    /\ q.pc \in StagesOf(q.kind)
    /\ q.kind = "none" => q = Idle
    /\ q.kind # "email" /\ q.pc \in HasCopy => q.entity.status = "live"

Shape == TypeOK /\ \A r \in Requests : ShapeOf(req[r])

\* What a client asks for
NewRequest(q) ==
    /\ q \in Request
    /\ q.kind # "none" /\ q.pc \in StagesOf(q.kind)
    /\ q.kind # "email" => q.entity = NoRow /\ q.pc \notin HasCopy
    /\ q.kind = "email" => q.entity = token /\ q.pc = "check"
    /\ q.kind # "verify" => q.code = {}
    /\ q.kind = "verify" => \E k \in Codes : q.code = {k} /\ mailedTo[k] # {}

LEMMA RowType ==
    /\ NoRow \in Row /\ NoRow.status = "none" /\ NoRow.code = {} /\ NoRow.email = {}
    /\ \A e \in Row : TokenOf(e) \in Row
BY DEF NoRow, Row, TokenOf

LEMMA IdleType ==
    /\ Idle \in Request /\ Idle.kind = "none" /\ Idle.pc = "idle" /\ Idle.entity = NoRow
    /\ Idle.code = {} /\ ShapeOf(Idle)
<1>1. Idle \in Request
  BY RowType DEF Idle, Request, Stages, Kinds
<1> QED
  BY <1>1, RowType DEF Idle, ShapeOf, StagesOf, HasCopy

\* Every call starts a handler and changes nothing else
LEMMA Calls ==
    ASSUME TypeOK, NEW r \in Requests, AuthCall(r) \/ UsersCall(r)
    PROVE  \E q : NewRequest(q) /\ Start(r, q)
<1> USE DEF Joining, Saving, HasCopy
\* A call without a code
<1>0. ASSUME NEW q \in Request, q.entity = NoRow, q.code = {}, q.kind \notin {"none", "email", "verify"},
             q.pc \in StagesOf(q.kind), q.pc \notin HasCopy,
             Start(r, q)
      PROVE  \E x : NewRequest(x) /\ Start(r, x)
  BY <1>0 DEF NewRequest
<1>1. ASSUME NEW a \in Addresses,
             Register(r, a) \/ CreateUser(r, a) \/ \E claim \in BOOLEAN : AuthenticateViaGoogle(r, a, claim)
      PROVE  \E q : NewRequest(q) /\ Start(r, q)
  <2>1. ASSUME NEW kind \in {"register", "create"},
               Start(r, [Idle EXCEPT !.pc = "check", !.kind = kind, !.address = {a}])
        PROVE  \E q : NewRequest(q) /\ Start(r, q)
    <3> DEFINE q == [Idle EXCEPT !.pc = "check", !.kind = kind, !.address = {a}]
    <3>1. q \in Request /\ q.kind = kind /\ q.pc = "check" /\ q.entity = NoRow /\ q.code = {}
      BY RowType DEF Idle, Request, Stages, Kinds
    <3>2. Start(r, q)
      BY <2>1
    <3> HIDE DEF q
    <3> QED  BY <1>0, <3>1, <3>2 DEF StagesOf
  <2>2. ASSUME NEW claim \in BOOLEAN, AuthenticateViaGoogle(r, a, claim)
        PROVE  \E q : NewRequest(q) /\ Start(r, q)
    <3> DEFINE q == [Idle EXCEPT !.pc = "google", !.kind = "google", !.address = {a}, !.claim = claim]
    <3>1. q \in Request /\ q.kind = "google" /\ q.pc = "google" /\ q.entity = NoRow /\ q.code = {}
      BY RowType DEF Idle, Request, Stages, Kinds
    <3>2. Start(r, q)
      BY <2>2 DEF AuthenticateViaGoogle
    <3> HIDE DEF q
    <3> QED  BY <1>0, <3>1, <3>2 DEF StagesOf
  <2> QED  BY <1>1, <2>1, <2>2 DEF Register, CreateUser
<1>2. ASSUME NEW a \in Addresses, ChangeEmail(r, a)
      PROVE  \E q : NewRequest(q) /\ Start(r, q)
  <2> DEFINE q == [Idle EXCEPT !.pc = "check", !.kind = "email", !.address = {a}, !.entity = token]
  <2>1. q \in Request /\ q.kind = "email" /\ q.pc = "check" /\ q.entity = token /\ q.code = {}
    BY DEF Idle, Request, Stages, Kinds, TypeOK
  <2>2. Start(r, q)
    BY <1>2 DEF ChangeEmail
  <2> HIDE DEF q
  <2> QED  BY <2>1, <2>2 DEF NewRequest, StagesOf
<1>3. ASSUME NEW k \in Codes, VerifyOtp(r, k) \/ ResetPassword(r, k)
      PROVE  \E q : NewRequest(q) /\ Start(r, q)
  <2> DEFINE q == [Idle EXCEPT !.pc = "load", !.kind = "verify", !.code = {k}]
  <2>1. q \in Request /\ q.kind = "verify" /\ q.pc = "load" /\ q.entity = NoRow /\ q.code = {k}
    BY RowType DEF Idle, Request, Stages, Kinds
  <2>2. Start(r, q) /\ mailedTo[k] # {}
    BY <1>3 DEF VerifyOtp, ResetPassword, EnterCode
  <2> HIDE DEF q
  <2> QED  BY <2>1, <2>2 DEF NewRequest, StagesOf
<1>4. ASSUME NEW kind \in {"login", "resend", "forgot", "erase", "remove", "password"}, NEW pc,
             pc = IF kind = "password" THEN "password" ELSE "load",
             Start(r, [Idle EXCEPT !.pc = pc, !.kind = kind])
      PROVE  \E q : NewRequest(q) /\ Start(r, q)
  <2> DEFINE q == [Idle EXCEPT !.pc = pc, !.kind = kind]
  <2>1. q \in Request /\ q.kind = kind /\ q.pc = pc /\ q.entity = NoRow /\ q.code = {}
    BY <1>4, RowType DEF Idle, Request, Stages, Kinds
  <2>2. Start(r, q)
    BY <1>4
  <2> HIDE DEF q
  <2> QED  BY <1>0, <1>4, <2>1, <2>2 DEF StagesOf
<1>5. ASSUME NEW kind \in Saving, NEW q \in Request, q.kind = kind, q.pc = "load",
             q.entity = NoRow, q.code = {}, Start(r, q)
      PROVE  \E x : NewRequest(x) /\ Start(r, x)
  BY <1>0, <1>5 DEF StagesOf
<1>6. ASSUME NEW mark \in Marks, Edit(r, mark)
      PROVE  \E q : NewRequest(q) /\ Start(r, q)
  <2> DEFINE q == [Idle EXCEPT !.pc = "load", !.kind = "edit", !.mark = {mark}]
  <2>1. q \in Request /\ q.kind = "edit" /\ q.pc = "load" /\ q.entity = NoRow /\ q.code = {}
    BY RowType DEF Idle, Request, Stages, Kinds
  <2>2. Start(r, q)
    BY <1>6 DEF Edit
  <2> HIDE DEF q
  <2> QED  BY <1>5, <2>1, <2>2
<1>7. ASSUME NEW role \in RoleForUser, UpdateUserRole(r, role)
      PROVE  \E q : NewRequest(q) /\ Start(r, q)
  <2> DEFINE q == [Idle EXCEPT !.pc = "load", !.kind = "role", !.role = {role}]
  <2>1. q \in Request /\ q.kind = "role" /\ q.pc = "load" /\ q.entity = NoRow /\ q.code = {}
    BY RowType DEF Idle, Request, Stages, Kinds
  <2>2. Start(r, q)
    BY <1>7 DEF UpdateUserRole
  <2> HIDE DEF q
  <2> QED  BY <1>5, <2>1, <2>2
<1>8. ASSUME NEW address \in {{}} \cup {{a} : a \in Addresses}, UpdateUserProfile(r, address)
      PROVE  \E q : NewRequest(q) /\ Start(r, q)
  <2> DEFINE q == [Idle EXCEPT !.pc = "load", !.kind = "profile", !.mark = {"public"},
                               !.address = address]
  <2>0. {"public"} \in SUBSET Marks /\ address \in SUBSET Addresses
    BY DEF Marks
  <2>1. q \in Request /\ q.kind = "profile" /\ q.pc = "load" /\ q.entity = NoRow /\ q.code = {}
    BY <2>0, RowType DEF Idle, Request, Stages, Kinds
  <2>2. Start(r, q)
    BY <1>8 DEF UpdateUserProfile
  <2> HIDE DEF q
  <2> QED  BY <1>5, <2>1, <2>2
<1>9. CASE UsersCall(r)
  <2>1. CASE \/ UploadPhoto(r) \/ UpdateUserPhoneNumber(r) \/ UpdateUserAddress(r)
             \/ UpdateUserSize(r) \/ HideRentalRules(r) \/ UpdateUserCreditCard(r)
             \/ ToggleNotifications(r) \/ CreateStripeAccount(r) \/ AccountUpdated(r)
             \/ UpdateUserOrders(r)
    BY <1>6, <2>1 DEF UploadPhoto, UpdateUserPhoneNumber, UpdateUserAddress, UpdateUserSize,
       HideRentalRules, UpdateUserCreditCard, ToggleNotifications, CreateStripeAccount,
       AccountUpdated, UpdateUserOrders, Marks
  <2>2. CASE SoftDeleteUser(r) \/ DeleteUser(r)
    BY <1>4, <2>2 DEF SoftDeleteUser, DeleteUser
  <2> QED  BY <1>7, <1>8, <1>9, <2>1, <2>2 DEF UsersCall
<1>10. CASE AuthCall(r)
  <2>1. CASE Login(r) \/ ResendOtp(r) \/ ForgotPassword(r) \/ ChangePassword(r)
    BY <1>4, <2>1 DEF Login, ResendOtp, ForgotPassword, ChangePassword
  <2> QED  BY <1>1, <1>2, <1>3, <1>10, <2>1 DEF AuthCall
<1> QED
  BY <1>9, <1>10

\* A handler goes on with a request q
Becomes(r, q) == req' = [req EXCEPT ![r] = q]

\* ... which is the same call, with the copy of the row it had or reads now
Continues(r, q) ==
    /\ q.kind = req[r].kind /\ q.code = req[r].code /\ q.address = req[r].address
    /\ q.mark = req[r].mark
    /\ \/ /\ q.entity = req[r].entity
          /\ q.kind = "email" \/ q.pc \notin HasCopy \/ req[r].pc \in HasCopy
       \/ q.entity = row' /\ q.entity.status = "live"

LEMMA StepForm ==
    ASSUME Shape, NEW r \in Requests, ServerStep(r)
    PROVE  \E q : ShapeOf(q) /\ Becomes(r, q) /\ (q = Idle \/ Continues(r, q))
<1> USE DEF HasCopy, Joining, Saving
<1>0. /\ req \in [Requests -> Request] /\ req[r] \in Request /\ ShapeOf(req[r])
      /\ row \in Row /\ token \in Row
      /\ {"mail", "code", "confirm", "save", "sign", "insert"} \subseteq Stages
  BY DEF Shape, TypeOK, Stages
<1>s. \A pc \in Stages, kind \in Kinds :
        pc \in StagesOf(kind) <=>
           \/ kind \in Joining /\ pc \in {"check", "google", "insert", "mail", "code", "sign"}
           \/ kind = "login" /\ pc \in {"load", "mail", "code", "sign"}
           \/ kind \in {"resend", "forgot"} /\ pc \in {"load", "mail", "code"}
           \/ kind = "verify" /\ pc \in {"load", "confirm", "sign"}
           \/ kind = "email" /\ pc \in {"check", "code", "mail", "save"}
           \/ kind \in Saving /\ pc \in {"load", "save"}
           \/ kind = "password" /\ pc = "password"
           \/ kind = "erase" /\ pc \in {"load", "erase"}
           \/ kind = "remove" /\ pc \in {"load", "remove"}
           \/ kind = "none" /\ pc = "idle"
  BY DEF StagesOf, Kinds, Stages
<1>1. ASSUME Finish(r)
      PROVE  \E q : ShapeOf(q) /\ Becomes(r, q) /\ (q = Idle \/ Continues(r, q))
  BY <1>1, IdleType DEF Finish, Becomes
\* The same copy
<1>2. ASSUME NEW stage \in Stages, Goto(r, stage), req[r].kind # "none", stage \in StagesOf(req[r].kind),
             req[r].kind = "email" \/ stage \notin HasCopy \/ req[r].pc \in HasCopy
      PROVE  \E q : ShapeOf(q) /\ Becomes(r, q) /\ (q = Idle \/ Continues(r, q))
  <2> DEFINE q == [req[r] EXCEPT !.pc = stage]
  <2>1. Becomes(r, q)
    BY <1>0, <1>2 DEF Goto, Becomes
  <2>2. /\ q \in Request /\ q.pc = stage /\ q.kind = req[r].kind /\ q.code = req[r].code
        /\ q.address = req[r].address /\ q.mark = req[r].mark /\ q.entity = req[r].entity
    BY <1>0 DEF Request
  <2> HIDE DEF q
  <2>3. ShapeOf(q) /\ Continues(r, q)
    BY <1>0, <1>2, <2>2 DEF ShapeOf, Continues
  <2> QED  BY <2>1, <2>3
\* A new one
<1>3. ASSUME NEW stage \in Stages, NEW e \in Row, e = row', e.status = "live",
             req' = [req EXCEPT ![r].pc = stage, ![r].entity = e],
             stage \in StagesOf(req[r].kind), req[r].kind \notin {"none", "email"}
      PROVE  \E q : ShapeOf(q) /\ Becomes(r, q) /\ (q = Idle \/ Continues(r, q))
  <2> DEFINE q == [req[r] EXCEPT !.pc = stage, !.entity = e]
  <2>1. Becomes(r, q)
    BY <1>0, <1>3 DEF Becomes
  <2>2. /\ q \in Request /\ q.pc = stage /\ q.kind = req[r].kind /\ q.code = req[r].code
        /\ q.address = req[r].address /\ q.mark = req[r].mark /\ q.entity = e
    BY <1>0, <1>3 DEF Request, Stages
  <2> HIDE DEF q
  <2>3. ShapeOf(q) /\ Continues(r, q)
    BY <1>0, <1>3, <2>2 DEF ShapeOf, Continues
  <2> QED  BY <2>1, <2>3
<1>k. req[r].pc \in Stages /\ req[r].kind \in Kinds /\ req[r].pc \in StagesOf(req[r].kind)
  BY <1>0 DEF ShapeOf, Request
<1>4. CASE CheckEmail(r)
  <2>1. req[r].pc = "check" /\ req[r].kind \in Joining \cup {"email"}
    BY <1>4, <1>k, <1>s DEF CheckEmail, Stages, Kinds
  <2>2. Finish(r) \/ Goto(r, IF req[r].kind = "email" THEN "code" ELSE "insert")
    BY <1>4 DEF CheckEmail
  <2>3. /\ req[r].kind = "email" => "code" \in Stages /\ "code" \in StagesOf(req[r].kind)
        /\ req[r].kind \in Joining => "insert" \in Stages /\ "insert" \in StagesOf(req[r].kind)
    BY <1>k, <1>s DEF Stages
  <2>4. CASE req[r].kind = "email"
    BY <1>1, <1>2, <2>2, <2>3, <2>4
  <2>5. CASE req[r].kind # "email"
    <3>1. Finish(r) \/ Goto(r, "insert")
      BY <2>2, <2>5
    <3> QED  BY <1>1, <1>2, <2>1, <2>3, <2>5, <3>1
  <2> QED  BY <2>4, <2>5
<1>5. CASE FindGoogleUser(r)
  <2>1. /\ req[r].pc = "google" /\ req[r].kind \in Joining
        /\ {"insert", "sign"} \subseteq StagesOf(req[r].kind) /\ "insert" \in Stages
    BY <1>5, <1>k, <1>s DEF FindGoogleUser, Stages
  <2>2. \/ Finish(r) \/ Goto(r, "insert")
        \/ req' = [req EXCEPT ![r].pc = "sign", ![r].entity = row] /\ Found
    BY <1>5 DEF FindGoogleUser
  <2>3. row' = row
    BY <1>5 DEF FindGoogleUser, Nothing
  <2> QED  BY <1>0, <1>1, <1>2, <1>3, <2>1, <2>2, <2>3 DEF Found
<1>6. CASE InsertUser(r)
  <2>1. /\ req[r].pc = "insert" /\ req[r].kind \in Joining
        /\ {"mail", "sign"} \subseteq StagesOf(req[r].kind)
    BY <1>6, <1>k, <1>s DEF InsertUser, Stages
  <2> DEFINE new == [NoRow EXCEPT !.status = "live", !.google = (req[r].kind = "google"),
                                  !.email = req[r].address, !.verified = req[r].claim]
  <2>2. new \in Row /\ new.status = "live"
    BY <1>0, RowType DEF Row, Request, NoRow
  <2>3. \/ Finish(r)
        \/ /\ row' = new
           /\ req' = [req EXCEPT ![r].entity = new, ![r].pc = IF new.verified THEN "sign" ELSE "mail"]
    BY <1>6 DEF InsertUser
  <2> HIDE DEF new
  <2>4. ASSUME NEW stage \in {"sign", "mail"}, row' = new,
               req' = [req EXCEPT ![r].entity = new, ![r].pc = stage]
        PROVE  \E q : ShapeOf(q) /\ Becomes(r, q) /\ (q = Idle \/ Continues(r, q))
    <3>1. req' = [req EXCEPT ![r].pc = stage, ![r].entity = new]
      BY <1>0, <2>4 DEF Request
    <3> QED  BY <1>0, <1>3, <2>1, <2>2, <2>4, <3>1
  <2> QED  BY <1>1, <2>3, <2>4
<1>7. CASE FindLoginUser(r)
  <2>1. /\ req[r].kind = "login" /\ {"mail", "sign"} \subseteq StagesOf(req[r].kind)
        /\ row' = row
    BY <1>7, <1>k, <1>s DEF FindLoginUser, Stages, Kinds, Nothing
  <2>2. \/ Finish(r)
        \/ req' = [req EXCEPT ![r].pc = IF row.verified THEN "sign" ELSE "mail", ![r].entity = row]
           /\ Found
    BY <1>7 DEF FindLoginUser
  <2>3. ASSUME NEW stage \in {"sign", "mail"}, Found,
               req' = [req EXCEPT ![r].pc = stage, ![r].entity = row]
        PROVE  \E q : ShapeOf(q) /\ Becomes(r, q) /\ (q = Idle \/ Continues(r, q))
    BY <1>0, <1>3, <2>1, <2>3 DEF Found
  <2> QED  BY <1>1, <2>2, <2>3
<1>8. CASE FindUserToMail(r) \/ CheckCode(r) \/ LoadUser(r)
  <2>1. /\ row' = row /\ req[r].pc = "load"
        /\ \/ Finish(r)
           \/ \E stage \in {"mail", "confirm", "save"} :
                 /\ Found /\ req' = [req EXCEPT ![r].pc = stage, ![r].entity = row]
                 /\ \/ stage = "mail" /\ req[r].kind \in {"resend", "forgot"}
                    \/ stage = "confirm" /\ req[r].kind = "verify"
                    \/ stage = "save" /\ req[r].kind \in Saving
    BY <1>8 DEF FindUserToMail, CheckCode, LoadUser, Nothing
  <2>2. ASSUME NEW stage \in {"mail", "confirm", "save"}, Found,
               req' = [req EXCEPT ![r].pc = stage, ![r].entity = row],
               \/ stage = "mail" /\ req[r].kind \in {"resend", "forgot"}
               \/ stage = "confirm" /\ req[r].kind = "verify"
               \/ stage = "save" /\ req[r].kind \in Saving
        PROVE  \E q : ShapeOf(q) /\ Becomes(r, q) /\ (q = Idle \/ Continues(r, q))
    <3>1. stage \in StagesOf(req[r].kind) /\ req[r].kind \notin {"none", "email"}
      BY <1>k, <1>s, <2>2 DEF Stages
    <3> QED  BY <1>0, <1>3, <2>1, <2>2, <3>1 DEF Found
  <2> QED  BY <1>1, <2>1, <2>2
<1>9. CASE Sign(r) \/ MailFails(r) \/ UpdateUserEmail(r) \/ SaveUser(r) \/ SaveRole(r)
           \/ SaveProfile(r) \/ UpdatePassword(r) \/ SoftDelete(r) \/ RemoveRow(r)
  <2>1. Finish(r)
    BY <1>9 DEF Sign, MailFails, UpdateUserEmail, SaveUser, SaveRole, SaveProfile,
       UpdatePassword, SoftDelete, RemoveRow
  <2> QED  BY <1>1, <2>1
<1>10. CASE MailCode(r)
  <2>1. /\ req[r].pc = "mail" /\ req[r].kind \in Joining \cup {"login", "resend", "forgot", "email"}
        /\ Goto(r, IF req[r].kind = "email" THEN "save" ELSE "code")
    BY <1>10, <1>k, <1>s DEF MailCode, Stages
  <2>2. /\ req[r].kind = "email" => "save" \in Stages /\ "save" \in StagesOf(req[r].kind)
        /\ req[r].kind # "email" => "code" \in Stages /\ "code" \in StagesOf(req[r].kind)
    BY <1>k, <1>s, <2>1 DEF Stages
  <2>3. CASE req[r].kind = "email"
    BY <1>2, <2>1, <2>2, <2>3
  <2>4. CASE req[r].kind # "email"
    BY <1>2, <2>1, <2>2, <2>4
  <2> QED  BY <2>3, <2>4
<1>11. CASE SaveOtp(r)
  <2>1. CASE req[r].kind = "email"
    <3>1. Goto(r, "mail") /\ "mail" \in Stages /\ "mail" \in StagesOf(req[r].kind)
      BY <1>11, <1>k, <1>s, <2>1 DEF SaveOtp, Stages
    <3> QED  BY <1>2, <2>1, <3>1
  <2>2. CASE req[r].kind # "email"
    BY <1>1, <1>11, <2>2 DEF SaveOtp
  <2> QED  BY <2>1, <2>2
<1>12. CASE ConfirmUser(r)
  <2>1. /\ req[r].kind = "verify" /\ req[r].pc = "confirm" /\ Goto(r, "sign")
        /\ "sign" \in Stages /\ "sign" \in StagesOf(req[r].kind)
    BY <1>12, <1>k, <1>s DEF ConfirmUser, Stages
  <2> QED  BY <1>2, <2>1
<1>13. CASE FindUserToDelete(r)
  <2>1. /\ req[r].kind \in {"erase", "remove"} /\ req[r].pc = "load"
        /\ Finish(r) \/ Goto(r, req[r].kind)
        /\ req[r].kind \in Stages /\ req[r].kind \in StagesOf(req[r].kind)
    BY <1>13, <1>k, <1>s DEF FindUserToDelete, Stages
  <2> QED  BY <1>1, <1>2, <2>1
<1> QED
  BY <1>4, <1>5, <1>6, <1>7, <1>8, <1>9, <1>10, <1>11, <1>12, <1>13 DEF ServerStep

\* What a call does: the handler n is there, with a code of its own or the one entered
Called(r, n) ==
    /\ req[r].pc = "idle" /\ Becomes(r, n) /\ ShapeOf(n)
    /\ calls + 1 \in Codes /\ calls' = calls + 1
    /\ Careful => /\ \A q \in Requests : req[q].kind # "email"
                  /\ n.kind = "email" => Quiet(r) /\ fresh
    /\ n.kind # "none" /\ n.pc # "idle"
    /\ n.kind # "email" => n.entity = NoRow /\ n.pc \notin HasCopy
    /\ n.kind = "email" => n.entity = token /\ n.pc = "check"
    /\ n.kind # "verify" => n.code = {calls + 1}
    /\ n.kind = "verify" => \E k \in Codes : n.code = {k} /\ mailedTo[k] # {}
    /\ UNCHANGED <<row, token, fresh, mailedTo, proved, profiled, kept, spent>>

LEMMA CallForm ==
    ASSUME TypeOK, NEW r \in Requests, AuthCall(r) \/ UsersCall(r)
    PROVE  \E n : Called(r, n)
<1>1. PICK q : NewRequest(q) /\ Start(r, q)
  BY Calls
<1> DEFINE n == [q EXCEPT !.code = IF @ = {} THEN {calls + 1} ELSE @]
<1>2. calls \in 0..MaxCalls /\ MaxCalls \in Nat /\ calls < MaxCalls
  BY <1>1, AccountsAssumption DEF TypeOK, Start
<1>3. calls + 1 \in Codes
  BY <1>2 DEF Codes
<1>4. /\ n \in Request /\ n.kind = q.kind /\ n.pc = q.pc /\ n.entity = q.entity
      /\ n.code = IF q.code = {} THEN {calls + 1} ELSE q.code
  BY <1>1, <1>3 DEF NewRequest, Request
<1>5. Becomes(r, n)
  BY <1>1 DEF Start, Becomes
<1> HIDE DEF n
<1>6. \A kind \in Kinds \ {"none"} : "idle" \notin StagesOf(kind)
  BY DEF StagesOf, Kinds, Joining, Saving
<1>7. n.pc # "idle"
  BY <1>1, <1>4, <1>6 DEF NewRequest, Request
<1>8. ShapeOf(n)
  BY <1>1, <1>4, RowType DEF ShapeOf, NewRequest
<1>9. /\ n.kind # "verify" => n.code = {calls + 1}
      /\ n.kind = "verify" => \E k \in Codes : n.code = {k} /\ mailedTo[k] # {}
  BY <1>1, <1>4 DEF NewRequest
<1> QED
  BY <1>1, <1>3, <1>4, <1>5, <1>7, <1>8, <1>9 DEF Called, NewRequest, Start

(***************************************************************************)
(* Type correctness                                                        *)
(***************************************************************************)

\* The row and the variables that follow it
LEMMA StepType ==
    ASSUME Shape, NEW r \in Requests, ServerStep(r)
    PROVE  /\ row' \in Row /\ token' \in Row /\ fresh' \in BOOLEAN
           /\ mailedTo' \in [Codes -> SUBSET Addresses]
           /\ proved' \subseteq Addresses /\ profiled' \subseteq Addresses
           /\ kept' \subseteq Marks \cup {"removed"} /\ spent' \subseteq Codes
           /\ calls' = calls
<1>0. /\ req \in [Requests -> Request] /\ req[r] \in Request
      /\ row \in Row /\ token \in Row /\ TypeOK
  BY DEF Shape, TypeOK
<1> DEFINE Types == /\ row' \in Row /\ token' \in Row /\ fresh' \in BOOLEAN
                    /\ mailedTo' \in [Codes -> SUBSET Addresses]
                    /\ proved' \subseteq Addresses /\ profiled' \subseteq Addresses
                    /\ kept' \subseteq Marks \cup {"removed"} /\ spent' \subseteq Codes
                    /\ calls' = calls
<1>n. ASSUME Nothing  PROVE Types
  BY <1>0, <1>n DEF Nothing, TypeOK
<1>c. ASSUME NEW marks \in SUBSET (Marks \cup {"removed"}), Changed(r, marks)
      PROVE  fresh' \in BOOLEAN /\ kept' \subseteq Marks \cup {"removed"}
  BY <1>0, <1>c DEF Changed, TypeOK
<1>1. CASE CheckEmail(r) \/ FindGoogleUser(r) \/ FindLoginUser(r) \/ FindUserToMail(r) \/ MailFails(r)
           \/ CheckCode(r) \/ LoadUser(r) \/ FindUserToDelete(r)
  BY <1>1, <1>n DEF CheckEmail, FindGoogleUser, FindLoginUser, FindUserToMail, MailFails,
     CheckCode, LoadUser, FindUserToDelete
<1>2. CASE InsertUser(r)
  <2> DEFINE new == [NoRow EXCEPT !.status = "live", !.google = (req[r].kind = "google"),
                                  !.email = req[r].address, !.verified = req[r].claim]
  <2>1. new \in Row /\ new.email \subseteq Addresses
    BY <1>0, RowType DEF Row, Request, NoRow
  <2>2. \/ row' = row /\ proved' = proved
        \/ row' = new /\ (proved' = proved \/ proved' = proved \cup new.email)
    BY <1>2 DEF InsertUser
  <2> HIDE DEF new
  <2> QED  BY <1>0, <1>2, <2>1, <2>2 DEF InsertUser, TypeOK
<1>3. CASE Sign(r)
  <2>1. [req[r].entity EXCEPT !.verified = TRUE] \in Row
    BY <1>0 DEF Request, Row
  <2> QED  BY <1>0, <1>3, <2>1, RowType DEF Sign, TypeOK
<1>4. CASE MailCode(r)
  <2>1. req[r].address \subseteq Addresses /\ req[r].entity.email \subseteq Addresses
    BY <1>0 DEF Request, Row
  <2>2. mailedTo' \in [Codes -> SUBSET Addresses]
    BY <1>0, <1>4, <2>1 DEF MailCode, TypeOK
  <2> QED  BY <1>0, <1>4, <2>2 DEF MailCode, TypeOK
<1>5. CASE SaveOtp(r)
  <2>1. [row EXCEPT !.code = req[r].code] \in Row
    BY <1>0 DEF Request, Row
  <2> QED  BY <1>0, <1>5, <2>1 DEF SaveOtp, TypeOK
<1>6. CASE ConfirmUser(r)
  <2>1. [row EXCEPT !.verified = TRUE, !.code = {}] \in Row
    BY <1>0 DEF Row
  <2>2. req[r].code \subseteq Codes /\ proved' \subseteq Addresses
    BY <1>0, <1>6 DEF Request, ConfirmUser, TypeOK
  <2> QED  BY <1>0, <1>6, <2>1, <2>2 DEF ConfirmUser, TypeOK
<1>7. CASE UpdateUserEmail(r)
  <2> DEFINE done == req[r].entity.done \cup (row.done \ InToken)
  <2>1. done \in SUBSET Marks /\ req[r].address \in SUBSET Addresses
        /\ req[r].entity.role \in SUBSET RoleForUser
    BY <1>0 DEF Request, Row
  <2> HIDE DEF done
  <2>2. [row EXCEPT !.email = req[r].address, !.verified = FALSE,
                    !.role = req[r].entity.role, !.done = done] \in Row
    BY <1>0, <2>1 DEF Row
  <2>3. row' = row \/ row' = [row EXCEPT !.email = req[r].address, !.verified = FALSE,
                                         !.role = req[r].entity.role, !.done = done]
    BY <1>0, <1>7 DEF UpdateUserEmail, done, Row
  <2> QED  BY <1>0, <1>7, <2>2, <2>3 DEF UpdateUserEmail, TypeOK
<1>8. CASE SaveUser(r)
  <2>1. [req[r].entity EXCEPT !.done = @ \cup req[r].mark] \in Row /\ req[r].mark \subseteq Marks
    BY <1>0 DEF Request, Row
  <2> QED  BY <1>0, <1>8, <1>c, <2>1 DEF SaveUser, TypeOK
<1>9. CASE SaveRole(r)
  <2>1. [req[r].entity EXCEPT !.role = req[r].role] \in Row
    BY <1>0 DEF Request, Row
  <2> QED  BY <1>0, <1>9, <2>1, RowType DEF SaveRole, TypeOK
<1>10. CASE SaveProfile(r)
  <2> DEFINE entity == [req[r].entity EXCEPT !.done = @ \cup req[r].mark,
                          !.email = IF req[r].address = {} THEN @ ELSE req[r].address]
  <2>1. entity \in Row /\ req[r].mark \subseteq Marks /\ req[r].address \subseteq Addresses
    BY <1>0 DEF Request, Row
  <2>2. \/ UNCHANGED <<row, fresh, kept, profiled>>
        \/ /\ row' = entity /\ Changed(r, req[r].mark)
           /\ \/ profiled' = profiled
              \/ profiled' = profiled \cup req[r].address \cup Remembered(r)
    BY <1>10 DEF SaveProfile
  <2> HIDE DEF entity
  <2>3. Remembered(r) \subseteq Addresses
    <3>1. \A q \in Requests : req[q].entity.email \subseteq Addresses
      BY <1>0 DEF Request, Row
    <3> QED  BY <3>1 DEF Remembered
  <2>4. UNCHANGED <<token, mailedTo, proved, spent, calls>>
    BY <1>10 DEF SaveProfile
  <2> QED  BY <1>0, <1>c, <2>1, <2>2, <2>3, <2>4 DEF TypeOK
<1>11. CASE UpdatePassword(r) \/ SoftDelete(r)
  <2>1. PICK mark \in {"password", "deleted"} :
          \/ UNCHANGED <<row, fresh, kept>>
          \/ row' = [row EXCEPT !.done = @ \cup {mark}] /\ Changed(r, {mark})
    BY <1>11 DEF UpdatePassword, SoftDelete
  <2>2. [row EXCEPT !.done = @ \cup {mark}] \in Row /\ {mark} \subseteq Marks
    BY <1>0 DEF Row, Marks
  <2>3. UNCHANGED <<token, mailedTo, proved, profiled, spent, calls>>
    BY <1>11 DEF UpdatePassword, SoftDelete
  <2> QED  BY <1>0, <1>c, <2>1, <2>2, <2>3 DEF TypeOK
<1>12. CASE RemoveRow(r)
  <2>1. [NoRow EXCEPT !.status = "gone"] \in Row
    BY RowType DEF Row
  <2> QED  BY <1>0, <1>c, <1>12, <2>1 DEF RemoveRow, TypeOK
<1> QED
  BY <1>1, <1>2, <1>3, <1>4, <1>5, <1>6, <1>7, <1>8, <1>9, <1>10, <1>11, <1>12 DEF ServerStep

LEMMA InitShape == Init => Shape
<1> SUFFICES ASSUME Init  PROVE Shape
  OBVIOUS
<1>1. row \in Row
  <2>1. ASSUME NEW a \in Addresses, NEW role \in RoleForUser
        PROVE  Established(a, {role}) \in Row
    BY RowType DEF Established, Row
  <2> QED  BY <2>1, RowType DEF Init
<1>2. token \in Row /\ fresh \in BOOLEAN /\ row.email \subseteq Addresses
  BY <1>1, RowType DEF Init, Row
<1>3. 0 \in 0..MaxCalls
  BY AccountsAssumption
<1>4. req \in [Requests -> Request] /\ \A r \in Requests : ShapeOf(req[r])
  BY IdleType DEF Init
<1> QED
  BY <1>1, <1>2, <1>3, <1>4 DEF Init, Shape, TypeOK

LEMMA NextShape == Shape /\ [Next]_vars => Shape'
<1> SUFFICES ASSUME Shape, [Next]_vars  PROVE Shape'
  OBVIOUS
<1>0. TypeOK /\ req \in [Requests -> Request] /\ \A r \in Requests : ShapeOf(req[r])
  BY DEF Shape, TypeOK
\* The other handlers are as they were
<1>1. ASSUME NEW r \in Requests, NEW q, ShapeOf(q), Becomes(r, q)
      PROVE  req' \in [Requests -> Request] /\ \A s \in Requests : ShapeOf(req'[s])
  BY <1>0, <1>1 DEF ShapeOf, Becomes
<1>2. ASSUME NEW r \in Requests, ServerStep(r)  PROVE Shape'
  <2>1. PICK q : ShapeOf(q) /\ Becomes(r, q)
    BY <1>2, StepForm
  <2>2. req' \in [Requests -> Request] /\ \A s \in Requests : ShapeOf(req'[s])
    BY <1>1, <2>1
  <2> QED  BY <1>0, <1>2, <2>2, StepType DEF Shape, TypeOK, ShapeOf
<1>3. ASSUME NEW r \in Requests, AuthCall(r) \/ UsersCall(r)  PROVE Shape'
  <2>1. PICK n : Called(r, n)
    BY <1>0, <1>3, CallForm
  <2>2. req' \in [Requests -> Request] /\ \A s \in Requests : ShapeOf(req'[s])
    BY <1>1, <2>1 DEF Called
  <2>3. calls' \in 0..MaxCalls
    BY <2>1, AccountsAssumption DEF Called, Codes
  <2> QED  BY <1>0, <2>1, <2>2, <2>3 DEF Called, Shape, TypeOK, ShapeOf
<1>4. CASE RefreshToken
  <2>1. token' \in Row
    BY <1>0, <1>4, RowType DEF RefreshToken, TypeOK
  <2> QED  BY <1>0, <1>4, <2>1 DEF RefreshToken, Shape, TypeOK, ShapeOf
<1>5. CASE UNCHANGED vars
  BY <1>0, <1>5 DEF vars, Shape, TypeOK, ShapeOf
<1> QED
  BY <1>2, <1>3, <1>4, <1>5 DEF Next

LEMMA ShapeCorrect == Spec => []Shape
<1>1. Init => Shape
  BY InitShape
<1>2. Shape /\ [Next]_vars => Shape'
  BY NextShape
<1> QED
  BY <1>1, <1>2, PTL DEF Spec

\* Every variable keeps its type, whatever the handlers of AuthService and
\* UsersService do
THEOREM TypeCorrect == Spec => []TypeOK
<1>1. Shape => TypeOK
  BY DEF Shape
<1> QED
  BY <1>1, ShapeCorrect, PTL

(***************************************************************************)
(* Copies of the row                                                       *)
(***************************************************************************)

LiveCopy(q) == q.kind # "email" /\ q.pc \in HasCopy

\* The row and what handlers have read of it: any of them may be the row next
Copies ==
    {e \in {row} : e.status = "live"}
       \cup {req[r].entity : r \in {s \in Requests : LiveCopy(req[s])}}

\* What a stage says about the kind of the handler
LEMMA KindOf ==
    ASSUME Shape, NEW r \in Requests
    PROVE  /\ req[r].pc = "save" => req[r].kind \in Saving \cup {"email"}
           /\ req[r].pc = "confirm" => req[r].kind = "verify"
           /\ req[r].pc \in {"mail", "code"} =>
                 req[r].kind \in Joining \cup {"login", "resend", "forgot", "email"}
           /\ req[r].pc \in {"insert", "google"} => req[r].kind \in Joining
           /\ req[r].kind = "verify" => req[r].pc \in {"load", "confirm", "sign"}
           /\ req[r].kind = "email" => req[r].pc \in {"check", "code", "mail", "save"}
           /\ req[r].pc = "idle" => req[r] = Idle
           /\ req[r].kind = "none" => req[r] = Idle
<1>1. /\ req[r].pc \in Stages /\ req[r].kind \in Kinds /\ req[r].pc \in StagesOf(req[r].kind)
      /\ req[r].kind = "none" => req[r] = Idle
  BY DEF Shape, TypeOK, ShapeOf, Request
<1>2. \A pc \in Stages, kind \in Kinds : pc \in StagesOf(kind) =>
           /\ pc = "save" => kind \in Saving \cup {"email"}
           /\ pc = "confirm" => kind = "verify"
           /\ pc \in {"mail", "code"} => kind \in Joining \cup {"login", "resend", "forgot", "email"}
           /\ pc \in {"insert", "google"} => kind \in Joining
           /\ kind = "verify" => pc \in {"load", "confirm", "sign"}
           /\ kind = "email" => pc \in {"check", "code", "mail", "save"}
           /\ pc = "idle" => kind = "none"
  BY DEF StagesOf, Stages, Kinds, Joining, Saving
<1> QED
  BY <1>1, <1>2

LEMMA CopyType ==
    ASSUME Shape
    PROVE  \A e \in Copies : e \in Row /\ e.status = "live"
BY DEF Shape, TypeOK, Copies, LiveCopy, ShapeOf, Request

\* A handler of a request makes no other copy than one of the row
LEMMA CopiesStep ==
    ASSUME Shape, NEW r \in Requests, NEW q, ShapeOf(q), Becomes(r, q),
           q = Idle \/ Continues(r, q)
    PROVE  \A e \in Copies' : e \in Copies \/ (e = row' /\ row'.status = "live")
<1> SUFFICES ASSUME NEW e \in Copies', e # row' \/ row'.status # "live"
             PROVE  e \in Copies
  OBVIOUS
<1>1. req'[r] = q /\ \A t \in Requests \ {r} : req'[t] = req[t]
  BY DEF Becomes, Shape, TypeOK
<1>2. PICK t \in Requests : LiveCopy(req'[t]) /\ e = req'[t].entity
  BY DEF Copies, LiveCopy
<1>3. CASE t # r
  BY <1>1, <1>2, <1>3 DEF Copies
<1>4. CASE t = r
  <2>1. q.pc \in HasCopy /\ q.kind # "email" /\ e = q.entity
    BY <1>1, <1>2, <1>4 DEF LiveCopy
  <2>2. Continues(r, q)
    BY <2>1, IdleType DEF HasCopy
  <2>3. q.entity = req[r].entity /\ req[r].pc \in HasCopy /\ req[r].kind # "email"
    BY <2>1, <2>2 DEF Continues
  <2> QED  BY <2>1, <2>3 DEF Copies, LiveCopy
<1> QED
  BY <1>3, <1>4

\* ... and a call none at all
LEMMA CopiesCall ==
    ASSUME Shape, NEW r \in Requests, NEW n, Called(r, n)
    PROVE  \A e \in Copies' : e \in Copies
<1> SUFFICES ASSUME NEW e \in Copies'  PROVE e \in Copies
  OBVIOUS
<1>1. req'[r] = n /\ (\A t \in Requests \ {r} : req'[t] = req[t]) /\ row' = row /\ ~LiveCopy(n)
  BY DEF Called, Becomes, Shape, TypeOK, LiveCopy
<1>2. CASE e = row' /\ row'.status = "live"
  BY <1>1, <1>2 DEF Copies
<1>3. CASE \E t \in Requests : LiveCopy(req'[t]) /\ e = req'[t].entity
  <2>1. PICK t \in Requests : LiveCopy(req'[t]) /\ e = req'[t].entity
    BY <1>3
  <2>2. t # r
    BY <1>1, <2>1
  <2> QED  BY <1>1, <2>1, <2>2 DEF Copies
<1> QED
  BY <1>2, <1>3 DEF Copies, LiveCopy

\* Which step brings a handler to a stage
LEMMA StageStep ==
    ASSUME Shape, NEW r \in Requests, ServerStep(r)
    PROVE  /\ req[r].kind # "none"
           /\ req'[r].pc = "confirm" =>
                 /\ CheckCode(r) /\ row.status = "live"
                 /\ req'[r].entity = row /\ req'[r].code = row.code
           /\ req'[r].pc = "code" => MailCode(r) \/ req[r].kind = "email"
           /\ req[r].kind = "email" => /\ req'[r].pc = "save" => MailCode(r)
                                       /\ req'[r].pc = "mail" => SaveOtp(r)
           /\ SaveOtp(r) /\ req[r].kind # "email" => req'[r] = Idle
           /\ UpdateUserEmail(r) => req'[r] = Idle
           /\ req[r].pc = "code" => SaveOtp(r)
           /\ req[r].pc = "save" /\ req[r].kind = "email" => UpdateUserEmail(r)
<1>0. req \in [Requests -> Request] /\ req[r] \in Request /\ Idle.pc = "idle"
  BY IdleType DEF Shape, TypeOK
<1>1. req[r].kind # "none"
  <2>1. req[r].pc # "idle"
    BY DEF ServerStep, CheckEmail, FindGoogleUser, InsertUser, FindLoginUser, Sign,
       FindUserToMail, MailCode, MailFails, SaveOtp, CheckCode, ConfirmUser,
       UpdateUserEmail, LoadUser, SaveUser, SaveRole, SaveProfile, UpdatePassword,
       FindUserToDelete, SoftDelete, RemoveRow
  <2> QED  BY <1>0, <2>1, KindOf
<1>2. req[r].pc = "code" => SaveOtp(r)
  BY DEF ServerStep, CheckEmail, FindGoogleUser, InsertUser, FindLoginUser, Sign,
     FindUserToMail, MailCode, MailFails, CheckCode, ConfirmUser,
     UpdateUserEmail, LoadUser, SaveUser, SaveRole, SaveProfile, UpdatePassword,
     FindUserToDelete, SoftDelete, RemoveRow
<1>3. req[r].pc = "save" /\ req[r].kind = "email" => UpdateUserEmail(r)
  BY DEF ServerStep, CheckEmail, FindGoogleUser, InsertUser, FindLoginUser, Sign,
     FindUserToMail, MailCode, MailFails, SaveOtp, CheckCode, ConfirmUser,
     LoadUser, SaveUser, SaveRole, SaveProfile, UpdatePassword,
     FindUserToDelete, SoftDelete, RemoveRow
<1>4. Finish(r) => req'[r] = Idle
  BY <1>0 DEF Finish
<1>5. \A stage : Goto(r, stage) => req'[r].pc = stage
  BY <1>0 DEF Goto, Request
<1>6. ASSUME req'[r].pc \in {"confirm", "code", "save", "mail"}
      PROVE  \/ CheckCode(r) /\ req'[r].pc = "confirm"
             \/ MailCode(r) /\ req'[r].pc \in {"code", "save"}
             \/ req[r].kind = "email" /\ CheckEmail(r) /\ req'[r].pc = "code"
             \/ req[r].kind = "email" /\ SaveOtp(r) /\ req'[r].pc = "mail"
             \/ req[r].kind # "email" /\ req'[r].pc \in {"save", "mail"}
  <2>1. ~Finish(r)
    BY <1>0, <1>4, <1>6
  <2>2. CASE CheckEmail(r)
    BY <1>5, <1>6, <2>1, <2>2 DEF CheckEmail
  <2>3. CASE FindGoogleUser(r) \/ InsertUser(r)
    <3>1. req[r].kind # "email"
      BY <2>3, KindOf DEF FindGoogleUser, InsertUser, Joining
    <3>2. req'[r].pc \in {"insert", "sign", "mail"}
      BY <1>0, <1>5, <2>1, <2>3 DEF FindGoogleUser, InsertUser, Request
    <3> QED  BY <1>6, <3>1, <3>2
  <2>4. CASE FindLoginUser(r) \/ FindUserToMail(r) \/ LoadUser(r)
    <3>1. req'[r].pc \in {"sign", "mail", "save"} /\ req[r].kind # "email"
      BY <1>0, <2>1, <2>4 DEF FindLoginUser, FindUserToMail, LoadUser, Request
    <3> QED  BY <1>6, <3>1
  <2>5. CASE MailCode(r)
    BY <1>5, <2>5 DEF MailCode
  <2>6. CASE SaveOtp(r)
    BY <1>5, <2>1, <2>6 DEF SaveOtp
  <2>7. CASE CheckCode(r)
    <3>1. req'[r].pc = "confirm"
      BY <1>0, <2>1, <2>7 DEF CheckCode, Request
    <3> QED  BY <2>7, <3>1
  <2>8. CASE ConfirmUser(r)
    BY <1>5, <1>6, <2>8 DEF ConfirmUser
  <2>9. CASE FindUserToDelete(r)
    BY <1>5, <1>6, <2>1, <2>9 DEF FindUserToDelete
  <2> QED
    BY <2>1, <2>2, <2>3, <2>4, <2>5, <2>6, <2>7, <2>8, <2>9 DEF ServerStep, Sign, MailFails,
       UpdateUserEmail, SaveUser, SaveRole, SaveProfile, UpdatePassword, SoftDelete, RemoveRow
<1>7. ASSUME CheckCode(r), req'[r].pc = "confirm"
      PROVE  row.status = "live" /\ req'[r].entity = row /\ req'[r].code = row.code
  <2>1. ~Finish(r)
    BY <1>0, <1>4, <1>7
  <2>2. /\ Found /\ row.code = req[r].code
        /\ req' = [req EXCEPT ![r].pc = "confirm", ![r].entity = row]
    BY <1>7, <2>1 DEF CheckCode
  <2> QED  BY <1>0, <2>2 DEF Found, Request
<1>8. SaveOtp(r) /\ req[r].kind # "email" => req'[r] = Idle
  BY <1>4 DEF SaveOtp
<1>9. UpdateUserEmail(r) => req'[r] = Idle
  BY <1>4 DEF UpdateUserEmail
<1>10. MailCode(r) => req[r].pc = "mail"
  BY DEF MailCode
<1> QED
  BY <1>1, <1>2, <1>3, <1>6, <1>7, <1>8, <1>9

(***************************************************************************)
(* Codes are accepted once                                                 *)
(***************************************************************************)

Known == 1..calls

SpentInv ==
    /\ row.status # "live" => row.code = {}
    /\ spent \subseteq Known
    /\ \A k \in Codes : mailedTo[k] # {} => k \in Known
    /\ \A e \in Copies : e.code \subseteq Known /\ e.code \cap spent = {}
    /\ \A r \in Requests : 
          /\ req[r].code \subseteq Known
          /\ req[r].kind # "verify" \/ req[r].pc = "confirm" => req[r].code \cap spent = {}

LEMMA SpentStep ==
    ASSUME Shape, SpentInv, NEW r \in Requests, ServerStep(r)
    PROVE  SpentInv'
<1>0. /\ req \in [Requests -> Request] /\ req[r] \in Request /\ TypeOK /\ row \in Row
      /\ ShapeOf(req[r])
  BY DEF Shape, TypeOK
<1>1. PICK q : ShapeOf(q) /\ Becomes(r, q) /\ (q = Idle \/ Continues(r, q))
  BY StepForm
<1>2. \A e \in Copies' : e \in Copies \/ (e = row' /\ row'.status = "live")
  BY <1>1, CopiesStep
<1>3. req'[r] = q /\ \A t \in Requests \ {r} : req'[t] = req[t]
  BY <1>0, <1>1 DEF Becomes
<1>4. calls' = calls
  BY StepType
\* What is in the row was in a copy, or is the code of the handler
<1>5. /\ row'.status # "live" => row'.code = {}
      /\ row'.code \subseteq Known /\ row'.code \cap spent = {}
  <2>1. /\ row.status = "live" => row \in Copies
        /\ LiveCopy(req[r]) => req[r].entity \in Copies
    BY DEF Copies
  <2>2. row.code \subseteq Known /\ row.code \cap spent = {}
    BY <2>1 DEF SpentInv
  <2>3. CASE row' = row
    BY <2>2, <2>3 DEF SpentInv
  <2>4. CASE InsertUser(r) \/ RemoveRow(r)
    <3>1. row' = row \/ row'.code = {}
      BY <2>4, RowType DEF InsertUser, RemoveRow, NoRow
    <3> QED  BY <2>3, <3>1
  <2>5. CASE SaveOtp(r)
    <3>1. req[r].kind # "verify"
      BY <2>5, KindOf DEF SaveOtp
    <3>2. req[r].code \subseteq Known /\ req[r].code \cap spent = {}
      BY <3>1 DEF SpentInv
    <3>3. row' = row \/ (row'.status = "live" /\ row'.code = req[r].code)
      BY <1>0, <2>5 DEF SaveOtp, Row
    <3> QED  BY <2>3, <3>2, <3>3
  <2>6. CASE ConfirmUser(r)
    <3>1. row' = row \/ row'.code = {}
      BY <1>0, <2>6 DEF ConfirmUser, Row
    <3> QED  BY <2>3, <3>1
  <2>7. CASE UpdateUserEmail(r) \/ UpdatePassword(r) \/ SoftDelete(r)
    <3>1. row'.status = row.status /\ row'.code = row.code
      BY <1>0, <2>7 DEF UpdateUserEmail, UpdatePassword, SoftDelete, Row
    <3> QED  BY <2>2, <3>1 DEF SpentInv
  <2>8. CASE SaveUser(r) \/ SaveRole(r) \/ SaveProfile(r)
    <3>1. LiveCopy(req[r])
      BY <2>8 DEF SaveUser, SaveRole, SaveProfile, LiveCopy, HasCopy
    <3>2. row' = row \/ (row'.status = req[r].entity.status /\ row'.code = req[r].entity.code)
      BY <1>0, <2>8 DEF SaveUser, SaveRole, SaveProfile, Row, Request
    <3>3. req[r].entity.status = "live"
      BY <2>1, <3>1, CopyType
    <3> QED  BY <2>1, <2>3, <3>1, <3>2, <3>3 DEF SpentInv
  <2> QED
    BY <2>3, <2>4, <2>5, <2>6, <2>7, <2>8 DEF ServerStep, CheckEmail, FindGoogleUser,
       FindLoginUser, Sign, FindUserToMail, MailCode, MailFails, CheckCode, LoadUser,
       FindUserToDelete, Nothing
<1>6. \A k \in Codes : mailedTo'[k] # {} => k \in Known
  <2>1. CASE MailCode(r)
    BY <1>0, <2>1 DEF MailCode, SpentInv
  <2>2. CASE mailedTo' = mailedTo
    BY <2>2 DEF SpentInv
  <2> QED
    BY <2>1, <2>2 DEF ServerStep, CheckEmail, FindGoogleUser, InsertUser, FindLoginUser, Sign,
       FindUserToMail, MailFails, SaveOtp, CheckCode, ConfirmUser, UpdateUserEmail, LoadUser,
       SaveUser, SaveRole, SaveProfile, UpdatePassword, FindUserToDelete, SoftDelete,
       RemoveRow, Nothing
<1>7. q.code = {} \/ (q.code = req[r].code /\ q.kind = req[r].kind)
  BY <1>1, IdleType DEF Continues
<1>8. CASE ConfirmUser(r)
  <2>1. q.pc = "sign" /\ req[r].kind = "verify" /\ q.pc \notin HasCopy
    BY <1>0, <1>3, <1>8, KindOf DEF ConfirmUser, Goto, HasCopy, Request
  <2>2. req[r].code \subseteq Known /\ req[r].code \cap spent = {}
    BY <1>8 DEF SpentInv, ConfirmUser
  <2>3. row'.code = {}
    BY <1>0, <1>8 DEF ConfirmUser, SpentInv, Row
  <2>4. CASE Quiet(r)
    <3>1. \A t \in Requests \ {r} : req'[t] = Idle
      BY <1>3, <2>4, KindOf DEF Quiet
    <3>2. \A e \in Copies' : e = row'
      <4> SUFFICES ASSUME NEW t \in Requests, LiveCopy(req'[t])  PROVE FALSE
        BY DEF Copies, LiveCopy
      <4> QED  BY <1>3, <2>1, <3>1, IdleType DEF LiveCopy, HasCopy
    <3>3. spent' = spent \cup req[r].code
      BY <1>8, <2>4 DEF ConfirmUser
    <3>4. ASSUME NEW t \in Requests
          PROVE  /\ req'[t].code \subseteq Known
                 /\ req'[t].kind # "verify" \/ req'[t].pc = "confirm" => req'[t].code \cap spent' = {}
      <4>1. CASE t = r
        <5>1. q.kind = "verify" \/ q.code = {}
          BY <1>7, <2>1
        <5> QED  BY <1>3, <1>7, <2>1, <2>2, <4>1, <5>1
      <4>2. CASE t # r
        BY <3>1, <4>2, IdleType
      <4> QED  BY <4>1, <4>2
    <3> QED  BY <1>4, <1>5, <1>6, <2>2, <2>3, <3>2, <3>3, <3>4 DEF SpentInv, Known
  <2>5. CASE ~Quiet(r)
    <3>1. spent' = spent
      BY <1>8, <2>5 DEF ConfirmUser
    <3>2. ASSUME NEW t \in Requests
          PROVE  /\ req'[t].code \subseteq Known
                 /\ req'[t].kind # "verify" \/ req'[t].pc = "confirm" => req'[t].code \cap spent = {}
      BY <1>3, <1>7, <2>1, <2>2 DEF SpentInv
    <3> QED  BY <1>2, <1>4, <1>5, <1>6, <3>1, <3>2 DEF SpentInv, Known
  <2> QED  BY <2>4, <2>5
<1>9. CASE ~ConfirmUser(r)
  <2>1. spent' = spent
    BY <1>9 DEF ServerStep, CheckEmail, FindGoogleUser, InsertUser, FindLoginUser, Sign,
       FindUserToMail, MailFails, MailCode, SaveOtp, CheckCode, UpdateUserEmail, LoadUser,
       SaveUser, SaveRole, SaveProfile, UpdatePassword, FindUserToDelete, SoftDelete,
       RemoveRow, Nothing
  <2>2. q.pc = "confirm" => q.code = row.code
    BY <1>3, StageStep
  <2>3. row.code \cap spent = {}
    BY DEF SpentInv, Copies
  <2>4. ASSUME NEW t \in Requests
        PROVE  /\ req'[t].code \subseteq Known
               /\ req'[t].kind # "verify" \/ req'[t].pc = "confirm" => req'[t].code \cap spent = {}
    <3>1. CASE t = r
      BY <1>3, <1>7, <2>2, <2>3, <3>1 DEF SpentInv
    <3>2. CASE t # r
      BY <1>3, <3>2 DEF SpentInv
    <3> QED  BY <3>1, <3>2
  <2> QED  BY <1>2, <1>4, <1>5, <1>6, <2>1, <2>4 DEF SpentInv, Known
<1> QED
  BY <1>8, <1>9

LEMMA SpentNext == Shape /\ SpentInv /\ [Next]_vars => SpentInv'
<1> SUFFICES ASSUME Shape, SpentInv, [Next]_vars  PROVE SpentInv'
  OBVIOUS
<1>0. TypeOK /\ req \in [Requests -> Request]
  BY DEF Shape, TypeOK
<1>1. ASSUME NEW r \in Requests, AuthCall(r) \/ UsersCall(r)  PROVE SpentInv'
  <2>1. PICK n : Called(r, n)
    BY <1>0, <1>1, CallForm
  <2>2. \A e \in Copies' : e \in Copies
    BY <2>1, CopiesCall
  <2>3. req'[r] = n /\ \A t \in Requests \ {r} : req'[t] = req[t]
    BY <1>0, <2>1 DEF Called, Becomes
  <2>4. calls \in Nat /\ calls' = calls + 1
    BY <1>0, <2>1, AccountsAssumption DEF Called, TypeOK
  <2>5. Known \subseteq Known' /\ calls + 1 \in Known' /\ calls + 1 \notin Known
    BY <2>4 DEF Known
  <2>6. n.code \subseteq Known' /\ (n.kind # "verify" \/ n.pc = "confirm" => n.code \cap spent = {})
    <3>1. CASE n.kind # "verify"
      <4>1. n.code = {calls + 1}
        BY <2>1, <3>1 DEF Called
      <4> QED  BY <2>5, <4>1 DEF SpentInv
    <3>2. CASE n.kind = "verify"
      <4>1. PICK k \in Codes : n.code = {k} /\ mailedTo[k] # {}
        BY <2>1, <3>2 DEF Called
      <4>2. k \in Known
        BY <4>1 DEF SpentInv
      <4>3. n.pc # "confirm"
        BY <2>1, <3>2 DEF Called, HasCopy
      <4> QED  BY <2>5, <3>2, <4>1, <4>2, <4>3
    <3> QED  BY <3>1, <3>2
  <2>7. ASSUME NEW t \in Requests
        PROVE  /\ req'[t].code \subseteq Known'
               /\ req'[t].kind # "verify" \/ req'[t].pc = "confirm" => req'[t].code \cap spent = {}
    BY <2>3, <2>5, <2>6 DEF SpentInv
  <2>8. row' = row /\ mailedTo' = mailedTo /\ spent' = spent
    BY <2>1 DEF Called
  <2> QED  BY <2>2, <2>5, <2>7, <2>8 DEF SpentInv
<1>2. CASE RefreshToken \/ UNCHANGED vars
  <2>1. UNCHANGED <<row, mailedTo, spent, calls, req>>
    BY <1>2 DEF RefreshToken, vars
  <2> QED  BY <2>1 DEF SpentInv, Copies, LiveCopy, Known
<1> QED
  BY <1>1, <1>2, SpentStep DEF Next

LEMMA SpentCorrect == Spec => []SpentInv
<1>1. Init => SpentInv
  <2> SUFFICES ASSUME Init  PROVE SpentInv
    OBVIOUS
  <2>1. row.code = {} /\ \A r \in Requests : req[r] = Idle
    BY RowType DEF Init, Established, NoRow
  <2>2. \A e \in Copies : e = row
    BY <2>1, IdleType DEF Copies, LiveCopy, HasCopy
  <2> QED  BY <2>1, <2>2, IdleType DEF Init, SpentInv
<1>2. Shape /\ SpentInv /\ [Next]_vars => SpentInv'
  BY SpentNext
<1> QED
  BY <1>1, <1>2, ShapeCorrect, PTL DEF Spec

\* A code that verifyOtp or resetPassword accepted while nothing else ran stays
\* refused: no handler that saves an older copy of the row brings it back
THEOREM SpentCodeCorrect == Spec => []SpentCodeRefused
<1>1. Shape /\ SpentInv => SpentCodeRefused
  BY KindOf DEF SpentInv, SpentCodeRefused
<1> QED
  BY <1>1, SpentCorrect, ShapeCorrect, PTL

(***************************************************************************)
(* A careful client changes the email alone                                *)
(***************************************************************************)

AloneInv == \A r, s \in Requests : req[r].kind = "email" /\ r # s => req[s].kind = "none"

\* One handler of changeEmail runs while all the others are idle
LEMMA AloneNext == Careful /\ Shape /\ AloneInv /\ [Next]_vars => AloneInv'
<1> SUFFICES ASSUME Careful, Shape, AloneInv, [Next]_vars  PROVE AloneInv'
  OBVIOUS
<1>0. TypeOK /\ req \in [Requests -> Request] /\ Idle.kind = "none"
  BY IdleType DEF Shape, TypeOK
<1>1. ASSUME NEW r \in Requests, ServerStep(r)  PROVE AloneInv'
  <2>1. PICK q : Becomes(r, q) /\ (q = Idle \/ q.kind = req[r].kind)
    BY <1>1, StepForm DEF Continues
  <2>2. req'[r] = q /\ \A t \in Requests \ {r} : req'[t] = req[t]
    BY <1>0, <2>1 DEF Becomes
  <2> QED  BY <1>0, <2>1, <2>2 DEF AloneInv
<1>2. ASSUME NEW r \in Requests, AuthCall(r) \/ UsersCall(r)  PROVE AloneInv'
  <2>1. PICK n : Called(r, n)
    BY <1>0, <1>2, CallForm
  <2>2. req'[r] = n /\ \A t \in Requests \ {r} : req'[t] = req[t]
    BY <1>0, <2>1 DEF Called, Becomes
  <2>3. n.kind = "email" => \A t \in Requests \ {r} : req[t].kind = "none"
    BY <1>0, <2>1, KindOf DEF Called, Quiet
  <2>4. \A t \in Requests : req[t].kind # "email"
    BY <2>1 DEF Called
  <2> QED  BY <2>2, <2>3, <2>4 DEF AloneInv
<1>3. CASE RefreshToken \/ UNCHANGED vars
  BY <1>3 DEF RefreshToken, vars, AloneInv
<1> QED
  BY <1>1, <1>2, <1>3 DEF Next

LEMMA AloneCorrect == Careful => (Spec => []AloneInv)
<1>1. Init => AloneInv
  BY IdleType DEF Init, AloneInv
<1>2. CASE Careful
  <2>1. Shape /\ AloneInv /\ [Next]_vars => AloneInv'
    BY <1>2, AloneNext
  <2> QED  BY <1>1, <2>1, ShapeCorrect, PTL DEF Spec
<1> QED
  BY <1>2

(***************************************************************************)
(* Updates stay                                                            *)
(***************************************************************************)

KeptInv ==
    /\ \A e \in Copies : kept \subseteq e.done
    /\ "removed" \in kept => row.status = "gone"
    /\ row.status = "none" => kept = {} /\ Copies = {}
    /\ fresh => row.done \cap InToken \subseteq token.done
    /\ \A r \in Requests : 
          req[r].kind = "email" /\ row.status = "live" => kept \cap InToken \subseteq req[r].entity.done

\* What a step does to the row, as far as the marks go
LEMMA MarksStep ==
    ASSUME Shape, AloneInv, KeptInv, NEW r \in Requests, ServerStep(r)
    PROVE  /\ row'.status = "live" => kept' \subseteq row'.done
           /\ "removed" \in kept' => row'.status = "gone"
           /\ row'.status = "none" => row = row' /\ kept' = {}
           /\ fresh' => row'.done \cap InToken \subseteq token'.done
           /\ kept' = kept \/ (Quiet(r) /\ Finish(r))
           /\ row.status # "live" /\ req[r].kind = "email" => row'.status # "live"
<1>0. /\ req \in [Requests -> Request] /\ req[r] \in Request /\ TypeOK
      /\ row \in Row /\ token \in Row /\ kept \subseteq Marks \cup {"removed"}
  BY DEF Shape, TypeOK
<1>1. /\ row.status = "live" => kept \subseteq row.done
      /\ "removed" \in kept => row.status = "gone"
      /\ row.status = "none" => kept = {}
      /\ fresh => row.done \cap InToken \subseteq token.done
  BY DEF KeptInv, Copies
<1>2. CASE UNCHANGED <<row, fresh, token, kept>>
  BY <1>1, <1>2
<1>3. CASE InsertUser(r)
  <2>1. /\ row'.status = "live" \/ row' = row
        /\ row'.status = "live" => row.status = "none" \/ row' = row
        /\ fresh' = FALSE /\ kept' = kept
    BY <1>3, RowType DEF InsertUser, NoRow
  <2>2. req[r].kind # "email"
    BY <1>3, KindOf DEF InsertUser, Joining
  <2> QED  BY <1>1, <2>1, <2>2
<1>4. CASE Sign(r)
  BY <1>1, <1>4 DEF Sign
<1>5. CASE SaveOtp(r)
  <2>1. row'.status = row.status /\ row'.done = row.done /\ UNCHANGED <<fresh, token, kept>>
        /\ (row.status = "none" => row' = row)
    BY <1>0, <1>5 DEF SaveOtp, Row
  <2> QED  BY <1>1, <2>1
<1>6. CASE ConfirmUser(r)
  <2>1. row'.status = row.status /\ row'.done = row.done /\ fresh' = FALSE /\ kept' = kept
        /\ (row.status = "none" => row' = row)
    BY <1>0, <1>6 DEF ConfirmUser, Row
  <2> QED  BY <1>1, <2>1
<1>7. CASE UpdateUserEmail(r)
  <2>1. /\ row.status # "live" => row' = row
        /\ row.status = "live" => row'.status = "live" /\ row'.done = req[r].entity.done \cup (row.done \ InToken)
        /\ fresh' = FALSE /\ kept' = kept
    BY <1>0, <1>7 DEF UpdateUserEmail, Row
  <2>2. row.status = "live" => kept \cap InToken \subseteq req[r].entity.done
    BY <1>7 DEF UpdateUserEmail, KeptInv
  <2> QED  BY <1>1, <2>1, <2>2
\* A handler that saves its copy
<1>8. CASE SaveUser(r) \/ SaveRole(r) \/ SaveProfile(r)
  <2>1. LiveCopy(req[r]) /\ Finish(r)
    BY <1>8 DEF SaveUser, SaveRole, SaveProfile, LiveCopy, HasCopy
  <2>2. req[r].entity \in Copies
    BY <2>1 DEF Copies
  <2>3. /\ kept \subseteq req[r].entity.done /\ req[r].entity.status = "live"
        /\ req[r].entity.done \subseteq Marks /\ "removed" \notin Marks
    BY <2>2, CopyType DEF KeptInv, Row, Marks
  <2>4. CASE SaveRole(r)
    <3>1. /\ row'.status = "live" /\ row'.done = req[r].entity.done /\ kept' = kept
          /\ token' = TokenOf(row')
      BY <1>0, <2>3, <2>4 DEF SaveRole, Request, Row
    <3>2. row' \in Row
      BY <1>8, StepType DEF ServerStep
    <3>3. token'.done = row'.done \cap InToken
      BY <3>1, <3>2 DEF TokenOf, Row
    <3> QED  BY <1>8, <2>1, <2>3, <2>4, <3>1, <3>3 DEF SaveRole
  <2>5. CASE SaveUser(r) \/ SaveProfile(r)
    <3>1. \/ UNCHANGED <<row, fresh, token, kept>>
          \/ /\ row'.status = req[r].entity.status
             /\ row'.done = req[r].entity.done \cup req[r].mark
             /\ Changed(r, req[r].mark)
      BY <1>0, <2>5 DEF SaveUser, SaveProfile, Request, Row
    <3>2. req[r].mark \subseteq Marks
      BY <1>0 DEF Request
    <3>3. CASE /\ row'.status = req[r].entity.status
               /\ row'.done = req[r].entity.done \cup req[r].mark
               /\ Changed(r, req[r].mark)
      <4>1. /\ row'.status = "live" /\ fresh' = FALSE /\ req[r].kind # "email"
            /\ kept' = kept \/ (Quiet(r) /\ Finish(r) /\ kept' = kept \cup req[r].mark)
        BY <2>1, <2>3, <3>3 DEF Changed, LiveCopy
      <4>2. kept' \subseteq row'.done /\ "removed" \notin kept'
        BY <2>3, <3>2, <3>3, <4>1
      <4> QED  BY <4>1, <4>2
    <3> QED  BY <1>2, <3>1, <3>3
  <2> QED  BY <1>8, <2>4, <2>5
<1>9. CASE UpdatePassword(r) \/ SoftDelete(r)
  <2>1. PICK mark \in Marks :
          \/ UNCHANGED <<row, fresh, kept>>
          \/ /\ row.status = "live" /\ row'.status = "live" /\ row'.done = row.done \cup {mark}
             /\ Changed(r, {mark})
    BY <1>0, <1>9 DEF UpdatePassword, SoftDelete, Row, Marks
  <2>2. Finish(r) /\ token' = token /\ "removed" \notin Marks
    BY <1>9 DEF UpdatePassword, SoftDelete, Marks
  <2> QED  BY <1>1, <1>2, <2>1, <2>2 DEF Changed
<1>10. CASE RemoveRow(r)
  <2>1. row'.status = "gone" /\ Changed(r, {"removed"}) /\ Finish(r)
    BY <1>10, RowType DEF RemoveRow, NoRow
  <2> QED  BY <1>1, <2>1 DEF Changed
<1> QED
  BY <1>2, <1>3, <1>4, <1>5, <1>6, <1>7, <1>8, <1>9, <1>10 DEF ServerStep, CheckEmail,
     FindGoogleUser, FindLoginUser, FindUserToMail, MailCode, MailFails, CheckCode, LoadUser,
     FindUserToDelete, Nothing

LEMMA KeptNext == Careful /\ Shape /\ AloneInv /\ KeptInv /\ [Next]_vars => KeptInv'
<1> SUFFICES ASSUME Careful, Shape, AloneInv, KeptInv, [Next]_vars  PROVE KeptInv'
  OBVIOUS
<1>0. /\ TypeOK /\ req \in [Requests -> Request] /\ row \in Row /\ token \in Row
      /\ Idle.kind = "none" /\ Idle.pc = "idle"
  BY IdleType DEF Shape, TypeOK
<1>1. ASSUME NEW r \in Requests, ServerStep(r)  PROVE KeptInv'
  <2>1. PICK q : ShapeOf(q) /\ Becomes(r, q) /\ (q = Idle \/ Continues(r, q))
    BY <1>1, StepForm
  <2>2. \A e \in Copies' : e \in Copies \/ (e = row' /\ row'.status = "live")
    BY <2>1, CopiesStep
  <2>3. req'[r] = q /\ \A t \in Requests \ {r} : req'[t] = req[t]
    BY <1>0, <2>1 DEF Becomes
  <2>4. /\ row'.status = "live" => kept' \subseteq row'.done
        /\ "removed" \in kept' => row'.status = "gone"
        /\ row'.status = "none" => row = row' /\ kept' = {}
        /\ fresh' => row'.done \cap InToken \subseteq token'.done
        /\ kept' = kept \/ (Quiet(r) /\ Finish(r))
        /\ row.status # "live" /\ req[r].kind = "email" => row'.status # "live"
    BY <1>1, MarksStep
  \* An update that is kept leaves no copy behind
  <2>5. CASE Quiet(r) /\ Finish(r)
    <3>1. \A t \in Requests : req'[t] = Idle
      BY <1>0, <2>3, <2>5, KindOf DEF Quiet, Finish
    <3>2. \A e \in Copies' : e = row' /\ row'.status = "live"
      BY <1>0, <3>1 DEF Copies, LiveCopy, HasCopy
    <3>3. \A t \in Requests : req'[t].kind # "email"
      BY <1>0, <3>1
    <3> QED  BY <2>4, <3>2, <3>3 DEF KeptInv
  <2>6. CASE kept' = kept
    <3>1. \A e \in Copies' : kept' \subseteq e.done
      BY <2>2, <2>4, <2>6 DEF KeptInv
    <3>2. row'.status = "none" => Copies' = {}
      <4>1. row'.status = "none" => Copies = {}
        BY <2>4 DEF KeptInv
      <4> QED  BY <2>2, <4>1
    <3>3. ASSUME NEW t \in Requests, req'[t].kind = "email", row'.status = "live"
          PROVE  kept' \cap InToken \subseteq req'[t].entity.done
      <4>1. t = r
        <5> SUFFICES ASSUME t # r  PROVE FALSE
          OBVIOUS
        <5>1. req[t].kind = "email" /\ req[r].kind = "none"
          BY <2>3, <3>3 DEF AloneInv
        <5> QED  BY <1>1, <5>1, StageStep
      <4>2. q.kind = "email" /\ Continues(r, q)
        BY <1>0, <2>1, <2>3, <3>3, <4>1
      <4>3. req[r].kind = "email" /\ row.status = "live"
        BY <2>4, <3>3, <4>2 DEF Continues
      <4>4. kept \cap InToken \subseteq req[r].entity.done
        BY <4>3 DEF KeptInv
      <4>5. q.entity = req[r].entity \/ q.entity = row'
        BY <4>2 DEF Continues
      <4> QED  BY <2>3, <2>4, <2>6, <3>3, <4>1, <4>4, <4>5
    <3> QED  BY <2>4, <3>1, <3>2, <3>3 DEF KeptInv
  <2> QED  BY <2>4, <2>5, <2>6
<1>2. ASSUME NEW r \in Requests, AuthCall(r) \/ UsersCall(r)  PROVE KeptInv'
  <2>1. PICK n : Called(r, n)
    BY <1>0, <1>2, CallForm
  <2>2. \A e \in Copies' : e \in Copies
    BY <2>1, CopiesCall
  <2>3. req'[r] = n /\ \A t \in Requests \ {r} : req'[t] = req[t]
    BY <1>0, <2>1 DEF Called, Becomes
  <2>4. UNCHANGED <<row, token, fresh, kept>>
    BY <2>1 DEF Called
  <2>5. n.kind = "email" /\ row.status = "live" => kept \cap InToken \subseteq n.entity.done
    <3> SUFFICES ASSUME n.kind = "email", row.status = "live"
                 PROVE  kept \cap InToken \subseteq n.entity.done
      OBVIOUS
    <3>1. fresh /\ n.entity = token
      BY <2>1 DEF Called
    <3>2. row \in Copies
      BY DEF Copies
    <3> QED  BY <3>1, <3>2 DEF KeptInv
  <2> QED  BY <2>2, <2>3, <2>4, <2>5 DEF KeptInv
<1>3. CASE RefreshToken
  <2>1. token'.done = row.done \cap InToken /\ UNCHANGED <<row, kept, req>>
    BY <1>0, <1>3 DEF RefreshToken, TokenOf, Row
  <2> QED  BY <2>1 DEF KeptInv, Copies, LiveCopy
<1>4. CASE UNCHANGED vars
  BY <1>4 DEF vars, KeptInv, Copies, LiveCopy
<1> QED
  BY <1>1, <1>2, <1>3, <1>4 DEF Next

\* What a handler wrote while nothing else ran stays in the row whatever overlaps
\* later, and a user who was removed stays removed: each handler in flight has
\* read the row after it, if the client changes the email alone and with a new token
THEOREM UpdatesCorrect == Careful => (Spec => []UpdatesKept)
<1>1. Init => KeptInv
  <2> SUFFICES ASSUME Init  PROVE KeptInv
    OBVIOUS
  <2>1. \A r \in Requests : req[r] = Idle
    BY DEF Init
  <2>2. \A e \in Copies : e = row /\ row.status = "live"
    BY <2>1, IdleType DEF Copies, LiveCopy, HasCopy
  <2>3. row \in Row /\ row.done = {}
    <3>1. ASSUME NEW a \in Addresses, NEW role \in RoleForUser
          PROVE  Established(a, {role}).done = {}
      BY DEF Established, NoRow
    <3>2. row \in Row
      BY InitShape DEF Shape, TypeOK
    <3>3. row = NoRow \/ \E a \in Addresses, role \in RoleForUser : row = Established(a, {role})
      BY DEF Init
    <3>4. NoRow.done = {}
      BY DEF NoRow
    <3> QED  BY <3>1, <3>2, <3>3, <3>4
  <2> QED  BY <2>1, <2>2, <2>3, IdleType DEF Init, KeptInv, TokenOf, Row
<1>2. CASE Careful
  <2>1. Shape /\ AloneInv /\ KeptInv /\ [Next]_vars => KeptInv'
    BY <1>2, KeptNext
  <2>2. KeptInv => UpdatesKept
    BY DEF KeptInv, UpdatesKept, Copies
  <2>3. Spec => []AloneInv
    BY <1>2, AloneCorrect
  <2> QED  BY <1>1, <2>1, <2>2, <2>3, ShapeCorrect, PTL DEF Spec
<1> QED
  BY <1>2

(***************************************************************************)
(* A verified address was mailed the code that came back                   *)
(***************************************************************************)

\* The code has been mailed and not been stored, or the address not yet
Mailed(q) == IF q.kind = "email" THEN q.pc = "save" ELSE q.pc = "code"

\* updateUserEmail is about to save the address that the stored code went to
Moving == \E r \in Requests : req[r].kind = "email" /\ req[r].pc = "save"

AddressInv ==
    /\ row.status = "none" => Copies = {}
    /\ \A e, f \in Copies : e.email \subseteq f.email \cup profiled
    /\ \A e \in Copies : e.verified => e.email \subseteq proved \cup profiled
    /\ \A e \in Copies : \A k \in e.code :
          mailedTo[k] # {} => Moving \/ e.email \subseteq mailedTo[k] \cup profiled
    /\ \A r \in Requests : req[r].kind \notin {"verify", "email"} =>
          \A e \in Copies : e.code \cap req[r].code = {}
    /\ \A r, s \in Requests : req[r].kind # "verify" /\ req[s].kind # "verify" /\ r # s =>
          req[r].code \cap req[s].code = {}
    /\ \A r \in Requests : req[r].kind = "verify" => req[r].code # {}
    /\ \A r \in Requests : \A k \in req[r].code :
          /\ req[r].kind = "verify" => mailedTo[k] # {}
          /\ req[r].kind # "verify" /\ ~Mailed(req[r]) => mailedTo[k] = {}
          /\ req[r].kind # "email" /\ req[r].pc = "code" => mailedTo[k] = req[r].entity.email
          /\ req[r].kind = "email" /\ req[r].pc = "save" => mailedTo[k] = req[r].address
          /\ req[r].pc = "confirm" => req[r].entity.email \subseteq mailedTo[k] \cup profiled
    /\ \A r \in Requests : 
          req[r].kind = "email" /\ req[r].pc \in {"mail", "save"} /\ row.status = "live" =>
             row.code \subseteq req[r].code

\* A code is mailed once; addresses that count stay in account
LEMMA MailStep ==
    ASSUME Shape, AddressInv, NEW r \in Requests, ServerStep(r)
    PROVE  /\ proved \subseteq proved' /\ profiled \subseteq profiled'
           /\ \A k \in Codes : mailedTo'[k] # mailedTo[k] =>
                 MailCode(r) /\ k \in req[r].code /\ mailedTo[k] = {}
<1>1. mailedTo \in [Codes -> SUBSET Addresses] /\ req[r] \in Request
  BY DEF Shape, TypeOK
<1>2. proved \subseteq proved' /\ profiled \subseteq profiled'
  BY DEF ServerStep, CheckEmail, FindGoogleUser, InsertUser, FindLoginUser, Sign,
     FindUserToMail, MailCode, MailFails, SaveOtp, CheckCode, ConfirmUser, UpdateUserEmail,
     LoadUser, SaveUser, SaveRole, SaveProfile, UpdatePassword, FindUserToDelete,
     SoftDelete, RemoveRow, Nothing
<1>3. mailedTo' = mailedTo \/ MailCode(r)
  BY DEF ServerStep, CheckEmail, FindGoogleUser, InsertUser, FindLoginUser, Sign,
     FindUserToMail, MailFails, SaveOtp, CheckCode, ConfirmUser, UpdateUserEmail,
     LoadUser, SaveUser, SaveRole, SaveProfile, UpdatePassword, FindUserToDelete,
     SoftDelete, RemoveRow, Nothing
<1>4. ASSUME NEW k \in Codes, mailedTo'[k] # mailedTo[k], MailCode(r)
      PROVE  k \in req[r].code /\ mailedTo[k] = {}
  <2>1. k \in req[r].code
    BY <1>4 DEF MailCode
  <2>2. req[r].pc = "mail" /\ req[r].kind # "verify"
    BY <1>4, KindOf DEF MailCode, Joining
  <2> QED  BY <2>1, <2>2 DEF AddressInv, Mailed
<1> QED
  BY <1>2, <1>3, <1>4

\* A handler of changeEmail steps alone, and leaves no other copy behind
LEMMA EmailStep ==
    ASSUME Shape, AloneInv, NEW r \in Requests, ServerStep(r), NEW t \in Requests,
           req[t].kind = "email"
    PROVE  t = r /\ \A u \in Requests \ {r} : req[u] = Idle
<1>1. req[r].kind # "none"
  BY StageStep
<1>2. t = r
  BY <1>1 DEF AloneInv
<1> QED
  BY <1>2, KindOf DEF AloneInv

\* What a step does to the row, as far as addresses and codes go
LEMMA AddressRow ==
    ASSUME Shape, AloneInv, AddressInv, NEW r \in Requests, ServerStep(r), row'.status = "live"
    PROVE  /\ \A e \in Copies' : /\ row'.email \subseteq e.email \cup profiled'
                                 /\ e.email \subseteq row'.email \cup profiled'
           /\ row'.verified => row'.email \subseteq proved' \cup profiled'
           /\ \A k \in row'.code : mailedTo'[k] # {} =>
                 Moving' \/ row'.email \subseteq mailedTo'[k] \cup profiled'
           /\ \A t \in Requests : req'[t].kind \notin {"verify", "email"} =>
                 row'.code \cap req'[t].code = {}
<1> DEFINE Near == \A e \in Copies' : /\ row'.email \subseteq e.email \cup profiled'
                                      /\ e.email \subseteq row'.email \cup profiled'
           Proved == row'.verified => row'.email \subseteq proved' \cup profiled'
           Sent == \A k \in row'.code : mailedTo'[k] # {} =>
                      Moving' \/ row'.email \subseteq mailedTo'[k] \cup profiled'
           Apart == \A t \in Requests : req'[t].kind \notin {"verify", "email"} =>
                      row'.code \cap req'[t].code = {}
<1>0. /\ req \in [Requests -> Request] /\ req[r] \in Request /\ row \in Row /\ row' \in Row
      /\ mailedTo \in [Codes -> SUBSET Addresses] /\ req' \in [Requests -> Request]
  BY StepType, NextShape DEF Shape, TypeOK, Next
<1>1. PICK q : ShapeOf(q) /\ Becomes(r, q) /\ (q = Idle \/ Continues(r, q))
  BY StepForm
<1>2. \A e \in Copies' : e \in Copies \/ e = row'
  BY <1>1, CopiesStep
<1>3. req'[r] = q /\ \A t \in Requests \ {r} : req'[t] = req[t]
  BY <1>0, <1>1 DEF Becomes
<1>4. q.code = {} \/ (q.code = req[r].code /\ q.kind = req[r].kind)
  BY <1>1, IdleType DEF Continues
<1>5. /\ proved \subseteq proved' /\ profiled \subseteq profiled'
      /\ \A k \in Codes : mailedTo'[k] # mailedTo[k] =>
            MailCode(r) /\ k \in req[r].code /\ mailedTo[k] = {}
  BY MailStep
<1>6. row'.code \subseteq Codes
  BY <1>0 DEF Row
\* The codes of a copy are no handler's
<1>7. ASSUME NEW e \in Copies, row'.code \subseteq e.code  PROVE Apart
  <2>1. \A t \in Requests : req[t].kind \notin {"verify", "email"} => e.code \cap req[t].code = {}
    BY DEF AddressInv
  <2> QED  BY <1>3, <1>4, <1>7, <2>1
\* The row has the address and codes of a copy
<1>8. ASSUME NEW e \in Copies, row'.code \subseteq e.code, row'.email = e.email,
             ~MailCode(r), ~UpdateUserEmail(r)
      PROVE  Sent
  <2> SUFFICES ASSUME NEW k \in row'.code, mailedTo'[k] # {}
               PROVE  Moving' \/ row'.email \subseteq mailedTo'[k] \cup profiled'
    OBVIOUS
  <2>1. mailedTo'[k] = mailedTo[k]
    BY <1>5, <1>6, <1>8
  <2>2. Moving \/ e.email \subseteq mailedTo[k] \cup profiled
    BY <1>8, <2>1 DEF AddressInv
  <2>3. ~Moving
    <3> SUFFICES ASSUME NEW t \in Requests, req[t].kind = "email", req[t].pc = "save"
                 PROVE  FALSE
      BY DEF Moving
    <3> QED  BY <1>8, EmailStep, StageStep
  <2> QED  BY <1>5, <1>8, <2>1, <2>2, <2>3
\* ... and comes from it
<1>9. ASSUME NEW e \in Copies, row'.email = e.email  PROVE Near
  <2>1. \A f \in Copies : e.email \subseteq f.email \cup profiled /\ f.email \subseteq e.email \cup profiled
    BY DEF AddressInv
  <2> QED  BY <1>2, <1>5, <1>9, <2>1
<1>10. ASSUME NEW e \in Copies, row'.email = e.email, row'.verified => e.verified  PROVE Proved
  <2>1. e.verified => e.email \subseteq proved \cup profiled
    BY DEF AddressInv
  <2> QED  BY <1>5, <1>10, <2>1
<1>11. row.status = "live" => row \in Copies
  BY DEF Copies
<1>12. CASE row' = row
  <2>1. row \in Copies
    BY <1>11, <1>12
  <2>2. Near /\ Proved /\ Apart
    BY <1>7, <1>9, <1>10, <1>12, <2>1
  <2>3. CASE ~MailCode(r) /\ ~UpdateUserEmail(r)
    BY <1>8, <1>12, <2>1, <2>2, <2>3
  <2>4. CASE UpdateUserEmail(r)
    <3>1. /\ row'.email = req[r].address
          /\ row'.code = row.code
      BY <1>0, <1>12, <2>4 DEF UpdateUserEmail, Row
    <3>2. row.code \subseteq req[r].code /\ \A k \in req[r].code : mailedTo[k] = req[r].address
      BY <1>12, <2>4 DEF UpdateUserEmail, AddressInv
    <3>3. mailedTo' = mailedTo
      BY <2>4 DEF UpdateUserEmail
    <3> QED  BY <2>2, <3>1, <3>2, <3>3
  <2>5. CASE MailCode(r)
    <3>1. CASE req[r].kind = "email"
      <4>1. req'[r].pc = "save" /\ req'[r].kind = "email"
        BY <1>0, <2>5, <3>1 DEF MailCode, Goto, Request
      <4> QED  BY <2>2, <4>1 DEF Moving
    <3>2. CASE req[r].kind # "email"
      <4>1. row.code \cap req[r].code = {}
        <5>1. req[r].kind \notin {"verify", "email"}
          BY <2>5, <3>2, KindOf DEF MailCode, Joining
        <5> QED  BY <2>1, <5>1 DEF AddressInv
      <4>2. ASSUME NEW k \in row'.code, mailedTo'[k] # {}
            PROVE  row'.email \subseteq mailedTo'[k] \cup profiled'
        <5>1. mailedTo'[k] = mailedTo[k]
          BY <1>5, <1>6, <1>12, <4>1
        <5>2. ~Moving
          <6> SUFFICES ASSUME NEW t \in Requests, req[t].kind = "email"  PROVE FALSE
            BY DEF Moving
          <6> QED  BY <3>2, EmailStep
        <5> QED  BY <1>5, <1>12, <2>1, <4>2, <5>1, <5>2 DEF AddressInv
      <4> QED  BY <2>2, <4>2
    <3> QED  BY <3>1, <3>2
  <2> QED  BY <2>3, <2>4, <2>5
\* The first row: nobody has a copy
<1>13. CASE InsertUser(r) /\ row' # row
  <2>1. /\ row.status = "none" /\ row'.code = {}
        /\ row'.verified => row'.email \subseteq proved'
    BY <1>13, RowType DEF InsertUser, NoRow
  <2>2. Copies = {}
    BY <2>1 DEF AddressInv
  <2> QED  BY <1>2, <2>1, <2>2
<1>14. CASE SaveOtp(r) /\ row' # row
  <2>1. /\ row.status = "live" /\ row'.code = req[r].code /\ row'.email = row.email
        /\ row'.verified = row.verified /\ mailedTo' = mailedTo /\ req[r].pc = "code"
    BY <1>0, <1>14 DEF SaveOtp, Row
  <2>2. Near /\ Proved
    BY <1>9, <1>10, <1>11, <2>1
  <2>3. CASE req[r].kind = "email"
    <3>1. \A t \in Requests \ {r} : req[t] = Idle
      BY <2>3, EmailStep
    <3>2. \A k \in req[r].code : mailedTo[k] = {}
      BY <2>1, <2>3 DEF AddressInv, Mailed
    <3>3. Apart
      BY <1>3, <1>4, <2>3, <3>1, IdleType
    <3> QED  BY <2>1, <2>2, <3>2, <3>3
  <2>4. CASE req[r].kind # "email"
    <3>1. req'[r] = Idle /\ LiveCopy(req[r]) /\ req[r].kind # "verify"
      BY <1>14, <2>1, <2>4, StageStep, KindOf DEF LiveCopy, HasCopy, Joining
    <3>2. \A t \in Requests \ {r} : req[t].kind # "verify" => req[r].code \cap req[t].code = {}
      BY <3>1 DEF AddressInv
    <3>3. Apart
      BY <1>3, <2>1, <3>1, <3>2, IdleType
    <3>4. \A k \in req[r].code : mailedTo[k] = req[r].entity.email
      BY <2>1, <2>4 DEF AddressInv
    <3>5. row.email \subseteq req[r].entity.email \cup profiled
      BY <1>11, <2>1, <3>1 DEF AddressInv, Copies
    <3> QED  BY <1>5, <2>1, <2>2, <3>3, <3>4, <3>5
  <2> QED  BY <2>3, <2>4
<1>15. CASE ConfirmUser(r) /\ row' # row
  <2>1. /\ row.status = "live" /\ row'.code = {} /\ row'.email = row.email
        /\ proved' = proved \cup UNION {mailedTo[k] : k \in req[r].code}
        /\ req[r].pc = "confirm"
    BY <1>0, <1>15 DEF ConfirmUser, Row
  <2>2. Near
    BY <1>9, <1>11, <2>1
  <2>3. LiveCopy(req[r]) /\ req[r].kind = "verify"
    BY <2>1, KindOf DEF LiveCopy, HasCopy
  <2>4. row.email \subseteq req[r].entity.email \cup profiled
    BY <1>11, <2>1, <2>3 DEF AddressInv, Copies
  <2>5. PICK k : k \in req[r].code
    BY <2>3 DEF AddressInv
  <2>6. req[r].entity.email \subseteq mailedTo[k] \cup profiled
    BY <2>1, <2>5 DEF AddressInv
  <2>7. mailedTo[k] \subseteq proved'
    BY <2>1, <2>5
  <2> QED  BY <1>5, <2>1, <2>2, <2>4, <2>6, <2>7
<1>16. CASE UpdateUserEmail(r) /\ row' # row
  <2>1. /\ row.status = "live" /\ row'.code = row.code /\ row'.email = req[r].address
        /\ row'.verified = FALSE /\ mailedTo' = mailedTo
        /\ req[r].pc = "save" /\ req[r].kind = "email"
    BY <1>0, <1>16 DEF UpdateUserEmail, Row
  <2>2. \A t \in Requests : req'[t] = Idle
    <3>1. req'[r] = Idle
      BY <1>16, StageStep
    <3>2. \A t \in Requests \ {r} : req[t] = Idle
      BY <2>1, EmailStep
    <3> QED  BY <1>3, <3>1, <3>2
  <2>3. \A e \in Copies' : e = row'
    BY <2>2, IdleType DEF Copies, LiveCopy, HasCopy
  <2>4. row.code \subseteq req[r].code /\ \A k \in req[r].code : mailedTo[k] = req[r].address
    BY <2>1 DEF AddressInv
  <2> QED  BY <2>1, <2>2, <2>3, <2>4, IdleType
<1>17. CASE (SaveUser(r) \/ SaveRole(r) \/ SaveProfile(r)) /\ row' # row
  <2>1. LiveCopy(req[r]) /\ ~MailCode(r) /\ ~UpdateUserEmail(r)
    BY <1>17 DEF SaveUser, SaveRole, SaveProfile, LiveCopy, HasCopy, MailCode, UpdateUserEmail
  <2> DEFINE e == req[r].entity
  <2>2. e \in Copies
    BY <2>1 DEF Copies
  <2>3. /\ row'.code = e.code /\ row'.verified = e.verified
        /\ \/ row'.email = e.email
           \/ /\ SaveProfile(r) /\ row'.email = req[r].address
              /\ profiled' = profiled \cup req[r].address \cup Remembered(r)
    BY <1>0, <1>17 DEF SaveUser, SaveRole, SaveProfile, Request, Row
  <2> HIDE DEF e
  <2>4. Apart
    BY <1>7, <2>2, <2>3
  <2>5. CASE row'.email = e.email
    BY <1>8, <1>9, <1>10, <2>1, <2>2, <2>3, <2>4, <2>5
  <2>6. CASE /\ SaveProfile(r) /\ row'.email = req[r].address
             /\ profiled' = profiled \cup req[r].address \cup Remembered(r)
    <3>1. req'[r] = Idle
      BY <1>0, <2>6 DEF SaveProfile, Finish
    <3>2. \A f \in Copies' : f = row' \/ f.email \subseteq Remembered(r)
      <4> SUFFICES ASSUME NEW t \in Requests, LiveCopy(req'[t])
                   PROVE  req'[t].entity.email \subseteq Remembered(r)
        BY DEF Copies, LiveCopy
      <4>1. t # r
        BY <3>1, IdleType DEF LiveCopy, HasCopy
      <4> QED  BY <1>3, <4>1 DEF Remembered
    <3> QED  BY <2>4, <2>6, <3>2
  <2> QED  BY <2>3, <2>5, <2>6
<1>18. CASE (UpdatePassword(r) \/ SoftDelete(r)) /\ row' # row
  <2>1. /\ row.status = "live" /\ row'.code = row.code /\ row'.email = row.email
        /\ row'.verified = row.verified
    BY <1>0, <1>18 DEF UpdatePassword, SoftDelete, Row
  <2>2. ~MailCode(r) /\ ~UpdateUserEmail(r)
    BY <1>18, KindOf DEF UpdatePassword, SoftDelete, MailCode, UpdateUserEmail
  <2> QED  BY <1>7, <1>8, <1>9, <1>10, <1>11, <2>1, <2>2
<1>19. CASE RemoveRow(r)
  BY <1>19, RowType DEF RemoveRow, NoRow
<1> QED
  BY <1>12, <1>13, <1>14, <1>15, <1>16, <1>17, <1>18, <1>19 DEF ServerStep, CheckEmail,
     FindGoogleUser, FindLoginUser, Sign, FindUserToMail, MailCode, MailFails, CheckCode,
     LoadUser, FindUserToDelete, Nothing

LEMMA AddressStep ==
    ASSUME Shape, AloneInv, SpentInv, AddressInv, NEW r \in Requests, ServerStep(r)
    PROVE  AddressInv'
<1>0. /\ req \in [Requests -> Request] /\ req[r] \in Request /\ row \in Row /\ row' \in Row
      /\ mailedTo \in [Codes -> SUBSET Addresses]
      /\ \A t \in Requests : req[t].code \subseteq Codes
      /\ \A e \in Copies : e.code \subseteq Codes
  BY StepType, CopyType DEF Shape, TypeOK, Request, Row
<1>1. PICK q : ShapeOf(q) /\ Becomes(r, q) /\ (q = Idle \/ Continues(r, q))
  BY StepForm
<1>2. \A e \in Copies' : e \in Copies \/ (e = row' /\ row'.status = "live")
  BY <1>1, CopiesStep
<1>3. req'[r] = q /\ \A t \in Requests \ {r} : req'[t] = req[t]
  BY <1>0, <1>1 DEF Becomes
<1>4. \/ q.code = {} /\ q.kind = "none"
      \/ q.code = req[r].code /\ q.kind = req[r].kind /\ q.address = req[r].address
  BY <1>1, IdleType DEF Continues
<1>5. /\ proved \subseteq proved' /\ profiled \subseteq profiled'
      /\ \A k \in Codes : mailedTo'[k] # mailedTo[k] =>
            MailCode(r) /\ k \in req[r].code /\ mailedTo[k] = {}
  BY MailStep
<1>6. row'.status = "live" =>
      /\ \A e \in Copies' : /\ row'.email \subseteq e.email \cup profiled'
                            /\ e.email \subseteq row'.email \cup profiled'
      /\ row'.verified => row'.email \subseteq proved' \cup profiled'
      /\ \A k \in row'.code : mailedTo'[k] # {} =>
            Moving' \/ row'.email \subseteq mailedTo'[k] \cup profiled'
      /\ \A t \in Requests : req'[t].kind \notin {"verify", "email"} =>
            row'.code \cap req'[t].code = {}
  BY AddressRow
<1>7. MailCode(r) => /\ req[r].pc = "mail" /\ req[r].kind # "verify"
                     /\ \A t \in Requests \ {r} : req[t].kind # "verify" => req[r].code \cap req[t].code = {}
  BY KindOf DEF MailCode, AddressInv, Joining
<1>10. row'.status = "none" => Copies' = {}
  <2>1. row'.status = "none" => row' = row
    <3>1. CASE InsertUser(r) \/ RemoveRow(r)
      BY <3>1, RowType DEF InsertUser, RemoveRow, NoRow
    <3>2. CASE SaveUser(r) \/ SaveRole(r) \/ SaveProfile(r)
      <4>1. req[r].entity.status = "live"
        BY <3>2, KindOf DEF SaveUser, SaveRole, SaveProfile, Shape, ShapeOf, HasCopy
      <4>2. row' = row \/ row'.status = req[r].entity.status
        BY <1>0, <3>2 DEF SaveUser, SaveRole, SaveProfile, Row, Request
      <4> QED  BY <4>1, <4>2
    <3>3. CASE SaveOtp(r) \/ ConfirmUser(r) \/ UpdateUserEmail(r) \/ UpdatePassword(r) \/ SoftDelete(r)
      <4>1. row' = row \/ row'.status = "live"
        BY <1>0, <3>3 DEF SaveOtp, ConfirmUser, UpdateUserEmail, UpdatePassword, SoftDelete, Row
      <4> QED  BY <4>1
    <3> QED
      BY <3>1, <3>2, <3>3 DEF ServerStep, CheckEmail, FindGoogleUser, FindLoginUser, Sign,
         FindUserToMail, MailCode, MailFails, CheckCode, LoadUser, FindUserToDelete, Nothing
  <2>2. row.status = "none" => Copies = {}
    BY DEF AddressInv
  <2> QED  BY <1>2, <2>1, <2>2
<1>11. ASSUME NEW e \in Copies', NEW f \in Copies'
       PROVE  e.email \subseteq f.email \cup profiled'
  <2>1. CASE e \in Copies /\ f \in Copies
    <3>1. e.email \subseteq f.email \cup profiled
      BY <2>1 DEF AddressInv
    <3> QED  BY <1>5, <3>1
  <2> QED  BY <1>2, <1>6, <2>1
<1>12. ASSUME NEW e \in Copies', e.verified
       PROVE  e.email \subseteq proved' \cup profiled'
  <2>1. CASE e \in Copies
    <3>1. e.email \subseteq proved \cup profiled
      BY <1>12, <2>1 DEF AddressInv
    <3> QED  BY <1>5, <3>1
  <2> QED  BY <1>2, <1>6, <1>12, <2>1
<1>13. ASSUME NEW e \in Copies', NEW k \in e.code, mailedTo'[k] # {}
       PROVE  Moving' \/ e.email \subseteq mailedTo'[k] \cup profiled'
  <2>1. CASE e = row' /\ row'.status = "live"
    BY <1>6, <1>13, <2>1
  <2>2. CASE e \in Copies /\ ~(e = row' /\ row'.status = "live")
    \* Another handler has a copy, so that none of changeEmail runs
    <3>1. PICK t \in Requests : LiveCopy(req'[t]) /\ e = req'[t].entity
      BY <2>2 DEF Copies, LiveCopy
    <3>2. \A u \in Requests : req[u].kind # "email"
      <4> SUFFICES ASSUME NEW u \in Requests, req[u].kind = "email"  PROVE FALSE
        OBVIOUS
      <4>1. u = r /\ \A v \in Requests \ {r} : req[v] = Idle
        BY EmailStep
      <4>2. q.kind \in {"none", "email"} /\ (q.kind = "none" => q = Idle)
        BY <1>1, <1>4, <4>1 DEF ShapeOf
      <4> QED  BY <1>3, <3>1, <4>1, <4>2, IdleType DEF LiveCopy, HasCopy
    <3>3. ~Moving
      BY <3>2 DEF Moving
    <3>4. mailedTo'[k] = mailedTo[k]
      <4> SUFFICES ASSUME MailCode(r), k \in req[r].code  PROVE FALSE
        BY <1>0, <1>5, <2>2
      <4> QED  BY <1>7, <2>2, <3>2 DEF AddressInv
    <3> QED  BY <1>5, <1>13, <2>2, <3>3, <3>4 DEF AddressInv
  <2> QED  BY <1>2, <2>1, <2>2
<1>14. ASSUME NEW t \in Requests, req'[t].kind \notin {"verify", "email"}, NEW e \in Copies'
       PROVE  e.code \cap req'[t].code = {}
  <2>1. CASE e \in Copies
    <3>1. req'[t].code = {} \/ (req'[t].code = req[t].code /\ req'[t].kind = req[t].kind)
      BY <1>3, <1>4
    <3> QED  BY <1>14, <2>1, <3>1 DEF AddressInv
  <2> QED  BY <1>2, <1>6, <1>14, <2>1
<1>15. ASSUME NEW t \in Requests, NEW u \in Requests, t # u,
              req'[t].kind # "verify", req'[u].kind # "verify"
       PROVE  req'[t].code \cap req'[u].code = {}
  <2>1. \A v \in Requests : req'[v].code = {} \/ (req'[v].code = req[v].code /\ req'[v].kind = req[v].kind)
    BY <1>3, <1>4
  <2> QED  BY <1>15, <2>1 DEF AddressInv
<1>16. ASSUME NEW t \in Requests, req'[t].kind = "verify"  PROVE req'[t].code # {}
  BY <1>3, <1>4, <1>16 DEF AddressInv
<1> DEFINE CodeOf(t, k) ==
        /\ req[t].kind = "verify" => mailedTo[k] # {}
        /\ req[t].kind # "verify" /\ ~Mailed(req[t]) => mailedTo[k] = {}
        /\ req[t].kind # "email" /\ req[t].pc = "code" => mailedTo[k] = req[t].entity.email
        /\ req[t].kind = "email" /\ req[t].pc = "save" => mailedTo[k] = req[t].address
        /\ req[t].pc = "confirm" => req[t].entity.email \subseteq mailedTo[k] \cup profiled
<1>17. ASSUME NEW t \in Requests, NEW k \in req'[t].code
       PROVE  CodeOf(t, k)'
  <2>1. k \in req[t].code /\ req'[t].kind = req[t].kind
    BY <1>3, <1>4, <1>17
  <2>2. CodeOf(t, k)
    BY <2>1 DEF AddressInv
  <2>3. CASE t # r
    <3>1. mailedTo'[k] = mailedTo[k]
      <4> SUFFICES ASSUME MailCode(r), k \in req[r].code, mailedTo[k] = {}  PROVE FALSE
        BY <1>0, <1>5, <2>1
      <4>1. req[t].kind # "verify"
        BY <2>2
      <4> QED  BY <1>7, <2>1, <2>3, <4>1
    <3>2. req'[t] = req[t]
      BY <1>3, <2>3
    <3> QED  BY <1>5, <2>2, <3>1, <3>2 DEF Mailed
  <2>4. CASE t = r
    <3>1. q.code = req[r].code /\ q.kind = req[r].kind /\ q.address = req[r].address /\ q # Idle
      BY <1>1, <1>3, <1>17, <2>4, IdleType DEF Continues
    <3>2. CASE q.kind = "verify"
      <4>1. mailedTo'[k] = mailedTo[k] /\ mailedTo[k] # {}
        BY <1>0, <1>5, <2>1, <2>2, <2>4, <3>1, <3>2
      <4>2. q.pc \in {"load", "confirm", "sign"}
        BY <1>1, <3>2 DEF ShapeOf, StagesOf, Joining, Saving
      <4>3. ASSUME q.pc = "confirm"
            PROVE  q.entity.email \subseteq mailedTo[k] \cup profiled
        <5>1. row.status = "live" /\ q.entity = row /\ q.code = row.code
          BY <1>3, <4>3, StageStep
        <5>2. row \in Copies
          BY <5>1 DEF Copies
        <5>3. ~Moving
          <6> SUFFICES ASSUME NEW u \in Requests, req[u].kind = "email"  PROVE FALSE
            BY DEF Moving
          <6>1. u = r
            BY EmailStep
          <6> QED  BY <3>1, <3>2, <6>1
        <5> QED  BY <2>1, <2>4, <3>1, <4>1, <5>1, <5>2, <5>3 DEF AddressInv
      <4> QED  BY <1>3, <1>5, <2>4, <3>2, <4>1, <4>2, <4>3
    <3>3. CASE q.kind # "verify" /\ MailCode(r)
      <4>1. /\ mailedTo'[k] = IF q.kind = "email" THEN q.address ELSE req[r].entity.email
            /\ q.pc = IF q.kind = "email" THEN "save" ELSE "code"
            /\ q.entity = req[r].entity
        BY <1>0, <1>3, <2>1, <2>4, <3>1, <3>3 DEF MailCode, Goto, Request
      <4> QED  BY <1>3, <2>4, <3>3, <4>1 DEF Mailed
    <3>4. CASE q.kind # "verify" /\ ~MailCode(r)
      <4>1. mailedTo'[k] = mailedTo[k]
        BY <1>0, <1>5, <2>1, <3>4
      <4>2. q.pc # "confirm" /\ (q.kind # "email" => q.pc # "code") /\ (q.kind = "email" => q.pc # "save")
        <5>1. q.pc = "confirm" => CheckCode(r)
          BY <1>3, StageStep
        <5>2. CheckCode(r) => req[r].kind = "verify"
          BY DEF CheckCode
        <5> QED  BY <1>3, <3>1, <3>4, <5>1, <5>2, StageStep
      <4>3. ~Mailed(req[r])
        <5>1. req[r].kind = "email" => req[r].pc # "save"
          BY <1>3, <3>1, StageStep
        <5>2. req[r].kind # "email" => req[r].pc # "code"
          BY <1>3, <3>1, StageStep
        <5> QED  BY <5>1, <5>2 DEF Mailed
      <4>4. mailedTo[k] = {}
        BY <2>2, <2>4, <3>1, <3>4, <4>3
      <4> QED  BY <1>3, <2>4, <3>4, <4>1, <4>2, <4>4
    <3> QED  BY <3>2, <3>3, <3>4
  <2> QED  BY <2>3, <2>4
<1>18. ASSUME NEW t \in Requests, req'[t].kind = "email", req'[t].pc \in {"mail", "save"},
              row'.status = "live"
       PROVE  row'.code \subseteq req'[t].code
  <2>1. req[t].kind = "email"
    BY <1>3, <1>4, <1>18
  <2>2. t = r
    BY <2>1, EmailStep
  <2>3. q.kind = "email" /\ q.code = req[r].code
    BY <1>3, <1>4, <1>18, <2>2
  <2>4. CASE SaveOtp(r)
    BY <1>0, <1>3, <1>18, <2>2, <2>3, <2>4 DEF SaveOtp, Row
  <2>5. CASE MailCode(r)
    <3>1. row' = row /\ req[r].pc = "mail"
      BY <2>5 DEF MailCode
    <3>2. row.code \subseteq req[r].code
      BY <1>18, <2>1, <2>2, <3>1 DEF AddressInv
    <3> QED  BY <1>3, <2>2, <2>3, <3>1, <3>2
  <2> QED  BY <1>18, <2>1, <2>2, <2>4, <2>5, StageStep
<1> QED
  BY <1>10, <1>11, <1>12, <1>13, <1>14, <1>15, <1>16, <1>17, <1>18 DEF AddressInv

LEMMA AddressNext ==
    Shape /\ AloneInv /\ SpentInv /\ AddressInv /\ [Next]_vars => AddressInv'
<1> SUFFICES ASSUME Shape, AloneInv, SpentInv, AddressInv, [Next]_vars  PROVE AddressInv'
  OBVIOUS
<1>0. TypeOK /\ req \in [Requests -> Request]
  BY DEF Shape, TypeOK
<1>1. ASSUME NEW r \in Requests, AuthCall(r) \/ UsersCall(r)  PROVE AddressInv'
  <2>1. PICK n : Called(r, n)
    BY <1>0, <1>1, CallForm
  <2>2. \A e \in Copies' : e \in Copies
    BY <2>1, CopiesCall
  <2>3. req'[r] = n /\ \A t \in Requests \ {r} : req'[t] = req[t]
    BY <1>0, <2>1 DEF Called, Becomes
  <2>4. UNCHANGED <<row, mailedTo, proved, profiled>>
    BY <2>1 DEF Called
  \* A new code is in no copy and at no other handler, and was not mailed
  <2>5. calls + 1 \in Codes /\ calls + 1 \notin Known
    BY <1>0, <2>1, AccountsAssumption DEF Called, TypeOK, Known
  <2>6. /\ mailedTo[calls + 1] = {}
        /\ \A e \in Copies : calls + 1 \notin e.code
        /\ \A t \in Requests : calls + 1 \notin req[t].code
    BY <2>5 DEF SpentInv
  <2>7. CASE n.kind = "verify"
    <3>1. PICK k \in Codes : n.code = {k} /\ mailedTo[k] # {}
      BY <2>1, <2>7 DEF Called
    <3>2. n.pc \notin {"mail", "save", "code", "confirm"}
      BY <2>1, <2>7 DEF Called, HasCopy
    <3>3. Moving => Moving'
      BY <2>1, <2>3, KindOf DEF Moving, Called
    <3> QED  BY <2>2, <2>3, <2>4, <2>7, <3>1, <3>2, <3>3 DEF AddressInv, Mailed
  <2>8. CASE n.kind # "verify"
    <3>1. n.code = {calls + 1} /\ n.pc \notin {"mail", "save", "code", "confirm"}
      BY <2>1, <2>8 DEF Called, HasCopy
    <3>2. Moving => Moving'
      BY <2>1, <2>3, KindOf DEF Moving, Called
    <3> QED  BY <2>2, <2>3, <2>4, <2>6, <2>8, <3>1, <3>2 DEF AddressInv, Mailed
  <2> QED  BY <2>7, <2>8
<1>2. CASE RefreshToken \/ UNCHANGED vars
  <2>1. UNCHANGED <<row, mailedTo, proved, profiled, req>>
    BY <1>2 DEF RefreshToken, vars
  <2> QED  BY <2>1 DEF AddressInv, Copies, LiveCopy, Moving, Mailed
<1> QED
  BY <1>1, <1>2, AddressStep DEF Next

\* Whoever registers, changes the address or enters a code, and whatever overlaps
\* with it or fails: a verified address has had its code mailed and brought back,
\* unless update-profile brought it or one like it (verifyOtp, updateUserEmail)
THEOREM AddressCorrect == Careful => (Spec => []VerifiedAddress)
<1>1. Init => AddressInv
  <2> SUFFICES ASSUME Init  PROVE AddressInv
    OBVIOUS
  <2>1. (\A r \in Requests : req[r] = Idle) /\ profiled = {} /\ proved = row.email
        /\ (\A k \in Codes : mailedTo[k] = {}) /\ row.code = {}
    BY RowType DEF Init, Established, NoRow
  <2>2. \A e \in Copies : e = row /\ row.status = "live"
    BY <2>1, IdleType DEF Copies, LiveCopy, HasCopy
  <2> QED  BY <2>1, <2>2, IdleType DEF AddressInv
<1>2. CASE Careful
  <2>1. Shape /\ AloneInv /\ SpentInv /\ AddressInv /\ [Next]_vars => AddressInv'
    BY AddressNext
  <2>2. AddressInv => VerifiedAddress
    BY DEF AddressInv, VerifiedAddress, Copies
  <2>3. Spec => []AloneInv
    BY <1>2, AloneCorrect
  <2> QED  BY <1>1, <2>1, <2>2, <2>3, ShapeCorrect, SpentCorrect, PTL DEF Spec
<1> QED
  BY <1>2
=============================================================================
