------------------------------ MODULE Accounts ------------------------------
(***************************************************************************)
(* The account of one person: AuthService and UsersService                 *)
(* (src/src/modules/auth/auth.service.ts,                                  *)
(* src/src/modules/users/users.service.ts).  Most handlers load the user's *)
(* row, change a column and save the entity; saving writes every column in *)
(* which the entity and the row differ by then, the other columns as the   *)
(* handler had read them.  A few write their columns alone.  A token       *)
(* carries a copy of the row's public columns, and changeEmail saves that  *)
(* copy.                                                                   *)
(***************************************************************************)
EXTENDS Naturals, FiniteSets

CONSTANTS
    Addresses,  \* the email addresses of the person
    Taken,      \* those that belong to another account as well
    Requests,   \* handlers that may be in flight
    Careful,    \* the client changes the email by itself and with a new token
    Faults,     \* {"mail"} or {}: a mail may not be sent
    MaxCalls    \* bound on the number of requests

ASSUME AccountsAssumption ==
    /\ Taken \subseteq Addresses
    /\ Careful \in BOOLEAN
    /\ Faults \subseteq {"mail"}
    /\ MaxCalls \in Nat

VARIABLES
    row,        \* the user's row
    token,      \* the payload of the client's token
    fresh,      \* the token was issued after the last change of the row
    mailedTo,   \* mailedTo[k]: where code k was mailed
    proved,     \* addresses whose mailed code was accepted, or that Google vouched for
    profiled,   \* addresses that came in through update-profile, or back after it
    kept,       \* updates written while no other handler was in flight
    spent,      \* codes accepted while no other handler was in flight
    calls,      \* requests so far
    req         \* req[r]: the handler in flight in r

vars == <<row, token, fresh, mailedTo, proved, profiled, kept, spent, calls, req>>

\* What updates leave in the row, told apart by how they can be lost: columns
\* the token carries (photo, phone, address, sizes, name, rules), the counter
\* of orders, which it carries as well, the deletion date, columns it does not
\* carry (card, Stripe account, notifications) and the password
Marks == {"public", "orders", "deleted", "private", "password"}

InToken == {"public", "orders", "deleted"}

\* Each request generates at most one code
Codes == 1..MaxCalls

RoleForUser == {"buyer", "vendor"}

Row == [status: {"none", "live", "gone"}, google: BOOLEAN, email: SUBSET Addresses,
        verified: BOOLEAN, code: SUBSET Codes, role: SUBSET RoleForUser, done: SUBSET Marks]

NoRow == [status |-> "none", google |-> FALSE, email |-> {}, verified |-> FALSE,
          code |-> {}, role |-> {}, done |-> {}]

Stages == {"idle", "check", "insert", "google", "load", "mail", "code", "confirm", "sign",
           "save", "password", "erase", "remove"}

Kinds == {"none", "register", "create", "google", "login", "verify", "resend", "forgot",
          "email", "password", "role", "edit", "profile", "erase", "remove"}

\* entity: the handler's copy of the row, or the payload of its token
Request == [pc: Stages, kind: Kinds, entity: Row, address: SUBSET Addresses,
            code: SUBSET Codes, mark: SUBSET Marks, role: SUBSET RoleForUser,
            claim: BOOLEAN]

Idle == [pc |-> "idle", kind |-> "none", entity |-> NoRow, address |-> {},
         code |-> {}, mark |-> {}, role |-> {}, claim |-> FALSE]

TypeOK ==
    /\ row \in Row /\ token \in Row /\ fresh \in BOOLEAN
    /\ mailedTo \in [Codes -> SUBSET Addresses]
    /\ proved \subseteq Addresses /\ profiled \subseteq Addresses
    /\ kept \subseteq Marks \cup {"removed"}
    /\ spent \subseteq Codes
    /\ calls \in 0..MaxCalls
    /\ req \in [Requests -> Request]

\* The payload of a token: the public columns
TokenOf(entity) == [entity EXCEPT !.code = {}, !.done = @ \cap InToken]

Established(a, role) ==
    [NoRow EXCEPT !.status = "live", !.email = {a}, !.verified = TRUE, !.role = role]

\* Nobody is registered yet, or the person has an account and is logged in
Init ==
    /\ \/ row = NoRow
       \/ \E a \in Addresses \ Taken, role \in RoleForUser : row = Established(a, {role})
    /\ token = TokenOf(row) /\ fresh = (row.status = "live")
    /\ mailedTo = [k \in Codes |-> {}]
    /\ proved = row.email
    /\ profiled = {} /\ kept = {} /\ spent = {}
    /\ calls = 0
    /\ req = [r \in Requests |-> Idle]

(***************************************************************************)
(* Control of a handler                                                    *)
(***************************************************************************)

Quiet(r) == \A q \in Requests \ {r} : req[q].pc = "idle"

Goto(r, stage) == req' = [req EXCEPT ![r].pc = stage]

Finish(r) == req' = [req EXCEPT ![r] = Idle]

Start(r, request) ==
    /\ req[r].pc = "idle"
    /\ calls < MaxCalls /\ calls' = calls + 1
    /\ Careful => /\ \A q \in Requests : req[q].kind # "email"
                  /\ request.kind = "email" => Quiet(r) /\ fresh
    /\ req' = [req EXCEPT ![r] = [request EXCEPT !.code = IF @ = {} THEN {calls + 1} ELSE @]]
    /\ UNCHANGED <<row, token, fresh, mailedTo, proved, profiled, kept, spent>>

Nothing == UNCHANGED <<row, token, fresh, mailedTo, proved, profiled, kept, spent, calls>>

\* findOne leaves soft-deleted rows out
Found == row.status = "live" /\ "deleted" \notin row.done

\* An UPDATE or a save has changed the row
Changed(r, marks) ==
    /\ fresh' = FALSE
    /\ kept' = IF Quiet(r) THEN kept \cup marks ELSE kept

\* JwtAuthGuard and RolesGuard read the token, never the row
LoggedIn == token.status = "live"

HasRole == LoggedIn /\ token.role # {}

(***************************************************************************)
(* Registration and sign-in                                                *)
(***************************************************************************)

\* The person has one account: another request does not bring another address
OneAccount(a) ==
    /\ row.status = "none" \/ row.email = {a}
    /\ \A q \in Requests : req[q].kind \in {"register", "create", "google"} => req[q].address = {a}

\* POST /auth/register
Register(r, a) ==
    OneAccount(a) /\ Start(r, [Idle EXCEPT !.pc = "check", !.kind = "register", !.address = {a}])

\* POST /users, which sends no code
CreateUser(r, a) ==
    OneAccount(a) /\ Start(r, [Idle EXCEPT !.pc = "check", !.kind = "create", !.address = {a}])

\* POST /auth/google; claim: whether Google says that the address is verified
AuthenticateViaGoogle(r, a, claim) ==
    OneAccount(a) /\ Start(r, [Idle EXCEPT !.pc = "google", !.kind = "google",
                                           !.address = {a}, !.claim = claim])

UserExists(address) == row.email = address \/ address \subseteq Taken

\* registerUser and changeEmail look for the address, deleted users included
CheckEmail(r) ==
    /\ req[r].pc = "check"
    /\ IF UserExists(req[r].address) THEN Finish(r)
       ELSE Goto(r, IF req[r].kind = "email" THEN "code" ELSE "insert")
    /\ Nothing

\* An account that Google has created signs in; one with a password does not
FindGoogleUser(r) ==
    /\ req[r].pc = "google"
    /\ IF Found /\ row.email = req[r].address
       THEN IF row.google /\ row.verified
            THEN req' = [req EXCEPT ![r].pc = "sign", ![r].entity = row]
            ELSE Finish(r)
       ELSE Goto(r, "insert")
    /\ Nothing

\* The password has been hashed; the address is unique in the table.  When the
\* person has changed the address meanwhile, this is another account.
InsertUser(r) ==
    LET google == req[r].kind = "google"
        new == [NoRow EXCEPT !.status = "live", !.google = google, !.email = req[r].address,
                             !.verified = req[r].claim]
    IN /\ req[r].pc = "insert"
       /\ IF UserExists(req[r].address) \/ row.status # "none"
          THEN Finish(r) /\ UNCHANGED <<row, proved>>
          ELSE /\ row' = new
               /\ proved' = IF new.verified THEN proved \cup new.email ELSE proved
               /\ IF req[r].kind = "create" THEN Finish(r)
                  ELSE req' = [req EXCEPT ![r].entity = new,
                                          ![r].pc = IF new.verified THEN "sign" ELSE "mail"]
       /\ fresh' = FALSE
       /\ UNCHANGED <<token, mailedTo, profiled, kept, spent, calls>>

\* POST /auth/login with the right password
Login(r) == row.status # "none" /\ Start(r, [Idle EXCEPT !.pc = "load", !.kind = "login"])

\* An unverified user is sent a code and gets no token
FindLoginUser(r) ==
    /\ req[r].pc = "load" /\ req[r].kind = "login"
    /\ IF ~Found \/ row.google THEN Finish(r)
       ELSE req' = [req EXCEPT ![r].pc = IF row.verified THEN "sign" ELSE "mail",
                               ![r].entity = row]
    /\ Nothing

\* The tokens copy the user as the handler read it; after a code it is verified
Sign(r) ==
    /\ req[r].pc = "sign"
    /\ token' = TokenOf([req[r].entity EXCEPT !.verified = TRUE])
    /\ fresh' = FALSE
    /\ Finish(r)
    /\ UNCHANGED <<row, mailedTo, proved, profiled, kept, spent, calls>>

\* A slip: the payload of the old token is signed once more
SlipSamePayload ==
    /\ LoggedIn /\ Found
    /\ fresh' = TRUE
    /\ UNCHANGED <<row, token, mailedTo, proved, profiled, kept, spent, calls, req>>

\* POST /auth/refresh-token reads the user and signs
RefreshToken ==
    /\ LoggedIn /\ Found
    /\ token' = TokenOf(row) /\ fresh' = TRUE
    /\ UNCHANGED <<row, mailedTo, proved, profiled, kept, spent, calls, req>>

(***************************************************************************)
(* Codes                                                                   *)
(***************************************************************************)

\* POST /auth/resend-otp
ResendOtp(r) == row.status # "none" /\ Start(r, [Idle EXCEPT !.pc = "load", !.kind = "resend"])

\* POST /auth/forgot-password
ForgotPassword(r) == row.status # "none" /\ Start(r, [Idle EXCEPT !.pc = "load", !.kind = "forgot"])

FindUserToMail(r) ==
    /\ req[r].pc = "load" /\ req[r].kind \in {"resend", "forgot"}
    /\ IF ~Found \/ (req[r].kind = "resend" /\ row.verified) THEN Finish(r)
       ELSE req' = [req EXCEPT ![r].pc = "mail", ![r].entity = row]
    /\ Nothing

\* changeEmail mails to the new address, and after it has stored the code
MailCode(r) ==
    LET address == IF req[r].kind = "email" THEN req[r].address ELSE req[r].entity.email
    IN /\ req[r].pc = "mail"
       /\ mailedTo' = [k \in Codes |-> IF k \in req[r].code THEN address ELSE mailedTo[k]]
       /\ Goto(r, IF req[r].kind = "email" THEN "save" ELSE "code")
       /\ UNCHANGED <<row, token, fresh, proved, profiled, kept, spent, calls>>

MailFails(r) ==
    /\ "mail" \in Faults
    /\ req[r].pc = "mail"
    /\ Finish(r)
    /\ Nothing

SaveOtp(r) ==
    /\ req[r].pc = "code"
    /\ row' = IF row.status = "live" THEN [row EXCEPT !.code = req[r].code] ELSE row
    /\ IF req[r].kind = "email" THEN Goto(r, "mail") ELSE Finish(r)
    /\ UNCHANGED <<token, fresh, mailedTo, proved, profiled, kept, spent, calls>>

EnterCode(r, k) ==
    mailedTo[k] # {} /\ Start(r, [Idle EXCEPT !.pc = "load", !.kind = "verify", !.code = {k}])

\* POST /auth/verify-otp
VerifyOtp(r, k) == EnterCode(r, k)

\* POST /auth/reset-password, which checks the code alike and sends no mail
ResetPassword(r, k) == EnterCode(r, k)

\* A code that differs or has expired is refused
CheckCode(r) ==
    /\ req[r].pc = "load" /\ req[r].kind = "verify"
    /\ \/ /\ Found /\ row.code = req[r].code
          /\ req' = [req EXCEPT ![r].pc = "confirm", ![r].entity = row]
       \/ Finish(r)
    /\ Nothing

\* A slip: the code stays in the row
SlipKeepCode(r) ==
    /\ req[r].pc = "confirm"
    /\ row' = IF row.status = "live" THEN [row EXCEPT !.verified = TRUE] ELSE row
    /\ proved' = proved \cup UNION {mailedTo[k] : k \in req[r].code}
    /\ spent' = IF Quiet(r) THEN spent \cup req[r].code ELSE spent
    /\ fresh' = FALSE
    /\ Goto(r, "sign")
    /\ UNCHANGED <<token, mailedTo, profiled, kept, calls>>

\* The UPDATE does not look at the code again
ConfirmUser(r) ==
    /\ req[r].pc = "confirm"
    /\ row' = IF row.status = "live" THEN [row EXCEPT !.verified = TRUE, !.code = {}] ELSE row
    /\ proved' = proved \cup UNION {mailedTo[k] : k \in req[r].code}
    /\ spent' = IF Quiet(r) THEN spent \cup req[r].code ELSE spent
    /\ fresh' = FALSE
    /\ Goto(r, "sign")
    /\ UNCHANGED <<token, mailedTo, profiled, kept, calls>>

(***************************************************************************)
(* Changing the email                                                      *)
(***************************************************************************)

\* PATCH /auth/change-email: the user is the payload of the token
ChangeEmail(r, a) ==
    LoggedIn /\ Start(r, [Idle EXCEPT !.pc = "check", !.kind = "email", !.address = {a},
                                      !.entity = token])

\* A slip: the new address counts as verified
SlipStayVerified(r) ==
    /\ req[r].pc = "save" /\ req[r].kind = "email"
    /\ row' = IF row.status = "live" THEN [row EXCEPT !.email = req[r].address] ELSE row
    /\ fresh' = FALSE
    /\ Finish(r)
    /\ UNCHANGED <<token, mailedTo, proved, profiled, kept, spent, calls>>

\* updateUserEmail saves the payload: every column of it replaces the row's.
\* Without a row the save would insert one that lacks a password, and fails.
UpdateUserEmail(r) ==
    LET entity == req[r].entity
    IN /\ req[r].pc = "save" /\ req[r].kind = "email"
       /\ row' = IF row.status # "live" THEN row
                 ELSE [row EXCEPT !.email = req[r].address, !.verified = FALSE,
                                  !.role = entity.role,
                                  !.done = entity.done \cup (@ \ InToken)]
       /\ fresh' = FALSE
       /\ Finish(r)
       /\ UNCHANGED <<token, mailedTo, proved, profiled, kept, spent, calls>>

(***************************************************************************)
(* The profile                                                             *)
(***************************************************************************)

Edit(r, mark) == Start(r, [Idle EXCEPT !.pc = "load", !.kind = "edit", !.mark = {mark}])

UploadPhoto(r) == HasRole /\ Edit(r, "public")

UpdateUserPhoneNumber(r) == HasRole /\ Edit(r, "public")

UpdateUserAddress(r) == HasRole /\ Edit(r, "public")

UpdateUserSize(r) == token.role = {"buyer"} /\ Edit(r, "public")

HideRentalRules(r) == token.role = {"buyer"} /\ Edit(r, "public")

UpdateUserCreditCard(r) == HasRole /\ Edit(r, "private")

ToggleNotifications(r) == LoggedIn /\ Edit(r, "private")

\* POST /stripe/create-account, when Stripe has created the account
CreateStripeAccount(r) == token.role = {"vendor"} /\ Edit(r, "private")

\* Stripe has verified the account: the event account.updated ends the onboarding
AccountUpdated(r) == "private" \in row.done /\ Edit(r, "public")

\* Whoever is a buyer or a vendor adds to the sum of anybody's orders
UpdateUserOrders(r) == Edit(r, "orders")

\* A slip: the role is read from a missing field
SlipUndefinedRole(r, role) ==
    LoggedIn /\ Start(r, [Idle EXCEPT !.pc = "load", !.kind = "role", !.role = {"undefined"}])

\* PATCH /users/:id/role answers with new tokens
UpdateUserRole(r, role) ==
    LoggedIn /\ Start(r, [Idle EXCEPT !.pc = "load", !.kind = "role", !.role = {role}])

\* PATCH /users/:id/update-profile changes what it is given, the email included
UpdateUserProfile(r, address) ==
    HasRole /\ Start(r, [Idle EXCEPT !.pc = "load", !.kind = "profile", !.mark = {"public"},
                                     !.address = address])

LoadUser(r) ==
    /\ req[r].pc = "load" /\ req[r].kind \in {"edit", "role", "profile"}
    /\ IF ~Found THEN Finish(r)
       ELSE req' = [req EXCEPT ![r].pc = "save", ![r].entity = row]
    /\ Nothing

\* The columns of the entity replace the row's, and a row that is gone comes
\* back; a taken address makes the save fail
SaveUser(r) ==
    LET entity == [req[r].entity EXCEPT !.done = @ \cup req[r].mark]
    IN /\ req[r].pc = "save" /\ req[r].kind = "edit"
       /\ row' = entity
       /\ Changed(r, req[r].mark)
       /\ Finish(r)
       /\ UNCHANGED <<token, mailedTo, proved, profiled, spent, calls>>

SaveRole(r) ==
    LET entity == [req[r].entity EXCEPT !.role = req[r].role]
    IN /\ req[r].pc = "save" /\ req[r].kind = "role"
       /\ row' = entity
       /\ token' = TokenOf(entity) /\ fresh' = TRUE
       /\ Finish(r)
       /\ UNCHANGED <<mailedTo, proved, profiled, kept, spent, calls>>

\* The addresses that handlers in flight may write back
Remembered(r) == UNION {req[q].entity.email : q \in Requests \ {r}}

\* An address in the body replaces the row's, whoever else has a copy of the row
SaveProfile(r) ==
    LET entity == [req[r].entity EXCEPT !.done = @ \cup req[r].mark,
                     !.email = IF req[r].address = {} THEN @ ELSE req[r].address]
    IN /\ req[r].pc = "save" /\ req[r].kind = "profile"
       /\ IF req[r].address # {} /\ req[r].address \subseteq Taken
          THEN UNCHANGED <<row, fresh, kept, profiled>>
          ELSE /\ row' = entity
               /\ profiled' = IF req[r].address = {} THEN profiled
                               ELSE profiled \cup req[r].address \cup Remembered(r)
               /\ Changed(r, req[r].mark)
       /\ Finish(r)
       /\ UNCHANGED <<token, mailedTo, proved, spent, calls>>

(***************************************************************************)
(* Passwords and deletion: statements of their own                         *)
(***************************************************************************)

\* POST /auth/new-password
ChangePassword(r) ==
    LoggedIn /\ Start(r, [Idle EXCEPT !.pc = "password", !.kind = "password"])

\* The UPDATE comes when the password is hashed; a mail and a notification follow
UpdatePassword(r) ==
    /\ req[r].pc = "password"
    /\ IF row.status # "live" THEN UNCHANGED <<row, fresh, kept>>
       ELSE row' = [row EXCEPT !.done = @ \cup {"password"}] /\ Changed(r, {"password"})
    /\ Finish(r)
    /\ UNCHANGED <<token, mailedTo, proved, profiled, spent, calls>>

\* DELETE /users/:id/soft-delete, by the user or an administrator
SoftDeleteUser(r) ==
    row.status # "none" /\ Start(r, [Idle EXCEPT !.pc = "load", !.kind = "erase"])

\* DELETE /users/:id, by an administrator
DeleteUser(r) ==
    row.status # "none" /\ Start(r, [Idle EXCEPT !.pc = "load", !.kind = "remove"])

\* deleteUser looks for deleted users as well; softDeleteUser does not mind
\* whether it has found one
FindUserToDelete(r) ==
    /\ req[r].pc = "load" /\ req[r].kind \in {"erase", "remove"}
    /\ IF req[r].kind = "remove" /\ row.status # "live" THEN Finish(r)
       ELSE Goto(r, req[r].kind)
    /\ Nothing

\* A mail follows
SoftDelete(r) ==
    /\ req[r].pc = "erase"
    /\ IF row.status # "live" THEN UNCHANGED <<row, fresh, kept>>
       ELSE row' = [row EXCEPT !.done = @ \cup {"deleted"}] /\ Changed(r, {"deleted"})
    /\ Finish(r)
    /\ UNCHANGED <<token, mailedTo, proved, profiled, spent, calls>>

RemoveRow(r) ==
    /\ req[r].pc = "remove"
    /\ row' = [NoRow EXCEPT !.status = "gone"]
    /\ Changed(r, {"removed"})
    /\ Finish(r)
    /\ UNCHANGED <<token, mailedTo, proved, profiled, spent, calls>>

(***************************************************************************)
(* Specification                                                           *)
(***************************************************************************)

ServerStep(r) ==
    \/ CheckEmail(r) \/ FindGoogleUser(r) \/ InsertUser(r) \/ FindLoginUser(r) \/ Sign(r)
    \/ FindUserToMail(r) \/ MailCode(r) \/ MailFails(r) \/ SaveOtp(r)
    \/ CheckCode(r) \/ ConfirmUser(r) \/ UpdateUserEmail(r)
    \/ LoadUser(r) \/ SaveUser(r) \/ SaveRole(r) \/ SaveProfile(r)
    \/ UpdatePassword(r) \/ FindUserToDelete(r) \/ SoftDelete(r) \/ RemoveRow(r)

AuthCall(r) ==
    \/ \E a \in Addresses :
          \/ Register(r, a) \/ CreateUser(r, a) \/ ChangeEmail(r, a)
          \/ \E claim \in BOOLEAN : AuthenticateViaGoogle(r, a, claim)
    \/ \E k \in Codes : VerifyOtp(r, k) \/ ResetPassword(r, k)
    \/ Login(r) \/ ResendOtp(r) \/ ForgotPassword(r) \/ ChangePassword(r)

UsersCall(r) ==
    \/ UploadPhoto(r) \/ UpdateUserPhoneNumber(r) \/ UpdateUserAddress(r) \/ UpdateUserSize(r)
    \/ HideRentalRules(r) \/ UpdateUserCreditCard(r) \/ ToggleNotifications(r)
    \/ CreateStripeAccount(r) \/ AccountUpdated(r) \/ UpdateUserOrders(r)
    \/ \E role \in RoleForUser : UpdateUserRole(r, role)
    \/ \E address \in {{}} \cup {{a} : a \in Addresses} : UpdateUserProfile(r, address)
    \/ SoftDeleteUser(r) \/ DeleteUser(r)

Next ==
    \/ \E r \in Requests : AuthCall(r) \/ UsersCall(r) \/ ServerStep(r)
    \/ RefreshToken

Spec == Init /\ [][Next]_vars

(***************************************************************************)
(* Properties                                                              *)
(***************************************************************************)

\* A verified address is one whose code came back, through all registrations,
\* failed mails and changes of address; only update-profile takes an address
\* without asking, and lets a handler that has read the row before bring the
\* former one back (verifyOtp, updateUserEmail, saveOtp)
VerifiedAddress ==
    row.status = "live" /\ row.verified => row.email \subseteq proved \cup profiled

\* A code that was accepted while nothing else ran is not accepted again, though
\* every save of an older copy of the row writes codes (confirmUser, verifyOtp)
SpentCodeRefused ==
    \A r \in Requests : req[r].pc = "confirm" => req[r].code \cap spent = {}

\* What was written while nothing else ran stays written, a deletion too,
\* whatever overlaps later (the handlers of users.service.ts, changeEmail)
UpdatesKept ==
    /\ row.status = "live" => kept \subseteq row.done
    /\ "removed" \in kept => row.status = "gone"
=============================================================================
