------------------------------- MODULE Reviews -------------------------------
(***************************************************************************)
(* Reviews, ratings and deactivated accounts: ReviewsService               *)
(* (src/src/modules/reviews/reviews.service.ts) with the other writers of  *)
(* the columns it maintains on the user's row: the administrator's profile *)
(* update, the nightly job reactivateUsers and the change of the email,    *)
(* which saves the payload of the user's token.  (The other handlers that  *)
(* load a user and save it change none of these columns: what they save is *)
(* what the administrator's update may save.)                              *)
(*                                                                         *)
(* createReview runs in one transaction at MySQL's default level: it reads *)
(* from the snapshot of its first read, keeps the user's row locked from   *)
(* the UPDATE of the rating to the end, and counts the low ratings and     *)
(* saves the deactivated user on OTHER connections, outside of it.         *)
(***************************************************************************)
EXTENDS Naturals, FiniteSets

CONSTANTS
    Users,        \* users who are reviewed
    Reviews,      \* reviews somebody may post
    UserOf,       \* UserOf[v]: the user review v is about
    Low,          \* the reviews that rate below RATING_THREE
    Posted,       \* reviews that may be stored already, one low one of a user at most
    Reviewable,   \* reviews of returned orders by the other party
    Suspended,    \* users whose row says deactivated, with its two timestamps
    Apart,        \* users about whom one request (or the job) is under way at a time,
                  \* and who change the email with a token of the row as it is
    Requests,     \* HTTP requests that may be in flight
    Job,          \* the @Cron job reactivateUsers
    Faults,       \* what may go wrong around the handlers, a subset of Fault
    MaxCalls      \* bound on the calls clients make and on the crashes

Fault == {"mail", "lockWait", "crash"}

ASSUME ConstantsAssumption ==
    /\ IsFiniteSet(Reviews)
    /\ UserOf \in [Reviews -> Users]
    /\ Low \subseteq Reviews /\ Reviewable \subseteq Reviews
    /\ Posted \subseteq Reviews
    /\ \A v, w \in Posted \cap Low : UserOf[v] = UserOf[w] => v = w
    /\ Suspended \subseteq Users /\ Apart \subseteq Users
    /\ Job \notin Requests
    /\ Faults \subseteq Fault
    /\ MaxCalls \in Nat

VARIABLES
    reviews,    \* the review table
    deleted,    \* reviews an administrator has deleted (for the properties only)
    user,       \* the rows of the users
    token,      \* the rows as the tokens of the users carry them
    warned,     \* users who were sent the low-rating warning
    calls,      \* calls and crashes so far
    req,        \* the handlers in flight
    batch       \* the users the job has loaded and not visited

db   == <<reviews, deleted, user>>
vars == <<db, token, warned, calls, req, batch>>

Workers == Requests \cup {Job}

(***************************************************************************)
(* Types                                                                   *)
(***************************************************************************)

\* rated: the reviews whose average the rating column holds; window:
\* deactivationTimestamp and reactivationTimestamp are set
Row == [rated: SUBSET Reviews, active: BOOLEAN, window: BOOLEAN]

Columns == {"rated", "active", "window"}

Stages == {"idle", "find", "rate", "count", "warn", "deactivate", "commit",
           "mail", "diff", "write", "reactivateMail", "scan"}

NoRow == [rated |-> {}, active |-> TRUE, window |-> FALSE]

\* about: the users and the review the handler is about, none or one of each;
\* entity: its copy of the user's row, with its changes; dirty: the columns its
\* UPDATE will write; seen: the reviews of its snapshot
Request == [pc: Stages, user: SUBSET Users, review: SUBSET Reviews, entity: Row,
            dirty: SUBSET Columns, seen: SUBSET Reviews]

Idle == [pc |-> "idle", user |-> {}, review |-> {}, entity |-> NoRow,
         dirty |-> {}, seen |-> {}]

NothingLoaded == [users |-> {}, rows |-> [u \in Users |-> NoRow]]

TypeOK ==
    /\ reviews \subseteq Reviews /\ deleted \subseteq Reviews
    /\ user \in [Users -> Row] /\ token \in [Users -> Row]
    /\ warned \subseteq Users
    /\ calls \in 0..MaxCalls
    /\ req \in [Workers -> Request]
    /\ batch \in [users: SUBSET Users, rows: [Users -> Row]]

(***************************************************************************)
(* Reading the tables                                                      *)
(***************************************************************************)

About(u, S) == {v \in S : UserOf[v] = u}

LowOf(u) == About(u, reviews \cap Low)

LOW_RATINGS_COUNT_ONE == 1
LOW_RATINGS_COUNT_TWO == 2

\* The transaction of a review holds the user's row from its UPDATE on
LockedBy(r, u) ==
    /\ u \in req[r].user /\ req[r].review # {}
    /\ req[r].pc \in {"count", "warn", "deactivate", "commit"}

Locked(u) == \E r \in Requests : LockedBy(r, u)

Busy(u) == u \in batch.users \/ \E w \in Workers : u \in req[w].user

(***************************************************************************)
(* Control of a handler                                                    *)
(***************************************************************************)

Goto(w, stage) == req' = [req EXCEPT ![w].pc = stage]

\* The answer is sent; what an open transaction did is rolled back
Finish(w) == req' = [req EXCEPT ![w] = Idle]

Start(r, u, request) ==
    /\ req[r].pc = "idle"
    /\ calls < MaxCalls /\ calls' = calls + 1
    /\ u \in Apart => ~Busy(u)
    /\ req' = [req EXCEPT ![r] = request]

(***************************************************************************)
(* POST /reviews                                                           *)
(***************************************************************************)

\* The guards let a buyer or a vendor through who reviews somebody else
CreateReview(r, v) ==
    /\ v \notin reviews \cup deleted
    /\ \A q \in Requests : v \notin req[q].review
    /\ Start(r, UserOf[v], [Idle EXCEPT !.pc = "find", !.user = {UserOf[v]}, !.review = {v}])
    /\ UNCHANGED <<db, token, warned, batch>>

\* The first read of the transaction fixes its snapshot.  It refuses partners
\* of the same role and orders that are not returned.
FindUsersAndOrder(r) ==
    /\ req[r].pc = "find"
    /\ IF req[r].review \subseteq Reviewable
       THEN req' = [req EXCEPT ![r].pc = "rate", ![r].seen = reviews]
       ELSE Finish(r)
    /\ UNCHANGED <<db, token, warned, calls, batch>>

\* A slip: the average is taken before the review is saved
SlipRateBeforeSave(r) ==
    \E u \in req[r].user :
        /\ req[r].pc = "rate" /\ ~Locked(u)
        /\ req' = [req EXCEPT ![r].pc = "count", ![r].seen = About(u, @)]
        /\ UNCHANGED <<db, token, warned, calls, batch>>

\* A slip: the rating is updated outside the transaction
SlipRateOutside(r) ==
    \E u \in req[r].user :
        /\ req[r].pc = "rate" /\ ~Locked(u)
        /\ req' = [req EXCEPT ![r].pc = "count", ![r].seen = About(u, @) \cup req[r].review]
        /\ user' = [user EXCEPT ![u].rated = About(u, req[r].seen) \cup req[r].review]
        /\ UNCHANGED <<reviews, deleted, token, warned, calls, batch>>

\* The review is inserted and the rating becomes the average of the reviews
\* the transaction sees, its own among them; the UPDATE waits for the row
UpdateUserRating(r) ==
    \E u \in req[r].user :
        /\ req[r].pc = "rate" /\ ~Locked(u)
        /\ req' = [req EXCEPT ![r].pc = "count", ![r].seen = About(u, @) \cup req[r].review]
        /\ UNCHANGED <<db, token, warned, calls, batch>>

\* A slip: the low ratings are counted in the snapshot of the transaction
SlipCountInSnapshot(r) ==
    \E u \in req[r].user :
        LET low == IF req[r].review \subseteq Low
                   THEN Cardinality((req[r].seen \ req[r].review) \cap Low) ELSE 0
        IN /\ req[r].pc = "count"
           /\ Goto(r, CASE low = LOW_RATINGS_COUNT_ONE  -> "warn"
                        [] low >= LOW_RATINGS_COUNT_TWO -> "deactivate"
                        [] OTHER                        -> "commit")
           /\ UNCHANGED <<db, token, warned, calls, batch>>

\* A low review makes the handler count the low ones, on another connection:
\* those that are committed, not its own
HandleLowRatingReviews(r) ==
    \E u \in req[r].user :
        LET low == IF req[r].review \subseteq Low THEN Cardinality(LowOf(u)) ELSE 0
        IN /\ req[r].pc = "count"
           /\ Goto(r, CASE low = LOW_RATINGS_COUNT_ONE  -> "warn"
                        [] low >= LOW_RATINGS_COUNT_TWO -> "deactivate"
                        [] OTHER                        -> "commit")
           /\ UNCHANGED <<db, token, warned, calls, batch>>

SendWarning(r) ==
    /\ req[r].pc = "warn"
    /\ \/ Goto(r, "commit") /\ warned' = warned \cup req[r].user
       \/ "mail" \in Faults /\ Finish(r) /\ UNCHANGED warned
    /\ UNCHANGED <<db, token, calls, batch>>

\* A slip: nothing ends the wait for the locked row
SlipWaitForever(r) ==
    \E u \in req[r].user :
        /\ req[r].pc = "deactivate" /\ ~Locked(u)
        /\ user' = [user EXCEPT ![u].active = FALSE, ![u].window = TRUE]
        /\ Goto(r, "commit")
        /\ UNCHANGED <<reviews, deleted, token, warned, calls, batch>>

\* userRepository.save is not part of the transaction: its UPDATE waits for
\* the row the transaction has locked, MySQL ends the wait after
\* innodb_lock_wait_timeout, and the exception rolls the transaction back.
\* (The mail and the notification that follow are never reached.)
SaveDeactivatedUser(r) ==
    \E u \in req[r].user :
        /\ req[r].pc = "deactivate"
        /\ IF Locked(u)
           THEN Finish(r) /\ UNCHANGED user
           ELSE /\ user' = [user EXCEPT ![u].active = FALSE, ![u].window = TRUE]
                /\ Goto(r, "commit")
        /\ UNCHANGED <<reviews, deleted, token, warned, calls, batch>>

\* A slip: the ratings are added up as strings, which is no number
SlipNotANumber(r) ==
    \E u \in req[r].user :
        /\ req[r].pc = "commit"
        /\ reviews' = reviews \cup req[r].review
        /\ user' = [user EXCEPT ![u].rated = {"NaN"}]
        /\ Finish(r)
        /\ UNCHANGED <<deleted, token, warned, calls, batch>>

CommitReview(r) ==
    \E u \in req[r].user :
        /\ req[r].pc = "commit"
        /\ reviews' = reviews \cup req[r].review
        /\ user' = [user EXCEPT ![u].rated = req[r].seen]
        /\ Finish(r)
        /\ UNCHANGED <<deleted, token, warned, calls, batch>>

(***************************************************************************)
(* DELETE /reviews/:id, by an administrator                                *)
(***************************************************************************)

\* The rating of the user stays what it was
DeleteReview(v) ==
    /\ v \in reviews
    /\ calls < MaxCalls /\ calls' = calls + 1
    /\ UserOf[v] \in Apart => ~Busy(UserOf[v])
    /\ reviews' = reviews \ {v}
    /\ deleted' = deleted \cup {v}
    /\ UNCHANGED <<user, token, warned, req, batch>>

(***************************************************************************)
(* PATCH /users/:id/update-profile-admin                                   *)
(***************************************************************************)

\* The user is loaded and changed; suspending sends a mail before the save
UpdateUserProfileByAdmin(r, u, active) ==
    /\ Start(r, u, [Idle EXCEPT !.pc = IF active THEN "diff" ELSE "mail",
                                !.user = {u},
                                !.entity = [user[u] EXCEPT !.active = active]])
    /\ UNCHANGED <<db, token, warned, batch>>

(***************************************************************************)
(* PATCH /auth/change-email                                                *)
(***************************************************************************)

\* The user is the payload of the token, whose columns the save will write
ChangeEmail(r, u) ==
    /\ u \in Apart => token[u] = user[u]
    /\ Start(r, u, [Idle EXCEPT !.pc = "mail", !.user = {u}, !.entity = token[u]])
    /\ UNCHANGED <<db, token, warned, batch>>

\* POST /auth/refresh-token reads the user and signs
RefreshToken(u) ==
    /\ token' = [token EXCEPT ![u] = user[u]]
    /\ UNCHANGED <<db, warned, calls, req, batch>>

\* The mail about a suspension or with the code for the new address
MailBeforeSave(r) ==
    /\ req[r].pc = "mail"
    /\ \/ Goto(r, "diff")
       \/ "mail" \in Faults /\ Finish(r)
    /\ UNCHANGED <<db, token, warned, calls, batch>>

(***************************************************************************)
(* The nightly job                                                         *)
(***************************************************************************)

\* Deactivated, with a date of reactivation: due once that date is past
Candidates == {u \in Users : ~user[u].active /\ user[u].window}

ReactivateUsers(due) ==
    /\ req[Job].pc = "idle"
    /\ due # {} /\ due \subseteq Candidates
    /\ \A u \in due \cap Apart : ~Busy(u)
    /\ batch' = [users |-> due,
                 rows |-> [u \in Users |-> IF u \in due THEN user[u] ELSE NoRow]]
    /\ Goto(Job, "scan")
    /\ UNCHANGED <<db, token, warned, calls>>

\* A slip: the mail is sent before the save
SlipMailFirst(u) ==
    /\ req[Job].pc = "scan" /\ u \in batch.users
    /\ req' = [req EXCEPT ![Job] =
                IF "mail" \in Faults THEN Idle
                ELSE [Idle EXCEPT !.pc = "diff", !.user = {u},
                                  !.entity = [batch.rows[u] EXCEPT !.active = TRUE,
                                                                   !.window = FALSE]]]
    /\ batch' = IF "mail" \in Faults THEN NothingLoaded
                ELSE [users |-> batch.users \ {u}, rows |-> [batch.rows EXCEPT ![u] = NoRow]]
    /\ UNCHANGED <<db, token, warned, calls>>

ReactivateUser(u) ==
    /\ req[Job].pc = "scan" /\ u \in batch.users
    /\ req' = [req EXCEPT ![Job] =
                [Idle EXCEPT !.pc = "diff", !.user = {u},
                             !.entity = [batch.rows[u] EXCEPT !.active = TRUE,
                                                              !.window = FALSE]]]
    /\ batch' = [users |-> batch.users \ {u}, rows |-> [batch.rows EXCEPT ![u] = NoRow]]
    /\ UNCHANGED <<db, token, warned, calls>>

\* A mail that fails ends the job; the users not visited wait for the next night
ReactivationMail ==
    /\ req[Job].pc = "reactivateMail"
    /\ \/ /\ req' = [req EXCEPT ![Job] = [Idle EXCEPT !.pc = "scan"]]
          /\ UNCHANGED batch
       \/ "mail" \in Faults /\ Finish(Job) /\ batch' = NothingLoaded
    /\ UNCHANGED <<db, token, warned, calls>>

ReactivateUsersDone ==
    /\ req[Job].pc = "scan" /\ batch.users = {}
    /\ Finish(Job)
    /\ UNCHANGED <<db, token, warned, calls, batch>>

(***************************************************************************)
(* userRepository.save                                                     *)
(***************************************************************************)

\* The row is read again to find the columns in which the copy differs
CompareWithRow(w) ==
    \E u \in req[w].user :
        /\ req[w].pc = "diff"
        /\ req' = [req EXCEPT ![w].pc = "write",
                     ![w].dirty = {c \in Columns : req[w].entity[c] # user[u][c]}]
        /\ UNCHANGED <<db, token, warned, calls, batch>>

Written(entity, dirty, row) ==
    [rated  |-> IF "rated"  \in dirty THEN entity.rated  ELSE row.rated,
     active |-> IF "active" \in dirty THEN entity.active ELSE row.active,
     window |-> IF "window" \in dirty THEN entity.window ELSE row.window]

\* ... and those are written, when the row is free
UpdateRow(w) ==
    \E u \in req[w].user :
        /\ req[w].pc = "write"
        /\ req[w].dirty = {} \/ ~Locked(u)
        /\ user' = [user EXCEPT ![u] = Written(req[w].entity, req[w].dirty, @)]
        /\ IF w = Job THEN Goto(w, "reactivateMail") ELSE Finish(w)
        /\ UNCHANGED <<reviews, deleted, token, warned, calls, batch>>

\* The wait for somebody else's lock may time out: the handler fails
LockWaitTimeout(w) ==
    /\ "lockWait" \in Faults
    /\ \/ req[w].pc = "rate"
       \/ req[w].pc = "write" /\ req[w].dirty # {}
    /\ \E u \in req[w].user : Locked(u)
    /\ Finish(w)
    /\ batch' = IF w = Job THEN NothingLoaded ELSE batch
    /\ UNCHANGED <<db, token, warned, calls>>

\* The process dies: handlers are lost, open transactions roll back
Crash ==
    /\ "crash" \in Faults
    /\ \E w \in Workers : req[w].pc # "idle"
    /\ calls < MaxCalls /\ calls' = calls + 1
    /\ req' = [w \in Workers |-> Idle]
    /\ batch' = NothingLoaded
    /\ UNCHANGED <<db, token, warned>>

(***************************************************************************)
(* Specification                                                           *)
(***************************************************************************)

Init ==
    /\ reviews \in SUBSET Posted /\ deleted = {} /\ warned = {}
    /\ user = [u \in Users |-> [rated |-> About(u, reviews), active |-> u \notin Suspended,
                                window |-> u \in Suspended]]
    /\ token = user
    /\ calls = 0
    /\ req = [w \in Workers |-> Idle]
    /\ batch = NothingLoaded

Step(w) ==
    \/ FindUsersAndOrder(w) \/ UpdateUserRating(w) \/ HandleLowRatingReviews(w)
    \/ SendWarning(w) \/ SaveDeactivatedUser(w) \/ CommitReview(w)
    \/ MailBeforeSave(w)
    \/ CompareWithRow(w) \/ UpdateRow(w) \/ LockWaitTimeout(w)

JobStep ==
    \/ CompareWithRow(Job) \/ UpdateRow(Job) \/ LockWaitTimeout(Job)
    \/ ReactivationMail \/ ReactivateUsersDone
    \/ \E u \in Users : ReactivateUser(u)

Next ==
    \/ \E r \in Requests, v \in Reviews : CreateReview(r, v)
    \/ \E v \in Reviews : DeleteReview(v)
    \/ \E r \in Requests, u \in Users, active \in BOOLEAN :
           UpdateUserProfileByAdmin(r, u, active)
    \/ \E r \in Requests, u \in Users : ChangeEmail(r, u)
    \/ \E u \in Users : RefreshToken(u)
    \/ \E due \in SUBSET Users : ReactivateUsers(due)
    \/ \E r \in Requests : Step(r)
    \/ JobStep
    \/ Crash

Spec == Init /\ [][Next]_vars

\* The event loop runs every handler to its end; the job runs every night, and
\* every date of reactivation is past some night
FairSpec ==
    /\ Spec
    /\ \A r \in Requests : WF_vars(Step(r))
    /\ WF_vars(JobStep)
    /\ \A u \in Users : WF_vars(\E due \in SUBSET Users : u \in due /\ ReactivateUsers(due))

(***************************************************************************)
(* Properties                                                              *)
(***************************************************************************)

\* Nobody has two low reviews without the warning mail, however the requests
\* that post them overlap (handleLowRatingReviews: the lock on the user's row
\* makes the counts of concurrent reviews see each other's reviews)
SecondLowReviewWarns ==
    \A u \in Users : Cardinality(LowOf(u)) > LOW_RATINGS_COUNT_ONE => u \in warned

\* No active account has more low reviews than the limit: the third is refused
\* with the deactivation that fails (handleLowRatingReviews, createReview)
ActiveAccountWithinLimit ==
    \A u \in Users : user[u].active => Cardinality(LowOf(u)) <= LOW_RATINGS_COUNT_TWO

\* A rating is an average of reviews that were stored, never of one whose
\* request failed (createReview rolls the rating back with the review)
RatingOfStoredReviews ==
    \A u \in Users : user[u].rated \subseteq About(u, reviews \cup deleted)

\* When requests about a user come one at a time, and the email is changed with
\* a token of the row as it is, no review is missing from the rating, although
\* deleting one leaves the rating alone (updateUserRating, deleteReview, and the
\* whole-row saves of the administrator, the job and changeEmail)
RatingMissesNoReview ==
    \A u \in Apart : ~Busy(u) => About(u, reviews) \subseteq user[u].rated

\* Every request is answered, also one that waits for a row it has locked itself
EveryRequestAnswered ==
    \A w \in Workers : req[w].pc # "idle" ~> req[w].pc = "idle"

\* A deactivated account is reactivated some night, although a mail that cannot
\* be sent ends the job (reactivateUsers saves before it mails)
DeactivationEnds ==
    \A u \in Apart : ~user[u].active /\ user[u].window ~> user[u].active

\* What the warning mail announces: a further low rating restricts the account
\* (low-rating-warning.hbs, handleLowRatingReviews)
WarnedUserRestricted ==
    \A r \in Requests, u \in Users :
        req[r].pc = "deactivate" /\ u \in req[r].user ~> ~user[u].active
=============================================================================
