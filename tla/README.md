# A model of the Black Circle back end

The repository is the NestJS server of a clothing rental market ("CodeLions",
"Black Circle"): one Node process, MySQL through TypeORM, Stripe for the money,
socket.io for chat and notifications, and a mailer. Vendors publish products,
buyers put them in a cart, pay once for the whole cart, get one order per vendor,
and send the products back when the rental period is over.

The process is single-threaded but every `await` lets other handlers run, so the
unit of interleaving is the code between two awaits. Almost nothing runs in a
transaction. That is where the interesting behaviour of this code is, and what
the modules describe: a handler is a *worker* with a program counter, a private
copy of the entity it loaded, and one action per await.

## Inventory

| Component | State | Operations | Interacts with |
|---|---|---|---|
| Orders (`orders.service.ts`) | `order`, `buyer_order` rows | create from the cart, reject, send, receive, send back, return, pay and send, overdue job | Stripe, products, mailer, sockets |
| Stripe (`stripe.service.ts`) | payment intents, sessions (at Stripe), `application_fee` | order and overdue sessions, webhook, capture, cancel, transfer, onboarding | orders, cart, users |
| Cart (`cart.service.ts`) | `cart` rows | add, remove, empty, list | products, checkout |
| Products (`products.service.ts`) | `product` rows with `isAvailable`, images | create, edit, photos, approve, reject, delete | cart, wishlist, orders |
| Wishlist | `wishlist` rows | add, remove, list | products |
| Reviews (`reviews.service.ts`) | `review` rows, the user's rating | create, delete, low-rating warning and deactivation | users, mailer |
| Events and notifications | sockets, a Map of undelivered notifications, `notification` rows, online flags | connect, disconnect, message, notify | chat, users, every handler that notifies |
| Chat (`chat.service.ts`) | rooms, messages, unread marks | create, send, mark as read, count | events |
| Auth (`auth.service.ts`) | one-time codes and passwords in `user` rows, tokens at the clients | sign up, verify, reset, change e-mail, refresh | users, mailer |
| Users (`users.service.ts`) | profile, onboarding, order counter, activation | register, onboard, delete, reactivation job | all |
| Mailer, GeoNames, guards, interceptors, config | none | | |

What is hard in each:

* **Orders**: copies that are stale when saved; the check that settles the money
  runs in whichever vendor's handler comes last; a failed mail or an offline
  partner ends a handler half way; transactions that contain mails and Stripe
  transfers; a job that saves what it loaded earlier.
  Correct means: money is captured for the orders that were sent and for no
  others, each vendor is paid once, and products come back when an order ends.
* **Checkout**: five saves without a transaction, driven by an event that Stripe
  repeats until it is answered, against buyers with overlapping carts.
  Correct means: one order for one payment, of what was paid, of products nobody
  else has.
* **Reviews**: a handler that waits for a row lock of its own transaction, counts on
  another connection than it writes on, ratings that miss a review.
  Correct means: the warning comes before the limit, nobody active is beyond it,
  and a deactivation ends.
* **Events and chat**: an in-memory store, flags written after awaits, several
  sockets of one user, rooms joined only on connecting, chats looked for before
  they are created.
  Correct means: a connected partner hears a message, a notification is shown or
  kept, who is gone is offline.
* **Accounts**: codes stored after they are mailed, whole rows saved from copies,
  fields taken from old tokens.
  Correct means: a verified address was proved, a code works once, and what was
  written while nothing else ran stays.
* **Catalogue**: decisions in transactions against entities saved much later, photos
  counted before they are inserted, entries listed while the product is deleted.
  Correct means: one primary photo, decisions stand, deleted products stay away.

`PROJECT.json` lists these hazards line by line, with the properties that cover
them; one that no property covers has a note saying why.

## Plan

1. `OrderFulfilment`, `OrderLifecycle`: the orders after checkout *(done)*.
2. `Checkout`, `Rental`: from the cart to the orders *(done)*.
3. `Reviews`: rating, row locks, deactivation, the reactivation job *(done)*.
4. `Sockets`, `Notifications`, `Chat`, composed in `Messaging` *(done)*.
5. `Accounts`: codes, tokens, e-mail change, profile, deletion *(done)*.
6. `Catalogue`: decisions, photos, edits, carts and wishlists of one product *(done)*.

Left: duplicate cart entries (a bag instead of the set of `Checkout`); a restart of
the process in `Messaging`; more than one product in `Catalogue`.

Proved are the type invariant and every safety and action property of the passing
runs, and both refinements ("Proofs" below). What is left to TLC are the liveness
properties, which are out of the prover's reach. No module declares a RECURSIVE
operator.

## Modules

### OrderFulfilment: one buyer order after checkout

| Model | Code |
|---|---|
| `row[o]` (status, tracking, received) | the columns of `Order` the handlers change |
| `available` | `product.isAvailable` |
| `intent`, `captured`, `transfers` | the payment intent at Stripe, the orders whose price was captured, the transfers made |
| `rejectMail`, `sessions`, `events` | rejection mails out, payable overdue pages, paid events not reported yet |
| `req[w]` | a handler in flight: stage `pc`, its copy `entity`, the columns its UPDATE will write, products still to free |
| `batch` | what the overdue job has loaded and not visited |
| `history`, `calls` | ghosts: statuses each order has had, calls made |

A handler starts by a call (`RejectOrder`, `SendOrderByVendor`,
`ReceiveOrderByBuyer`, `SendOrderByBuyer`, `ReturnOrder`, `PaySendOrder`), by
Stripe (`OverdueWebhook`) or by the job (`MarkOverdue`) and walks its stages:
outside a transaction `save` first reads the row again (`CompareWithRow`) and then
writes the columns in which the copy differs (`UpdateRow`); in a transaction the
UPDATE takes the row lock (`UpdateInTx`) and shows at `Commit`; then products,
session, mail, notifications, the check of all orders, the capture or
cancellation, the transfer. `Faults` says what may go wrong: a mail, an offline
party (`client.userId` of null throws), Stripe, a missing fee record, a lock wait
timeout, a repeated event, a crash.

Abstractions: an amount is the set of orders it is for; whether the rental period
of an order is over is left open (`MarkOverdue` or `SkipOrder`); the two parties'
notifications are one stage; `paySendOrder` ignores whether its mail was sent, and
so does the model; one instance of the job runs at a time. Nothing in
this module makes products unavailable, so freeing one is one step; `Checkout` has
its two halves. The handlers look at no status: which calls clients make, and
whether they wait for answers, are the constants `Calls` and `OneAtATime`.

### OrderLifecycle: what clients of the workflow may rely on

The status graph and "the money is settled in one step, for all orders that were
not rejected, once none is new". `OrderFulfilment` implements it (property
`ImplementsLifecycle`, refinement mapping in `Lifecycle`). The three moves that
make an order overdue although it was sent back or returned are the stale saves
of `handleOverdueOrders`; they are stated there so that nothing else is allowed.

### Checkout: from the cart to the orders

| Model | Code |
|---|---|
| `available`, `deleted`, `cart` | `product.isAvailable`, `product.deletedAt`, the `cart` table |
| `payment`, `paidFor`, `delivered` | the checkout session of a buyer, its products, deliveries of its event |
| `placed`, `ordered`, `closed` | buyer orders saved, their orders, those rejected or returned |
| `work[h]` | a handler in flight |

The webhook is `DeliverEvent`, `ReadCart`, `CheckProducts`, then for each product
`TakeProduct`, `CompareProduct`, `WriteProduct`, `UncartProduct`, then
`SaveOrders`, `EmptyCart`. `HandlerFails` ends it at any await; the session stays
"paid" and is delivered again. The two loops over the products are kept; the first
is one step because a product is only ever deleted, so its answers are those of
one moment. `RejectOrder` and `ReturnOrder` are the parts of those handlers that
write products; `UpdateProduct` stands for `updateProduct` and `uploadPdfFile`,
which save a whole copy; `DeleteProduct` for both deletions, one transaction each.

Abstractions: each buyer makes one payment; each product has its own vendor, so
an order has one product; `checkUserEligibility` only refuses and is left out;
the cart is a set, with one request to add a given product at a time. `getCart` is
left out: it means to remove the entries of deleted products, but looks for them by the
entry's id where the product's is expected (`cart.service.ts:212`), removes nothing and
fails.

What the server leaves to others is a constant each, assumed by a run or a theorem
that says so: `Apart`, operations that do not overlap (`WebhooksApart`); `Calm`,
buyers who leave the cart alone from the checkout on and nobody calling a handler for
an order another one works on; `EndedOnce`, nobody rejecting or returning an order
that has been rejected or returned, for `rejectOrder` and `returnOrder` look at no
status; `OneDelivery`, Stripe waiting for the answer before it delivers an event
again, for `webhookHandler` keeps no record of deliveries. Where they are FALSE, or
`Apart` is empty, the module does what the code does.

### Rental: what checkout promises to buyers and vendors

A buyer is asked once for money for some products (`Ask`); what the buyer gets,
all of it in one step and once, is among them and with nobody else (`Rent`); and
it comes back one product after the other (`GiveBack`). `Checkout` implements it
(property `ImplementsRental`, refinement mapping in `Rented`): `asked` are the
products of the session, `served` the buyers with a saved buyer order, `rented` the
products of the open orders, those not closed and not being returned. The steps of
the webhook before `SaveOrders`, its failures and repetitions are stutters. As the
code looks at neither, nothing in `Rental` says that a buyer gets everything the
money was for: a product may have been deleted, or taken by another buyer.

### Reviews: ratings and deactivated accounts

| Model | Code |
|---|---|
| `reviews`, `user[u]` | the `review` table; `rating`, `isAccountActive`, and the two timestamps of the user's row |
| `token[u]` | the user's row as the payload of a token carries it |
| `warned` | users mailed `low-rating-warning.hbs` |
| `req[w]` | a handler in flight: the snapshot of its transaction (`seen`), its copy of the row, the columns it will write |
| `batch` | what `reactivateUsers` has loaded and not visited |
| `deleted`, `calls` | ghosts: reviews deleted by an administrator, calls made |

`createReview` is one transaction: `FindUsersAndOrder` takes its snapshot,
`UpdateUserRating` waits for the user's row and locks it, `HandleLowRatingReviews`
counts on another connection what has been committed, `SendWarning` or
`SaveDeactivatedUser` follow, then `CommitReview`. `SaveDeactivatedUser` saves on
another connection and meets the lock of its own transaction; MySQL's lock wait
timeout is the only way out. A review table without foreign keys takes no lock on
the user's row before the UPDATE, so two transactions cannot wait for each other.
The administrator's `UpdateUserProfileByAdmin` and the job save whole copies
(`CompareWithRow`, `UpdateRow`), and so does `ChangeEmail`: it saves the payload of
the token, with the rating and the activation of the time it was signed
(`RefreshToken`), so an older token takes them back without any overlap.

Abstractions: a rating is the set of reviews whose average it is; a date of
reactivation is past or not (`ReactivateUsers` takes any due set). `Apart` are users
about whom one request at a time is under way, and who change the email with a token
of the row as it is. `Posted` are reviews that may be stored before the first step.
Only the columns above are looked at; the others of a token are
in `Accounts`.

### Sockets, Notifications, Chat and Messaging

| Model | Code |
|---|---|
| `open`, `ownRoom`, `chatRooms` | `server.sockets.sockets`, the rooms each socket has joined |
| `saved`, `store`, `shown` | the notification table, `notificationsStore`, what was emitted to an open socket |
| `room`, `message`, `reads` | chat rooms with their participants, messages, `MessageRead` rows |
| `heard`, `announced` | what each open socket was emitted; messages whose `newMessage` is out |
| `online`, `connecting`, `leaving` | `user.isOnline`, the stages of `handleConnection`, of `handleDisconnect` |

`Sockets` is what the others share, `Chat` and `Notifications` are the two services
with the events of the gateway that call them, and `Messaging` composes them with
the connections. `handleConnection` is `Connect`, `GetUserChats`, `JoinUserRooms`,
`SetUserOnline`, `ShowStored`; the other handlers have one action per await that
matters. `NotifyFromService` stands for every service that asks for a socket of a
user and calls `handleCreateNotification`; without one the client is null and the
handler throws after the notification was stored and passed on.

What the code does and the properties step around: the service checks no membership,
so any user can write into a chat and mark its messages as read, which the other
participant's unread count and the choice of who is notified do not reckon with
(`UnreadCountExact` and `PartnerHears` speak of messages and marks of the chat's own
users); a chat created by two requests
at once is created twice (`Careful` pairs have one such request at a time); what is
flushed into a socket that has just closed is lost (`Patient` users close theirs
when `handleConnection` is done); a restart empties the Map; a second tab that closes
shows a connected user as offline; a notification is emitted twice to a connected
user, and once to one who has disabled notifications; `generateNotification`
without an order id takes any order and fails when there is none.

### Accounts: the account of one person

| Model | Code |
|---|---|
| `row` | the `user` row: address, verified, code, role, Google account, and `done`, what updates have left in the other columns |
| `token` | the payload of the client's token, a copy of the public columns |
| `mailedTo` | where each code was mailed |
| `proved`, `profiled`, `kept`, `spent`, `fresh` | ghosts: addresses proved or taken from the profile, updates and codes of quiet moments, whether the token is newer than the row |
| `req[r]` | a handler in flight with its copy of the row or of the token |

The calls are the routes of `auth.controller.ts` and `users.controller.ts` that
change something, `create-account` and Stripe's `account.updated`; the steps are the
reads and writes of the services, between them the mails. `SaveUser`, `SaveRole` and
`SaveProfile` write the copy; `SaveOtp`, `ConfirmUser`, `UpdatePassword`, `SoftDelete`
write columns of their own; `UpdateUserEmail` saves the payload of the token.

Abstractions: the columns are five kinds (`Marks`) told apart by which save can
lose them, and a mark says that an update is still there; the comparison and the
write of a `save` are one step; a code that has expired is refused, at any time.
`Careful`: the client changes the address by itself and with a fresh token. Without
it the copy in the token takes the row back. A mail of `changeEmail` that fails
leaves the code that was stored before it; a crash at that point would too. An
address that comes in through `update-profile` is not asked for a code and stays
verified: `VerifiedAddress` names it, and an address that comes back with it, when a
handler that read the row before `update-profile` saves its copy after it.

### Catalogue: one product, its photos, and the lists that hold it

| Model | Code |
|---|---|
| `product` | the row: live, deleted (`deletedAt`) or gone, and its status |
| `images`, `primary` | rows of `images`, those with `isPrimary` |
| `entries` | rows of `cart` and `wishlist`, by buyer |
| `lockedBy` | the transaction that has written the product's row |
| `settled`, `muddled` | ghosts: the last decision taken while nothing else ran; photo handlers have overlapped, failed half-way or met the removal of the row |

Decisions and deletions are `FindProduct`, `WriteProduct` (the row is locked),
`SendMail`, and one of the three commits. Edits are `LoadProduct`, `CompareProduct`,
`StoreProduct`: a column that differs from the row is written, `status` and
`deletedAt` too, and a row that is gone is inserted again. Photos have one action per
statement. The "files" fault is the file server refusing, or the query for another
photo failing.

What the code does and the properties step around: an approval and a rejection can
both succeed, the last wins and both mails are out; a product that was removed
meanwhile is approved all the same; an edit that overlaps a decision or a deletion
undoes it; an addition to a list that overlaps a deletion leaves an entry, on which
`getWishlist` fails; overlapping photo handlers leave two primary photos or none; an
edit of the product that overlaps the deletion of its primary photo leaves none, for
the replacement is looked for by all columns of the copy of the product that was
loaded with the photo (`DeleteFile`).
`updateProduct` does not wait for its save, so its failure is nobody's answer.

Abstractions: one product and its vendor; a list is a set, so duplicate entries
are one; uploading the file itself comes before; which photo replaces a primary one
is left open.

## Runs

| Run | Question | Instance | Result |
|---|---|---|---|
| `order_any_call` | any call at any time, crashes, every kind of fault | 2 orders, 1 product, 2 handlers and the job, 3 calls | passes, 2.6 million states |
| `order_workflow` | clients that follow the screens and wait, every fault but crashes | 2 orders, 2 products, 2 handlers, 7 calls | passes, 480 thousand states |
| `order_vendors` | liveness of the settlement, vendors calling at any time, no faults | 2 orders, 3 calls | passes, 15 thousand states |
| `order_reject_race` | reject and send overlap | 2 orders, 3 calls | `RejectedOrderNotCharged` violated |
| `checkout_rivals` | rivals for two products; failing, repeated webhooks; the refinement of `Rental` | 2 buyers, 2 products, 2 handlers, 2 deliveries each | passes, 1.8 million states |
| `checkout_paid` | liveness, all handlers overlapping, orders ended again, no failures | 1 buyer, 2 products, 3 handlers, 2 deliveries | passes, 744 thousand states |
| `checkout_stale_edit` | a vendor edits while a buyer pays | 1 buyer, 1 product | `RentedNotAvailable` violated |
| `reviews_run` | overlapping reviews, suspensions, old tokens, the job with two users in a batch; mails, lock waits and crashes; liveness | 2 deactivated users, 4 low reviews, one of them perhaps stored already, 2 handlers and the job, 2 calls | passes, 219 thousand states |
| `reviews_warned` | a warned user gets a further low review, nothing overlaps or fails | 1 user, 3 reviews, 1 handler | `WarnedUserRestricted` violated |
| `messaging_run` | sockets come and go in the middle of chats and notifications | 3 users, 2 sockets of one, 2 chats, 1 message, 2 notifications, 2 handlers, 3 calls | passes, 261 thousand states |
| `accounts_run` | any requests about one account, mails may fail | 3 addresses, one of them taken, 2 handlers, 3 calls | passes, 497 thousand states |
| `catalogue_run` | decisions, edits, photos, lists of one product | 3 photos, 1 buyer, 2 handlers, 5 calls | passes, 142 thousand states |

Why the bounds are enough: every race of this code is between two handlers (and
the job, which has a worker of its own); a third would repeat one of them. Two
orders are the smallest buyer order in which one vendor can be last. Seven calls
walk one order through its whole life with a retry while the other is answered.
Two deliveries are a failure and its retry, or an answer and its repetition, or the
two that overlap. Two products are the smallest cart of which half can be taken when a
webhook fails. `order_any_call` leaves out "mail" and "fee" because they end a
handler where "offline" and "stripe" end it too.

Reviews: the limit is two low reviews. A low review of `u2` may be stored already
(`Posted`), so of two more, which may overlap, one meets the limit; without it two
overlapping ones are the first and the second. A call can also be a change of the
email, a deletion or a suspension after a review. Both users start deactivated, so the
job can load them together and a mail can fail with one still to visit; `u1` is
handled one request at a time.

Messaging: two sockets are a reconnect or a second tab, the third user is the one who
is in a chat without the owner of the sockets, or not in it, two chats are needed to
tell that there is one too many, three calls are a chat, its message and a reading, or
two connections and a notification. Accounts: three calls are a registration, its code
and an edit, or a change of address between two others; every call has the code of its
own number. Catalogue: five calls are an
upload, a second photo, a change of the primary one, its deletion and a decision.

`CHECK_DEADLOCK FALSE` everywhere: people may stop acting.

### What the checks show

* Whatever is called when, and whatever fails, the money is settled for orders
  that had been sent, and only received orders become overdue.
* For clients of the workflow the interleaved handlers are the plain lifecycle,
  a vendor is paid at most once although a receipt may fail and be repeated, and
  a finished order gives its products back.
* A send that overlaps a rejection overwrites it, and the buyer who was mailed that
  the amount will be returned is charged (`order_reject_race`, a finding).
* One payment makes one order of what it paid for, however the webhook fails and
  repeats, if the buyer leaves the cart alone meanwhile (`Calm`) and the deliveries do
  not overlap (`OneDelivery`). Two that overlap both read the full cart, and each
  saves a buyer order.
* Under the assumptions of the next point the product-by-product, failing and
  repeated webhook is one visible step (`ImplementsRental`).
* No product is rented twice, and none that is rented is on offer, if webhooks run
  one at a time (`WebhooksApart`), neither an addition to a cart nor an edit is under
  way meanwhile, and orders are ended once (`EndedOnce`). Without the first two
  assumptions two webhooks can both read a cart that holds the product, and an entry
  can be inserted after the product was taken.
* An order that is rejected or returned again offers the product that another buyer
  has rented meanwhile, with no overlap at all, and it can then be rented twice:
  neither handler looks at the status of the order. With `EndedOnce = FALSE`,
  `RentedNotAvailable` does not hold.
* If nothing fails and no buyer is after the same products, all that was paid is
  ordered and no product is lost to the catalogue, also with overlapping deliveries
  and orders that are ended again.
* An edit that overlaps a webhook makes the rented product available again
  (`checkout_stale_edit`, a finding).
* Not settled at all: if a buyer receives an order before another vendor has
  answered, no later check sees all orders sent or rejected.
  `MoneySettledEventually` therefore speaks of the moment when they are.
* With crashes a vendor can be paid for a receipt that is not committed; with a
  `returnOrder` that fails between its saves a product is available while its order
  is open. `TransferMeansReceived` and `RentedNotAvailable` are stated without
  these two faults.

* The lock on the user's row makes overlapping low reviews see each other: the
  warning comes with the second, and no active account has more than two. That is
  because the third is refused: its save waits for the lock of its own transaction,
  so the deactivation the warning announces never happens (`reviews_warned`, a
  finding).
* A rating is never of a review that was rolled back, whatever token the email is
  changed with; when requests about a user do not overlap and the token is of the row
  as it is, the rating misses none, although deletions leave it alone. With an overlap
  the later transaction reads the absence of the other's review; with an older token
  the rating is again what it was when the token was signed.
* The job saves before it mails, so a mail that fails costs the other users a night
  and nobody the reactivation.
* Every socket that has joined its user's room hears each message of the partner,
  though nobody joins the room of a new chat; of what the two users of a chat write
  and read the unread counts are exact whatever overlaps, also what others write;
  notifications of patient users are shown or kept, and shown once the user stays.
* A verified address was proved or came in through the profile; a code spent in a
  quiet moment is not accepted again although older copies of the row are saved;
  updates of quiet moments are not undone by later ones.
* Decisions and deletions that nothing overlapped stand against all later races. A
  product has one primary photo until two photo handlers overlap or a deletion
  fails half-way, and again after the next `setPrimaryPhoto` that runs alone.

### Fairness

Every `FairSpec` has weak fairness of each handler in flight, those of connections
included: the event loop runs every continuation and MySQL grants a lock that is
free. No fairness of clients is assumed. `Checkout` adds strong fairness of the
delivery of the event of a paid session: Stripe repeats it until it is answered, and
every time it waits for a handler to be free (or, with `OneDelivery`, for an answer)
the handlers end.
`Reviews` adds that the job runs every night and that every date of reactivation is
past some night, which the `@Cron` line and the comparison with the current date
say. `Accounts` and `Catalogue` have only safety properties.

## Proofs

All proofs are checked by TLAPS from `ConstantsAssumption` of each module, for
any sets of orders, products, buyers, users, addresses, photos and handlers and any
number of calls. A theorem that needs more names it as its hypothesis, and the run
that checks the same property has constants that satisfy it. Seven modules hold
theorems; the theorem that states a property is named after it.

### OrderFulfilment_proofs: any call at any time

* `TypeCorrect`: `TypeOK`.
* `SettlementCorrect`: what is captured was sent, what is not was rejected, for
  all calls and faults. Inductive invariant: the plan of a handler about to settle
  is already justified by `history`, which only grows.
* `OverdueCorrect`: an overdue order was received. The invariant follows every
  copy: a copy that says "Overdue" or "Received", and each row the job has loaded,
  belongs to an order that was received.
* `TransferCorrect` (no crash): a transfer is followed by its commit; nothing in
  between can fail.

### OrderWorkflow_proofs: clients that follow the workflow

Hypothesis `Orderly`: one request about an order at a time, only calls the screens
offer for its status, no crash and no repeated event. The job is not held to it and
saves copies of rows that have changed. One invariant, `FlowInv`, carries all five
theorems (`VendorPaidOnce`, `RejectedOrderNotCharged`, `TrackingMatchesParcel`,
`FinishedOrderFreesProducts` and the refinement `LifecycleCorrect`):

* `JobsFit`, `OneHandler`: what each operation has found and changed at each of its
  stages; `CopiesFit`: how far the row may be ahead of a copy the job has loaded: the
  order was received, so it has also been sent back, returned or made overdue, and
  nothing else.
* `ColumnsFit`, `SessionsWait`, `TransfersFit`, `ChargesFit`: the tracking number
  and the receipt of a row, payable sessions, transfers and captures by status.
* `PlansFit`: between the check that finds all orders answered and the capture the
  set of rejected orders does not change. Without it "the rejected order is not
  charged" is not inductive, nor is the settlement one step of `OrderLifecycle`.

`LifecycleCorrect` then has one lemma for each way to be visible: a save is `Move`
(`SaveIsMove`), the capture is `SettleMoney` (`SettleIsSettleMoney`); every other
step leaves what the mapping shows.

### Checkout_proofs

* `TypeCorrect`: `TypeOK`.
* `PaidForCorrect` (`Calm`): what is ordered was paid for. The invariant `PaidInv`:
  from the checkout on the cart is within the session, no entry is being inserted
  for that buyer, and a webhook picked nothing else. No run checks it by itself: where
  webhooks are kept apart it is part of `ImplementsRental`.
* `OneOrderCorrect` (`Calm`, and `DeliveriesApart`: deliveries of one event do not
  overlap, because of `OneDelivery` or because webhooks are kept apart): one buyer
  order for a payment. The invariant `PlacedInv`: while a webhook works, what is left
  in the cart is what it has still to take, so the cart is empty when the order is
  saved, and a later delivery finds it empty and fails.
* `RentedOnceCorrect`, `RentedNotAvailableCorrect` (`Guarded`: calm clients, orders
  that are ended once, returns that do not break off, no webhook that overlaps a
  webhook, an addition to a cart or an edit). The invariant `HeldInv` counts claims: an open order has a claim on its
  product, and so has the handler that frees the product of an order it ends. A
  product has one claim at a time; while it has one it is in no cart, not available
  and in no copy that would change that; a webhook has picked only products without
  a claim, and withdraws one after the other. `checkout_stale_edit` shows that the
  hypothesis about edits is needed.
* `WithheldCorrect` (`Unbroken`: calm clients, no edits or deletions, no failing
  webhook or rejection; everything may overlap). Each product that is not available
  has a witness (`Witness`): an order nobody is freeing it from, a webhook that
  picked it or a rejection about to free it.
* `RentalCorrect` (`Guarded`): the refinement of `Rental`. On top of the above
  (`RentalInv`): a buyer who was not at the checkout was asked for nothing, a webhook
  that goes on has picked something, and the orders it saves have a number none had,
  so no handler knows them and none of them is closed.

### Reviews_proofs

* `WarningCorrect`, `LimitCorrect`: the warning comes with the second low review and
  no active account has three. `LimitInv`: one transaction at a time holds the lock
  of a user's row (`OneHolder`), and the count a handler has read is still right
  when it commits (`CountsHold`), although it was read on another connection,
  because whoever commits another review of that user holds the lock too.
* `RatingCorrect`: a rating is of stored reviews. `StoredInv` adds the snapshots of
  the transactions, the copies of rows in the handlers and the job, and the tokens,
  however old.
* `RatingComplete`: for users of `Apart` a rating misses no review, with what the
  only handler has seen and written (`Alone`, `Complete`); the payload that
  `ChangeEmail` saves is the row, which nobody else writes meanwhile.

### Messaging_proofs

* `UnreadCountCorrect` (`ChatInv`: a stored message has one sender and is never marked
  read by the sender; each handler works on the chat and on the foreign messages it
  has found). If sender and readers are of the chat, the only one who can have read a
  message is the partner, which is what the query takes for granted.
* `OfflineCorrect` (`PresenceInv`: who is online has an open socket, or one whose
  `handleDisconnect` is still to come).
* `PartnerHearsCorrect`, an action property: the step that announces a message
  reaches every socket of the partner that has joined the room of its user, for a
  participant who is not the sender is the one the service picks.
* `NotificationCorrect` (`NotesInv`), `OneChatCorrect` for `Careful` pairs
  (`LoneInv`: a handler about to save a chat is the only one for the pair, and the
  pair has none), `TypeCorrect`.

### Accounts_proofs

The invariants speak of `Copies`: the row and the copies of it that handlers may
still save. `SpentCodeCorrect` (`SpentInv`: no copy holds a spent code),
`UpdatesCorrect` (`KeptInv`: every copy has what is to be kept; `Careful`),
`AddressCorrect` (`AddressInv`: the copies agree on the address but for
`update-profile`, and each code was mailed to the address it will verify, unless
the address is being changed; `Careful`), `TypeCorrect`.

### Catalogue_proofs

`DecisionCorrect` and `DeletionCorrect` from one invariant (`SettledInv`: no handler
in flight holds a copy that says otherwise, and none that could is about to write);
`PhotoCorrect` from `PhotoInv`, which says of a photo handler that runs alone what it
has counted and what is still to be written, and of a product at rest that it has one
primary photo or none and no photos; `TypeCorrect`.

### What the proofs found out about the model

* `VerifiedAddress` was true of three calls and false of five: a handler that had
  read the row before `update-profile` brought the address before it back, verified.
  The ghost `profiled` now holds such addresses (`Remembered`), and the hazard is
  listed.
* `OnePrimaryPhoto` was true with two handlers and false with three: the removal of
  the product between two photo handlers. `muddled` is now set then, and the hazard
  is listed.
* Guards of `CASE` expressions in `Reviews` and `Catalogue` overlapped without a
  consequence; they are disjoint now. `Careful` of `Chat` had to be said to consist
  of pairs.

Only model-checked are the liveness properties (`EveryRequestAnswered`,
`MoneySettledEventually`, `PaidIsOrderedEventually`, `DeactivationEnds`,
`KeptIsShown`): they rest on fairness
and ENABLED, which the prover does not handle.

## Not modelled

GeoNames (queries of an external service), the interceptors that store files,
filters, decorators, configuration, seeds and migrations: they keep no state the
properties speak of. `FollowService` inserts and deletes rows of a join table that
nothing else reads. The listing queries of every service change nothing, except
those of the wishlist, which are in `Catalogue`. Stripe's account and login links, and
the setting of the application fee, are calls without a second step. The guards other
than `JwtAuthGuard` and `RolesGuard` compare ids of the request.
