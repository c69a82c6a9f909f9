----------------------------- MODULE Catalogue -----------------------------
(***************************************************************************)
(* One product in the catalogue: its status, its photos and the carts and  *)
(* wishlists that hold it (src/src/modules/products/products.service.ts,   *)
(* src/src/modules/wishlist/wishlist.service.ts, cart.service.ts).  An     *)
(* administrator publishes, rejects or deletes it in transactions that     *)
(* send a mail before they commit; its vendor edits it with entities that  *)
(* were read some time before they are saved; buyers list it meanwhile.    *)
(***************************************************************************)
EXTENDS Naturals, FiniteSets

CONSTANTS
    Images,     \* photos that may be uploaded, none of them twice
    Users,      \* buyers
    Requests,   \* handlers that may be in flight
    Faults,     \* subset of {"mail", "files"}: what may fail
    MaxCalls    \* bound on the number of requests

ASSUME CatalogueAssumption ==
    /\ Faults \subseteq {"mail", "files"}
    /\ MaxCalls \in Nat

VARIABLES
    product,    \* the row as committed
    images,     \* rows of images
    primary,    \* those with isPrimary
    entries,    \* rows of cart and wishlist
    used,       \* images uploaded so far
    lockedBy,   \* the transaction that holds the lock of the product's row
    settled,    \* the last decision that was taken while no other handler ran
    muddled,    \* photo handlers have overlapped, failed half-way, or lost the product
    calls,      \* requests so far
    req         \* req[r]: the handler in flight in r

vars == <<product, images, primary, entries, used, lockedBy, settled, muddled, calls, req>>

Status == {"inactive", "published", "rejected"}

\* deleted: deletedAt is set; gone: the row has been removed
Product == [row: {"none", "live", "deleted", "gone"}, status: Status]

Lists == {"cart", "wishlist"}

Stages == {"idle", "load", "write", "mail", "commit", "compare", "store", "insert",
           "remove", "file", "replace", "demote", "promote", "list", "drop"}

Kinds == {"none", "approve", "reject", "ban", "delete", "edit", "upload", "create",
          "unphoto", "primary", "add", "view"}

PhotoKinds == {"upload", "create", "unphoto", "primary"}

\* entity: the product as the handler read it; diff: what its save will write;
\* alone: no other photo handler has run at the same time
Request == [pc: Stages, kind: Kinds, entity: Product,
            diff: SUBSET {"status", "deletedAt", "row"}, photo: SUBSET Images,
            isPrimary: BOOLEAN, entry: SUBSET (Lists \X Users), alone: BOOLEAN]

NoProduct == [row |-> "none", status |-> "inactive"]

Idle == [pc |-> "idle", kind |-> "none", entity |-> NoProduct, diff |-> {}, photo |-> {},
         isPrimary |-> FALSE, entry |-> {}, alone |-> TRUE]

TypeOK ==
    /\ product \in Product
    /\ images \subseteq used /\ primary \subseteq images /\ used \subseteq Images
    /\ entries \subseteq Lists \X Users
    /\ lockedBy \subseteq Requests /\ Cardinality(lockedBy) <= 1
    /\ settled \in {"none", "published", "rejected", "deleted"}
    /\ muddled \in BOOLEAN
    /\ calls \in 0..MaxCalls
    /\ req \in [Requests -> Request]

\* There is no product yet, or one with a photo
Init ==
    /\ \/ product = NoProduct /\ images = {}
       \/ \E status \in {"inactive", "published"}, i \in Images :
             product = [row |-> "live", status |-> status] /\ images = {i}
    /\ primary = images /\ used = images
    /\ entries = {}
    /\ lockedBy = {}
    /\ settled = "none" /\ muddled = FALSE
    /\ calls = 0
    /\ req = [r \in Requests |-> Idle]

(***************************************************************************)
(* Control of a handler                                                    *)
(***************************************************************************)

rows == <<product, images, primary, entries, used>>

ghosts == <<settled, muddled>>

Quiet(r) == \A q \in Requests \ {r} : req[q].pc = "idle"

Goto(r, stage) == req' = [req EXCEPT ![r].pc = stage]

Finish(r) == req' = [req EXCEPT ![r] = Idle]

Call(r) ==
    /\ req[r].pc = "idle"
    /\ calls < MaxCalls /\ calls' = calls + 1
    /\ UNCHANGED <<rows, lockedBy, settled>>

Start(r, kind, entry) ==
    /\ Call(r)
    /\ req' = [req EXCEPT ![r] = [Idle EXCEPT !.pc = "load", !.kind = kind, !.entry = entry]]
    /\ UNCHANGED muddled

\* Two photo handlers at a time see each other's half
StartPhoto(r, kind, photo) ==
    LET rivals == {q \in Requests : req[q].kind \in PhotoKinds}
    IN /\ Call(r)
       /\ req' = [q \in Requests |->
                     IF q = r THEN [Idle EXCEPT !.pc = "load", !.kind = kind, !.photo = photo,
                                                !.alone = (rivals = {})]
                     ELSE [req[q] EXCEPT !.alone = req[q].alone /\ q \notin rivals]]
       /\ muddled' = (muddled \/ rivals # {})

\* findOne leaves soft-deleted rows out
Found == product.row = "live"

Unlocked == lockedBy = {}

(***************************************************************************)
(* Decisions and deletions: transactions                                   *)
(***************************************************************************)

ApproveRequest(r) == Start(r, "approve", {})

RejectRequest(r) == Start(r, "reject", {})

DeleteProductByAdmin(r) == Start(r, "ban", {})

DeleteProduct(r) == Start(r, "delete", {})

\* A slip: any product may be rejected
SlipAnyStatus(kind) ==
    CASE kind = "approve" -> product.status = "inactive"
      [] kind = "reject"  -> TRUE
      [] kind = "ban"     -> product.status = "published"
      [] kind = "delete"  -> product.status # "rejected"

\* A vendor cannot delete a rejected product: no statement is sent for it
MayChange(kind) ==
    CASE kind \in {"approve", "reject"} -> product.status = "inactive"
      [] kind = "ban"                   -> product.status = "published"
      [] kind = "delete"                -> product.status # "rejected"

\* A missing product fails at its vendorId
FindProduct(r) ==
    /\ req[r].pc = "load" /\ req[r].kind \in {"approve", "reject", "ban", "delete"}
    /\ IF Found /\ MayChange(req[r].kind)
       THEN req' = [req EXCEPT ![r].pc = "write", ![r].entity = product]
       ELSE Finish(r)
    /\ UNCHANGED <<rows, lockedBy, ghosts, calls>>

\* The statement waits for the lock of the row; deleting a row that is gone
\* affects none and fails
WriteProduct(r) ==
    /\ req[r].pc = "write"
    /\ Unlocked
    /\ IF product.row = "gone" /\ req[r].kind \in {"ban", "delete"}
       THEN Finish(r) /\ UNCHANGED lockedBy
       ELSE /\ lockedBy' = {r}
            /\ Goto(r, IF req[r].kind = "delete" THEN "commit" ELSE "mail")
    /\ UNCHANGED <<rows, ghosts, calls>>

SendMail(r) ==
    /\ req[r].pc = "mail"
    /\ Goto(r, "commit")
    /\ UNCHANGED <<rows, lockedBy, ghosts, calls>>

\* The transaction is rolled back
MailFails(r) ==
    /\ "mail" \in Faults
    /\ req[r].pc = "mail"
    /\ lockedBy' = {}
    /\ Finish(r)
    /\ UNCHANGED <<rows, ghosts, calls>>

\* Quiet decisions count as settled
Settle(r, decision) == settled' = IF Quiet(r) THEN decision ELSE settled

\* The save wrote the status alone, whatever the row had become; a decision
\* about a product that has been deleted meanwhile settles nothing
CommitDecision(r) ==
    LET status == IF req[r].kind = "approve" THEN "published" ELSE "rejected"
    IN /\ req[r].pc = "commit" /\ req[r].kind \in {"approve", "reject"}
       /\ product' = IF product.row = "gone" THEN product ELSE [product EXCEPT !.status = status]
       /\ IF product.row = "live" THEN Settle(r, status) ELSE UNCHANGED settled
       /\ lockedBy' = {}
       /\ Finish(r)
       /\ UNCHANGED <<images, primary, entries, used, muddled, calls>>

\* A slip: wishlists keep the product
SlipKeepWishlists(r) ==
    /\ req[r].pc = "commit" /\ req[r].kind \in {"ban", "delete"}
    /\ req[r].entity.status = "published"
    /\ product' = [product EXCEPT !.row = "deleted"]
    /\ entries' = {e \in entries : e[1] = "wishlist"}
    /\ Settle(r, "deleted")
    /\ lockedBy' = {}
    /\ Finish(r)
    /\ UNCHANGED <<images, primary, used, muddled, calls>>

\* A product that was published when it was read is deleted softly, and leaves
\* the carts and wishlists
CommitSoftDelete(r) ==
    /\ req[r].pc = "commit" /\ req[r].kind \in {"ban", "delete"}
    /\ req[r].entity.status = "published"
    /\ product' = [product EXCEPT !.row = "deleted"]
    /\ entries' = {}
    /\ Settle(r, "deleted")
    /\ lockedBy' = {}
    /\ Finish(r)
    /\ UNCHANGED <<images, primary, used, muddled, calls>>

\* The row takes its photos and entries with it, also those that a photo handler
\* has read, and an edit may bring it back without them
CommitDelete(r) ==
    /\ req[r].pc = "commit" /\ req[r].kind = "delete"
    /\ req[r].entity.status = "inactive"
    /\ product' = [product EXCEPT !.row = "gone"]
    /\ images' = {} /\ primary' = {} /\ entries' = {}
    /\ Settle(r, "deleted")
    /\ muddled' = (muddled \/ \E q \in Requests : req[q].kind \in PhotoKinds)
    /\ lockedBy' = {}
    /\ Finish(r)
    /\ UNCHANGED <<used, calls>>

(***************************************************************************)
(* Edits: entities saved later than read                                   *)
(***************************************************************************)

\* PATCH /products/:id; its save goes on after the answer
UpdateProduct(r) == Start(r, "edit", {})

\* POST /products/:id/pdf-file
UploadPdfFile(r) == Start(r, "edit", {})

LoadProduct(r) ==
    /\ req[r].pc = "load" /\ req[r].kind = "edit"
    /\ IF Found THEN req' = [req EXCEPT ![r].pc = "compare", ![r].entity = product]
       ELSE Finish(r)
    /\ UNCHANGED <<rows, lockedBy, ghosts, calls>>

\* save reads the row as committed and keeps the columns that differ from the
\* entity, deletedAt included; without a row it will insert one
CompareProduct(r) ==
    LET entity == req[r].entity
    IN /\ req[r].pc = "compare"
       /\ req' = [req EXCEPT ![r].pc = "store",
                    ![r].diff = IF product.row = "gone" THEN {"row"}
                                ELSE {c \in {"status", "deletedAt"} :
                                        \/ c = "status" /\ product.status # entity.status
                                        \/ c = "deletedAt" /\ product.row = "deleted"}]
       /\ UNCHANGED <<rows, lockedBy, ghosts, calls>>

\* Inserting a row that is there again fails; updating one that is gone does nothing
StoreProduct(r) ==
    LET diff == req[r].diff
    IN /\ req[r].pc = "store"
       /\ Unlocked
       /\ product' = CASE diff = {"row"} /\ product.row = "gone" -> req[r].entity
                       [] (diff = {"row"}) # (product.row = "gone") -> product
                       [] OTHER ->
                            [row    |-> IF "deletedAt" \in diff THEN "live" ELSE product.row,
                             status |-> IF "status" \in diff THEN req[r].entity.status
                                        ELSE product.status]
       /\ Finish(r)
       /\ UNCHANGED <<images, primary, entries, used, lockedBy, ghosts, calls>>

(***************************************************************************)
(* Photos                                                                  *)
(***************************************************************************)

\* POST /products/:id/photo, the file has been stored; id = "new" makes a product
UploadPhoto(r, i) == i \notin used /\ StartPhoto(r, "upload", {i})

CreateProduct(r, i) == i \notin used /\ product.row = "none" /\ StartPhoto(r, "create", {i})

\* The first photo is to be the primary one
FindImages(r) ==
    /\ req[r].pc = "load" /\ req[r].kind = "upload"
    /\ IF Found THEN req' = [req EXCEPT ![r].pc = "insert", ![r].isPrimary = (images = {})]
       ELSE Finish(r)
    /\ UNCHANGED <<rows, lockedBy, ghosts, calls>>

CreateEmptyProduct(r) ==
    /\ req[r].pc = "load" /\ req[r].kind = "create"
    /\ IF product.row = "none"
       THEN /\ product' = [row |-> "live", status |-> "inactive"]
            /\ req' = [req EXCEPT ![r].pc = "insert", ![r].isPrimary = TRUE]
       ELSE Finish(r) /\ UNCHANGED product
    /\ UNCHANGED <<images, primary, entries, used, lockedBy, ghosts, calls>>

\* The image refers to the product, whose row must be there and not be locked
InsertImage(r) ==
    LET photo == req[r].photo \ used
    IN /\ req[r].pc = "insert"
       /\ Unlocked
       /\ IF product.row = "gone" THEN UNCHANGED <<images, primary, used>>
          ELSE /\ images' = images \cup photo
               /\ primary' = IF req[r].isPrimary THEN primary \cup photo ELSE primary
               /\ used' = used \cup photo
       /\ Finish(r)
       /\ UNCHANGED <<product, entries, lockedBy, ghosts, calls>>

\* DELETE /products/photo
DeleteProductPhoto(r, i) == i \in used /\ StartPhoto(r, "unphoto", {i})

\* PATCH /products/photo/set-primary
SetPrimaryPhoto(r, i) == i \in used /\ StartPhoto(r, "primary", {i})

\* The photo's product is not found when it is deleted
FindPhoto(r) ==
    /\ req[r].pc = "load" /\ req[r].kind \in {"unphoto", "primary"}
    /\ IF req[r].photo \subseteq images /\ Found
       THEN req' = [req EXCEPT ![r].pc = IF req[r].kind = "primary" THEN "demote" ELSE "remove",
                               ![r].isPrimary = req[r].photo \subseteq primary]
       ELSE Finish(r)
    /\ UNCHANGED <<rows, lockedBy, ghosts, calls>>

RemovePhoto(r) ==
    /\ req[r].pc = "remove"
    /\ images' = images \ req[r].photo /\ primary' = primary \ req[r].photo
    /\ Goto(r, "file")
    /\ UNCHANGED <<product, entries, used, lockedBy, ghosts, calls>>

\* When a primary photo's file is deleted, another photo takes its place.  It is looked
\* for by all columns of the product as it was loaded: none is found when an edit, a
\* decision or an order has changed the row since
DeleteFile(r) ==
    LET others == images \ primary
    IN /\ req[r].pc = "file"
       /\ \/ /\ req[r].isPrimary /\ UNCHANGED muddled
             /\ \E i \in others : req' = [req EXCEPT ![r].pc = "replace", ![r].photo = {i}]
          \/ /\ muddled' = (muddled \/ (req[r].isPrimary /\ others # {}))
             /\ Finish(r)
       /\ UNCHANGED <<rows, lockedBy, settled, calls>>

\* The file server refuses, or the query for another photo does: the handler
\* answers that it has failed, the photo is gone
DeleteFileFails(r) ==
    /\ "files" \in Faults
    /\ req[r].pc = "file"
    /\ muddled' = (muddled \/ req[r].isPrimary)
    /\ Finish(r)
    /\ UNCHANGED <<rows, lockedBy, settled, calls>>

\* A slip: the flag outlives the row of a photo that was removed meanwhile
SlipFlagWithoutRow(r) ==
    images' = images /\ primary' = primary \cup req[r].photo

\* A photo that has been removed meanwhile is inserted anew, unless its product is
\* gone; when it is removed after save has read the row again, nothing happens
SavePrimary(r) ==
    \/ /\ req[r].photo \subseteq images \/ product.row # "gone"
       /\ images' = images \cup req[r].photo /\ primary' = primary \cup req[r].photo
    \/ ~(req[r].photo \subseteq images) /\ UNCHANGED <<images, primary>>

\* This photo was read without its product: a removed one comes back as nobody's
ReplacePrimary(r) ==
    /\ req[r].pc = "replace"
    /\ primary' = primary \cup (req[r].photo \cap images)
    /\ Finish(r)
    /\ UNCHANGED <<product, images, entries, used, lockedBy, ghosts, calls>>

\* A slip: the other photos stay primary
SlipNoDemotion(r) ==
    /\ req[r].pc = "demote"
    /\ Goto(r, "promote")
    /\ UNCHANGED <<rows, lockedBy, ghosts, calls>>

DemoteOthers(r) ==
    /\ req[r].pc = "demote"
    /\ primary' = {}
    /\ Goto(r, "promote")
    /\ UNCHANGED <<product, images, entries, used, lockedBy, ghosts, calls>>

\* Run by itself it leaves one primary photo, whatever there was before
PromotePhoto(r) ==
    /\ req[r].pc = "promote"
    /\ SavePrimary(r)
    /\ muddled' = (muddled /\ ~req[r].alone)
    /\ Finish(r)
    /\ UNCHANGED <<product, entries, used, lockedBy, settled, calls>>

(***************************************************************************)
(* Carts and wishlists                                                     *)
(***************************************************************************)

AddToWishlist(r, u) == Start(r, "add", {<<"wishlist", u>>})

AddToCart(r, u) == Start(r, "add", {<<"cart", u>>})

\* The product must be published and not be listed; the buyer may be refused
FindListed(r) ==
    /\ req[r].pc = "load" /\ req[r].kind = "add"
    /\ \/ /\ Found /\ product.status = "published"
          /\ req[r].entry \cap entries = {}
          /\ Goto(r, "list")
       \/ Finish(r)
    /\ UNCHANGED <<rows, lockedBy, ghosts, calls>>

\* The entry refers to the product's row
InsertEntry(r) ==
    /\ req[r].pc = "list"
    /\ Unlocked
    /\ entries' = IF product.row = "gone" THEN entries ELSE entries \cup req[r].entry
    /\ Finish(r)
    /\ UNCHANGED <<product, images, primary, used, lockedBy, ghosts, calls>>

\* DELETE /wishlist/:id
RemoveFromWishlist(u) ==
    /\ <<"wishlist", u>> \in entries
    /\ entries' = entries \ {<<"wishlist", u>>}
    /\ UNCHANGED <<product, images, primary, used, lockedBy, ghosts, calls, req>>

\* DELETE /cart/:id
RemoveFromCart(u) ==
    /\ <<"cart", u>> \in entries
    /\ entries' = entries \ {<<"cart", u>>}
    /\ UNCHANGED <<product, images, primary, used, lockedBy, ghosts, calls, req>>

\* GET /wishlist/:id
GetWishlist(r, u) == <<"wishlist", u>> \in entries /\ Start(r, "view", {<<"wishlist", u>>})

\* A product that is not reviewed yet leaves the list; with a deleted one the
\* list cannot be shown
FindWished(r) ==
    /\ req[r].pc = "load" /\ req[r].kind = "view"
    /\ IF Found /\ product.status = "inactive" THEN Goto(r, "drop") ELSE Finish(r)
    /\ UNCHANGED <<rows, lockedBy, ghosts, calls>>

DropEntry(r) ==
    /\ req[r].pc = "drop"
    /\ entries' = entries \ req[r].entry
    /\ Finish(r)
    /\ UNCHANGED <<product, images, primary, used, lockedBy, ghosts, calls>>

(***************************************************************************)
(* Specification                                                           *)
(***************************************************************************)

AdminCall(r) == ApproveRequest(r) \/ RejectRequest(r) \/ DeleteProductByAdmin(r)

VendorCall(r) ==
    \/ UpdateProduct(r) \/ UploadPdfFile(r) \/ DeleteProduct(r)
    \/ \E i \in Images : \/ UploadPhoto(r, i) \/ CreateProduct(r, i)
                         \/ DeleteProductPhoto(r, i) \/ SetPrimaryPhoto(r, i)

BuyerCall(r) == \E u \in Users : AddToWishlist(r, u) \/ AddToCart(r, u) \/ GetWishlist(r, u)

ServerStep(r) ==
    \/ FindProduct(r) \/ WriteProduct(r) \/ SendMail(r) \/ MailFails(r)
    \/ CommitDecision(r) \/ CommitSoftDelete(r) \/ CommitDelete(r)
    \/ LoadProduct(r) \/ CompareProduct(r) \/ StoreProduct(r)
    \/ FindImages(r) \/ CreateEmptyProduct(r) \/ InsertImage(r)
    \/ FindPhoto(r) \/ RemovePhoto(r) \/ DeleteFile(r) \/ DeleteFileFails(r)
    \/ ReplacePrimary(r) \/ DemoteOthers(r) \/ PromotePhoto(r)
    \/ FindListed(r) \/ InsertEntry(r) \/ FindWished(r) \/ DropEntry(r)

Next ==
    \/ \E r \in Requests : AdminCall(r) \/ VendorCall(r) \/ BuyerCall(r) \/ ServerStep(r)
    \/ \E u \in Users : RemoveFromWishlist(u) \/ RemoveFromCart(u)

Spec == Init /\ [][Next]_vars

(***************************************************************************)
(* Properties                                                              *)
(***************************************************************************)

\* When no photo is being uploaded, deleted or made primary, a product with
\* photos has exactly one primary photo, unless two of these handlers have
\* overlapped, or one with the product's removal, or the deletion of a primary
\* photo has failed half-way or missed the others as the product had changed, and
\* no photo was made primary by itself since
\* (updateProductPhoto, deleteProductPhoto, setPrimaryPhoto)
OnePrimaryPhoto ==
    ~muddled /\ images # {} /\ (\A r \in Requests : req[r].kind \notin PhotoKinds)
        => Cardinality(primary) = 1

\* A product that was published or rejected while nothing else ran keeps that
\* status, though approvals, rejections and stale edits race later
\* (approveRequest, rejectRequest, updateProduct, uploadPdfFile)
DecisionStands ==
    settled \in {"published", "rejected"} => product.row # "gone" /\ product.status = settled

\* A product that was deleted while nothing else ran is not found again, nor
\* in any cart or wishlist (deleteProduct, deleteProductByAdmin, addToWishlist,
\* addToCart)
DeletedStaysDeleted ==
    settled = "deleted" => product.row \in {"deleted", "gone"} /\ entries = {}
=============================================================================
