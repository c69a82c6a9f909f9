--------------------------- MODULE Catalogue_proofs ---------------------------
(***************************************************************************)
(* Theorems about Catalogue, for every set of photos, buyers and handlers, *)
(* whatever overlaps or fails and however many calls are made.             *)
(***************************************************************************)
EXTENDS Catalogue, FiniteSetTheorems, TLAPS

(***************************************************************************)
(* Type correctness                                                        *)
(***************************************************************************)

LEMMA IdleType ==
    /\ Idle \in Request /\ Idle.pc = "idle" /\ Idle.kind = "none" /\ Idle.photo = {}
    /\ NoProduct \in Product
BY DEF Idle, Request, Stages, Kinds, NoProduct, Product, Status, Lists

LEMMA LockType ==
    \A locked : locked = {} \/ (\E r \in Requests : locked = {r}) =>
        locked \subseteq Requests /\ Cardinality(locked) <= 1
<1> SUFFICES ASSUME NEW locked, locked = {} \/ \E r \in Requests : locked = {r}
             PROVE  locked \subseteq Requests /\ Cardinality(locked) <= 1
  OBVIOUS
<1>1. Cardinality({}) = 0 /\ \A r : Cardinality({r}) = 1
  BY FS_EmptySet, FS_Singleton
<1> QED
  BY <1>1

\* A handler of a photo that was uploaded before knows the photo
KnownPhotos ==
    \A r \in Requests : req[r].kind \in {"unphoto", "primary"} => req[r].photo \subseteq used

\* The stage of a handler that will store a photo tells its kind
KindOfStage ==
    \A r \in Requests :
       /\ req[r].pc \in {"demote", "promote"} => req[r].kind = "primary"
       /\ req[r].pc \in {"remove", "file", "replace"} => req[r].kind = "unphoto"
       /\ req[r].pc = "insert" => req[r].kind \in {"upload", "create"}
       /\ req[r].pc = "list" => req[r].kind = "add"
       /\ req[r].pc = "drop" => req[r].kind = "view"
       /\ req[r].pc \in {"compare", "store"} => req[r].kind = "edit"
       /\ req[r].pc \in {"write", "mail", "commit"} =>
             req[r].kind \in {"approve", "reject", "ban", "delete"}
       /\ req[r].pc = "idle" <=> req[r].kind = "none"

TypeInv == TypeOK /\ KnownPhotos /\ KindOfStage

\* The handler goes on to a stage, and the others are as they were
Continues(r, stage) ==
    /\ req' \in [Requests -> Request]
    /\ req'[r].pc = stage /\ req'[r].kind = req[r].kind /\ req'[r].alone = req[r].alone
    /\ \A q \in Requests \ {r} : req'[q] = req[q]

LEMMA GotoType ==
    ASSUME TypeOK, NEW r \in Requests, NEW stage \in Stages, Goto(r, stage)
    PROVE  /\ Continues(r, stage) /\ req'[r].photo = req[r].photo
           /\ req'[r].entity = req[r].entity /\ req'[r].isPrimary = req[r].isPrimary
BY DEF Goto, TypeOK, Request, Continues

LEMMA EntityType ==
    ASSUME TypeOK, NEW r \in Requests, NEW stage \in Stages, NEW entity \in Product,
           req' = [req EXCEPT ![r].pc = stage, ![r].entity = entity]
    PROVE  /\ Continues(r, stage) /\ req'[r].entity = entity
           /\ req'[r].photo = req[r].photo
<1> DEFINE x == [req[r] EXCEPT !.pc = stage, !.entity = entity]
<1>1. /\ x \in Request /\ x.pc = stage /\ x.kind = req[r].kind /\ x.alone = req[r].alone
      /\ x.entity = entity
      /\ x.photo = req[r].photo
  BY DEF TypeOK, Request
<1>2. req' = [req EXCEPT ![r] = x]
  BY DEF TypeOK
<1> HIDE DEF x
<1> QED
  BY <1>1, <1>2 DEF TypeOK, Continues

LEMMA PrimaryType ==
    ASSUME TypeOK, NEW r \in Requests, NEW stage \in Stages, NEW isPrimary \in BOOLEAN,
           req' = [req EXCEPT ![r].pc = stage, ![r].isPrimary = isPrimary]
    PROVE  /\ Continues(r, stage) /\ req'[r].isPrimary = isPrimary
           /\ req'[r].photo = req[r].photo
<1> DEFINE x == [req[r] EXCEPT !.pc = stage, !.isPrimary = isPrimary]
<1>1. /\ x \in Request /\ x.pc = stage /\ x.kind = req[r].kind /\ x.alone = req[r].alone
      /\ x.isPrimary = isPrimary
      /\ x.photo = req[r].photo
  BY DEF TypeOK, Request
<1>2. req' = [req EXCEPT ![r] = x]
  BY DEF TypeOK
<1> HIDE DEF x
<1> QED
  BY <1>1, <1>2 DEF TypeOK, Continues

LEMMA PhotoType ==
    ASSUME TypeOK, NEW r \in Requests, NEW stage \in Stages, NEW photo \in SUBSET Images,
           req' = [req EXCEPT ![r].pc = stage, ![r].photo = photo]
    PROVE  /\ Continues(r, stage) /\ req'[r].photo = photo
           /\ req'[r].isPrimary = req[r].isPrimary
<1> DEFINE x == [req[r] EXCEPT !.pc = stage, !.photo = photo]
<1>1. /\ x \in Request /\ x.pc = stage /\ x.kind = req[r].kind /\ x.alone = req[r].alone
      /\ x.photo = photo
      /\ x.isPrimary = req[r].isPrimary
  BY DEF TypeOK, Request
<1>2. req' = [req EXCEPT ![r] = x]
  BY DEF TypeOK
<1> HIDE DEF x
<1> QED
  BY <1>1, <1>2 DEF TypeOK, Continues

LEMMA DiffType ==
    ASSUME TypeOK, NEW r \in Requests, NEW stage \in Stages, NEW diff \in SUBSET {"status", "deletedAt", "row"},
           req' = [req EXCEPT ![r].pc = stage, ![r].diff = diff]
    PROVE  /\ Continues(r, stage) /\ req'[r].diff = diff
           /\ req'[r].photo = req[r].photo /\ req'[r].entity = req[r].entity
<1> DEFINE x == [req[r] EXCEPT !.pc = stage, !.diff = diff]
<1>1. /\ x \in Request /\ x.pc = stage /\ x.kind = req[r].kind /\ x.alone = req[r].alone
      /\ x.diff = diff
      /\ x.photo = req[r].photo /\ x.entity = req[r].entity
  BY DEF TypeOK, Request
<1>2. req' = [req EXCEPT ![r] = x]
  BY DEF TypeOK
<1> HIDE DEF x
<1> QED
  BY <1>1, <1>2 DEF TypeOK, Continues

LEMMA FinishType ==
    ASSUME TypeOK, NEW r \in Requests, Finish(r)
    PROVE  /\ req' \in [Requests -> Request] /\ req'[r] = Idle
           /\ \A q \in Requests \ {r} : req'[q] = req[q]
BY IdleType DEF Finish, TypeOK

\* A handler that another one has not changed, but for the ghost
SameButAlone(q) ==
    /\ req'[q].pc = req[q].pc /\ req'[q].kind = req[q].kind
    /\ req'[q].photo = req[q].photo /\ req'[q].isPrimary = req[q].isPrimary
    /\ req'[q].entity = req[q].entity /\ req'[q].diff = req[q].diff

\* What a call does to the handlers: a new one, and the others are as they were
\* but for the ghost of the photo handlers
LEMMA CallType ==
    ASSUME TypeOK, NEW r \in Requests, AdminCall(r) \/ VendorCall(r) \/ BuyerCall(r)
    PROVE  /\ req' \in [Requests -> Request]
           /\ req[r].pc = "idle" /\ req'[r].pc = "load" /\ req'[r].kind # "none"
           /\ req'[r].kind \in {"unphoto", "primary"} => req'[r].photo \subseteq used
           /\ calls' \in 0..MaxCalls /\ muddled' \in BOOLEAN
           /\ UNCHANGED <<product, images, primary, entries, used, lockedBy, settled>>
           /\ \A q \in Requests \ {r} : SameButAlone(q)
           /\ \/ /\ req'[r].kind \notin PhotoKinds /\ muddled' = muddled
                 /\ \A q \in Requests \ {r} : req'[q].alone = req[q].alone
              \/ /\ req'[r].kind \in PhotoKinds
                 /\ \E i \in Images : req'[r].photo = {i}
                 /\ LET rivals == {q \in Requests : req[q].kind \in PhotoKinds}
                    IN /\ muddled' = (muddled \/ rivals # {})
                       /\ req'[r].alone = (rivals = {})
                       /\ \A q \in Requests \ {r} :
                             req'[q].alone = (req[q].alone /\ q \notin rivals)
<1> DEFINE Goal ==
           /\ req' \in [Requests -> Request]
           /\ req[r].pc = "idle" /\ req'[r].pc = "load" /\ req'[r].kind # "none"
           /\ req'[r].kind \in {"unphoto", "primary"} => req'[r].photo \subseteq used
           /\ calls' \in 0..MaxCalls /\ muddled' \in BOOLEAN
           /\ UNCHANGED <<product, images, primary, entries, used, lockedBy, settled>>
           /\ \A q \in Requests \ {r} : SameButAlone(q)
           /\ \/ /\ req'[r].kind \notin PhotoKinds /\ muddled' = muddled
                 /\ \A q \in Requests \ {r} : req'[q].alone = req[q].alone
              \/ /\ req'[r].kind \in PhotoKinds
                 /\ \E i \in Images : req'[r].photo = {i}
                 /\ LET rivals == {q \in Requests : req[q].kind \in PhotoKinds}
                    IN /\ muddled' = (muddled \/ rivals # {})
                       /\ req'[r].alone = (rivals = {})
                       /\ \A q \in Requests \ {r} :
                             req'[q].alone = (req[q].alone /\ q \notin rivals)
<1>0. req \in [Requests -> Request] /\ muddled \in BOOLEAN /\ Idle \in Request
  BY IdleType DEF TypeOK
<1>1. ASSUME Call(r)
      PROVE  /\ req[r].pc = "idle" /\ calls' \in 0..MaxCalls
             /\ UNCHANGED <<product, images, primary, entries, used, lockedBy, settled>>
  BY <1>1, CatalogueAssumption DEF Call, rows, TypeOK
<1>2. ASSUME NEW kind \in Kinds \ (PhotoKinds \cup {"none"}), NEW entry \in SUBSET (Lists \X Users),
             Start(r, kind, entry)
      PROVE  Goal
  <2> DEFINE q == [Idle EXCEPT !.pc = "load", !.kind = kind, !.entry = entry]
  <2>1. q \in Request /\ q.pc = "load" /\ q.kind = kind
    BY <1>0, <1>2 DEF Request, Idle, Stages
  <2>2. req' = [req EXCEPT ![r] = q] /\ muddled' = muddled /\ Call(r)
    BY <1>2 DEF Start
  <2> HIDE DEF q
  <2>3. req'[r] = q /\ req' \in [Requests -> Request] /\ \A p \in Requests \ {r} : req'[p] = req[p]
    BY <1>0, <2>1, <2>2
  <2> QED  BY <1>0, <1>1, <1>2, <2>1, <2>2, <2>3 DEF PhotoKinds, SameButAlone
<1>3. ASSUME NEW kind \in PhotoKinds, NEW i \in Images, StartPhoto(r, kind, {i}),
             kind \in {"unphoto", "primary"} => i \in used
      PROVE  Goal
  <2> DEFINE rivals == {q \in Requests : req[q].kind \in PhotoKinds}
             new == [Idle EXCEPT !.pc = "load", !.kind = kind, !.photo = {i}, !.alone = (rivals = {})]
             old(q) == [req[q] EXCEPT !.alone = req[q].alone /\ q \notin rivals]
  <2>1. /\ new \in Request /\ new.pc = "load" /\ new.kind = kind /\ new.photo = {i}
        /\ new.alone = (rivals = {})
    BY <1>0 DEF Request, Idle, Stages, Kinds, PhotoKinds
  <2>2. /\ req' = [q \in Requests |-> IF q = r THEN new ELSE old(q)]
        /\ muddled' = (muddled \/ rivals # {}) /\ Call(r)
    BY <1>3 DEF StartPhoto
  <2>3. \A q \in Requests :
          /\ old(q) \in Request
          /\ old(q).pc = req[q].pc /\ old(q).kind = req[q].kind
          /\ old(q).photo = req[q].photo /\ old(q).isPrimary = req[q].isPrimary
          /\ old(q).entity = req[q].entity /\ old(q).diff = req[q].diff
          /\ old(q).alone = (req[q].alone /\ q \notin rivals)
    BY <1>0 DEF Request
  <2>4. req'[r] = new /\ \A q \in Requests \ {r} : req'[q] = old(q)
    BY <2>2
  <2>5. req' \in [Requests -> Request]
    <3> HIDE DEF new, old
    <3> QED  BY <2>1, <2>2, <2>3
  <2>6. /\ req'[r].pc = "load" /\ req'[r].kind = kind /\ req'[r].photo = {i}
        /\ req'[r].alone = (rivals = {})
    BY <2>1, <2>4
  <2>7. kind # "none"
    BY DEF PhotoKinds
  <2> HIDE DEF new, old
  <2>8. \A q \in Requests \ {r} : SameButAlone(q) /\ req'[q].alone = (req[q].alone /\ q \notin rivals)
    BY <2>3, <2>4 DEF SameButAlone
  <2> QED  BY <1>0, <1>1, <1>3, <2>2, <2>5, <2>6, <2>7, <2>8
<1>4. CASE AdminCall(r)
  BY <1>2, <1>4 DEF AdminCall, ApproveRequest, RejectRequest, DeleteProductByAdmin, Kinds, PhotoKinds
<1>5. CASE VendorCall(r)
  <2>1. CASE UpdateProduct(r) \/ UploadPdfFile(r) \/ DeleteProduct(r)
    BY <1>2, <2>1 DEF UpdateProduct, UploadPdfFile, DeleteProduct, Kinds, PhotoKinds
  <2>2. ASSUME NEW i \in Images,
               \/ UploadPhoto(r, i) \/ CreateProduct(r, i)
               \/ DeleteProductPhoto(r, i) \/ SetPrimaryPhoto(r, i)
        PROVE  Goal
    BY <1>3, <2>2 DEF UploadPhoto, CreateProduct, DeleteProductPhoto, SetPrimaryPhoto, PhotoKinds
  <2> QED  BY <1>5, <2>1, <2>2 DEF VendorCall
<1>6. CASE BuyerCall(r)
  <2>1. PICK u \in Users : AddToWishlist(r, u) \/ AddToCart(r, u) \/ GetWishlist(r, u)
    BY <1>6 DEF BuyerCall
  <2>2. {<<"wishlist", u>>} \in SUBSET (Lists \X Users) /\ {<<"cart", u>>} \in SUBSET (Lists \X Users)
    BY DEF Lists
  <2> QED
    BY <1>2, <2>1, <2>2 DEF AddToWishlist, AddToCart, GetWishlist, Kinds, PhotoKinds
<1> QED
  BY <1>4, <1>5, <1>6

\* Where a step of the server leads its handler
Leads(r) ==
    \/ req'[r] = Idle
    \/ /\ req'[r].kind = req[r].kind /\ req'[r].alone = req[r].alone
       /\ req'[r].photo = req[r].photo \/ DeleteFile(r)
       /\ \/ /\ FindProduct(r) /\ req'[r].pc = "write" /\ req'[r].entity = product
             /\ Found /\ MayChange(req[r].kind)
          \/ WriteProduct(r) /\ req'[r].pc \in {"mail", "commit"} /\ req'[r].entity = req[r].entity
          \/ SendMail(r) /\ req'[r].pc = "commit" /\ req'[r].entity = req[r].entity
          \/ LoadProduct(r) /\ req'[r].pc = "compare" /\ req'[r].entity = product /\ Found
          \/ CompareProduct(r) /\ req'[r].pc = "store" /\ req'[r].entity = req[r].entity
          \/ FindImages(r) /\ req'[r].pc = "insert" /\ req'[r].isPrimary = (images = {}) /\ Found
          \/ /\ CreateEmptyProduct(r) /\ req'[r].pc = "insert" /\ req'[r].isPrimary = TRUE
             /\ product.row = "none" /\ product'.row = "live"
          \/ /\ FindPhoto(r) /\ req'[r].pc = (IF req[r].kind = "primary" THEN "demote" ELSE "remove")
             /\ req'[r].isPrimary = (req[r].photo \subseteq primary)
             /\ req[r].photo \subseteq images /\ Found
          \/ RemovePhoto(r) /\ req'[r].pc = "file" /\ req'[r].isPrimary = req[r].isPrimary
          \/ /\ DeleteFile(r) /\ req'[r].pc = "replace"
             /\ req[r].isPrimary /\ \E i \in images \ primary : req'[r].photo = {i}
          \/ DemoteOthers(r) /\ req'[r].pc = "promote"
          \/ FindListed(r) /\ req'[r].pc = "list" /\ Found /\ product.status = "published"
          \/ FindWished(r) /\ req'[r].pc = "drop" /\ Found

LEMMA StepForm ==
    ASSUME TypeInv, NEW r \in Requests, ServerStep(r)
    PROVE  /\ req' \in [Requests -> Request] /\ \A q \in Requests \ {r} : req'[q] = req[q]
           /\ req[r].kind # "none" /\ Leads(r)
<1> DEFINE Goal == /\ req' \in [Requests -> Request]
                   /\ \A q \in Requests \ {r} : req'[q] = req[q]
                   /\ Leads(r)
<1> USE DEF Continues
<1>0. /\ TypeOK /\ req[r] \in Request /\ product \in Product
      /\ {"write", "mail", "commit", "compare", "store", "insert", "remove", "file", "replace",
          "demote", "promote", "list", "drop"} \subseteq Stages
  BY DEF TypeInv, TypeOK, Stages
<1>1. req[r].kind # "none"
  <2>1. req[r].pc # "idle"
    BY DEF ServerStep, FindProduct, WriteProduct, SendMail, MailFails, CommitDecision,
       CommitSoftDelete, CommitDelete, LoadProduct, CompareProduct, StoreProduct, FindImages,
       CreateEmptyProduct, InsertImage, FindPhoto, RemovePhoto, DeleteFile, DeleteFileFails,
       ReplacePrimary, DemoteOthers, PromotePhoto, FindListed, InsertEntry, FindWished, DropEntry
  <2> QED  BY <2>1 DEF TypeInv, KindOfStage
<1> SUFFICES Goal
  BY <1>1
<1>2. ASSUME Finish(r)  PROVE Goal
  BY <1>0, <1>2, FinishType DEF Leads
<1>3. CASE FindProduct(r)
  <2>1. \/ Finish(r)
        \/ /\ req' = [req EXCEPT ![r].pc = "write", ![r].entity = product]
           /\ Found /\ MayChange(req[r].kind)
    BY <1>3 DEF FindProduct
  <2>2. CASE /\ req' = [req EXCEPT ![r].pc = "write", ![r].entity = product]
             /\ Found /\ MayChange(req[r].kind)
    <3>1. /\ Continues(r, "write") /\ req'[r].entity = product
          /\ req'[r].photo = req[r].photo
      BY <1>0, <2>2, EntityType
    <3> QED  BY <1>3, <2>2, <3>1 DEF Leads
  <2> QED  BY <1>2, <2>1, <2>2
<1>4. CASE WriteProduct(r) \/ SendMail(r)
  <2>1. \/ Finish(r)
        \/ \E stage \in {"mail", "commit"} : Goto(r, stage) /\ (SendMail(r) => stage = "commit")
    BY <1>4 DEF WriteProduct, SendMail
  <2>2. ASSUME NEW stage \in {"mail", "commit"}, Goto(r, stage), SendMail(r) => stage = "commit"
        PROVE  Goal
    <3>1. /\ Continues(r, stage) /\ req'[r].photo = req[r].photo /\ req'[r].entity = req[r].entity
      BY <1>0, <2>2, GotoType
    <3> QED  BY <1>4, <2>2, <3>1 DEF Leads
  <2> QED  BY <1>2, <1>4, <2>1, <2>2
<1>5. CASE \/ MailFails(r) \/ CommitDecision(r) \/ CommitSoftDelete(r) \/ CommitDelete(r)
           \/ StoreProduct(r) \/ InsertImage(r) \/ DeleteFileFails(r) \/ ReplacePrimary(r)
           \/ PromotePhoto(r) \/ InsertEntry(r) \/ DropEntry(r)
  <2>1. Finish(r)
    BY <1>5 DEF MailFails, CommitDecision, CommitSoftDelete, CommitDelete, StoreProduct,
       InsertImage, DeleteFileFails, ReplacePrimary, PromotePhoto, InsertEntry, DropEntry
  <2> QED  BY <1>2, <2>1
<1>6. CASE LoadProduct(r)
  <2>1. Finish(r) \/ (Found /\ req' = [req EXCEPT ![r].pc = "compare", ![r].entity = product])
    BY <1>6 DEF LoadProduct
  <2>2. CASE Found /\ req' = [req EXCEPT ![r].pc = "compare", ![r].entity = product]
    <3>1. /\ Continues(r, "compare") /\ req'[r].entity = product
          /\ req'[r].photo = req[r].photo
      BY <1>0, <2>2, EntityType
    <3> QED  BY <1>6, <2>2, <3>1 DEF Leads
  <2> QED  BY <1>2, <2>1, <2>2
<1>7. CASE CompareProduct(r)
  <2> DEFINE diff == IF product.row = "gone" THEN {"row"}
                     ELSE {c \in {"status", "deletedAt"} :
                             \/ c = "status" /\ product.status # req[r].entity.status
                             \/ c = "deletedAt" /\ product.row = "deleted"}
  <2>1. diff \in SUBSET {"status", "deletedAt", "row"}
    OBVIOUS
  <2>2. req' = [req EXCEPT ![r].pc = "store", ![r].diff = diff]
    BY <1>7 DEF CompareProduct
  <2>3. /\ Continues(r, "store") /\ req'[r].diff = diff
        /\ req'[r].photo = req[r].photo /\ req'[r].entity = req[r].entity
    <3> HIDE DEF diff
    <3> QED  BY <1>0, <2>1, <2>2, DiffType
  <2> QED  BY <1>7, <2>3 DEF Leads
<1>8. CASE FindImages(r)
  <2>1. Finish(r) \/ (Found /\ req' = [req EXCEPT ![r].pc = "insert", ![r].isPrimary = (images = {})])
    BY <1>8 DEF FindImages
  <2>2. CASE Found /\ req' = [req EXCEPT ![r].pc = "insert", ![r].isPrimary = (images = {})]
    <3>1. /\ Continues(r, "insert") /\ req'[r].isPrimary = (images = {})
          /\ req'[r].photo = req[r].photo
      BY <1>0, <2>2, PrimaryType
    <3> QED  BY <1>8, <2>2, <3>1 DEF Leads
  <2> QED  BY <1>2, <2>1, <2>2
<1>9. CASE CreateEmptyProduct(r)
  <2>1. Finish(r) \/ req' = [req EXCEPT ![r].pc = "insert", ![r].isPrimary = TRUE]
    BY <1>9 DEF CreateEmptyProduct
  <2>2. CASE req' = [req EXCEPT ![r].pc = "insert", ![r].isPrimary = TRUE]
    <3>1. /\ Continues(r, "insert") /\ req'[r].isPrimary = TRUE
          /\ req'[r].photo = req[r].photo
      BY <1>0, <2>2, PrimaryType
    <3>2. ~Finish(r)
      BY <1>0, <3>1, FinishType, IdleType
    <3>3. product.row = "none" /\ product'.row = "live"
      BY <1>9, <3>2 DEF CreateEmptyProduct
    <3> QED  BY <1>9, <3>1, <3>3 DEF Leads
  <2> QED  BY <1>2, <2>1, <2>2
<1>10. CASE FindPhoto(r)
  <2> DEFINE stage == IF req[r].kind = "primary" THEN "demote" ELSE "remove"
  <2>1. \/ Finish(r)
        \/ /\ req' = [req EXCEPT ![r].pc = stage, ![r].isPrimary = (req[r].photo \subseteq primary)]
           /\ req[r].photo \subseteq images /\ Found
    BY <1>10 DEF FindPhoto
  <2>2. CASE /\ req' = [req EXCEPT ![r].pc = stage, ![r].isPrimary = (req[r].photo \subseteq primary)]
             /\ req[r].photo \subseteq images /\ Found
    <3>1. stage \in Stages
      BY <1>0
    <3>2. /\ Continues(r, stage) /\ req'[r].isPrimary = (req[r].photo \subseteq primary)
          /\ req'[r].photo = req[r].photo
      <4> HIDE DEF stage
      <4> QED  BY <1>0, <2>2, <3>1, PrimaryType
    <3> QED  BY <1>10, <2>2, <3>2 DEF Leads
  <2> QED  BY <1>2, <2>1, <2>2
<1>11. CASE RemovePhoto(r) \/ DemoteOthers(r)
  <2>1. \E stage \in {"file", "promote"} : 
          Goto(r, stage) /\ (RemovePhoto(r) => stage = "file") /\ (DemoteOthers(r) => stage = "promote")
    BY <1>11 DEF RemovePhoto, DemoteOthers
  <2>2. ASSUME NEW stage \in {"file", "promote"}, Goto(r, stage),
               RemovePhoto(r) => stage = "file", DemoteOthers(r) => stage = "promote"
        PROVE  Goal
    <3>1. /\ Continues(r, stage) /\ req'[r].photo = req[r].photo /\ req'[r].entity = req[r].entity
          /\ req'[r].isPrimary = req[r].isPrimary
      BY <1>0, <2>2, GotoType
    <3> QED  BY <1>11, <2>2, <3>1 DEF Leads
  <2> QED  BY <2>1, <2>2
<1>12. CASE DeleteFile(r)
  <2>1. CASE req[r].isPrimary /\ ~Finish(r)
    <3>1. PICK i \in images \ primary : req' = [req EXCEPT ![r].pc = "replace", ![r].photo = {i}]
      BY <1>12, <2>1 DEF DeleteFile
    <3>2. {i} \in SUBSET Images
      BY <1>0 DEF TypeOK
    <3>3. Continues(r, "replace") /\ req'[r].photo = {i} /\ req'[r].isPrimary = req[r].isPrimary
      BY <1>0, <3>1, <3>2, PhotoType
    <3> QED  BY <1>12, <2>1, <3>1, <3>3 DEF Leads
  <2>2. CASE ~req[r].isPrimary \/ Finish(r)
    BY <1>2, <1>12, <2>2 DEF DeleteFile
  <2> QED  BY <2>1, <2>2
<1>13. CASE FindListed(r) \/ FindWished(r)
  <2>1. \/ Finish(r) 
        \/ Goto(r, "list") /\ FindListed(r) /\ Found /\ product.status = "published"
        \/ Goto(r, "drop") /\ FindWished(r) /\ Found
    BY <1>13 DEF FindListed, FindWished
  <2>2. CASE Goto(r, "list") /\ FindListed(r) /\ Found /\ product.status = "published"
    <3>1. Continues(r, "list") /\ req'[r].photo = req[r].photo /\ req'[r].entity = req[r].entity
      BY <1>0, <2>2, GotoType
    <3> QED  BY <2>2, <3>1 DEF Leads
  <2>3. CASE Goto(r, "drop") /\ FindWished(r) /\ Found
    <3>1. Continues(r, "drop") /\ req'[r].photo = req[r].photo /\ req'[r].entity = req[r].entity
      BY <1>0, <2>3, GotoType
    <3> QED  BY <2>3, <3>1 DEF Leads
  <2> QED  BY <1>2, <2>1, <2>2, <2>3
<1> QED
  BY <1>3, <1>4, <1>5, <1>6, <1>7, <1>8, <1>9, <1>10, <1>11, <1>12, <1>13 DEF ServerStep

LEMMA StepType ==
    ASSUME TypeInv, NEW r \in Requests, ServerStep(r)
    PROVE  TypeInv'
<1> DEFINE RowsType == /\ product \in Product /\ images \subseteq used /\ primary \subseteq images
                       /\ used \subseteq Images /\ entries \subseteq Lists \X Users
           GhostType == /\ settled \in {"none", "published", "rejected", "deleted"}
                        /\ muddled \in BOOLEAN
           Rest == lockedBy' = lockedBy /\ UNCHANGED ghosts
<1>0. /\ TypeOK /\ RowsType /\ GhostType
      /\ req \in [Requests -> Request] /\ req[r] \in Request
  BY DEF TypeInv, TypeOK
<1>1. /\ req' \in [Requests -> Request] /\ \A q \in Requests \ {r} : req'[q] = req[q]
      /\ req[r].kind # "none" /\ Leads(r)
  BY StepForm
<1>2. \A status \in Status : [product EXCEPT !.status = status] \in Product
  BY <1>0 DEF Product
<1>3. \A state \in {"none", "live", "deleted", "gone"} : [product EXCEPT !.row = state] \in Product
  BY <1>0 DEF Product
<1>4. RowsType' /\ used \subseteq used'
  <2>1. CASE UNCHANGED rows
    BY <1>0, <2>1 DEF rows
  <2>2. CASE CommitDecision(r)
    BY <1>0, <1>2, <2>2 DEF CommitDecision, Status
  <2>3. CASE CommitSoftDelete(r) \/ CommitDelete(r)
    BY <1>0, <1>3, <2>3 DEF CommitSoftDelete, CommitDelete
  <2>4. CASE StoreProduct(r)
    <3>1. product' \in Product
      BY <1>0, <2>4 DEF StoreProduct, Request, Product
    <3> QED  BY <1>0, <2>4, <3>1 DEF StoreProduct
  <2>5. CASE CreateEmptyProduct(r)
    <3>1. product' \in Product
      BY <1>0, <2>5 DEF CreateEmptyProduct, Product, Status
    <3> QED  BY <1>0, <2>5, <3>1 DEF CreateEmptyProduct
  <2>6. CASE InsertImage(r)
    <3>1. req[r].photo \subseteq Images
      BY <1>0 DEF Request
    <3> QED  BY <1>0, <2>6, <3>1 DEF InsertImage
  <2>7. CASE RemovePhoto(r) \/ ReplacePrimary(r) \/ DemoteOthers(r)
    BY <1>0, <2>7 DEF RemovePhoto, ReplacePrimary, DemoteOthers
  <2>8. CASE PromotePhoto(r)
    <3>1. req[r].photo \subseteq used
      BY <2>8 DEF PromotePhoto, TypeInv, KindOfStage, KnownPhotos
    <3>2. \/ images' = images \cup req[r].photo /\ primary' = primary \cup req[r].photo
          \/ UNCHANGED <<images, primary>>
      BY <2>8 DEF PromotePhoto, SavePrimary
    <3> QED  BY <1>0, <2>8, <3>1, <3>2 DEF PromotePhoto
  <2>9. CASE InsertEntry(r) \/ DropEntry(r)
    <3>1. req[r].entry \subseteq Lists \X Users
      BY <1>0 DEF Request
    <3> QED  BY <1>0, <2>9, <3>1 DEF InsertEntry, DropEntry
  <2> QED
    BY <2>1, <2>2, <2>3, <2>4, <2>5, <2>6, <2>7, <2>8, <2>9 DEF ServerStep, FindProduct,
       WriteProduct, SendMail, MailFails, LoadProduct, CompareProduct, FindImages, FindPhoto,
       DeleteFile, DeleteFileFails, FindListed, FindWished
<1>5. GhostType' /\ calls' = calls
  <2>1. CASE UNCHANGED ghosts /\ calls' = calls
    BY <1>0, <2>1 DEF ghosts
  <2>2. CASE CommitDecision(r) \/ CommitSoftDelete(r) \/ CommitDelete(r)
    BY <1>0, <2>2 DEF CommitDecision, CommitSoftDelete, CommitDelete, Settle
  <2>3. CASE PromotePhoto(r) \/ DeleteFile(r) \/ DeleteFileFails(r)
    <3>1. req[r].isPrimary \in BOOLEAN /\ req[r].alone \in BOOLEAN
      BY <1>0 DEF Request
    <3> QED  BY <1>0, <2>3, <3>1 DEF PromotePhoto, DeleteFile, DeleteFileFails
  <2> QED
    BY <2>1, <2>2, <2>3 DEF ServerStep, FindProduct, WriteProduct, SendMail, MailFails,
       LoadProduct, CompareProduct, StoreProduct, FindImages, CreateEmptyProduct, InsertImage,
       FindPhoto, RemovePhoto, ReplacePrimary, DemoteOthers, FindListed,
       InsertEntry, FindWished, DropEntry
<1>6. lockedBy' = lockedBy \/ lockedBy' = {} \/ lockedBy' = {r}
  BY DEF ServerStep, FindProduct, WriteProduct, SendMail, MailFails, CommitDecision,
     CommitSoftDelete, CommitDelete, LoadProduct, CompareProduct, StoreProduct, FindImages,
     CreateEmptyProduct, InsertImage, FindPhoto, RemovePhoto, DeleteFile, DeleteFileFails,
     ReplacePrimary, DemoteOthers, PromotePhoto, FindListed, InsertEntry, FindWished, DropEntry
<1>7. lockedBy' \subseteq Requests /\ Cardinality(lockedBy') <= 1
  BY <1>0, <1>6, LockType DEF TypeOK
<1>8. TypeOK'
  BY <1>0, <1>1, <1>4, <1>5, <1>7 DEF TypeOK
<1>9. KnownPhotos'
  <2> SUFFICES ASSUME NEW q \in Requests, req'[q].kind \in {"unphoto", "primary"}
               PROVE  req'[q].photo \subseteq used'
    BY DEF KnownPhotos
  <2>1. CASE q # r
    BY <1>1, <1>4, <2>1 DEF TypeInv, KnownPhotos
  <2>2. CASE q = r
    <3>1. req'[r].kind = req[r].kind /\ (req'[r].photo = req[r].photo \/ DeleteFile(r)) /\ req'[r] # Idle
      BY <1>1, <2>2, IdleType DEF Leads
    <3>2. CASE req'[r].photo = req[r].photo
      BY <1>4, <2>2, <3>1, <3>2 DEF TypeInv, KnownPhotos
    <3>3. CASE DeleteFile(r) /\ req'[r].photo # req[r].photo
      <4>1. req[r].pc = "file"
        BY <3>3 DEF DeleteFile
      <4>2. \E i \in images \ primary : req'[r].photo = {i}
        BY <1>1, <3>1, <3>3, <4>1 DEF Leads, FindProduct, WriteProduct, SendMail, LoadProduct,
           CompareProduct, FindImages, CreateEmptyProduct, FindPhoto, RemovePhoto, DemoteOthers,
           FindListed, FindWished
      <4> QED  BY <1>0, <1>4, <2>2, <4>2
    <3> QED  BY <3>1, <3>2, <3>3
  <2> QED  BY <2>1, <2>2
<1>10. KindOfStage'
  <2> DEFINE Fits(q) ==
        /\ req[q].pc \in {"demote", "promote"} => req[q].kind = "primary"
        /\ req[q].pc \in {"remove", "file", "replace"} => req[q].kind = "unphoto"
        /\ req[q].pc = "insert" => req[q].kind \in {"upload", "create"}
        /\ req[q].pc = "list" => req[q].kind = "add"
        /\ req[q].pc = "drop" => req[q].kind = "view"
        /\ req[q].pc \in {"compare", "store"} => req[q].kind = "edit"
        /\ req[q].pc \in {"write", "mail", "commit"} =>
              req[q].kind \in {"approve", "reject", "ban", "delete"}
        /\ req[q].pc = "idle" <=> req[q].kind = "none"
  <2>0. \A q \in Requests : Fits(q)
    BY DEF TypeInv, KindOfStage
  <2>1. ASSUME NEW q \in Requests, q # r  PROVE Fits(q)'
    BY <1>1, <2>0, <2>1
  <2>2. CASE req'[r] = Idle
    <3>1. Fits(r)'
      BY <2>2, IdleType
    <3> QED  BY <2>1, <3>1 DEF KindOfStage
  <2>3. CASE req'[r] # Idle
    <3>1. Fits(r)
      BY <2>0
    <3>2. Fits(r)'
      BY <1>1, <2>3, <3>1 DEF Leads, FindProduct, WriteProduct, SendMail, LoadProduct,
         CompareProduct, FindImages, CreateEmptyProduct, FindPhoto, RemovePhoto, DeleteFile,
         DemoteOthers, FindListed, FindWished
    <3> QED  BY <2>1, <3>2 DEF KindOfStage
  <2> QED  BY <2>2, <2>3
<1> QED
  BY <1>8, <1>9, <1>10 DEF TypeInv

LEMMA NextType == TypeInv /\ [Next]_vars => TypeInv'
<1> SUFFICES ASSUME TypeInv, [Next]_vars  PROVE TypeInv'
  OBVIOUS
<1>0. TypeOK /\ KnownPhotos /\ KindOfStage
  BY DEF TypeInv
<1>1. ASSUME NEW r \in Requests, AdminCall(r) \/ VendorCall(r) \/ BuyerCall(r)  PROVE TypeInv'
  <2>1. /\ req' \in [Requests -> Request]
        /\ req[r].pc = "idle" /\ req'[r].pc = "load" /\ req'[r].kind # "none"
        /\ req'[r].kind \in {"unphoto", "primary"} => req'[r].photo \subseteq used
        /\ calls' \in 0..MaxCalls /\ muddled' \in BOOLEAN
        /\ UNCHANGED <<product, images, primary, entries, used, lockedBy, settled>>
    BY <1>0, <1>1, CallType
  <2>2. \A q \in Requests \ {r} : SameButAlone(q)
    BY <1>0, <1>1, CallType
  <2>3. TypeOK'
    BY <1>0, <2>1 DEF TypeOK
  <2>4. KnownPhotos' /\ KindOfStage'
    BY <1>0, <2>1, <2>2 DEF SameButAlone, KnownPhotos, KindOfStage
  <2> QED  BY <2>3, <2>4 DEF TypeInv
<1>2. ASSUME NEW u \in Users, RemoveFromWishlist(u) \/ RemoveFromCart(u)  PROVE TypeInv'
  BY <1>0, <1>2 DEF RemoveFromWishlist, RemoveFromCart, ghosts, TypeInv, TypeOK, KnownPhotos, KindOfStage
<1>3. CASE UNCHANGED vars
  BY <1>0, <1>3 DEF vars, TypeInv, TypeOK, KnownPhotos, KindOfStage
<1> QED
  BY <1>1, <1>2, <1>3, StepType DEF Next

LEMMA InitType == Init => TypeInv
<1> SUFFICES ASSUME Init  PROVE TypeInv
  OBVIOUS
<1>1. product \in Product /\ images \subseteq Images
  BY IdleType DEF Init, Product, Status
<1>2. lockedBy \subseteq Requests /\ Cardinality(lockedBy) <= 1
  BY LockType DEF Init
<1>3. calls \in 0..MaxCalls
  BY CatalogueAssumption DEF Init
<1>4. req \in [Requests -> Request] /\ KnownPhotos /\ KindOfStage
  BY IdleType DEF Init, KnownPhotos, KindOfStage
<1> QED
  BY <1>1, <1>2, <1>3, <1>4 DEF Init, TypeInv, TypeOK

LEMMA TypeInvCorrect == Spec => []TypeInv
BY InitType, NextType, PTL DEF Spec

\* Every variable keeps its type, photos of the product have been uploaded and
\* primary ones are its own, and one transaction at a time holds the row's lock
THEOREM TypeCorrect == Spec => []TypeOK
<1>1. TypeInv => TypeOK
  BY DEF TypeInv
<1> QED
  BY <1>1, TypeInvCorrect, PTL

(***************************************************************************)
(* Decisions stand, deletions too                                          *)
(***************************************************************************)

\* A decision or deletion has loaded the product; an edit has
Deciding == {"write", "mail", "commit"}

Editing == {"compare", "store"}

SettledInv ==
    /\ product.row = "none" => settled = "none"
    /\ \A r \in Requests : req[r].pc \in Editing => req[r].entity.row = "live"
    /\ settled \in {"published", "rejected"} =>
          /\ product.row # "gone" /\ product.status = settled
          /\ \A r \in Requests :
                /\ req[r].pc \in Deciding => req[r].kind \in {"ban", "delete"}
                /\ req[r].pc \in Deciding \cup Editing => req[r].entity.status = settled
    /\ settled = "deleted" =>
          /\ product.row \in {"deleted", "gone"} /\ entries = {}
          /\ \A r \in Requests : req[r].pc \notin Deciding \cup Editing \cup {"list"}

LEMMA SettledStep ==
    ASSUME TypeInv, SettledInv, NEW r \in Requests, ServerStep(r)
    PROVE  SettledInv'
<1> USE DEF Deciding, Editing
<1>0. /\ TypeOK /\ KindOfStage /\ req[r] \in Request /\ product \in Product
      /\ settled \in {"none", "published", "rejected", "deleted"} /\ Idle.pc = "idle"
      /\ product.status \in Status
  BY IdleType DEF TypeInv, TypeOK, Product
<1>1. /\ req' \in [Requests -> Request] /\ \A q \in Requests \ {r} : req'[q] = req[q]
      /\ req[r].kind # "none" /\ Leads(r)
  BY StepForm
\* How the handler goes on
<1>2. /\ req'[r].pc \in Editing =>
            \/ req[r].pc \in Editing /\ req'[r].entity = req[r].entity
            \/ Found /\ req'[r].entity = product
      /\ req'[r].pc \in Deciding =>
            /\ req'[r].kind = req[r].kind
            /\ \/ req[r].pc \in Deciding /\ req'[r].entity = req[r].entity
               \/ Found /\ MayChange(req[r].kind) /\ req'[r].entity = product
      /\ req'[r].pc = "list" => Found
  BY <1>0, <1>1 DEF Leads, WriteProduct, SendMail, CompareProduct
<1>3. /\ Found => product.row = "live"
      /\ settled \in {"published", "rejected"} /\ product.status = settled /\ MayChange(req[r].kind) =>
            req[r].kind \notin {"approve", "reject"}
  BY DEF Found, MayChange
<1>4. req'[r].pc \in Deciding => req[r].kind \in {"approve", "reject", "ban", "delete"}
  <2>1. KindOfStage'
    BY StepType DEF TypeInv
  <2> QED  BY <1>2, <2>1 DEF KindOfStage
\* An edit has read a product that was there
<1>5. \A q \in Requests : req'[q].pc \in Editing => req'[q].entity.row = "live"
  <2>1. \A q \in Requests : req[q].pc \in Editing => req[q].entity.row = "live"
    BY DEF SettledInv
  <2>2. req'[r].pc \in Editing => req'[r].entity.row = "live"
    BY <1>2, <1>3, <2>1
  <2> QED  BY <1>1, <2>1, <2>2
\* What is settled stays in view of the handlers in flight
<1>6. settled \in {"published", "rejected"} =>
         \A q \in Requests :
            /\ req'[q].pc \in Deciding => req'[q].kind \in {"ban", "delete"}
            /\ req'[q].pc \in Deciding \cup Editing => req'[q].entity.status = settled
  <2> SUFFICES ASSUME settled \in {"published", "rejected"}
               PROVE  \A q \in Requests :
                         /\ req'[q].pc \in Deciding => req'[q].kind \in {"ban", "delete"}
                         /\ req'[q].pc \in Deciding \cup Editing => req'[q].entity.status = settled
    OBVIOUS
  <2>1. /\ product.status = settled
        /\ \A q \in Requests :
              /\ req[q].pc \in Deciding => req[q].kind \in {"ban", "delete"}
              /\ req[q].pc \in Deciding \cup Editing => req[q].entity.status = settled
    BY DEF SettledInv
  <2>2. req'[r].pc \in Deciding => req'[r].kind \in {"ban", "delete"}
    BY <1>2, <1>3, <1>4, <2>1
  <2>3. req'[r].pc \in Deciding \cup Editing => req'[r].entity.status = settled
    BY <1>2, <2>1
  <2> QED  BY <1>1, <2>1, <2>2, <2>3
<1>7. settled = "deleted" => /\ product.row \in {"deleted", "gone"} /\ entries = {}
                             /\ \A q \in Requests : req'[q].pc \notin Deciding \cup Editing \cup {"list"}
  <2> SUFFICES ASSUME settled = "deleted"
               PROVE  /\ product.row \in {"deleted", "gone"} /\ entries = {}
                      /\ \A q \in Requests : req'[q].pc \notin Deciding \cup Editing \cup {"list"}
    OBVIOUS
  <2>1. /\ product.row \in {"deleted", "gone"} /\ entries = {}
        /\ \A q \in Requests : req[q].pc \notin Deciding \cup Editing \cup {"list"}
    BY DEF SettledInv
  <2>2. req'[r].pc \notin Deciding \cup Editing \cup {"list"}
    BY <1>2, <1>3, <2>1
  <2> QED  BY <1>1, <2>1, <2>2
<1>8. CASE UNCHANGED <<product, entries, settled>>
  BY <1>5, <1>6, <1>7, <1>8 DEF SettledInv
\* Nothing else runs when a step settles something
<1>9. ASSUME Quiet(r), Finish(r)  PROVE \A q \in Requests : req'[q].pc = "idle"
  BY <1>0, <1>1, <1>9, FinishType DEF Quiet
<1>10. CASE CommitDecision(r)
  <2> DEFINE status == IF req[r].kind = "approve" THEN "published" ELSE "rejected"
  <2>1. /\ req[r].pc \in Deciding /\ req[r].kind \in {"approve", "reject"} /\ Finish(r)
        /\ entries' = entries /\ product'.row = product.row
        /\ product.row # "gone" => product'.status = status
        /\ settled' = settled \/ (Quiet(r) /\ settled' = status /\ product.row = "live")
    BY <1>0, <1>10 DEF CommitDecision, Settle, Product
  <2>2. settled = "none"
    BY <1>0, <2>1 DEF SettledInv
  <2> QED  BY <1>5, <1>9, <2>1, <2>2 DEF SettledInv
<1>11. CASE CommitSoftDelete(r) \/ CommitDelete(r)
  <2>1. /\ req[r].pc \in Deciding /\ Finish(r) /\ entries' = {}
        /\ product'.row \in {"deleted", "gone"} /\ product'.status = product.status
        /\ product'.row = "gone" => req[r].entity.status = "inactive"
        /\ settled' = settled \/ (Quiet(r) /\ settled' = "deleted")
    BY <1>0, <1>11 DEF CommitSoftDelete, CommitDelete, Settle, Product
  <2>2. settled \in {"published", "rejected"} =>
           product.status = settled /\ req[r].entity.status = settled
    BY <2>1 DEF SettledInv
  <2>3. CASE settled' = settled
    BY <1>5, <1>6, <1>7, <2>1, <2>2, <2>3 DEF SettledInv
  <2>4. CASE Quiet(r) /\ settled' = "deleted"
    BY <1>5, <1>9, <2>1, <2>4 DEF SettledInv
  <2> QED  BY <2>1, <2>3, <2>4
<1>12. CASE StoreProduct(r)
  <2>1. req[r].pc \in Editing /\ entries' = entries /\ settled' = settled
    BY <1>12 DEF StoreProduct, ghosts
  <2>2. req[r].entity.row = "live" /\ settled # "deleted"
    BY <2>1 DEF SettledInv
  <2>3. /\ product' = product \/ product'.row # "none" \/ product.row = "none"
        /\ product.row # "gone" =>
              /\ product'.row # "gone"
              /\ product'.status \in {product.status, req[r].entity.status}
    BY <1>0, <1>12, <2>2 DEF StoreProduct, Product
  <2>4. settled \in {"published", "rejected"} =>
           /\ product.status = settled /\ req[r].entity.status = settled /\ product.row # "gone"
    BY <2>1 DEF SettledInv
  <2>5. product'.row = "none" => settled' = "none"
    BY <2>1, <2>3 DEF SettledInv
  <2> QED  BY <1>5, <1>6, <2>1, <2>2, <2>3, <2>4, <2>5 DEF SettledInv
<1>13. CASE CreateEmptyProduct(r)
  <2>1. settled' = settled /\ entries' = entries /\ (product' = product \/ product.row = "none")
    BY <1>13 DEF CreateEmptyProduct, ghosts
  <2>2. product' = product \/ settled = "none"
    BY <2>1 DEF SettledInv
  <2> QED  BY <1>5, <1>8, <2>1, <2>2 DEF SettledInv
<1>14. CASE InsertEntry(r) \/ DropEntry(r)
  <2>1. product' = product /\ settled' = settled
    BY <1>14 DEF InsertEntry, DropEntry, ghosts
  <2>2. settled = "deleted" => entries' = {}
    <3>1. InsertEntry(r) => req[r].pc = "list"
      BY DEF InsertEntry
    <3> QED  BY <1>14, <3>1 DEF SettledInv, DropEntry
  <2> QED  BY <1>5, <1>6, <1>7, <2>1, <2>2 DEF SettledInv
<1> QED
  BY <1>8, <1>10, <1>11, <1>12, <1>13, <1>14 DEF ServerStep, FindProduct, WriteProduct, SendMail,
     MailFails, LoadProduct, CompareProduct, FindImages, InsertImage, FindPhoto, RemovePhoto,
     DeleteFile, DeleteFileFails, ReplacePrimary, DemoteOthers, PromotePhoto, FindListed,
     FindWished, rows, ghosts

LEMMA SettledNext == TypeInv /\ SettledInv /\ [Next]_vars => SettledInv'
<1> SUFFICES ASSUME TypeInv, SettledInv, [Next]_vars  PROVE SettledInv'
  OBVIOUS
<1> USE DEF Deciding, Editing
<1>1. ASSUME NEW r \in Requests, AdminCall(r) \/ VendorCall(r) \/ BuyerCall(r)  PROVE SettledInv'
  <2>1. /\ req'[r].pc = "load"
        /\ UNCHANGED <<product, entries, settled>>
        /\ \A q \in Requests \ {r} : SameButAlone(q)
    BY <1>1, CallType DEF TypeInv
  <2> QED  BY <2>1 DEF SettledInv, SameButAlone
<1>2. ASSUME NEW u \in Users, RemoveFromWishlist(u) \/ RemoveFromCart(u)  PROVE SettledInv'
  BY <1>2 DEF RemoveFromWishlist, RemoveFromCart, ghosts, SettledInv
<1>3. CASE UNCHANGED vars
  BY <1>3 DEF vars, SettledInv
<1> QED
  BY <1>1, <1>2, <1>3, SettledStep DEF Next

LEMMA SettledCorrect == Spec => []SettledInv
<1>1. Init => SettledInv
  BY IdleType DEF Init, SettledInv, Deciding, Editing
<1>2. TypeInv /\ SettledInv /\ [Next]_vars => SettledInv'
  BY SettledNext
<1> QED
  BY <1>1, <1>2, TypeInvCorrect, PTL DEF Spec

\* A product that approveRequest published or rejectRequest rejected while nothing
\* else ran keeps the status: every decision that comes later finds it decided, and
\* updateProduct and uploadPdfFile save no other status than the one they read
THEOREM DecisionCorrect == Spec => []DecisionStands
<1>1. SettledInv => DecisionStands
  BY DEF SettledInv, DecisionStands
<1> QED
  BY <1>1, SettledCorrect, PTL

\* A product that deleteProduct or deleteProductByAdmin deleted while nothing else
\* ran is not found again, nor in a cart or wishlist: no handler has it in hand
THEOREM DeletionCorrect == Spec => []DeletedStaysDeleted
<1>1. SettledInv => DeletedStaysDeleted
  BY DEF SettledInv, DeletedStaysDeleted
<1> QED
  BY <1>1, SettledCorrect, PTL

(***************************************************************************)
(* One primary photo                                                       *)
(***************************************************************************)

One == images # {} => \E i \in Images : primary = {i}

\* A photo handler that runs by itself
ByItself(q) ==
    /\ q.pc = "load" => One
    /\ q.pc = "insert" => One /\ q.isPrimary = (images = {})
    /\ q.pc = "remove" => One /\ q.photo \subseteq images /\ q.isPrimary = (q.photo \subseteq primary)
    /\ q.pc = "file" => IF q.isPrimary THEN primary = {} ELSE One
    /\ q.pc = "replace" => primary = {} /\ q.photo \subseteq images

\* setPrimaryPhoto mends whatever there was before
Mending(q) ==
    q.alone => /\ q.pc \in {"demote", "promote"} => images = {} \/ q.photo \subseteq images
               /\ q.pc = "promote" => primary = {}

\* Nothing is stored before the product is
EmptyInv ==
    product.row = "none" => images = {} /\ \A r \in Requests : req[r].pc \in {"idle", "load"}

AloneInv ==
    \A r, q \in Requests :
       r # q /\ req[r].kind \in PhotoKinds /\ req[q].kind \in PhotoKinds => ~req[r].alone

PhotoHandler(q) ==
    /\ \E i \in Images : q.photo = {i}
    /\ Mending(q)
    /\ ~muddled => q.alone /\ ByItself(q)

HandlersInv == \A r \in Requests : req[r].kind \in PhotoKinds => PhotoHandler(req[r])

RestInv == ~muddled /\ (\A r \in Requests : req[r].kind \notin PhotoKinds) => One

PhotoInv == EmptyInv /\ AloneInv /\ HandlersInv /\ RestInv

LEMMA PhotoInit == Init => PhotoInv
<1> SUFFICES ASSUME Init  PROVE PhotoInv
  OBVIOUS
<1>1. \A r \in Requests : req[r].pc = "idle" /\ req[r].kind = "none"
  BY IdleType DEF Init
<1>2. EmptyInv /\ One
  BY <1>1 DEF Init, EmptyInv, One
<1> QED
  BY <1>1, <1>2 DEF PhotoInv, AloneInv, HandlersInv, RestInv, PhotoKinds

LEMMA PhotoCall ==
    ASSUME TypeInv, PhotoInv, NEW r \in Requests, AdminCall(r) \/ VendorCall(r) \/ BuyerCall(r)
    PROVE  PhotoInv'
<1> DEFINE rivals == {q \in Requests : req[q].kind \in PhotoKinds}
<1>1. /\ req[r].pc = "idle" /\ req'[r].pc = "load"
      /\ UNCHANGED <<product, images, primary>>
      /\ \A q \in Requests \ {r} : SameButAlone(q)
      /\ muddled \in BOOLEAN /\ req \in [Requests -> Request]
  BY CallType DEF TypeInv, TypeOK
<1>2. \/ /\ req'[r].kind \notin PhotoKinds /\ muddled' = muddled
         /\ \A q \in Requests \ {r} : req'[q].alone = req[q].alone
      \/ /\ req'[r].kind \in PhotoKinds
         /\ \E i \in Images : req'[r].photo = {i}
         /\ muddled' = (muddled \/ rivals # {})
         /\ req'[r].alone = (rivals = {})
         /\ \A q \in Requests \ {r} : req'[q].alone = (req[q].alone /\ q \notin rivals)
  BY CallType DEF TypeInv
<1>3. req[r].kind \notin PhotoKinds
  BY <1>1 DEF TypeInv, KindOfStage, PhotoKinds
<1>4. EmptyInv'
  BY <1>1 DEF PhotoInv, EmptyInv, SameButAlone
<1>5. One' = One
  BY <1>1 DEF One
\* What another handler needs stays true
<1>6. ASSUME NEW q \in Requests \ {r}, req'[q].kind \in PhotoKinds, muddled => muddled',
             req'[q].alone => req[q].alone, ~muddled' => req'[q].alone
      PROVE  PhotoHandler(req[q])'
  <2>1. PhotoHandler(req[q])
    BY <1>1, <1>6 DEF PhotoInv, HandlersInv, SameButAlone
  <2> QED  BY <1>1, <1>5, <1>6, <2>1 DEF PhotoHandler, Mending, ByItself, SameButAlone
<1>7. CASE /\ req'[r].kind \notin PhotoKinds /\ muddled' = muddled
           /\ \A q \in Requests \ {r} : req'[q].alone = req[q].alone
  <2>1. AloneInv'
    BY <1>1, <1>7 DEF PhotoInv, AloneInv, SameButAlone
  <2>2. \A q \in Requests : req[q].kind \in PhotoKinds /\ ~muddled => req[q].alone
    BY DEF PhotoInv, HandlersInv, PhotoHandler
  <2>3. HandlersInv'
    BY <1>1, <1>6, <1>7, <2>2 DEF HandlersInv, SameButAlone
  <2>4. RestInv'
    BY <1>1, <1>3, <1>5, <1>7 DEF PhotoInv, RestInv, SameButAlone
  <2> QED  BY <1>4, <2>1, <2>3, <2>4 DEF PhotoInv
<1>8. CASE /\ req'[r].kind \in PhotoKinds
           /\ \E i \in Images : req'[r].photo = {i}
           /\ muddled' = (muddled \/ rivals # {})
           /\ req'[r].alone = (rivals = {})
           /\ \A q \in Requests \ {r} : req'[q].alone = (req[q].alone /\ q \notin rivals)
  <2>1. \A q \in Requests \ {r} : req'[q].kind \in PhotoKinds => q \in rivals /\ ~req'[q].alone
    BY <1>1, <1>8 DEF SameButAlone
  <2>2. AloneInv'
    BY <1>8, <2>1 DEF AloneInv
  <2>3. PhotoHandler(req[r])'
    <3>1. ~muddled' => One
      BY <1>8 DEF PhotoInv, RestInv
    <3> QED  BY <1>1, <1>5, <1>8, <3>1 DEF PhotoHandler, Mending, ByItself
  <2>4. HandlersInv'
    <3>1. \A q \in Requests \ {r} : req'[q].kind \in PhotoKinds => muddled'
      BY <1>8, <2>1
    <3> QED  BY <1>6, <1>8, <2>1, <2>3, <3>1 DEF HandlersInv
  <2>5. RestInv'
    BY <1>8 DEF RestInv
  <2> QED  BY <1>4, <2>2, <2>4, <2>5 DEF PhotoInv
<1> QED
  BY <1>2, <1>7, <1>8

\* A photo handler that changes the photos does so by itself, or the photos are
\* muddled already
LEMMA PhotoChange ==
    ASSUME TypeInv, PhotoInv, NEW r \in Requests, req[r].kind \in PhotoKinds,
           req' \in [Requests -> Request], \A q \in Requests \ {r} : req'[q] = req[q],
           \/ req'[r].kind = req[r].kind /\ req'[r].alone = req[r].alone /\ PhotoHandler(req[r])'
           \/ req'[r] = Idle /\ (~muddled' => One'),
           ~muddled' => ~muddled \/ req[r].alone, EmptyInv'
    PROVE  PhotoInv'
<1>1. \A q \in Requests \ {r} : req[q].kind \in PhotoKinds => ~req[q].alone /\ ~req[r].alone
  BY DEF PhotoInv, AloneInv
<1>2. Idle.kind \notin PhotoKinds
  BY IdleType DEF PhotoKinds
<1>3. AloneInv'
  BY <1>1, <1>2 DEF PhotoInv, AloneInv
<1>4. ~muddled => req[r].alone
  BY DEF PhotoInv, HandlersInv, PhotoHandler
<1>5. ASSUME NEW q \in Requests \ {r}, req[q].kind \in PhotoKinds  PROVE PhotoHandler(req[q])'
  <2>1. PhotoHandler(req[q])
    BY <1>5 DEF PhotoInv, HandlersInv
  <2>2. ~req'[q].alone /\ muddled'
    BY <1>1, <1>4, <1>5
  <2>3. \E i \in Images : req'[q].photo = {i}
    BY <2>1 DEF PhotoHandler
  <2> QED  BY <2>2, <2>3 DEF PhotoHandler, Mending
<1>6. HandlersInv' /\ RestInv'
  BY <1>2, <1>5 DEF HandlersInv, RestInv
<1> QED
  BY <1>3, <1>6 DEF PhotoInv

\* No handler stores a photo for a product that is not there yet
LEMMA EmptyStep ==
    ASSUME TypeInv, SettledInv, PhotoInv, NEW r \in Requests, ServerStep(r)
    PROVE  EmptyInv'
<1>1. /\ \A q \in Requests \ {r} : req'[q] = req[q]
      /\ Leads(r) /\ Idle.pc = "idle" /\ req[r].kind # "none" /\ KindOfStage
      /\ product \in Product
  BY StepForm, IdleType DEF TypeInv, TypeOK
<1>2. product'.row = "none" => product.row = "none"
  <2>1. CASE StoreProduct(r)
    <3>1. req[r].entity.row = "live"
      BY <2>1 DEF StoreProduct, SettledInv, Editing
    <3> QED  BY <1>1, <2>1, <3>1 DEF StoreProduct, Product
  <2>2. CASE CommitDecision(r) \/ CommitSoftDelete(r) \/ CommitDelete(r) \/ CreateEmptyProduct(r)
    BY <1>1, <2>2 DEF CommitDecision, CommitSoftDelete, CommitDelete, CreateEmptyProduct, Product
  <2> QED
    BY <2>1, <2>2 DEF ServerStep, FindProduct, WriteProduct, SendMail, MailFails, LoadProduct,
       CompareProduct, FindImages, InsertImage, FindPhoto, RemovePhoto, DeleteFile,
       DeleteFileFails, ReplacePrimary, DemoteOthers, PromotePhoto, FindListed, InsertEntry,
       FindWished, DropEntry, rows
<1> SUFFICES ASSUME product.row = "none", product'.row = "none"
             PROVE  images' = {} /\ \A q \in Requests : req'[q].pc \in {"idle", "load"}
  BY <1>2 DEF EmptyInv
<1>3. images = {} /\ req[r].pc = "load" /\ \A q \in Requests : req[q].pc \in {"idle", "load"}
  BY <1>1 DEF PhotoInv, EmptyInv, KindOfStage
<1>4. images' = images
  BY <1>3 DEF ServerStep, FindProduct, WriteProduct, SendMail, MailFails, CommitDecision,
     CommitSoftDelete, CommitDelete, LoadProduct, CompareProduct, StoreProduct, FindImages,
     CreateEmptyProduct, InsertImage, FindPhoto, RemovePhoto, DeleteFile, DeleteFileFails,
     ReplacePrimary, DemoteOthers, PromotePhoto, FindListed, InsertEntry, FindWished, DropEntry, rows
<1>5. req'[r] = Idle
  BY <1>1, <1>3 DEF Leads, Found, WriteProduct, SendMail, CompareProduct, RemovePhoto, DeleteFile,
     DemoteOthers
<1> QED
  BY <1>1, <1>3, <1>4, <1>5

LEMMA PhotoStep ==
    ASSUME TypeInv, SettledInv, PhotoInv, NEW r \in Requests, ServerStep(r)
    PROVE  PhotoInv'
<1>0. /\ req' \in [Requests -> Request] /\ \A q \in Requests \ {r} : req'[q] = req[q]
      /\ Leads(r) /\ EmptyInv' /\ TypeOK /\ KindOfStage
      /\ Idle.pc = "idle" /\ Idle.kind = "none" /\ req[r].kind # "none" /\ req[r] \in Request
  BY StepForm, EmptyStep, IdleType DEF TypeInv, TypeOK
<1>1. /\ primary \subseteq images /\ images \subseteq used /\ muddled \in BOOLEAN
      /\ req[r].isPrimary \in BOOLEAN /\ used \subseteq Images
  BY <1>0 DEF TypeOK, Request
<1>2. req[r].kind \in PhotoKinds => PhotoHandler(req[r])
  BY DEF PhotoInv, HandlersInv
\* Another handler: at most it removes the product
<1>3. CASE req[r].kind \notin PhotoKinds
  <2>1. req'[r].kind \notin PhotoKinds
    BY <1>0, <1>3 DEF Leads, PhotoKinds
  <2>2. \/ UNCHANGED <<images, primary, muddled>>
        \/ /\ images' = {} /\ primary' = {}
           /\ muddled' = (muddled \/ \E q \in Requests : req[q].kind \in PhotoKinds)
    <3>1. req[r].pc \notin {"insert", "remove", "file", "replace", "demote", "promote"}
      BY <1>0, <1>3 DEF KindOfStage, PhotoKinds
    <3> QED
      BY <3>1 DEF ServerStep, FindProduct, WriteProduct, SendMail, MailFails, CommitDecision,
         CommitSoftDelete, CommitDelete, LoadProduct, CompareProduct, StoreProduct, FindImages,
         CreateEmptyProduct, InsertImage, FindPhoto, RemovePhoto, DeleteFile, DeleteFileFails,
         ReplacePrimary, DemoteOthers, PromotePhoto, FindListed, InsertEntry, FindWished,
         DropEntry, rows, ghosts
  <2>3. AloneInv'
    BY <1>0, <1>3, <2>1 DEF PhotoInv, AloneInv
  <2>4. ASSUME NEW q \in Requests, req'[q].kind \in PhotoKinds  PROVE PhotoHandler(req[q])'
    <3>1. q # r /\ req'[q] = req[q] /\ PhotoHandler(req[q])
      BY <1>0, <2>1, <2>4 DEF PhotoInv, HandlersInv
    <3>2. CASE UNCHANGED <<images, primary, muddled>>
      BY <3>1, <3>2 DEF PhotoHandler, Mending, ByItself, One
    <3>3. CASE images' = {} /\ primary' = {} /\ muddled'
      BY <3>1, <3>3 DEF PhotoHandler, Mending
    <3> QED  BY <2>2, <2>4, <3>1, <3>2, <3>3
  <2>5. RestInv'
    BY <1>0, <1>3, <2>1, <2>2 DEF PhotoInv, RestInv, One
  <2> QED  BY <1>0, <2>3, <2>4, <2>5 DEF PhotoInv, HandlersInv
<1>4. ASSUME req[r].kind \in PhotoKinds,
             \/ req'[r].kind = req[r].kind /\ req'[r].alone = req[r].alone /\ PhotoHandler(req[r])'
             \/ req'[r] = Idle /\ (~muddled' => One'),
             ~muddled' => ~muddled \/ req[r].alone
      PROVE  PhotoInv'
  BY <1>0, <1>4, PhotoChange
\* An upload
<1>5. CASE FindImages(r) \/ CreateEmptyProduct(r)
  <2>1. /\ req[r].pc = "load" /\ req[r].kind \in PhotoKinds
        /\ UNCHANGED <<images, primary, muddled>>
    BY <1>5 DEF FindImages, CreateEmptyProduct, PhotoKinds, rows, ghosts
  <2>2. ~muddled => One
    BY <1>2, <2>1 DEF PhotoHandler, ByItself
  <2>3. CASE req'[r] = Idle
    BY <1>4, <2>1, <2>2, <2>3 DEF One
  <2>4. CASE req'[r] # Idle
    <3>1. /\ req'[r].kind = req[r].kind /\ req'[r].alone = req[r].alone
          /\ req'[r].photo = req[r].photo /\ req'[r].pc = "insert"
          /\ req'[r].isPrimary = (images = {})
      BY <1>0, <1>5, <2>1, <2>4 DEF Leads, FindProduct, WriteProduct, SendMail, LoadProduct,
         CompareProduct, FindPhoto, RemovePhoto, DeleteFile, DemoteOthers, FindListed, FindWished,
         PhotoInv, EmptyInv, FindImages, CreateEmptyProduct
    <3>2. PhotoHandler(req[r])'
      BY <1>2, <2>1, <2>2, <3>1 DEF PhotoHandler, Mending, ByItself, One
    <3> QED  BY <1>4, <2>1, <3>1, <3>2
  <2> QED  BY <2>3, <2>4
<1>6. CASE InsertImage(r)
  <2>1. /\ req[r].pc = "insert" /\ req[r].kind \in PhotoKinds /\ muddled' = muddled
        /\ req'[r] = Idle
    BY <1>0, <1>6, FinishType DEF InsertImage, ghosts, KindOfStage, PhotoKinds
  <2>2. ASSUME ~muddled  PROVE One'
    <3>1. One /\ req[r].isPrimary = (images = {}) /\ \E i \in Images : req[r].photo = {i}
      BY <1>2, <2>1, <2>2 DEF PhotoHandler, ByItself
    <3>2. \/ UNCHANGED <<images, primary>>
          \/ /\ req[r].photo \subseteq req[r].photo \ used
             /\ images' = images \cup req[r].photo
             /\ primary' = IF req[r].isPrimary THEN primary \cup req[r].photo ELSE primary
      BY <1>6, <3>1 DEF InsertImage
    <3> QED  BY <1>1, <3>1, <3>2 DEF One
  <2> QED  BY <1>4, <2>1, <2>2
\* The deletion of a photo
<1>7. CASE FindPhoto(r)
  <2>1. /\ req[r].pc = "load" /\ req[r].kind \in PhotoKinds
        /\ UNCHANGED <<images, primary, muddled>>
    BY <1>7 DEF FindPhoto, PhotoKinds, rows, ghosts
  <2>2. ~muddled => One
    BY <1>2, <2>1 DEF PhotoHandler, ByItself
  <2>3. CASE req'[r] = Idle
    BY <1>4, <2>1, <2>2, <2>3 DEF One
  <2>4. CASE req'[r] # Idle
    <3>1. /\ req'[r].kind = req[r].kind /\ req'[r].alone = req[r].alone
          /\ req'[r].photo = req[r].photo /\ req'[r].pc \in {"demote", "remove"}
          /\ req'[r].isPrimary = (req[r].photo \subseteq primary)
          /\ req[r].photo \subseteq images
      BY <1>0, <1>7, <2>1, <2>4 DEF Leads, FindProduct, WriteProduct, SendMail, LoadProduct,
         CompareProduct, FindPhoto, RemovePhoto, DeleteFile, DemoteOthers, FindListed, FindWished,
         FindImages, CreateEmptyProduct
    <3>2. PhotoHandler(req[r])'
      BY <1>2, <2>1, <2>2, <3>1 DEF PhotoHandler, Mending, ByItself, One
    <3> QED  BY <1>4, <2>1, <3>1, <3>2
  <2> QED  BY <2>3, <2>4
<1>8. CASE RemovePhoto(r)
  <2>1. /\ req[r].pc = "remove" /\ req[r].kind \in PhotoKinds /\ muddled' = muddled
        /\ images' = images \ req[r].photo /\ primary' = primary \ req[r].photo
        /\ Goto(r, "file")
    BY <1>0, <1>8 DEF RemovePhoto, ghosts, KindOfStage, PhotoKinds
  <2>2. /\ req'[r].kind = req[r].kind /\ req'[r].alone = req[r].alone /\ req'[r].pc = "file"
        /\ req'[r].photo = req[r].photo /\ req'[r].isPrimary = req[r].isPrimary
    BY <1>0, <2>1, GotoType DEF Continues, Stages
  <2>3. ASSUME ~muddled  PROVE IF req[r].isPrimary THEN primary' = {} ELSE One'
    <3>1. /\ One /\ req[r].photo \subseteq images
          /\ req[r].isPrimary = (req[r].photo \subseteq primary)
          /\ \E i \in Images : req[r].photo = {i}
      BY <1>2, <2>1, <2>3 DEF PhotoHandler, ByItself
    <3> QED  BY <1>1, <2>1, <3>1 DEF One
  <2>4. PhotoHandler(req[r])'
    BY <1>2, <2>1, <2>2, <2>3 DEF PhotoHandler, Mending, ByItself
  <2> QED  BY <1>4, <2>1, <2>2, <2>4
<1>9. CASE DeleteFile(r)
  <2>1. /\ req[r].pc = "file" /\ req[r].kind \in PhotoKinds
        /\ UNCHANGED <<images, primary>>
    BY <1>0, <1>9 DEF DeleteFile, rows, KindOfStage, PhotoKinds
  <2>2. ~muddled => IF req[r].isPrimary THEN primary = {} ELSE One
    BY <1>2, <2>1 DEF PhotoHandler, ByItself
  <2>3. ASSUME NEW i \in images \ primary, req[r].isPrimary, UNCHANGED muddled,
               req' = [req EXCEPT ![r].pc = "replace", ![r].photo = {i}]
        PROVE  PhotoInv'
    <3>2. Continues(r, "replace") /\ req'[r].photo = {i}
      <4>1. {i} \in SUBSET Images /\ "replace" \in Stages
        BY <1>1 DEF Stages
      <4>2. TypeOK
        BY <1>0
      <4> QED  BY <2>3, <4>1, <4>2, PhotoType
    <3>3. PhotoHandler(req[r])'
      BY <1>1, <1>2, <2>1, <2>2, <2>3, <3>2 DEF PhotoHandler, Mending, ByItself, Continues
    <3> QED  BY <1>4, <2>1, <2>3, <3>2, <3>3 DEF Continues
  <2>4. ASSUME Finish(r), muddled' = (muddled \/ (req[r].isPrimary /\ images \ primary # {}))
        PROVE  PhotoInv'
    <3>1. req'[r] = Idle
      BY <1>0, <2>4, FinishType
    <3>2. ~muddled' => One'
      BY <1>1, <2>1, <2>2, <2>4 DEF One
    <3>3. muddled => muddled'
      BY <2>4
    <3> QED  BY <1>4, <2>1, <3>1, <3>2, <3>3
  <2> QED  BY <1>9, <2>3, <2>4 DEF DeleteFile
<1>10. CASE DeleteFileFails(r)
  <2>1. /\ req[r].pc = "file" /\ req[r].kind \in PhotoKinds /\ req'[r] = Idle
        /\ UNCHANGED <<images, primary>> /\ muddled' = (muddled \/ req[r].isPrimary)
    BY <1>0, <1>10, FinishType DEF DeleteFileFails, rows, KindOfStage, PhotoKinds
  <2>2. ~muddled' => One'
    BY <1>1, <1>2, <2>1 DEF PhotoHandler, ByItself, One
  <2> QED  BY <1>1, <1>4, <2>1, <2>2
<1>11. CASE ReplacePrimary(r)
  <2>1. /\ req[r].pc = "replace" /\ req[r].kind \in PhotoKinds /\ req'[r] = Idle
        /\ UNCHANGED <<images, muddled>> /\ primary' = primary \cup (req[r].photo \cap images)
    BY <1>0, <1>11, FinishType DEF ReplacePrimary, ghosts, KindOfStage, PhotoKinds
  <2>2. ~muddled' => One'
    BY <1>2, <2>1 DEF PhotoHandler, ByItself, One
  <2> QED  BY <1>4, <2>1, <2>2
\* A photo made primary
<1>12. CASE DemoteOthers(r)
  <2>1. /\ req[r].pc = "demote" /\ req[r].kind \in PhotoKinds
        /\ UNCHANGED <<images, muddled>> /\ primary' = {} /\ Goto(r, "promote")
    BY <1>0, <1>12 DEF DemoteOthers, ghosts, KindOfStage, PhotoKinds
  <2>2. /\ req'[r].kind = req[r].kind /\ req'[r].alone = req[r].alone /\ req'[r].pc = "promote"
        /\ req'[r].photo = req[r].photo
    BY <1>0, <2>1, GotoType DEF Continues, Stages
  <2>3. PhotoHandler(req[r])'
    BY <1>2, <2>1, <2>2 DEF PhotoHandler, Mending, ByItself
  <2> QED  BY <1>4, <2>1, <2>2, <2>3
<1>13. CASE PromotePhoto(r)
  <2>1. /\ req[r].pc = "promote" /\ req[r].kind \in PhotoKinds /\ req'[r] = Idle
        /\ SavePrimary(r) /\ muddled' = (muddled /\ ~req[r].alone)
    BY <1>0, <1>13, FinishType DEF PromotePhoto, KindOfStage, PhotoKinds
  <2>2. ASSUME ~muddled'  PROVE req[r].alone /\ One'
    <3>1. req[r].alone
      BY <1>2, <2>1, <2>2 DEF PhotoHandler
    <3>2. /\ primary = {} /\ (images = {} \/ req[r].photo \subseteq images)
          /\ \E i \in Images : req[r].photo = {i}
      BY <1>2, <2>1, <3>1 DEF PhotoHandler, Mending
    <3> QED  BY <2>1, <3>1, <3>2 DEF SavePrimary, One
  <2> QED  BY <1>4, <2>1, <2>2
<1>14. req[r].kind \in PhotoKinds =>
          \/ FindImages(r) \/ CreateEmptyProduct(r) \/ InsertImage(r) \/ FindPhoto(r)
          \/ RemovePhoto(r) \/ DeleteFile(r) \/ DeleteFileFails(r) \/ ReplacePrimary(r)
          \/ DemoteOthers(r) \/ PromotePhoto(r)
  BY <1>0 DEF ServerStep, FindProduct, WriteProduct, SendMail, MailFails, CommitDecision,
     CommitSoftDelete, CommitDelete, LoadProduct, CompareProduct, StoreProduct, FindListed,
     InsertEntry, FindWished, DropEntry, KindOfStage, PhotoKinds
<1> QED
  BY <1>3, <1>5, <1>6, <1>7, <1>8, <1>9, <1>10, <1>11, <1>12, <1>13, <1>14

LEMMA PhotoNext == TypeInv /\ SettledInv /\ PhotoInv /\ [Next]_vars => PhotoInv'
<1> SUFFICES ASSUME TypeInv, SettledInv, PhotoInv, [Next]_vars  PROVE PhotoInv'
  OBVIOUS
<1>1. CASE UNCHANGED <<product, images, primary, muddled, req>>
  BY <1>1 DEF PhotoInv, EmptyInv, AloneInv, HandlersInv, RestInv, PhotoHandler, Mending, ByItself, One
<1>2. ASSUME NEW u \in Users, RemoveFromWishlist(u) \/ RemoveFromCart(u)  PROVE PhotoInv'
  BY <1>1, <1>2 DEF RemoveFromWishlist, RemoveFromCart, ghosts
<1>3. CASE UNCHANGED vars
  BY <1>1, <1>3 DEF vars
<1> QED
  BY <1>2, <1>3, PhotoCall, PhotoStep DEF Next

LEMMA PhotoInvCorrect == Spec => []PhotoInv
BY PhotoInit, PhotoNext, TypeInvCorrect, SettledCorrect, PTL DEF Spec

\* When no photo is being uploaded, deleted or made primary, a product with photos
\* has exactly one primary photo, unless updateProductPhoto, deleteProductPhoto or
\* setPrimaryPhoto have overlapped, with each other or with the product's removal,
\* or failed half-way, and setPrimaryPhoto has not mended it by itself since
THEOREM PhotoCorrect == Spec => []OnePrimaryPhoto
<1>1. PhotoInv => OnePrimaryPhoto
  BY FS_Singleton DEF PhotoInv, RestInv, One, OnePrimaryPhoto
<1> QED
  BY <1>1, PhotoInvCorrect, PTL
=============================================================================
