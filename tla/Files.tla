-------------------------------- MODULE Files --------------------------------
(***************************************************************************)
(* What operators store: documents, which count towards the storage of     *)
(* their plan, and the photos of a listing, which do not                   *)
(* (services/storage.py, services/marketplace_photos.py, models/document.py*)
(* and the pages that upload).                                             *)
(*                                                                         *)
(* A file is stored at once; the row that tells of it is committed later,  *)
(* and until then the operator is locked.                                  *)
(***************************************************************************)
EXTENDS Integers, Sequences, FiniteSets, Functions

CONSTANTS
    Requests,
    Sizes,
    Limits,         \* storage that a plan may have
    NoLimit,        \* the plan has all features, or no limit on storage
    MAX_PHOTOS,
    MaxFiles        \* bound: files ever stored

VARIABLES
    stored,         \* the keys in the backend's store, and how many there ever were
    documents,      \* rows, with their keys and sizes
    photos,         \* rows of one listing, with their keys and places
    limit,          \* in force, or scheduled to be
    requests

vars == <<stored, documents, photos, limit, requests>>

Idle == [op |-> "none", size |-> 0, count |-> 0, todo |-> 0, rows |-> {}, photo |-> 0, within |-> NoLimit]

Init ==
    /\ stored = [keys |-> {}, made |-> 0]
    /\ documents = {} /\ photos = {}
    /\ limit \in Limits
    /\ requests = [r \in Requests |-> Idle]
-----------------------------------------------------------------------------
storage_used(rows) == SumFunctionOnSet([d \in rows |-> d.size], rows)

\* A mutation of Locked: the operator is read without FOR UPDATE.
LockedByNobody(r) == FALSE

\* An upload locks the operator, until its request commits.
Locked(r) == \E q \in Requests \ {r} : requests[q].rows # {}

Begin(r, op, size, todo) ==
    /\ requests[r] = Idle
    /\ requests' = [requests EXCEPT ![r] =
        [Idle EXCEPT !.op = op, !.size = size, !.todo = todo, !.count = Cardinality(photos)]]
    /\ UNCHANGED <<stored, documents, photos, limit>>

\* operator_documents, company_documents, the receipt of expense_new, the contract of an agreement;
OperatorDocuments(r, size) == Begin(r, "document", size, 1)
CompanyDocuments(r, size) == Begin(r, "document", size, 1)
ExpenseReceipt(r, size) == Begin(r, "document", size, 1)
StoreContract(r, size) == Begin(r, "document", size, 1)

\* owner_details_page, with several files at once;
OwnerDetails(r, size, files) == Begin(r, "document", size, files)

\* add_photo counts the photos before it is locked out by another.
AddPhoto(r) == Cardinality(photos) < MAX_PHOTOS /\ Begin(r, "photo", 1, 1)

Key == stored.made + 1

\* StorageService.upload, with the rows of the request that are flushed: the file is in the store.
Fits(r) ==
    limit = NoLimit \/ storage_used(documents \union requests[r].rows) + requests[r].size <= limit

Upload(r) ==
    LET q == requests[r]
    IN /\ q.todo > 0 /\ ~Locked(r)
       /\ IF Fits(r)
          THEN /\ stored.made < MaxFiles
               /\ stored' = [keys |-> stored.keys \union {Key}, made |-> Key]
               /\ requests' = [requests EXCEPT
                    ![r].todo = @ - 1, ![r].rows = @ \union {[key |-> Key, size |-> q.size]},
                    ![r].within = limit]
          ELSE requests' = [requests EXCEPT ![r] = Idle] /\ UNCHANGED stored     \* QuotaExceeded
       /\ UNCHANGED <<documents, photos, limit>>

\* The commit of the rows.  A photo is put after those that were counted.
Commit(r) ==
    LET q == requests[r]
    IN /\ q.rows # {} /\ q.todo = 0
       /\ IF q.op = "photo"
          THEN /\ photos' = photos \union {[key |-> d.key, place |-> q.count] : d \in q.rows}
               /\ UNCHANGED documents
          ELSE documents' = documents \union q.rows /\ UNCHANGED photos
       /\ requests' = [requests EXCEPT ![r] = Idle]
       /\ UNCHANGED <<stored, limit>>

\* delete_photo: the file goes first,
DeletePhotoFile(r, p) ==
    /\ requests[r] = Idle
    /\ stored' = [stored EXCEPT !.keys = @ \ {p.key}]
    /\ requests' = [requests EXCEPT ![r] = [Idle EXCEPT !.op = "delete", !.photo = p.key]]
    /\ UNCHANGED <<documents, photos, limit>>

\* and then its row.
DeletePhotoRow(r) ==
    /\ requests[r].op = "delete"
    /\ photos' = {p \in photos : p.key # requests[r].photo}
    /\ requests' = [requests EXCEPT ![r] = Idle]
    /\ UNCHANGED <<stored, documents, limit>>

\* make_cover: the photo comes first, and the others keep their order.
Before(p, q) == p.place < q.place \/ (p.place = q.place /\ p.key < q.key)

MakeCover(cover) ==
    /\ photos' = {[p EXCEPT !.place =
                      IF p = cover THEN 0
                      ELSE 1 + Cardinality({q \in photos \ {cover} : Before(q, p)})] : p \in photos}
    /\ UNCHANGED <<stored, documents, limit, requests>>

\* A request fails, or its process ends: what it has stored stays stored.
Die(r) ==
    /\ requests[r] # Idle
    /\ requests' = [requests EXCEPT ![r] = Idle]
    /\ UNCHANGED <<stored, documents, photos, limit>>

\* storage_limit_mb changes with the plan and its add-ons; nothing waits for that.
LimitChanges(new) ==
    /\ new # limit
    /\ limit' = new
    /\ UNCHANGED <<stored, documents, photos, requests>>

Next ==
    \/ \E r \in Requests :
        \/ \E size \in Sizes : \/ OperatorDocuments(r, size) \/ CompanyDocuments(r, size)
                               \/ ExpenseReceipt(r, size) \/ StoreContract(r, size)
                               \/ \E files \in 1..3 : OwnerDetails(r, size, files)
        \/ AddPhoto(r) \/ Upload(r) \/ Commit(r)
        \/ \E p \in photos : DeletePhotoFile(r, p)
        \/ DeletePhotoRow(r) \/ Die(r)
    \/ \E p \in photos : MakeCover(p)
    \/ \E new \in Limits \union {NoLimit} : LimitChanges(new)
-----------------------------------------------------------------------------
TypeOK ==
    /\ stored.keys \subseteq 1..stored.made /\ stored.made \in 0..MaxFiles
    /\ documents \subseteq [key: 1..MaxFiles, size: Sizes]
    /\ photos \subseteq [key: 1..MaxFiles, place: Nat]
    /\ limit \in Limits \union {NoLimit}

\* A document that is added leaves what is stored within what the plan allowed when its file was
\* stored, however uploads overlap; and no document is without its file, whatever fails
\* (StorageService.upload).
StoredWithinLimit ==
    [][documents' # documents =>
        /\ \E r \in Requests :
            /\ requests[r].rows # {} /\ requests'[r] = Idle
            /\ requests[r].within = NoLimit \/ storage_used(documents') <= requests[r].within
        /\ \A d \in documents' : d.key \in stored.keys]_vars
=============================================================================
