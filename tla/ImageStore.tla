----------------------------- MODULE ImageStore -----------------------------
(***************************************************************************)
(* Images in the bucket and their keys in the database: createClothes,     *)
(* updateClothes and deleteClothesById of ClothesServiceImpl, and the      *)
(* image of updateProfile in BasicUserService.                             *)
(*                                                                         *)
(* The bucket takes no part in the transaction: what a request deletes or  *)
(* uploads stays so when the request is rolled back.  Rows are loaded at   *)
(* the start, and a changed one is written back with all its columns (the  *)
(* key among them) at the commit, here one step with its flush.            *)
(***************************************************************************)
EXTENDS Integers, FiniteSets

CONSTANTS Workers,      \* servlet threads
          Clothes,      \* clothes ids
          Profiles,     \* profiles, one per user, there from the beginning
          MaxRequests   \* bound: requests in a behaviour

\* initAdmin gives the server its first user, and the user a profile.
ASSUME ImageAssumption ==
    MaxRequests \in Nat /\ Clothes \cap Profiles = {} /\ Profiles # {}

VARIABLES stored,       \* clothes and profiles in the database
          imageKey,     \* the key in the row of each
          bucket,       \* keys of the objects in the bucket
          ownerOf,      \* ghost: for which item each key was made
          tx,           \* the request each worker is at
          reqs,         \* requests so far; numbers the keys they make
          spoiled       \* ghost: items that met a failure or an overtaken copy

vars == <<stored, imageKey, bucket, ownerOf, tx, reqs, spoiled>>

---------------------------------------------------------------------------
(* Types *)

Items == Clothes \cup Profiles
NoKey == 0                              \* "" for clothes, null for a profile
Requests == 1..MaxRequests
Keys == Requests \cup {NoKey}
Idle == [pc |-> "idle"]
Ops == {"create", "replace", "touch", "remove"}
OpenTx == [pc : {"erase", "upload", "commit"}, op : Ops, item : Items, id : Requests,
           read : Keys, key : Keys,     \* the key as loaded, as it will be written
           touched : BOOLEAN,           \* ghost: it has changed the bucket
           stale : BOOLEAN]             \* ghost: the row was written since it was loaded

TypeOK ==
    /\ stored \subseteq Items
    /\ imageKey \in [Items -> Keys]
    /\ bucket \subseteq Requests
    /\ ownerOf \in [Requests -> Items]
    /\ tx \in [Workers -> {Idle} \cup OpenTx]
    /\ reqs \in 0..MaxRequests
    /\ spoiled \subseteq Items

Open(w) == tx[w].pc # "idle"
At(w, pc) == tx[w].pc = pc

---------------------------------------------------------------------------
(* Beginnings *)

Start(w, op, i, pc, id) ==
    /\ reqs < MaxRequests
    /\ ~Open(w)
    /\ reqs' = id
    /\ tx' = [tx EXCEPT ![w] = [pc |-> pc, op |-> op, item |-> i, id |-> id,
                                read |-> imageKey[i], key |-> imageKey[i],
                                touched |-> FALSE, stale |-> FALSE]]
    /\ ownerOf' = [ownerOf EXCEPT ![id] = i]
    /\ UNCHANGED <<stored, imageKey, bucket, spoiled>>

\* createClothes, with an image or without.
BeginCreate(w, i, image) ==
    /\ i \in Clothes \ stored
    /\ \A v \in Workers : Open(v) => tx[v].item # i         \* ids are not reused while in use
    /\ Start(w, "create", i, IF image THEN "upload" ELSE "commit", reqs + 1)

\* updateClothes or updateProfile with a new image: the old one goes first.
BeginReplace(w, i) ==
    /\ i \in stored
    /\ Start(w, "replace", i, IF imageKey[i] = NoKey THEN "upload" ELSE "erase", reqs + 1)

\* The same without an image: other columns change, the key is written back.
BeginTouch(w, i) ==
    /\ i \in stored
    /\ Start(w, "touch", i, "commit", reqs + 1)

BeginRemove(w, i) ==
    /\ i \in Clothes \cap stored
    /\ Start(w, "remove", i, IF imageKey[i] = NoKey THEN "commit" ELSE "erase", reqs + 1)

---------------------------------------------------------------------------
(* The bucket *)

AfterErase(w) == IF tx[w].op = "replace" THEN "upload" ELSE "commit"

\* Mutant: the old image is not deleted.
EraseNothing(w) ==
    /\ At(w, "erase")
    /\ tx' = [tx EXCEPT ![w].pc = AfterErase(w), ![w].touched = TRUE]
    /\ UNCHANGED <<stored, imageKey, bucket, ownerOf, reqs, spoiled>>

\* deleteByKey; deleting an object that is gone succeeds.
Erase(w) ==
    /\ At(w, "erase")
    /\ bucket' = bucket \ {tx[w].read}
    /\ tx' = [tx EXCEPT ![w].pc = AfterErase(w), ![w].touched = TRUE]
    /\ UNCHANGED <<stored, imageKey, ownerOf, reqs, spoiled>>

\* Mutant: updateClothes does not call updateImageKey.
KeyOfLoaded(w) == IF tx[w].op = "replace" THEN tx[w].key ELSE tx[w].id
KeyOfUpload(w) == tx[w].id

\* upload, under a new key; then the key goes into the entity.
Upload(w) ==
    /\ At(w, "upload")
    /\ bucket' = bucket \cup {tx[w].id}
    /\ tx' = [tx EXCEPT ![w].pc = "commit", ![w].key = KeyOfUpload(w), ![w].touched = TRUE]
    /\ UNCHANGED <<stored, imageKey, ownerOf, reqs, spoiled>>

---------------------------------------------------------------------------
(* Ends *)

Spoil(i, cond) == spoiled' = IF cond THEN spoiled \cup {i} ELSE spoiled

\* The row was written or deleted: other copies of it are stale.
FinishWriting(w) ==
    tx' = [v \in Workers |->
              IF v = w THEN Idle
              ELSE IF Open(v) /\ tx[v].item = tx[w].item
                   THEN [tx[v] EXCEPT !.stale = TRUE]
                   ELSE tx[v]]

NegativeKey(w) == tx[w].key - 1         \* Mutant: a key that nobody made.
WrittenKey(w) == tx[w].key

CommitCreate(w) ==
    /\ At(w, "commit") /\ tx[w].op = "create"
    /\ stored' = stored \cup {tx[w].item}
    /\ imageKey' = [imageKey EXCEPT ![tx[w].item] = WrittenKey(w)]
    /\ FinishWriting(w)
    /\ UNCHANGED <<bucket, ownerOf, reqs, spoiled>>

CommitUpdate(w) ==
    /\ At(w, "commit") /\ tx[w].op \in {"replace", "touch"}
    /\ tx[w].item \in stored
    /\ imageKey' = [imageKey EXCEPT ![tx[w].item] = WrittenKey(w)]
    /\ Spoil(tx[w].item, tx[w].stale)
    /\ FinishWriting(w)
    /\ UNCHANGED <<stored, bucket, ownerOf, reqs>>

CommitRemove(w) ==
    /\ At(w, "commit") /\ tx[w].op = "remove"
    /\ tx[w].item \in stored
    /\ stored' = stored \ {tx[w].item}
    /\ imageKey' = [imageKey EXCEPT ![tx[w].item] = NoKey]
    /\ Spoil(tx[w].item, tx[w].stale)
    /\ FinishWriting(w)
    /\ UNCHANGED <<bucket, ownerOf, reqs>>

\* The bucket refuses, an attribute definition is not found, the database
\* refuses, or the server stops: the rows stay, and so does what was done to
\* the bucket.
Rollback(w) ==
    /\ Open(w)
    /\ tx' = [tx EXCEPT ![w] = Idle]
    /\ Spoil(tx[w].item, tx[w].touched)
    /\ UNCHANGED <<stored, imageKey, bucket, ownerOf, reqs>>

---------------------------------------------------------------------------

Init ==
    /\ stored = Profiles
    /\ imageKey = [i \in Items |-> NoKey]
    /\ bucket = {}
    /\ ownerOf = [id \in Requests |-> CHOOSE i \in Items : TRUE]
    /\ tx = [w \in Workers |-> Idle]
    /\ reqs = 0
    /\ spoiled = {}

Begin(w) ==
    \E i \in Items :
        \/ \E image \in BOOLEAN : BeginCreate(w, i, image)
        \/ BeginReplace(w, i) \/ BeginTouch(w, i) \/ BeginRemove(w, i)

Next ==
    \E w \in Workers :
        \/ Begin(w) \/ Erase(w) \/ Upload(w)
        \/ CommitCreate(w) \/ CommitUpdate(w) \/ CommitRemove(w) \/ Rollback(w)

Spec == Init /\ [][Next]_vars

---------------------------------------------------------------------------
(* Properties *)

AtWork(i) == \E w \in Workers : Open(w) /\ tx[w].touched /\ tx[w].item = i

\* A stored key has its object, unless a request is just replacing it.  The
\* exceptions are items at which a request failed after it had changed the
\* bucket, or whose row was written from an overtaken copy (an update of the
\* name alone, for one, brings back the key of an image that was replaced).
StoredImagesExist ==
    \A i \in stored \ spoiled :
        imageKey[i] = NoKey \/ imageKey[i] \in bucket \/ AtWork(i)

\* An object in the bucket is the image of the item it was made for or about
\* to become it, with the same exceptions: none is left that nobody refers to.
NoOrphanObjects ==
    \A k \in bucket :
        \/ imageKey[ownerOf[k]] = k
        \/ \E w \in Workers : Open(w) /\ tx[w].id = k
        \/ ownerOf[k] \in spoiled
=============================================================================
