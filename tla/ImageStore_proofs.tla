-------------------------- MODULE ImageStore_proofs --------------------------
(***************************************************************************)
(* Proofs about ImageStore, for any workers, clothes, profiles and number  *)
(* of requests.                                                            *)
(***************************************************************************)
EXTENDS ImageStore, TLAPS

---------------------------------------------------------------------------
(* The inductive invariant *)

\* Keys are made by requests that have begun.
PastKeys ==
    /\ \A k \in bucket : k <= reqs
    /\ \A i \in Items : imageKey[i] <= reqs
    /\ \A w \in Workers : Open(w) => tx[w].id <= reqs /\ tx[w].read <= reqs

\* A key is used for the item it was made for only.
OwnKeys ==
    /\ \A i \in Items : imageKey[i] # NoKey => ownerOf[imageKey[i]] = i
    /\ \A w \in Workers : Open(w) =>
          /\ ownerOf[tx[w].id] = tx[w].item
          /\ tx[w].read # NoKey => ownerOf[tx[w].read] = tx[w].item

\* The key a request makes is known to nobody else before it commits.
NewKeys ==
    \A w \in Workers : Open(w) =>
        /\ \A i \in Items : imageKey[i] # tx[w].id
        /\ \A v \in Workers : Open(v) =>
              /\ tx[v].read # tx[w].id
              /\ v # w => tx[v].id # tx[w].id

\* Clothes that are not in the database have no key, and one that is being
\* created is not in the hands of another request, so that nobody overtakes it.
AbsentBlank == \A i \in Items \ stored : imageKey[i] = NoKey
CreatedAlone ==
    \A w \in Workers : Open(w) /\ tx[w].op = "create" =>
        /\ tx[w].item \notin stored /\ ~tx[w].stale
        /\ \A v \in Workers \ {w} : Open(v) => tx[v].item # tx[w].item

\* A copy that is not overtaken has the stored key.
FreshRead == \A w \in Workers : Open(w) /\ ~tx[w].stale => tx[w].read = imageKey[tx[w].item]

\* What a request has done to the bucket so far: its own image is there
\* exactly when it will write its key, and the old one is gone once it is
\* past erasing it.
Progress(t) ==
    /\ t.key \in {t.read, t.id}
    /\ t.key = t.id <=> t.id \in bucket
    /\ t.key = t.id => t.touched
    /\ t.op \in {"touch", "remove"} => t.key = t.read
    /\ t.op \in {"touch", "create"} => t.pc # "erase"
    /\ t.op \in {"touch", "remove"} => t.pc # "upload"
    /\ t.op = "replace" /\ t.pc = "commit" => t.key = t.id
    /\ t.op \in {"replace", "remove"} /\ t.pc # "erase" => t.read \notin bucket
    /\ t.op = "touch" => ~t.touched
Progresses == \A w \in Workers : Open(w) => Progress(tx[w])

ImageInv ==
    /\ TypeOK
    /\ PastKeys /\ OwnKeys /\ NewKeys
    /\ AbsentBlank /\ CreatedAlone
    /\ FreshRead /\ Progresses
    /\ StoredImagesExist /\ NoOrphanObjects

---------------------------------------------------------------------------
(* Types *)

\* An idle thread holds the idle record, an open one a transaction.
LEMMA TxRecord ==
    ASSUME TypeOK, NEW w \in Workers
    PROVE  /\ ~Open(w) => tx[w] = Idle
           /\ Open(w) => tx[w] \in OpenTx
<1>1. tx[w] = Idle \/ tx[w] \in OpenTx
  BY DEF TypeOK
<1>2. tx[w] \in OpenTx => tx[w].pc # "idle"
  BY DEF OpenTx
<1>. QED  BY <1>1, <1>2 DEF Open, Idle

\* One request is put into another state.
LEMMA TxSet ==
    ASSUME TypeOK, NEW w \in Workers, NEW x \in {Idle} \cup OpenTx, tx' = [tx EXCEPT ![w] = x]
    PROVE  /\ tx' \in [Workers -> {Idle} \cup OpenTx]
           /\ tx'[w] = x
           /\ \A v \in Workers \ {w} : tx'[v] = tx[v] /\ (Open(v)' <=> Open(v))
BY DEF TypeOK, Open

\* What a request is when it begins.
NewTx(op, i, pc) == [pc |-> pc, op |-> op, item |-> i, id |-> reqs + 1,
                     read |-> imageKey[i], key |-> imageKey[i], touched |-> FALSE, stale |-> FALSE]

\* A request that begins takes a fresh number and is a transaction.
LEMMA StartEffect ==
    ASSUME TypeOK, NEW w \in Workers, NEW op \in Ops, NEW i \in Items,
           NEW pc \in {"erase", "upload", "commit"}, Start(w, op, i, pc, reqs + 1)
    PROVE  /\ ~Open(w) /\ reqs + 1 \in Requests /\ reqs' = reqs + 1
           /\ NewTx(op, i, pc) \in OpenTx
           /\ tx' = [tx EXCEPT ![w] = NewTx(op, i, pc)]
           /\ ownerOf' = [ownerOf EXCEPT ![reqs + 1] = i]
           /\ UNCHANGED <<stored, imageKey, bucket, spoiled>>
           /\ TypeOK'
<1>. USE ImageAssumption
<1>1. reqs + 1 \in Requests /\ reqs' = reqs + 1 /\ reqs' \in 0..MaxRequests /\ ~Open(w)
  BY DEF Start, TypeOK, Requests
<1>2. NewTx(op, i, pc) \in OpenTx
  BY <1>1 DEF NewTx, OpenTx, TypeOK
<1>3. tx' = [tx EXCEPT ![w] = NewTx(op, i, pc)]
  BY DEF Start, NewTx
<1>4. ownerOf' \in [Requests -> Items]
  BY <1>1 DEF Start, TypeOK
<1>5. tx' \in [Workers -> {Idle} \cup OpenTx]
  BY <1>2, <1>3, TxSet
<1>. QED  BY <1>1, <1>2, <1>3, <1>4, <1>5 DEF Start, TypeOK

\* How each request begins: with the row as it is, and at the step that comes
\* first for it.
Beginning(op, i, pc) ==
    /\ op = "create" => /\ i \in Clothes \ stored
                        /\ \A v \in Workers : Open(v) => tx[v].item # i
                        /\ pc # "erase"
    /\ op # "create" => i \in stored
    /\ op = "remove" => i \in Clothes
    /\ op \in {"replace", "remove"} => (pc = "erase" <=> imageKey[i] # NoKey)
    /\ op = "replace" => pc # "commit"
    /\ op = "remove" => pc # "upload"
    /\ op = "touch" => pc = "commit"

\* The requests and the stage each begins at.
LEMMA BeginCases ==
    ASSUME NEW w \in Workers, Begin(w)
    PROVE  \E op \in Ops, i \in Items, pc \in {"erase", "upload", "commit"} :
              Start(w, op, i, pc, reqs + 1) /\ Beginning(op, i, pc)
<1>1. PICK i \in Items : \/ \E image \in BOOLEAN : BeginCreate(w, i, image)
                         \/ BeginReplace(w, i) \/ BeginTouch(w, i) \/ BeginRemove(w, i)
  BY DEF Begin
<1>2. CASE \E image \in BOOLEAN : BeginCreate(w, i, image)
  <2>1. PICK image \in BOOLEAN : BeginCreate(w, i, image)
    BY <1>2
  <2>. DEFINE pc == IF image THEN "upload" ELSE "commit"
  <2>2. Start(w, "create", i, pc, reqs + 1) /\ Beginning("create", i, pc)
    BY <2>1 DEF BeginCreate, Beginning
  <2>. QED  BY <2>2 DEF Ops
<1>3. CASE BeginReplace(w, i)
  <2>. DEFINE pc == IF imageKey[i] = NoKey THEN "upload" ELSE "erase"
  <2>1. Start(w, "replace", i, pc, reqs + 1) /\ Beginning("replace", i, pc)
    BY <1>3 DEF BeginReplace, Beginning
  <2>. QED  BY <2>1 DEF Ops
<1>4. CASE BeginTouch(w, i)
  <2>1. Start(w, "touch", i, "commit", reqs + 1) /\ Beginning("touch", i, "commit")
    BY <1>4 DEF BeginTouch, Beginning
  <2>. QED  BY <2>1 DEF Ops
<1>5. CASE BeginRemove(w, i)
  <2>. DEFINE pc == IF imageKey[i] = NoKey THEN "commit" ELSE "erase"
  <2>1. Start(w, "remove", i, pc, reqs + 1) /\ Beginning("remove", i, pc)
    BY <1>5 DEF BeginRemove, Beginning
  <2>. QED  BY <2>1 DEF Ops
<1>. QED  BY <1>1, <1>2, <1>3, <1>4, <1>5

\* What a request is after it erased or uploaded.
Erased(w) == [tx[w] EXCEPT !.pc = AfterErase(w), !.touched = TRUE]
Uploaded(w) == [tx[w] EXCEPT !.pc = "commit", !.key = tx[w].id, !.touched = TRUE]

\* What the deletion from the bucket does to the request.
LEMMA EraseEffect ==
    ASSUME TypeOK, NEW w \in Workers, Erase(w)
    PROVE  /\ Open(w) /\ Erased(w) \in OpenTx /\ tx' = [tx EXCEPT ![w] = Erased(w)]
           /\ Erased(w).pc = AfterErase(w) /\ Erased(w).touched
           /\ Erased(w).op = tx[w].op /\ Erased(w).item = tx[w].item /\ Erased(w).id = tx[w].id
           /\ Erased(w).read = tx[w].read /\ Erased(w).key = tx[w].key
           /\ Erased(w).stale = tx[w].stale
           /\ bucket' = bucket \ {tx[w].read}
           /\ UNCHANGED <<stored, imageKey, ownerOf, reqs, spoiled>>
           /\ TypeOK'
<1>1. Open(w) /\ tx[w] \in OpenTx
  BY TxRecord DEF Erase, At, Open
<1>2. AfterErase(w) \in {"upload", "commit"}
  BY DEF AfterErase
<1>3. Erased(w) \in OpenTx /\ tx' = [tx EXCEPT ![w] = Erased(w)]
  BY <1>1, <1>2 DEF Erased, OpenTx, Erase, TypeOK
<1>4. tx' \in [Workers -> {Idle} \cup OpenTx]
  BY <1>3, TxSet
<1>. QED  BY <1>1, <1>3, <1>4 DEF Erase, Erased, OpenTx, TypeOK

\* What the upload does to the request.
LEMMA UploadEffect ==
    ASSUME TypeOK, NEW w \in Workers, Upload(w)
    PROVE  /\ Open(w) /\ Uploaded(w) \in OpenTx /\ tx' = [tx EXCEPT ![w] = Uploaded(w)]
           /\ Uploaded(w).pc = "commit" /\ Uploaded(w).touched /\ Uploaded(w).key = tx[w].id
           /\ Uploaded(w).op = tx[w].op /\ Uploaded(w).item = tx[w].item
           /\ Uploaded(w).id = tx[w].id /\ Uploaded(w).read = tx[w].read
           /\ Uploaded(w).stale = tx[w].stale
           /\ bucket' = bucket \cup {tx[w].id}
           /\ UNCHANGED <<stored, imageKey, ownerOf, reqs, spoiled>>
           /\ TypeOK'
<1>1. Open(w) /\ tx[w] \in OpenTx
  BY TxRecord DEF Upload, At, Open
<1>2. tx[w].id \in Keys /\ tx[w].id \in Requests
  BY <1>1 DEF OpenTx, Keys
<1>3. Uploaded(w) \in OpenTx /\ tx' = [tx EXCEPT ![w] = Uploaded(w)]
  BY <1>1, <1>2 DEF Uploaded, OpenTx, Upload, KeyOfUpload, TypeOK
<1>4. tx' \in [Workers -> {Idle} \cup OpenTx]
  BY <1>3, TxSet
<1>. QED  BY <1>1, <1>2, <1>3, <1>4 DEF Upload, Uploaded, OpenTx, TypeOK

\* After the row was written: the request is over, and the others at the same
\* item have an overtaken copy.
LEMMA WritingEffect ==
    ASSUME TypeOK, NEW w \in Workers, FinishWriting(w)
    PROVE  /\ tx' \in [Workers -> {Idle} \cup OpenTx]
           /\ ~Open(w)'
           /\ \A v \in Workers \ {w} :
                 /\ Open(v)' <=> Open(v)
                 /\ Open(v) =>
                       /\ tx'[v].pc = tx[v].pc /\ tx'[v].op = tx[v].op
                       /\ tx'[v].item = tx[v].item /\ tx'[v].id = tx[v].id
                       /\ tx'[v].read = tx[v].read /\ tx'[v].key = tx[v].key
                       /\ tx'[v].touched = tx[v].touched
                       /\ IF tx[v].item = tx[w].item THEN tx'[v].stale
                                                     ELSE tx'[v].stale = tx[v].stale
<1>1. \A v \in Workers : Open(v) => tx[v] \in OpenTx /\ [tx[v] EXCEPT !.stale = TRUE] \in OpenTx
  BY TxRecord DEF OpenTx
<1>2. tx' \in [Workers -> {Idle} \cup OpenTx]
  BY <1>1, TxRecord DEF FinishWriting
<1>3. ~Open(w)'
  BY DEF FinishWriting, Open, Idle
<1>4. ASSUME NEW v \in Workers \ {w}
      PROVE  /\ Open(v)' <=> Open(v)
             /\ Open(v) =>
                   /\ tx'[v].pc = tx[v].pc /\ tx'[v].op = tx[v].op
                   /\ tx'[v].item = tx[v].item /\ tx'[v].id = tx[v].id
                   /\ tx'[v].read = tx[v].read /\ tx'[v].key = tx[v].key
                   /\ tx'[v].touched = tx[v].touched
                   /\ IF tx[v].item = tx[w].item THEN tx'[v].stale
                                                 ELSE tx'[v].stale = tx[v].stale
  <2>1. CASE Open(v) /\ tx[v].item = tx[w].item
    <3>1. tx'[v] = [tx[v] EXCEPT !.stale = TRUE] /\ tx[v] \in OpenTx
      BY <1>1, <2>1 DEF FinishWriting
    <3>. QED  BY <2>1, <3>1 DEF OpenTx, Open
  <2>2. CASE ~(Open(v) /\ tx[v].item = tx[w].item)
    <3>1. tx'[v] = tx[v]
      BY <2>2 DEF FinishWriting
    <3>. QED  BY <2>2, <3>1 DEF Open
  <2>. QED  BY <2>1, <2>2
<1>. QED  BY <1>2, <1>3, <1>4

\* What the three commits have in common: the row of one item is written from
\* the copy, or deleted.
LEMMA CommitEffect ==
    ASSUME TypeOK, NEW w \in Workers, CommitCreate(w) \/ CommitUpdate(w) \/ CommitRemove(w)
    PROVE  /\ Open(w) /\ tx[w].pc = "commit" /\ tx[w] \in OpenTx /\ FinishWriting(w)
           /\ UNCHANGED <<bucket, ownerOf, reqs>>
           /\ \A i \in Items : i # tx[w].item =>
                 imageKey'[i] = imageKey[i] /\ (i \in stored' <=> i \in stored)
           /\ \A i \in Items : i # tx[w].item => (i \in spoiled' <=> i \in spoiled)
           /\ spoiled \subseteq spoiled'
           /\ imageKey'[tx[w].item] = IF tx[w].op = "remove" THEN NoKey ELSE tx[w].key
           /\ tx[w].op = "remove" <=> tx[w].item \notin stored'
           /\ tx[w].op # "create" /\ tx[w].stale => tx[w].item \in spoiled'
           /\ TypeOK'
<1>1. Open(w) /\ tx[w].pc = "commit" /\ tx[w] \in OpenTx /\ FinishWriting(w)
  BY TxRecord DEF CommitCreate, CommitUpdate, CommitRemove, At, Open
<1>2. tx[w].item \in Items /\ tx[w].key \in Keys /\ NoKey \in Keys /\ tx[w].op \in Ops
  BY <1>1 DEF OpenTx, Keys
<1>3. /\ imageKey' = [imageKey EXCEPT ![tx[w].item] = IF tx[w].op = "remove" THEN NoKey ELSE tx[w].key]
      /\ stored' = IF tx[w].op = "remove" THEN stored \ {tx[w].item} ELSE stored \cup {tx[w].item}
      /\ spoiled' \in {spoiled, spoiled \cup {tx[w].item}}
      /\ tx[w].op # "create" /\ tx[w].stale => tx[w].item \in spoiled'
      /\ UNCHANGED <<bucket, ownerOf, reqs>>
  BY <1>2 DEF CommitCreate, CommitUpdate, CommitRemove, WrittenKey, Spoil, Ops
<1>4. /\ imageKey' \in [Items -> Keys] /\ stored' \subseteq Items /\ spoiled' \subseteq Items
  BY <1>2, <1>3 DEF TypeOK
<1>5. TypeOK'
  BY <1>1, <1>3, <1>4, WritingEffect DEF TypeOK
<1>. QED  BY <1>1, <1>2, <1>3, <1>4, <1>5 DEF TypeOK

\* A rollback leaves its thread idle and every other one as it was.
LEMMA RollbackEffect ==
    ASSUME TypeOK, NEW w \in Workers, Rollback(w)
    PROVE  /\ Open(w) /\ tx[w] \in OpenTx /\ ~Open(w)'
           /\ \A v \in Workers \ {w} : tx'[v] = tx[v] /\ (Open(v)' <=> Open(v))
           /\ spoiled \subseteq spoiled' /\ (tx[w].touched => tx[w].item \in spoiled')
           /\ UNCHANGED <<stored, imageKey, bucket, ownerOf, reqs>>
           /\ TypeOK'
<1>1. Open(w) /\ tx[w] \in OpenTx /\ tx[w].item \in Items
  BY TxRecord DEF Rollback, OpenTx
<1>2. /\ tx' \in [Workers -> {Idle} \cup OpenTx] /\ tx'[w] = Idle
      /\ \A v \in Workers \ {w} : tx'[v] = tx[v] /\ (Open(v)' <=> Open(v))
  BY TxSet DEF Rollback
<1>. QED  BY <1>1, <1>2 DEF Rollback, Spoil, TypeOK, Open, Idle

\* The initial state has its types.
LEMMA InitType == Init => TypeOK
BY ImageAssumption DEF Init, TypeOK, Items, Keys, Requests, NoKey

\* Every step keeps the types.
LEMMA NextType == TypeOK /\ [Next]_vars => TypeOK'
<1>. SUFFICES ASSUME TypeOK, [Next]_vars PROVE TypeOK'
  OBVIOUS
<1>1. CASE UNCHANGED vars
  BY <1>1 DEF vars, TypeOK
<1>2. ASSUME NEW w \in Workers, Begin(w) PROVE TypeOK'
  BY <1>2, BeginCases, StartEffect
<1>3. ASSUME NEW w \in Workers, Erase(w) \/ Upload(w) PROVE TypeOK'
  BY <1>3, EraseEffect, UploadEffect
<1>4. ASSUME NEW w \in Workers, CommitCreate(w) \/ CommitUpdate(w) \/ CommitRemove(w) \/ Rollback(w)
      PROVE  TypeOK'
  BY <1>4, CommitEffect, RollbackEffect
<1>. QED  BY <1>1, <1>2, <1>3, <1>4 DEF Next

\* TypeOK: every variable keeps its type, and so no key is stored that no
\* request made.
THEOREM TypeCorrect == Spec => []TypeOK
<1>. QED  BY InitType, NextType, PTL DEF Spec

---------------------------------------------------------------------------
(* Keys and copies *)

\* Types of what the cases below speak of.
LEMMA OpenTypes ==
    ASSUME TypeOK, NEW w \in Workers, Open(w)
    PROVE  /\ tx[w] \in OpenTx
           /\ tx[w].item \in Items /\ tx[w].id \in Requests /\ tx[w].op \in Ops
           /\ tx[w].read \in Keys /\ tx[w].key \in Keys
           /\ tx[w].pc \in {"erase", "upload", "commit"}
           /\ tx[w].touched \in BOOLEAN /\ tx[w].stale \in BOOLEAN
BY TxRecord DEF OpenTx

\* Keys are numbers, those of the bucket positive.
LEMMA KeyTypes ==
    ASSUME TypeOK
    PROVE  /\ \A i \in Items : imageKey[i] \in Nat /\ imageKey[i] \in Keys
           /\ \A k \in bucket : k \in Requests /\ k \in Nat \ {0}
           /\ reqs \in Nat /\ NoKey = 0 /\ NoKey \notin Requests
           /\ \A k \in Requests : k \in Nat \ {0} /\ ownerOf[k] \in Items
           /\ \A k \in Keys : k \in Nat /\ (k # NoKey => k \in Requests)
BY ImageAssumption DEF TypeOK, Keys, Requests, NoKey

\* The invariant holds in the empty store.
LEMMA InitInv == Init => ImageInv
<1>. SUFFICES ASSUME Init PROVE ImageInv
  OBVIOUS
<1>1. TypeOK
  BY InitType
<1>2. \A w \in Workers : ~Open(w)
  BY DEF Init, Open, Idle
<1>3. bucket = {} /\ reqs = 0 /\ \A i \in Items : imageKey[i] = NoKey
  BY DEF Init
<1>4. PastKeys /\ OwnKeys /\ NewKeys /\ AbsentBlank /\ CreatedAlone /\ FreshRead /\ Progresses
  BY <1>2, <1>3 DEF PastKeys, OwnKeys, NewKeys, AbsentBlank, CreatedAlone, FreshRead, Progresses, NoKey
<1>5. StoredImagesExist /\ NoOrphanObjects
  BY <1>1, <1>3 DEF StoredImagesExist, NoOrphanObjects, TypeOK
<1>. QED  BY <1>1, <1>4, <1>5 DEF ImageInv

\* A request begins with a key that nobody knows and the row as it is.
LEMMA BeginInv ==
    ASSUME ImageInv, NEW w \in Workers, Begin(w)
    PROVE  ImageInv'
<1>. USE DEF ImageInv
<1>1. PICK op \in Ops, i \in Items, pc \in {"erase", "upload", "commit"} :
         Start(w, op, i, pc, reqs + 1) /\ Beginning(op, i, pc)
  BY BeginCases
<1>2. /\ ~Open(w) /\ reqs + 1 \in Requests /\ reqs' = reqs + 1
      /\ tx' = [tx EXCEPT ![w] = NewTx(op, i, pc)] /\ NewTx(op, i, pc) \in OpenTx
      /\ ownerOf' = [ownerOf EXCEPT ![reqs + 1] = i]
      /\ UNCHANGED <<stored, imageKey, bucket, spoiled>>
      /\ TypeOK'
  BY <1>1, StartEffect
<1>3. /\ Open(w)'
      /\ tx'[w].pc = pc /\ tx'[w].op = op /\ tx'[w].item = i /\ tx'[w].id = reqs + 1
      /\ tx'[w].read = imageKey[i] /\ tx'[w].key = imageKey[i]
      /\ tx'[w].touched = FALSE /\ tx'[w].stale = FALSE
      /\ \A v \in Workers \ {w} : tx'[v] = tx[v] /\ (Open(v)' <=> Open(v))
  <2>1. tx'[w] = NewTx(op, i, pc)
        /\ \A v \in Workers \ {w} : tx'[v] = tx[v] /\ (Open(v)' <=> Open(v))
    BY <1>2, TxSet
  <2>2. pc # "idle"
    OBVIOUS
  <2>. QED  BY <2>1, <2>2 DEF NewTx, Open
<1>4. ownerOf'[reqs + 1] = i /\ \A k \in Requests : k # reqs + 1 => ownerOf'[k] = ownerOf[k]
  BY <1>2 DEF TypeOK
<1>5. PastKeys'
  BY <1>2, <1>3, KeyTypes, OpenTypes DEF PastKeys
<1>6. OwnKeys'
  <2>1. \A j \in Items : imageKey[j] # NoKey => ownerOf'[imageKey[j]] = j
    BY <1>4, KeyTypes DEF PastKeys, OwnKeys
  <2>2. ASSUME NEW v \in Workers, v # w, Open(v)
        PROVE  ownerOf'[tx[v].id] = tx[v].item /\ (tx[v].read # NoKey => ownerOf'[tx[v].read] = tx[v].item)
    BY <1>4, <2>2, KeyTypes, OpenTypes DEF PastKeys, OwnKeys
  <2>. QED  BY <1>2, <1>3, <1>4, <2>1, <2>2 DEF OwnKeys
<1>7. NewKeys'
  <2>1. /\ \A j \in Items : imageKey[j] # reqs + 1
        /\ \A v \in Workers : Open(v) => tx[v].read # reqs + 1 /\ tx[v].id # reqs + 1
    BY KeyTypes, OpenTypes DEF PastKeys
  <2>. QED  BY <1>2, <1>3, <2>1 DEF NewKeys
<1>8. AbsentBlank'
  BY <1>2 DEF AbsentBlank
<1>9. CreatedAlone'
  BY <1>1, <1>2, <1>3 DEF CreatedAlone, Beginning
<1>10. FreshRead'
  BY <1>2, <1>3 DEF FreshRead
<1>11. Progresses'
  <2>1. imageKey[i] # reqs + 1 /\ reqs + 1 \notin bucket
    BY KeyTypes DEF PastKeys
  <2>2. Progress(tx[w])'
    BY <1>1, <1>2, <1>3, <2>1, KeyTypes DEF Progress, Beginning, Ops
  <2>3. ASSUME NEW v \in Workers, v # w, Open(v) PROVE Progress(tx[v])'
    BY <1>2, <1>3, <2>3 DEF Progresses, Progress
  <2>. QED  BY <1>3, <2>2, <2>3 DEF Progresses
<1>12. StoredImagesExist'
  <2>1. \A j \in Items : AtWork(j) => AtWork(j)'
    BY <1>2, <1>3 DEF AtWork
  <2>. QED  BY <1>2, <2>1 DEF StoredImagesExist, TypeOK
<1>13. NoOrphanObjects'
  BY <1>2, <1>3, <1>4, KeyTypes DEF NoOrphanObjects, PastKeys
<1>. QED  BY <1>2, <1>5, <1>6, <1>7, <1>8, <1>9, <1>10, <1>11, <1>12, <1>13

\* While the bucket is changed the rows stay, and what a request knows of keys.
LEMMA BucketKeeps ==
    ASSUME ImageInv, NEW w \in Workers, Open(w), Open(w)',
           tx'[w].op = tx[w].op, tx'[w].item = tx[w].item, tx'[w].id = tx[w].id,
           tx'[w].read = tx[w].read, tx'[w].stale = tx[w].stale,
           \A v \in Workers \ {w} : tx'[v] = tx[v] /\ (Open(v)' <=> Open(v)),
           UNCHANGED <<stored, imageKey, ownerOf, reqs>>
    PROVE  OwnKeys' /\ NewKeys' /\ AbsentBlank' /\ CreatedAlone' /\ FreshRead'
<1>1. OwnKeys'
  BY DEF ImageInv, OwnKeys
<1>2. NewKeys'
  BY DEF ImageInv, NewKeys
<1>3. AbsentBlank' /\ CreatedAlone' /\ FreshRead'
  BY DEF ImageInv, AbsentBlank, CreatedAlone, FreshRead
<1>. QED  BY <1>1, <1>2, <1>3

\* An erased object was the image of the item that is at work now.
LEMMA EraseInv ==
    ASSUME ImageInv, NEW w \in Workers, Erase(w)
    PROVE  ImageInv'
<1>. USE DEF ImageInv
<1>1. /\ Open(w) /\ tx[w].pc = "erase" /\ bucket' = bucket \ {tx[w].read}
      /\ UNCHANGED <<stored, imageKey, ownerOf, reqs, spoiled>> /\ TypeOK'
  BY EraseEffect DEF Erase, At
<1>2. /\ Open(w)' /\ tx'[w].pc = AfterErase(w) /\ tx'[w].touched
      /\ tx'[w].op = tx[w].op /\ tx'[w].item = tx[w].item /\ tx'[w].id = tx[w].id
      /\ tx'[w].read = tx[w].read /\ tx'[w].key = tx[w].key /\ tx'[w].stale = tx[w].stale
      /\ \A v \in Workers \ {w} : tx'[v] = tx[v] /\ (Open(v)' <=> Open(v))
  <2>1. tx'[w] = Erased(w) /\ \A v \in Workers \ {w} : tx'[v] = tx[v] /\ (Open(v)' <=> Open(v))
    BY EraseEffect, TxSet
  <2>2. AfterErase(w) # "idle"
    BY DEF AfterErase
  <2>. QED  BY <2>1, <2>2, EraseEffect DEF Open
<1>3. OwnKeys' /\ NewKeys' /\ AbsentBlank' /\ CreatedAlone' /\ FreshRead'
  BY <1>1, <1>2, BucketKeeps
<1>4. PastKeys'
  BY <1>1, <1>2 DEF PastKeys
<1>5. Progresses'
  <2>1. \A v \in Workers : Open(v) => tx[v].id # tx[w].read
    BY <1>1 DEF NewKeys
  <2>2. Progress(tx[w])'
    BY <1>1, <1>2, <2>1, OpenTypes DEF Progresses, Progress, AfterErase, Ops
  <2>3. ASSUME NEW v \in Workers, v # w, Open(v) PROVE Progress(tx[v])'
    BY <1>1, <1>2, <2>1, <2>3 DEF Progresses, Progress
  <2>. QED  BY <1>2, <2>2, <2>3 DEF Progresses
<1>6. StoredImagesExist'
  <2>1. \A j \in Items : AtWork(j) => AtWork(j)'
    BY <1>2 DEF AtWork
  <2>3. \A j \in Items : j # tx[w].item => imageKey[j] = NoKey \/ imageKey[j] # tx[w].read
    BY <1>1 DEF OwnKeys
  <2>2. ASSUME NEW i \in stored \ spoiled
        PROVE  (imageKey[i] = NoKey \/ imageKey[i] \in bucket \/ AtWork(i))'
    <3>1. imageKey[i] = NoKey \/ imageKey[i] \in bucket \/ AtWork(i)
      BY DEF StoredImagesExist
    <3>2. i \in Items /\ imageKey' = imageKey
      BY <1>1 DEF TypeOK
    <3>3. CASE i = tx[w].item
      BY <1>2, <3>3 DEF AtWork
    <3>4. CASE i # tx[w].item
      BY <1>1, <2>1, <2>3, <3>1, <3>2, <3>4
    <3>. QED  BY <3>3, <3>4
  <2>. QED  BY <1>1, <2>2 DEF StoredImagesExist
<1>7. NoOrphanObjects'
  BY <1>1, <1>2 DEF NoOrphanObjects
<1>. QED  BY <1>1, <1>3, <1>4, <1>5, <1>6, <1>7

\* An uploaded object is the image its request will write the key of.
LEMMA UploadInv ==
    ASSUME ImageInv, NEW w \in Workers, Upload(w)
    PROVE  ImageInv'
<1>. USE DEF ImageInv
<1>1. /\ Open(w) /\ tx[w].pc = "upload" /\ bucket' = bucket \cup {tx[w].id}
      /\ UNCHANGED <<stored, imageKey, ownerOf, reqs, spoiled>> /\ TypeOK'
  BY UploadEffect DEF Upload, At
<1>2. /\ Open(w)' /\ tx'[w].pc = "commit" /\ tx'[w].touched
      /\ tx'[w].op = tx[w].op /\ tx'[w].item = tx[w].item /\ tx'[w].id = tx[w].id
      /\ tx'[w].read = tx[w].read /\ tx'[w].key = tx[w].id /\ tx'[w].stale = tx[w].stale
      /\ \A v \in Workers \ {w} : tx'[v] = tx[v] /\ (Open(v)' <=> Open(v))
  <2>1. tx'[w] = Uploaded(w) /\ \A v \in Workers \ {w} : tx'[v] = tx[v] /\ (Open(v)' <=> Open(v))
    BY UploadEffect, TxSet
  <2>. QED  BY <2>1, UploadEffect DEF Open
<1>3. OwnKeys' /\ NewKeys' /\ AbsentBlank' /\ CreatedAlone' /\ FreshRead'
  BY <1>1, <1>2, BucketKeeps
<1>4. PastKeys'
  BY <1>1, <1>2 DEF PastKeys
<1>5. Progresses'
  <2>1. \A v \in Workers : Open(v) => /\ tx[v].read # tx[w].id
                                      /\ v # w => tx[v].id # tx[w].id
    BY <1>1 DEF NewKeys
  <2>2. Progress(tx[w])'
    BY <1>1, <1>2, <2>1, OpenTypes DEF Progresses, Progress, Ops
  <2>3. ASSUME NEW v \in Workers, v # w, Open(v) PROVE Progress(tx[v])'
    BY <1>1, <1>2, <2>1, <2>3 DEF Progresses, Progress
  <2>. QED  BY <1>2, <2>2, <2>3 DEF Progresses
<1>6. StoredImagesExist'
  <2>1. \A j \in Items : AtWork(j) => AtWork(j)'
    BY <1>2 DEF AtWork
  <2>. QED  BY <1>1, <2>1 DEF StoredImagesExist, TypeOK
<1>7. NoOrphanObjects'
  BY <1>1, <1>2 DEF NoOrphanObjects
<1>. QED  BY <1>1, <1>3, <1>4, <1>5, <1>6, <1>7

\* The row of an item is written with the key of the copy, or deleted.
LEMMA CommitInv ==
    ASSUME ImageInv, NEW w \in Workers, CommitCreate(w) \/ CommitUpdate(w) \/ CommitRemove(w)
    PROVE  ImageInv'
<1>. USE DEF ImageInv
<1>1. /\ Open(w) /\ tx[w].pc = "commit" /\ UNCHANGED <<bucket, ownerOf, reqs>> /\ TypeOK'
      /\ tx[w].item \in Items /\ tx[w].op \in Ops /\ tx[w].stale \in BOOLEAN
      /\ tx[w].id \in Requests /\ tx[w].read \in Keys
  BY CommitEffect, OpenTypes
<1>2. /\ \A i \in Items : i # tx[w].item =>
            imageKey'[i] = imageKey[i] /\ (i \in stored' <=> i \in stored)
      /\ \A i \in Items : i # tx[w].item => (i \in spoiled' <=> i \in spoiled)
      /\ spoiled \subseteq spoiled'
      /\ tx[w].op # "create" /\ tx[w].stale => tx[w].item \in spoiled'
  BY CommitEffect
<1>3. /\ imageKey'[tx[w].item] = IF tx[w].op = "remove" THEN NoKey ELSE tx[w].key
      /\ tx[w].op = "remove" <=> tx[w].item \notin stored'
  BY CommitEffect
<1>4. /\ ~Open(w)'
      /\ \A v \in Workers \ {w} :
            /\ Open(v)' <=> Open(v)
            /\ Open(v) =>
                  /\ tx'[v].pc = tx[v].pc /\ tx'[v].op = tx[v].op
                  /\ tx'[v].item = tx[v].item /\ tx'[v].id = tx[v].id
                  /\ tx'[v].read = tx[v].read /\ tx'[v].key = tx[v].key
                  /\ tx'[v].touched = tx[v].touched
                  /\ IF tx[v].item = tx[w].item THEN tx'[v].stale
                                                ELSE tx'[v].stale = tx[v].stale
  BY CommitEffect, WritingEffect
<1>5. Progress(tx[w])
  BY <1>1 DEF Progresses
<1>6. imageKey'[tx[w].item] \in {NoKey, tx[w].read, tx[w].id}
  BY <1>3, <1>5 DEF Progress
<1>7. PastKeys'
  BY <1>1, <1>2, <1>4, <1>6, KeyTypes DEF PastKeys
<1>8. OwnKeys'
  <2>1. imageKey'[tx[w].item] # NoKey => ownerOf[imageKey'[tx[w].item]] = tx[w].item
    BY <1>1, <1>6 DEF OwnKeys
  <2>. QED  BY <1>1, <1>2, <1>4, <2>1 DEF OwnKeys
<1>9. NewKeys'
  <2>1. \A v \in Workers \ {w} : Open(v) => imageKey'[tx[w].item] # tx[v].id
    BY <1>1, <1>6, OpenTypes, KeyTypes DEF NewKeys
  <2>. QED  BY <1>1, <1>2, <1>4, <2>1 DEF NewKeys
<1>10. AbsentBlank'
  BY <1>2, <1>3 DEF AbsentBlank
<1>11. CreatedAlone'
  <2>1. ASSUME NEW v \in Workers, Open(v)', tx'[v].op = "create"
        PROVE  /\ tx'[v].item \notin stored' /\ ~tx'[v].stale
               /\ \A u \in Workers \ {v} : Open(u)' => tx'[u].item # tx'[v].item
    <3>1. v # w /\ Open(v) /\ tx[v].op = "create" /\ tx'[v].item = tx[v].item
      BY <1>4, <2>1
    <3>2. /\ tx[v].item \notin stored /\ ~tx[v].stale
          /\ \A u \in Workers \ {v} : Open(u) => tx[u].item # tx[v].item
      BY <3>1 DEF CreatedAlone
    <3>3. tx[v].item # tx[w].item /\ tx[v].item \in Items
      BY <1>1, <3>1, <3>2, OpenTypes
    <3>4. tx[v].item \notin stored' /\ ~tx'[v].stale
      BY <1>2, <1>4, <3>1, <3>2, <3>3
    <3>. QED  BY <1>4, <3>1, <3>2, <3>4
  <2>. QED  BY <2>1 DEF CreatedAlone
<1>12. FreshRead'
  BY <1>1, <1>2, <1>4, OpenTypes DEF FreshRead
<1>13. Progresses'
  BY <1>1, <1>4 DEF Progresses, Progress
<1>14. StoredImagesExist'
  <2>1. ASSUME NEW i \in Items, i \in stored', i \notin spoiled'
        PROVE  imageKey'[i] = NoKey \/ imageKey'[i] \in bucket \/ AtWork(i)'
    <3>1. CASE i # tx[w].item
      <4>1. i \in stored \ spoiled /\ imageKey'[i] = imageKey[i]
        BY <1>2, <2>1, <3>1
      <4>2. AtWork(i) => AtWork(i)'
        BY <1>4, <3>1 DEF AtWork
      <4>. QED  BY <4>1, <4>2 DEF StoredImagesExist
    <3>2. CASE i = tx[w].item /\ tx[w].key = tx[w].id
      BY <1>3, <1>5, <2>1, <3>2 DEF Progress
    <3>3. CASE i = tx[w].item /\ tx[w].key # tx[w].id /\ tx[w].op = "create"
      <4>1. imageKey[i] = NoKey /\ tx[w].key = tx[w].read
        BY <1>1, <1>5, <3>3 DEF CreatedAlone, AbsentBlank, Progress
      <4>2. ~tx[w].stale
        BY <1>1, <3>3 DEF CreatedAlone
      <4>. QED  BY <1>1, <1>3, <3>3, <4>1, <4>2 DEF FreshRead
    <3>4. CASE i = tx[w].item /\ tx[w].key # tx[w].id /\ tx[w].op # "create"
      <4>1. tx[w].op = "touch" /\ tx[w].key = tx[w].read /\ ~tx[w].touched
        BY <1>1, <1>3, <1>5, <2>1, <3>4 DEF Progress, Ops
      <4>2. ~tx[w].stale /\ i \in stored /\ i \notin spoiled
        BY <1>2, <2>1, <3>4, <4>1 DEF CommitCreate, CommitUpdate, CommitRemove
      <4>3. imageKey'[i] = imageKey[i]
        BY <1>1, <1>3, <3>4, <4>1, <4>2 DEF FreshRead
      <4>4. AtWork(i) => AtWork(i)'
        BY <1>4, <4>1 DEF AtWork
      <4>. QED  BY <4>2, <4>3, <4>4 DEF StoredImagesExist
    <3>. QED  BY <3>1, <3>2, <3>3, <3>4
  <2>. QED  BY <1>1, <2>1 DEF StoredImagesExist, TypeOK
<1>15. NoOrphanObjects'
  <2>1. ASSUME NEW k \in bucket
        PROVE  \/ imageKey'[ownerOf[k]] = k
               \/ \E v \in Workers : Open(v)' /\ tx'[v].id = k
               \/ ownerOf[k] \in spoiled'
    <3>1. k \in Requests /\ ownerOf[k] \in Items /\ k # NoKey
      BY KeyTypes
    <3>2. CASE ownerOf[k] \in spoiled
      BY <1>2, <3>2
    <3>3. CASE \E v \in Workers \ {w} : Open(v) /\ tx[v].id = k
      BY <1>4, <3>3
    <3>4. CASE tx[w].id = k
      <4>1. tx[w].key = k /\ ownerOf[k] = tx[w].item /\ tx[w].op # "remove"
        BY <1>1, <1>5, <3>4 DEF Progress, OwnKeys, NewKeys
      <4>. QED  BY <1>3, <4>1
    <3>5. CASE imageKey[ownerOf[k]] = k /\ tx[w].id # k /\ ownerOf[k] \notin spoiled'
      <4>1. CASE ownerOf[k] # tx[w].item
        BY <1>2, <3>1, <3>5, <4>1
      <4>2. CASE ownerOf[k] = tx[w].item
        <5>1. tx[w].op # "create"
          BY <1>1, <3>1, <3>5, <4>2 DEF CreatedAlone, AbsentBlank
        <5>2. ~tx[w].stale /\ tx[w].read = k
          BY <1>1, <1>2, <3>5, <4>2, <5>1 DEF FreshRead
        <5>3. tx[w].op = "touch" /\ tx[w].key = k
          BY <1>1, <1>5, <5>1, <5>2 DEF Progress, Ops
        <5>. QED  BY <1>3, <4>2, <5>3
      <4>. QED  BY <4>1, <4>2
    <3>. QED  BY <3>2, <3>3, <3>4, <3>5 DEF NoOrphanObjects
  <2>. QED  BY <1>1, <2>1 DEF NoOrphanObjects
<1>. QED  BY <1>1, <1>7, <1>8, <1>9, <1>10, <1>11, <1>12, <1>13, <1>14, <1>15

\* What a request did to the bucket stays, and its item is spoiled by it.
LEMMA RollbackInv ==
    ASSUME ImageInv, NEW w \in Workers, Rollback(w)
    PROVE  ImageInv'
<1>. USE DEF ImageInv
<1>1. /\ Open(w) /\ ~Open(w)'
      /\ \A v \in Workers \ {w} : tx'[v] = tx[v] /\ (Open(v)' <=> Open(v))
      /\ spoiled \subseteq spoiled' /\ (tx[w].touched => tx[w].item \in spoiled')
      /\ UNCHANGED <<stored, imageKey, bucket, ownerOf, reqs>>
      /\ TypeOK'
  BY RollbackEffect
<1>2. PastKeys' /\ OwnKeys' /\ NewKeys'
  BY <1>1 DEF PastKeys, OwnKeys, NewKeys
<1>3. AbsentBlank' /\ CreatedAlone' /\ FreshRead'
  BY <1>1 DEF AbsentBlank, CreatedAlone, FreshRead
<1>4. Progresses'
  BY <1>1 DEF Progresses, Progress
<1>5. StoredImagesExist'
  <2>1. \A i \in Items : AtWork(i) => AtWork(i)' \/ i \in spoiled'
    BY <1>1 DEF AtWork
  <2>. QED  BY <1>1, <2>1 DEF StoredImagesExist, TypeOK
<1>6. NoOrphanObjects'
  <2>1. tx[w].id \in bucket => ownerOf[tx[w].id] \in spoiled'
    BY <1>1 DEF Progresses, Progress, OwnKeys
  <2>. QED  BY <1>1, <2>1 DEF NoOrphanObjects
<1>. QED  BY <1>1, <1>2, <1>3, <1>4, <1>5, <1>6

\* Every step keeps the invariant.
LEMMA NextInv == ImageInv /\ [Next]_vars => ImageInv'
<1>. SUFFICES ASSUME ImageInv, [Next]_vars PROVE ImageInv'
  OBVIOUS
<1>1. CASE UNCHANGED vars
  BY <1>1 DEF vars, ImageInv, TypeOK, PastKeys, OwnKeys, NewKeys, AbsentBlank, CreatedAlone,
              FreshRead, Progresses, Progress, StoredImagesExist, NoOrphanObjects, Open, AtWork
<1>2. CASE Next
  BY <1>2, BeginInv, EraseInv, UploadInv, CommitInv, RollbackInv DEF Next
<1>. QED  BY <1>1, <1>2

\* It holds in every reachable state.
LEMMA ImageInvariant == Spec => []ImageInv
<1>. QED  BY InitInv, NextInv, PTL DEF Spec

\* StoredImagesExist: a stored key names an object, outside a replacement and
\* unless a failure or an overtaken copy met the item.
THEOREM ImagesExist == Spec => []StoredImagesExist
<1>1. ImageInv => StoredImagesExist
  BY DEF ImageInv
<1>. QED  BY ImageInvariant, <1>1, PTL

\* NoOrphanObjects: an object belongs to a row or to a request, with the same
\* exceptions.
THEOREM NoOrphans == Spec => []NoOrphanObjects
<1>1. ImageInv => NoOrphanObjects
  BY DEF ImageInv
<1>. QED  BY ImageInvariant, <1>1, PTL
=============================================================================
