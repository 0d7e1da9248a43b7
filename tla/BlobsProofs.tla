---------------------------- MODULE BlobsProofs ----------------------------
(***************************************************************************)
(* Theorems about the blobs, for every number of actors, records, contents,*)
(* uploads, tasks and failures, whether the actors share a blobstore       *)
(* handle, as they do in the server, or have one each: a blob that a       *)
(* record refers to has its row, a row has its bytes, and no reader is     *)
(* served a blob that was taken down, the last two but for named cases.    *)
(*                                                                         *)
(* The argument: a temp key belongs to one upload or to one row of one     *)
(* actor (KeysPart), rows change only under the lock, so what a task has   *)
(* read in a row is still there (TaskRows), and where the deletion of      *)
(* bytes is due a row has other ones or its blob is doomed (DueOK).  What  *)
(* an actor does to an object of its handle leaves the other actors' bytes *)
(* alone but for the blobs it crosses (OthersStay).                        *)
(***************************************************************************)
EXTENDS Blobs, TLAPS

Uploads == [actor : Actors, key : Nat, cid : Cids]

Pairs == Uris \X Cids

(* Between the row that verify_blob found and the reference to it. *)
Settling == {"permanent", "clear", "associate"}

TaskTypes(t) ==
    /\ t.pc \in {"idle", "deref", "collect", "verify", "move"} \cup Settling
    /\ t.pc \in {"deref", "collect", "verify"} \cup Settling
         => "todo" \in DOMAIN t /\ t.todo \subseteq Pairs
    /\ t.pc = "collect" => t.freed \subseteq Cids
    /\ t.pc \in Settling => /\ {"pc", "blob", "key"} \subseteq DOMAIN t /\ t.blob \in t.todo
                            /\ t.key \in Nat
    /\ t.pc = "move" => /\ t = [pc |-> "move", cid |-> t.cid, applied |-> t.applied]
                        /\ t.cid \in Cids /\ t.applied \in BOOLEAN

(* No key of a row is one that was never drawn, and no row that is not     *)
(* there is taken down.                                                    *)
RowOK(row) == row.key \in 0..keys /\ (row.down => row.present)

Types ==
    /\ keys \in Nat
    /\ rows \in [Actors -> [Cids -> BlobRow]]
    /\ refs \in [Actors -> SUBSET Pairs]
    /\ reading \in [Actors -> SUBSET Cids]
    /\ temp \in [Handles -> SUBSET (1..keys)]
    /\ blocks \in [Handles -> SUBSET Cids] /\ quarantined \in [Handles -> SUBSET Cids]
    /\ doomed \in [Handles -> SUBSET Cids] /\ strayed \in [Actors -> SUBSET Cids]
    /\ uploads \subseteq Uploads
    /\ \A u \in uploads : u.key \in 1..keys
    /\ \A a \in Actors, c \in Cids : RowOK(rows[a][c])
    /\ \A g \in garbage : /\ g.cids # {} /\ g.cids \subseteq Cids
                          /\ g = [handle |-> g.handle, cids |-> g.cids]
    /\ DOMAIN task = Actors
    /\ \A a \in Actors : TaskTypes(task[a])

(* What a task has seen of a row is so until it is done. *)
TaskRows(a) ==
    LET t == task[a]
    IN  /\ t.pc \in Settling => rows[a][t.blob[2]].present /\ ~rows[a][t.blob[2]].down
        /\ t.pc \in {"permanent", "clear"} => t.key # NoKey /\ rows[a][t.blob[2]].key = t.key
        /\ t.pc = "move" => rows[a][t.cid].down = (t.applied /\ rows[a][t.cid].present)

RowsPart == AssociatedBlobHasRow /\ \A a \in Actors : TaskRows(a)

(* A key was given to one row of one actor. *)
KeysOnce ==
    \A a, b \in Actors, c, d \in Cids :
        rows[a][c].key # NoKey /\ rows[a][c].key = rows[b][d].key => a = b /\ c = d

(* Uploads have keys of their own, and no row has one of theirs. *)
UploadsDiffer == \A u, v \in uploads : u.key = v.key => u = v

UploadKeys == \A u \in uploads, a \in Actors, c \in Cids : rows[a][c].key # u.key

KeysPart == KeysOnce /\ UploadKeys /\ UploadsDiffer

Crossed(a, c) == <<a, c>> \in crossed

(* An upload that is not tracked yet has its temp file. *)
UploadsHeld(a) ==
    \A u \in uploads : u.actor = a => u.key \in temp[Handle(a)] \/ Crossed(a, u.cid)

(* The temp file of a blob that was made permanent is gone. *)
Cleared(a) == task[a].pc = "clear" => task[a].key \notin temp[Handle(a)]

(* Bytes that are going to be deleted are not the only ones of a row. *)
DueOK(a) ==
    \A c \in Cids : rows[a][c].present /\ c \in Due(Handle(a)) /\ ~Crossed(a, c)
                      => rows[a][c].key \in temp[Handle(a)] \/ c \in doomed[Handle(a)]

Behind(a) ==
    \A c \in Cids : rows[a][c].present /\ ~Crossed(a, c)
                      => HasBytes(a, c) \/ c \in doomed[Handle(a)]

(* Bytes that were taken down are not where a reader looks. *)
Hidden(a) ==
    \A c \in Settled(a) \ strayed[a] : ~Crossed(a, c) => c \notin blocks[Handle(a)]

BytesOf(a) == UploadsHeld(a) /\ Cleared(a) /\ DueOK(a) /\ Behind(a) /\ Hidden(a)

BytesPart == (\A a \in Actors : BytesOf(a)) /\ KeysPart /\ exposed = {}

Inv == Types /\ RowsPart /\ BytesPart

-----------------------------------------------------------------------------
(* The handle of an actor. *)
LEMMA HandleParts ==
    ASSUME NEW a \in Actors
    PROVE  Handle(a) \in Handles
BY DEF Handles

(* Where no row changes and no upload comes, no key is given away. *)
LEMMA KeysStay ==
    ASSUME KeysPart, rows' = rows, \A u \in uploads' : u \in uploads
    PROVE  KeysPart'
BY DEF KeysPart, KeysOnce, UploadKeys, UploadsDiffer

(* Where nothing changes but the task, and a takedown that stops is        *)
(* remembered, nothing happens to the bytes.                               *)
LEMMA BytesStay ==
    ASSUME NEW a \in Actors, BytesOf(a), rows'[a] = rows[a],
           temp'[Handle(a)] = temp[Handle(a)], blocks'[Handle(a)] = blocks[Handle(a)],
           quarantined'[Handle(a)] = quarantined[Handle(a)],
           doomed'[Handle(a)] = doomed[Handle(a)], strayed[a] \subseteq strayed'[a],
           crossed \subseteq crossed',
           \A g \in garbage' : g.handle = Handle(a) => g \in garbage,
           \A u \in uploads' : u.actor = a => u \in uploads,
           \/ task'[a] = task[a]
           \/ /\ task'[a].pc \notin {"clear", "move"}
              /\ task[a].pc = "move" => task[a].cid \in strayed'[a]
    PROVE  BytesOf(a)'
<1>1. PICK h : h = Handle(a)
  OBVIOUS
<1>2. \A c : c \in Due(h)' => c \in Due(h)
  BY <1>1 DEF Due
<1>3. \A c : Crossed(a, c) => Crossed(a, c)'
  BY DEF Crossed
<1>4. UploadsHeld(a)'
  <2> SUFFICES ASSUME NEW u \in uploads', u.actor = a
               PROVE  u.key \in temp'[h] \/ Crossed(a, u.cid)'
    BY <1>1 DEF UploadsHeld, Handle
  <2>1. u.key \in temp[h] \/ Crossed(a, u.cid)
    BY <1>1 DEF BytesOf, UploadsHeld
  <2> QED
    BY <1>1, <1>3, <2>1
<1>5. Cleared(a)'
  BY DEF BytesOf, Cleared, Handle
<1>6. DueOK(a)'
  <2> SUFFICES ASSUME NEW c \in Cids, rows[a][c].present, c \in Due(h)', ~Crossed(a, c)'
               PROVE  rows[a][c].key \in temp'[h] \/ c \in doomed'[h]
    BY <1>1 DEF DueOK, Handle
  <2> QED
    BY <1>1, <1>2, <1>3 DEF BytesOf, DueOK
<1>7. Behind(a)'
  <2> SUFFICES ASSUME NEW c \in Cids, rows[a][c].present, ~Crossed(a, c)'
               PROVE  HasBytes(a, c)' \/ c \in doomed'[Handle(a)]
    BY DEF Behind, Handle
  <2>1. HasBytes(a, c) \/ c \in doomed[Handle(a)]
    BY <1>3 DEF BytesOf, Behind
  <2>2. CASE HasBytes(a, c)
    BY <2>2 DEF HasBytes, Handle
  <2> QED
    BY <2>1, <2>2
<1>8. Hidden(a)'
  BY <1>3 DEF BytesOf, Hidden, Settled, Handle
<1> QED
  BY <1>4, <1>5, <1>6, <1>7, <1>8 DEF BytesOf

(* A step of actor a on its rows alone leaves the others' bytes alone. *)
LEMMA OthersSame ==
    ASSUME BytesPart, NEW a \in Actors, BytesOf(a)', KeysPart', exposed' = {},
           UNCHANGED <<temp, blocks, quarantined, garbage, doomed, strayed, crossed>>,
           \A u \in uploads' : u \in uploads,
           \A b \in Actors : b # a => rows'[b] = rows[b] /\ task'[b] = task[b]
    PROVE  BytesPart'
<1>1. ASSUME NEW b \in Actors, b # a
      PROVE  BytesOf(b)'
  BY <1>1, BytesStay DEF BytesPart
<1> QED
  BY <1>1 DEF BytesPart

(* A step of actor a that stores, moves or deletes objects of its handle   *)
(* only of the contents cs, and takes no temp file of another one's row or *)
(* upload of other contents, leaves the others' bytes alone, but for those *)
(* it crosses.                                                             *)
LEMMA OthersStay ==
    ASSUME Types, BytesPart, NEW a \in Actors, NEW h, h = Handle(a), NEW cs \in SUBSET Cids,
           BytesOf(a)', KeysPart', exposed' = {},
           crossed' = crossed \cup {p \in Sharers(a) \X cs : p[2] \in Known(p[1])},
           \A b \in Actors : b # a => /\ rows'[b] = rows[b] /\ task'[b] = task[b]
                                      /\ strayed'[b] = strayed[b],
           \A x \in Handles : x # h => /\ temp'[x] = temp[x] /\ blocks'[x] = blocks[x]
                                       /\ quarantined'[x] = quarantined[x]
                                       /\ doomed'[x] = doomed[x],
           doomed[h] \subseteq doomed'[h],
           \A c \in Cids \ cs : /\ c \in blocks'[h] <=> c \in blocks[h]
                                /\ c \in quarantined'[h] <=> c \in quarantined[h],
           \A g \in garbage' : g \in garbage \/ (g.handle = h /\ g.cids \subseteq cs),
           \A u \in uploads' : u.actor # a =>
               u \in uploads /\ (u.cid \in cs \/ u.key \notin temp[h] \/ u.key \in temp'[h]),
           \A b \in Actors, c \in Cids \ cs :
               b # a /\ rows[b][c].key \in temp[h] => rows[b][c].key \in temp'[h],
           \A b \in Actors : b # a /\ task[b].pc = "clear" /\ task[b].key \in temp'[h]
                               => task[b].key \in temp[h]
    PROVE  BytesPart'
<1>1. ASSUME NEW b \in Actors, b # a, Handle(b) # h
      PROVE  BytesOf(b)'
  <2>1. Handle(b) \in Handles
    BY HandleParts
  <2>2. BytesOf(b)
    BY DEF BytesPart
  <2>3. /\ \A g \in garbage' : g.handle = Handle(b) => g \in garbage
        /\ \A u \in uploads' : u.actor = b => u \in uploads
    BY <1>1
  <2>4. /\ temp'[Handle(b)] = temp[Handle(b)] /\ blocks'[Handle(b)] = blocks[Handle(b)]
        /\ quarantined'[Handle(b)] = quarantined[Handle(b)]
        /\ doomed'[Handle(b)] = doomed[Handle(b)]
    BY <1>1, <2>1
  <2>5. rows'[b] = rows[b] /\ task'[b] = task[b] /\ strayed'[b] = strayed[b]
        /\ crossed \subseteq crossed'
    BY <1>1
  <2> QED
    BY <2>2, <2>3, <2>4, <2>5, BytesStay
<1>2. ASSUME NEW b \in Actors, b # a, Handle(b) = h
      PROVE  BytesOf(b)'
  <2>1. BytesOf(b)
    BY DEF BytesPart
  <2>2. rows'[b] = rows[b] /\ task'[b] = task[b] /\ strayed'[b] = strayed[b]
    BY <1>2
  <2>3. /\ \A c : Crossed(b, c) => Crossed(b, c)'
        /\ \A c \in cs : c \in Known(b) => Crossed(b, c)'
    BY <1>2 DEF Crossed, Sharers
  <2>4. \A c \in cs : rows[b][c].present => Crossed(b, c)'
    BY <2>3 DEF Known
  <2>5. UploadsHeld(b)'
    <3> SUFFICES ASSUME NEW u \in uploads', u.actor = b
                 PROVE  u.key \in temp'[h] \/ Crossed(b, u.cid)'
      BY <1>2 DEF UploadsHeld, Handle
    <3>1. u \in uploads /\ (u.cid \in cs \/ u.key \notin temp[h] \/ u.key \in temp'[h])
      BY <1>2
    <3>2. u.key \in temp[h] \/ Crossed(b, u.cid)
      BY <1>2, <2>1, <3>1 DEF BytesOf, UploadsHeld
    <3>3. u.cid \in cs => u.cid \in Known(b)
      BY <3>1 DEF Known
    <3> QED
      BY <2>3, <3>1, <3>2, <3>3
  <2>6. Cleared(b)'
    BY <1>2, <2>1, <2>2 DEF BytesOf, Cleared, Handle
  <2>7. DueOK(b)'
    <3> SUFFICES ASSUME NEW c \in Cids, rows[b][c].present, c \in Due(h)', ~Crossed(b, c)'
                 PROVE  rows[b][c].key \in temp'[h] \/ c \in doomed'[h]
      BY <1>2, <2>2 DEF DueOK, Handle
    <3>1. c \in Cids \ cs /\ ~Crossed(b, c)
      BY <2>3, <2>4
    <3>2. c \in Due(h)
      BY <3>1 DEF Due
    <3>3. rows[b][c].key \in temp[h] \/ c \in doomed[h]
      BY <1>2, <2>1, <3>1, <3>2 DEF BytesOf, DueOK
    <3> QED
      BY <1>2, <3>1, <3>3
  <2>8. Behind(b)'
    <3> SUFFICES ASSUME NEW c \in Cids, rows[b][c].present, ~Crossed(b, c)'
                 PROVE  HasBytes(b, c)' \/ c \in doomed'[h]
      BY <1>2, <2>2 DEF Behind, Handle
    <3>1. c \in Cids \ cs /\ ~Crossed(b, c)
      BY <2>3, <2>4
    <3>2. HasBytes(b, c) \/ c \in doomed[h]
      BY <1>2, <2>1, <3>1 DEF BytesOf, Behind
    <3>3. /\ c \in blocks'[h] <=> c \in blocks[h]
          /\ c \in quarantined'[h] <=> c \in quarantined[h]
          /\ rows[b][c].key \in temp[h] => rows[b][c].key \in temp'[h]
      BY <1>2, <3>1
    <3>4. HasBytes(b, c) => HasBytes(b, c)'
      BY <1>2, <2>2, <3>3 DEF HasBytes, Handle
    <3> QED
      BY <3>2, <3>4
  <2>9. Hidden(b)'
    <3> SUFFICES ASSUME NEW c \in Settled(b) \ strayed[b], ~Crossed(b, c)'
                 PROVE  c \notin blocks'[h]
      BY <1>2, <2>2 DEF Hidden, Settled, Handle
    <3>1. c \in Cids /\ rows[b][c].present
      BY DEF Settled, Types, RowOK
    <3>2. c \in Cids \ cs /\ ~Crossed(b, c)
      BY <2>3, <2>4, <3>1
    <3>3. c \notin blocks[h]
      BY <1>2, <2>1, <3>2 DEF BytesOf, Hidden
    <3> QED
      BY <3>2, <3>3
  <2> QED
    BY <2>5, <2>6, <2>7, <2>8, <2>9 DEF BytesOf
<1> QED
  BY <1>1, <1>2 DEF BytesPart

(* Rows and references stay, and no task is further than it was. *)
LEMMA RowsStay ==
    ASSUME RowsPart, UNCHANGED <<rows, refs>>,
           \A b \in Actors : task'[b] = task[b] \/ task'[b].pc \notin {"move"} \cup Settling
    PROVE  RowsPart'
<1>1. AssociatedBlobHasRow'
  BY DEF RowsPart, AssociatedBlobHasRow
<1>2. ASSUME NEW a \in Actors
      PROVE  TaskRows(a)'
  <2>1. CASE task'[a] = task[a]
    BY <2>1 DEF RowsPart, TaskRows
  <2>2. CASE task'[a].pc \notin {"move"} \cup Settling
    BY <2>2 DEF TaskRows, Settling
  <2> QED
    BY <2>1, <2>2
<1> QED
  BY <1>1, <1>2 DEF RowsPart

-----------------------------------------------------------------------------
(* Without the lock.                                                       *)

LEMMA UploadBlobInv ==
    ASSUME Inv, NEW a \in Actors, NEW c \in Cids, UploadBlob(a, c)
    PROVE  Inv'
<1>1. Types /\ RowsPart
  BY DEF Inv
<1>2. PICK h \in Handles : h = Handle(a)
  BY HandleParts
<1>3. /\ blocks' = [blocks EXCEPT ![h] = blocks[h] \cup {c}]
      /\ doomed' = [doomed EXCEPT ![h] = doomed[h] \cup ({c} \cap Due(h))]
      /\ strayed' = [strayed EXCEPT ![a] = strayed[a] \cup {c}]
      /\ crossed' = crossed \cup {p \in Sharers(a) \X {c} : p[2] \in Known(p[1])}
      /\ UNCHANGED <<rows, refs, temp, quarantined, garbage, uploads, task, reading, keys,
                     exposed>>
  BY <1>2 DEF UploadBlob, Cross, Bounds
<1>4. /\ blocks \in [Handles -> SUBSET Cids] /\ doomed \in [Handles -> SUBSET Cids]
      /\ strayed \in [Actors -> SUBSET Cids]
  BY <1>1 DEF Types
<1>5. /\ blocks' \in [Handles -> SUBSET Cids] /\ doomed' \in [Handles -> SUBSET Cids]
      /\ strayed' \in [Actors -> SUBSET Cids]
  BY <1>3, <1>4
<1>6. Types'
  BY <1>1, <1>3, <1>5 DEF Types, RowOK
<1>7. RowsPart'
  BY <1>1, <1>3, RowsStay
<1>8. BytesPart'
  <2>1. BytesPart /\ BytesOf(a) /\ KeysPart' /\ exposed' = {}
    BY <1>3, KeysStay DEF Inv, BytesPart
  <2>2. /\ blocks'[h] = blocks[h] \cup {c} /\ doomed'[h] = doomed[h] \cup ({c} \cap Due(h))
        /\ strayed'[a] = strayed[a] \cup {c}
        /\ \A k \in Handles : k # h => blocks'[k] = blocks[k] /\ doomed'[k] = doomed[k]
        /\ \A b \in Actors : b # a => strayed'[b] = strayed[b]
    BY <1>3, <1>4
  <2>3. \A d : Crossed(a, d) => Crossed(a, d)'
    BY <1>3 DEF Crossed
  <2>4. UploadsHeld(a)' /\ Cleared(a)'
    BY <1>3, <2>1, <2>3 DEF BytesOf, UploadsHeld, Cleared, Handle
  <2>5. DueOK(a)'
    <3>1. Due(h)' = Due(h)
      BY <1>3 DEF Due
    <3> QED
      BY <1>2, <1>3, <2>1, <2>2, <2>3, <3>1 DEF BytesOf, DueOK, Handle
  <2>6. Behind(a)'
    BY <1>2, <1>3, <2>1, <2>2, <2>3 DEF BytesOf, Behind, HasBytes, Handle
  <2>7. Hidden(a)'
    BY <1>2, <1>3, <2>1, <2>2, <2>3 DEF BytesOf, Hidden, Settled, Handle
  <2>8. BytesOf(a)'
    BY <2>4, <2>5, <2>6, <2>7 DEF BytesOf
  <2>9. {c} \in SUBSET Cids /\ \A d \in Cids \ {c} : d \in blocks'[h] <=> d \in blocks[h]
    BY <2>2
  <2> QED
    BY <1>1, <1>2, <1>3, <2>1, <2>2, <2>8, <2>9, OthersStay
<1> QED
  BY <1>6, <1>7, <1>8 DEF Inv

LEMMA UploadInv ==
    ASSUME Inv, NEW a \in Actors, NEW c \in Cids, Upload(a, c)
    PROVE  Inv'
<1>1. Types /\ RowsPart
  BY DEF Inv
<1>2. PICK h \in Handles : h = Handle(a)
  BY HandleParts
<1>3. PICK n \in Nat, u \in Uploads :
        n = keys /\ u = [actor |-> a, key |-> n + 1, cid |-> c]
  <2>1. keys \in Nat
    BY <1>1 DEF Types
  <2>2. [actor |-> a, key |-> keys + 1, cid |-> c] \in Uploads
    BY <2>1 DEF Uploads
  <2> QED
    BY <2>1, <2>2
<1>4. /\ keys' = n + 1 /\ temp' = [temp EXCEPT ![h] = temp[h] \cup {n + 1}]
      /\ uploads' = uploads \cup {u}
      /\ UNCHANGED <<rows, refs, blocks, quarantined, garbage, task, reading,
                     doomed, strayed, crossed, exposed>>
  BY <1>2, <1>3 DEF Upload, PutTemp, History
<1>5. /\ temp \in [Handles -> SUBSET (1..n)] /\ \A v \in uploads : v.key \in 1..n
      /\ \A b \in Actors, d \in Cids : rows[b][d].key \in 0..n
  BY <1>1, <1>3 DEF Types, RowOK
<1>6. u \in Uploads /\ u.key = n + 1 /\ u.actor = a
  BY <1>3 DEF Uploads
<1>7. /\ 1..n \subseteq 1..n + 1 /\ 0..n \subseteq 0..n + 1
      /\ n + 1 \in 1..n + 1 /\ n + 1 \notin 0..n /\ n + 1 \notin 1..n
  OBVIOUS
<1>8. Types'
  <2>1. temp' \in [Handles -> SUBSET (1..n + 1)]
    BY <1>4, <1>5, <1>7
  <2>2. uploads' \subseteq Uploads /\ \A v \in uploads' : v.key \in 1..n + 1
    BY <1>1, <1>4, <1>5, <1>6, <1>7 DEF Types
  <2>3. \A b \in Actors, d \in Cids : RowOK(rows[b][d])'
    BY <1>1, <1>4, <1>5, <1>7 DEF Types, RowOK
  <2> QED
    BY <1>1, <1>4, <2>1, <2>2, <2>3 DEF Types
<1>9. RowsPart'
  BY <1>1, <1>4, RowsStay
<1>10. ASSUME NEW b \in Actors, task[b].pc = "clear"
       PROVE  task[b].key \in 0..n
  <2>1. rows[b][task[b].blob[2]].key = task[b].key
    BY <1>1, <1>10 DEF RowsPart, TaskRows
  <2>2. task[b].blob[2] \in Cids
    BY <1>1, <1>10 DEF Types, TaskTypes, Settling, Pairs
  <2> QED
    BY <1>5, <2>1, <2>2
<1>11. BytesPart'
  <2>1. BytesPart /\ BytesOf(a) /\ KeysPart /\ exposed' = {}
    BY <1>4 DEF Inv, BytesPart
  <2>2. /\ temp'[h] = temp[h] \cup {n + 1}
        /\ \A k \in Handles : k # h => temp'[k] = temp[k]
    BY <1>4, <1>5
  <2>3. KeysPart'
    <3>1. KeysOnce'
      BY <1>4, <2>1 DEF KeysPart, KeysOnce
    <3>2. UploadKeys'
      BY <1>4, <1>5, <1>6, <1>7, <2>1 DEF KeysPart, UploadKeys
    <3>3. UploadsDiffer'
      BY <1>4, <1>5, <1>6, <1>7, <2>1 DEF KeysPart, UploadsDiffer
    <3> QED
      BY <3>1, <3>2, <3>3 DEF KeysPart
  <2>4. UploadsHeld(a)'
    <3> SUFFICES ASSUME NEW v \in uploads', v.actor = a
                 PROVE  v.key \in temp'[h] \/ Crossed(a, v.cid)
      BY <1>2, <1>4 DEF UploadsHeld, Crossed, Handle
    <3>1. CASE v \in uploads
      BY <1>2, <2>1, <2>2, <3>1 DEF BytesOf, UploadsHeld
    <3>2. CASE v = u
      BY <1>6, <2>2, <3>2
    <3> QED
      BY <1>4, <3>1, <3>2
  <2>5. Cleared(a)'
    BY <1>2, <1>4, <1>7, <1>10, <2>1, <2>2 DEF BytesOf, Cleared, Handle
  <2>6. DueOK(a)'
    <3>1. Due(h)' = Due(h)
      BY <1>4 DEF Due
    <3> QED
      BY <1>2, <1>4, <2>1, <2>2, <3>1 DEF BytesOf, DueOK, Crossed, Handle
  <2>7. Behind(a)' /\ Hidden(a)'
    BY <1>2, <1>4, <2>1, <2>2 DEF BytesOf, Behind, HasBytes, Hidden, Settled, Crossed, Handle
  <2>8. BytesOf(a)'
    BY <2>4, <2>5, <2>6, <2>7 DEF BytesOf
  <2>9. \A v \in uploads' : v.actor # a => v \in uploads
    BY <1>4, <1>6
  <2>10. \A b \in Actors : task[b].pc = "clear" /\ task[b].key \in temp'[h]
                             => task[b].key \in temp[h]
    BY <1>7, <1>10, <2>2
  <2>11. crossed' = crossed \cup {p \in Sharers(a) \X {} : p[2] \in Known(p[1])}
    BY <1>4
  <2> QED
    BY <1>1, <1>2, <1>4, <2>1, <2>2, <2>3, <2>8, <2>9, <2>10, <2>11, OthersStay
<1> QED
  BY <1>8, <1>9, <1>11 DEF Inv

(* Readers only look. *)
LEMMA GetMetadataInv ==
    ASSUME Inv, NEW a \in Actors, NEW c \in Cids, GetMetadata(a, c)
    PROVE  Inv'
<1>1. Types /\ RowsPart
  BY DEF Inv
<1>2. /\ reading' = [reading EXCEPT ![a] = {c}]
      /\ UNCHANGED <<rows, refs, temp, blocks, quarantined, garbage, uploads, task, keys,
                     doomed, strayed, crossed, exposed>>
  BY DEF GetMetadata, Objects, History, Bounds
<1>3. Types'
  BY <1>1, <1>2 DEF Types, RowOK
<1>4. RowsPart'
  BY <1>1, <1>2, RowsStay
<1>5. BytesPart'
  <2>1. \A b \in Actors : BytesOf(b)'
    BY <1>2, BytesStay DEF Inv, BytesPart
  <2> QED
    BY <1>2, <2>1, KeysStay DEF Inv, BytesPart
<1> QED
  BY <1>3, <1>4, <1>5 DEF Inv

LEMMA GetStreamInv ==
    ASSUME Inv, NEW a \in Actors, NEW c \in Cids, GetStream(a, c)
    PROVE  Inv'
<1>1. Types /\ RowsPart
  BY DEF Inv
<1>2. /\ reading' = [reading EXCEPT ![a] = {}]
      /\ UNCHANGED <<rows, refs, temp, blocks, quarantined, garbage, uploads, task, keys,
                     doomed, strayed, crossed>>
      /\ exposed' = IF /\ c \in blocks[Handle(a)] /\ c \in Settled(a) \ strayed[a]
                       /\ <<a, c>> \notin crossed
                    THEN exposed \cup {<<a, c>>} ELSE exposed
  BY DEF GetStream, Objects, Bounds
<1>3. Types'
  BY <1>1, <1>2 DEF Types, RowOK
<1>4. RowsPart'
  BY <1>1, <1>2, RowsStay
<1>5. BytesPart'
  <2>1. \A b \in Actors : BytesOf(b)'
    BY <1>2, BytesStay DEF Inv, BytesPart
  <2>2. exposed' = {}
    BY <1>2 DEF Inv, BytesPart, BytesOf, Hidden, Crossed
  <2> QED
    BY <1>2, <2>1, <2>2, KeysStay DEF Inv, BytesPart
<1> QED
  BY <1>3, <1>4, <1>5 DEF Inv

(* A background deletion. *)
LEMMA DeleteOneInv ==
    ASSUME Inv, NEW g \in garbage, NEW c \in g.cids, DeleteOne(g, c)
    PROVE  Inv'
<1>1. Types /\ RowsPart
  BY DEF Inv
<1>2. PICK h : h = g.handle
  OBVIOUS
<1>3. /\ blocks' = [blocks EXCEPT ![h] = blocks[h] \ {c}]
      /\ garbage' = (garbage \ {g}) \cup
           (IF g.cids = {c} THEN {} ELSE {[g EXCEPT !.cids = g.cids \ {c}]})
      /\ UNCHANGED <<rows, refs, temp, quarantined, uploads, task, reading, keys,
                     doomed, strayed, crossed, exposed>>
  BY <1>2 DEF DeleteOne, History, Bounds
<1>4. g.cids # {} /\ g.cids \subseteq Cids /\ g = [handle |-> h, cids |-> g.cids]
  BY <1>1, <1>2 DEF Types
<1>5. PICK r : r = [handle |-> h, cids |-> g.cids \ {c}]
  OBVIOUS
<1>6. [g EXCEPT !.cids = g.cids \ {c}] = r /\ r.handle = h /\ r.cids = g.cids \ {c}
  BY <1>4, <1>5
<1>7. /\ blocks \in [Handles -> SUBSET Cids]
      /\ \A k \in Handles : blocks'[k] = IF k = h THEN blocks[k] \ {c} ELSE blocks[k]
  BY <1>1, <1>3 DEF Types
<1>8. Types'
  <2>1. blocks' \in [Handles -> SUBSET Cids]
    BY <1>3, <1>7
  <2>2. \A x \in garbage' : /\ x.cids # {} /\ x.cids \subseteq Cids
                            /\ x = [handle |-> x.handle, cids |-> x.cids]
    <3> SUFFICES ASSUME NEW x \in garbage'
                 PROVE  /\ x.cids # {} /\ x.cids \subseteq Cids
                        /\ x = [handle |-> x.handle, cids |-> x.cids]
      OBVIOUS
    <3>1. CASE x \in garbage
      BY <1>1, <3>1 DEF Types
    <3>2. CASE x = r /\ g.cids # {c}
      BY <1>4, <1>5, <1>6, <3>2
    <3> QED
      BY <1>3, <1>6, <3>1, <3>2
  <2> QED
    BY <1>1, <1>3, <2>1, <2>2 DEF Types, RowOK
<1>9. RowsPart'
  BY <1>1, <1>3, RowsStay
<1>10. ASSUME NEW a \in Actors
       PROVE  BytesOf(a)'
  <2>1. BytesOf(a)
    BY DEF Inv, BytesPart
  <2>2. CASE Handle(a) # h
    <3>1. \A x \in garbage' : x.handle = Handle(a) => x \in garbage
      BY <1>3, <1>6, <2>2
    <3>2. blocks'[Handle(a)] = blocks[Handle(a)]
      BY <1>7, <2>2, HandleParts
    <3> QED
      BY <1>3, <2>1, <3>1, <3>2, BytesStay
  <2>3. CASE Handle(a) = h
    <3>1. blocks'[h] = blocks[h] \ {c} /\ c \in Due(h)
      BY <1>2, <1>7, <2>3, HandleParts DEF Due
    <3>2. \A d : d \in Due(h)' => d \in Due(h)
      <4> SUFFICES ASSUME NEW d, NEW x \in garbage', x.handle = h, d \in x.cids
                   PROVE  d \in Due(h)
        BY DEF Due
      <4>1. CASE x \in garbage
        BY <4>1 DEF Due
      <4>2. CASE x = r
        BY <1>2, <1>6, <4>2 DEF Due
      <4> QED
        BY <1>3, <1>6, <4>1, <4>2
    <3>3. UploadsHeld(a)' /\ Cleared(a)'
      BY <1>3, <2>1 DEF BytesOf, UploadsHeld, Cleared, Crossed, Handle
    <3>4. DueOK(a)'
      BY <1>3, <2>1, <2>3, <3>2 DEF BytesOf, DueOK, Crossed, Handle
    <3>5. Behind(a)'
      <4> SUFFICES ASSUME NEW d \in Cids, rows[a][d].present, ~Crossed(a, d)
                   PROVE  HasBytes(a, d)' \/ d \in doomed[h]
        BY <1>3, <2>3 DEF Behind, Crossed, Handle
      <4>1. HasBytes(a, d) \/ d \in doomed[h]
        BY <2>1, <2>3 DEF BytesOf, Behind
      <4>2. CASE d = c
        BY <1>3, <2>1, <2>3, <3>1, <4>2 DEF BytesOf, DueOK, HasBytes, Handle
      <4>3. CASE d # c
        BY <1>3, <2>3, <3>1, <4>1, <4>3 DEF HasBytes, Handle
      <4> QED
        BY <4>2, <4>3
    <3>6. Hidden(a)'
      BY <1>3, <2>1, <2>3, <3>1 DEF BytesOf, Hidden, Settled, Crossed, Handle
    <3> QED
      BY <3>3, <3>4, <3>5, <3>6 DEF BytesOf
  <2> QED
    BY <2>2, <2>3
<1>11. BytesPart'
  BY <1>3, <1>10, KeysStay DEF Inv, BytesPart
<1> QED
  BY <1>8, <1>9, <1>11 DEF Inv

-----------------------------------------------------------------------------
(* Under the lock of the DID.                                              *)

(* A key of an upload becomes that of a row. *)
LEMMA TrackUntetheredInv ==
    ASSUME Inv, NEW a \in Actors, TrackUntethered(a)
    PROVE  Inv'
<1>1. Types /\ RowsPart
  BY DEF Inv
<1>2. PICK h \in Handles : h = Handle(a)
  BY HandleParts
<1>3. PICK u \in uploads :
        /\ u.actor = a /\ task[a] = Idle
        /\ rows' = IF rows[a][u.cid].down THEN rows
                   ELSE [rows EXCEPT ![a][u.cid] = Tracked(rows[a][u.cid], u.key)]
        /\ uploads' = uploads \ {u}
        /\ UNCHANGED <<refs, Objects, garbage, task, reading, Bounds, History>>
  BY DEF TrackUntethered
<1>4. /\ UNCHANGED <<refs, temp, blocks, quarantined, garbage, task, reading, keys,
                     doomed, strayed, crossed, exposed>>
      /\ task[a].pc = "idle"
  BY <1>3 DEF Objects, Bounds, History, Idle
<1>5. PICK c \in Cids, k \in Nat : c = u.cid /\ k = u.key
  BY <1>1 DEF Types, Uploads
<1>6. k \in 1..keys /\ keys \in Nat /\ k # NoKey
  BY <1>1, <1>5 DEF Types, NoKey
<1>7. rows \in [Actors -> [Cids -> BlobRow]] /\ rows[a][c] \in BlobRow
      /\ rows[a] \in [Cids -> BlobRow]
  BY <1>1 DEF Types
<1>8. CASE rows[a][c].down \/ (rows[a][c].present /\ rows[a][c].key = NoKey)
  <2>1. rows' = rows
    BY <1>3, <1>5, <1>7, <1>8 DEF Tracked
  <2>2. uploads' \subseteq uploads
    BY <1>3
  <2>3. Types'
    BY <1>1, <1>4, <2>1, <2>2 DEF Types, RowOK
  <2>4. RowsPart'
    BY <1>1, <1>4, <2>1, RowsStay
  <2>5. BytesPart'
    <3>1. \A b \in Actors : BytesOf(b)'
      BY <1>4, <2>1, <2>2, BytesStay DEF Inv, BytesPart
    <3> QED
      BY <1>4, <2>1, <2>2, <3>1, KeysStay DEF Inv, BytesPart
  <2> QED
    BY <2>3, <2>4, <2>5 DEF Inv
<1>9. CASE ~rows[a][c].down /\ ~(rows[a][c].present /\ rows[a][c].key = NoKey)
  <2>1. PICK row : row = [rows[a][c] EXCEPT !.present = TRUE, !.key = k]
    OBVIOUS
  <2>2. row.present /\ row.key = k /\ row.down = rows[a][c].down /\ row \in BlobRow
    <3>1. k \in Nat
      BY <1>6
    <3> QED
      BY <1>7, <2>1, <3>1 DEF BlobRow
  <2>3. rows' = [rows EXCEPT ![a][c] = row]
    BY <1>3, <1>5, <1>9, <2>1 DEF Tracked
  <2>4. /\ rows'[a][c] = row /\ \A d \in Cids : d # c => rows'[a][d] = rows[a][d]
        /\ \A b \in Actors : b # a => rows'[b] = rows[b]
        /\ rows' \in [Actors -> [Cids -> BlobRow]]
    BY <1>7, <2>2, <2>3
  <2>5. uploads' \subseteq uploads /\ u \notin uploads'
    BY <1>3
  <2>6. Types'
    <3>1. ASSUME NEW b \in Actors, NEW d \in Cids
          PROVE  RowOK(rows[b][d])'
      <4>1. RowOK(rows[b][d])
        BY <1>1 DEF Types
      <4> QED
        BY <1>4, <1>6, <2>2, <2>4, <4>1 DEF RowOK
    <3> QED
      BY <1>1, <1>4, <2>4, <2>5, <3>1 DEF Types
  <2>7. RowsPart'
    <3>1. AssociatedBlobHasRow'
      <4> SUFFICES ASSUME NEW b \in Actors, NEW r \in refs[b]
                   PROVE  rows'[b][r[2]].present
        BY <1>4 DEF AssociatedBlobHasRow
      <4>1. r[2] \in Cids /\ rows[b][r[2]].present
        BY <1>1 DEF RowsPart, AssociatedBlobHasRow, Types, Pairs
      <4> QED
        BY <2>2, <2>4, <4>1
    <3>2. ASSUME NEW b \in Actors
          PROVE  TaskRows(b)'
      <4>1. CASE b = a
        BY <1>4, <4>1 DEF TaskRows, Settling
      <4>2. CASE b # a
        BY <1>1, <1>4, <2>4, <4>2 DEF RowsPart, TaskRows
      <4> QED
        BY <4>1, <4>2
    <3> QED
      BY <3>1, <3>2 DEF RowsPart
  <2>8. BytesPart'
    <3>1. BytesPart /\ BytesOf(a) /\ KeysPart /\ exposed' = {}
      BY <1>4 DEF Inv, BytesPart
    <3>2. /\ k \in temp[h] \/ Crossed(a, c)
          /\ \A b \in Actors, d \in Cids : rows[b][d].key # k
      BY <1>2, <1>3, <1>5, <3>1 DEF BytesOf, UploadsHeld, KeysPart, UploadKeys
    <3>3. \A v \in uploads' : v \in uploads /\ v.key # k
      BY <1>5, <2>5, <3>1 DEF KeysPart, UploadsDiffer
    <3>4. KeysPart'
      <4>1. KeysOnce'
        <5> SUFFICES ASSUME NEW b1 \in Actors, NEW b2 \in Actors, NEW c1 \in Cids, NEW c2 \in Cids,
                            rows'[b1][c1].key # NoKey, rows'[b1][c1].key = rows'[b2][c2].key
                     PROVE  b1 = b2 /\ c1 = c2
          BY DEF KeysOnce
        <5>1. \A b \in Actors, d \in Cids :
                 rows'[b][d].key = IF b = a /\ d = c THEN k ELSE rows[b][d].key
          BY <2>2, <2>4
        <5> QED
          BY <3>1, <3>2, <5>1 DEF KeysPart, KeysOnce
      <4>2. UploadKeys'
        <5> SUFFICES ASSUME NEW v \in uploads', NEW b \in Actors, NEW d \in Cids
                     PROVE  rows'[b][d].key # v.key
          BY DEF UploadKeys
        <5>1. rows[b][d].key # v.key
          BY <3>1, <3>3 DEF KeysPart, UploadKeys
        <5> QED
          BY <2>2, <2>4, <3>3, <5>1
      <4>3. UploadsDiffer'
        BY <3>1, <3>3 DEF KeysPart, UploadsDiffer
      <4> QED
        BY <4>1, <4>2, <4>3 DEF KeysPart
    <3>5. UploadsHeld(a)' /\ Cleared(a)'
      BY <1>4, <3>1, <3>3 DEF BytesOf, UploadsHeld, Cleared, Crossed, Handle
    <3>6. DueOK(a)'
      <4>1. Due(h)' = Due(h)
        BY <1>4 DEF Due
      <4> QED
        BY <1>2, <1>4, <2>2, <2>4, <3>1, <3>2, <4>1 DEF BytesOf, DueOK, Crossed, Handle
    <3>7. Behind(a)'
      <4> SUFFICES ASSUME NEW d \in Cids, rows'[a][d].present, ~Crossed(a, d)
                   PROVE  HasBytes(a, d)' \/ d \in doomed[h]
        BY <1>2, <1>4 DEF Behind, Crossed, Handle
      <4>1. CASE d = c
        BY <1>2, <1>4, <2>2, <2>4, <3>2, <4>1 DEF HasBytes, Handle
      <4>2. CASE d # c
        <5>1. HasBytes(a, d) \/ d \in doomed[h]
          BY <1>2, <2>4, <3>1, <4>2 DEF BytesOf, Behind
        <5> QED
          BY <1>2, <1>4, <2>4, <4>2, <5>1 DEF HasBytes, Handle
      <4> QED
        BY <4>1, <4>2
    <3>8. Hidden(a)'
      BY <1>2, <1>4, <1>9, <2>2, <2>4, <3>1 DEF BytesOf, Hidden, Settled, Crossed, Handle
    <3>9. BytesOf(a)'
      BY <3>5, <3>6, <3>7, <3>8 DEF BytesOf
    <3> QED
      BY <1>4, <2>4, <3>1, <3>3, <3>4, <3>9, OthersSame
  <2> QED
    BY <2>6, <2>7, <2>8 DEF Inv
<1> QED
  BY <1>8, <1>9

(* The task of one actor moves on, and nothing else that counts. *)
LEMMA TaskMoves ==
    ASSUME Inv, NEW a \in Actors, NEW t, TaskTypes(t), task' = [task EXCEPT ![a] = t],
           t.pc \notin {"clear", "move"}, task[a].pc # "move",
           UNCHANGED <<rows, temp, blocks, quarantined, garbage, uploads, reading, keys,
                       doomed, strayed, crossed, exposed>>,
           refs' \in [Actors -> SUBSET Pairs], AssociatedBlobHasRow',
           TaskRows(a)'
    PROVE  Inv'
<1>1. Types /\ RowsPart
  BY DEF Inv
<1>2. DOMAIN task' = Actors /\ \A b \in Actors : task'[b] = IF b = a THEN t ELSE task[b]
  BY <1>1 DEF Types
<1>3. Types'
  BY <1>1, <1>2 DEF Types, RowOK
<1>4. ASSUME NEW b \in Actors
      PROVE  TaskRows(b)'
  <2>1. CASE b # a
    BY <1>1, <1>2, <2>1 DEF RowsPart, TaskRows
  <2> QED
    BY <2>1
<1>5. BytesPart'
  <2>1. ASSUME NEW b \in Actors
        PROVE  BytesOf(b)'
    <3>1. BytesOf(b)
      BY DEF Inv, BytesPart
    <3>2. \/ task'[b] = task[b]
          \/ /\ task'[b].pc \notin {"clear", "move"}
             /\ task[b].pc = "move" => task[b].cid \in strayed'[b]
      BY <1>2
    <3> QED
      BY <3>1, <3>2, BytesStay
  <2> QED
    BY <2>1, KeysStay DEF Inv, BytesPart
<1> QED
  BY <1>3, <1>4, <1>5 DEF Inv, RowsPart

(* A batch, and what its records refer to. *)
LEMMA StartWriteInv ==
    ASSUME Inv, NEW a \in Actors, StartWrite(a)
    PROVE  Inv'
<1>1. Types /\ RowsPart
  BY DEF Inv
<1>2. PICK touched \in SUBSET Uris, todo \in SUBSET Pairs :
        task' = [task EXCEPT ![a] = [pc |-> "deref", touched |-> touched, todo |-> todo]]
  BY DEF StartWrite, Pairs
<1>3. PICK t : t = [pc |-> "deref", touched |-> touched, todo |-> todo]
  OBVIOUS
<1>4. t.pc = "deref" /\ t.todo \subseteq Pairs /\ "todo" \in DOMAIN t
  BY <1>3
<1>5. TaskTypes(t)
  BY <1>4 DEF TaskTypes, Settling
<1>6. /\ UNCHANGED <<rows, refs, temp, blocks, quarantined, garbage, uploads, reading, keys,
                     doomed, strayed, crossed, exposed>>
      /\ task[a].pc # "move" /\ task' = [task EXCEPT ![a] = t]
  <2>1. task' = [task EXCEPT ![a] = t]
    BY <1>2, <1>3
  <2>2. /\ task[a] = Idle
        /\ UNCHANGED <<rows, refs, Objects, garbage, uploads, reading, keys, History>>
    BY DEF StartWrite
  <2> QED
    BY <2>1, <2>2 DEF Objects, History, Idle
<1>7. task'[a] = t
  BY <1>1, <1>6 DEF Types
<1>8. AssociatedBlobHasRow' /\ TaskRows(a)' /\ refs' \in [Actors -> SUBSET Pairs]
  BY <1>1, <1>4, <1>6, <1>7 DEF RowsPart, AssociatedBlobHasRow, TaskRows, Settling, Types
<1> QED
  BY <1>4, <1>5, <1>6, <1>8, TaskMoves

LEMMA DereferenceInv ==
    ASSUME Inv, NEW a \in Actors, Dereference(a)
    PROVE  Inv'
<1>1. Types /\ RowsPart
  BY DEF Inv
<1>2. PICK freed : freed = {r \in refs[a] : r[1] \in task[a].touched}
  OBVIOUS
<1>3. PICK t : t = [pc |-> "collect", todo |-> task[a].todo, freed |-> {r[2] : r \in freed}]
  OBVIOUS
<1>4. /\ UNCHANGED <<rows, temp, blocks, quarantined, garbage, uploads, reading, keys,
                     doomed, strayed, crossed, exposed>>
      /\ task[a].pc = "deref" /\ task' = [task EXCEPT ![a] = t]
      /\ refs' = [refs EXCEPT ![a] = refs[a] \ freed]
  BY <1>2, <1>3 DEF Dereference, Objects, History, Bounds
<1>5. refs \in [Actors -> SUBSET Pairs] /\ TaskTypes(task[a])
  BY <1>1 DEF Types
<1>6. t.pc = "collect" /\ "todo" \in DOMAIN t /\ t.todo \subseteq Pairs /\ t.freed \subseteq Cids
  <2>1. t.freed \subseteq Cids
    BY <1>2, <1>3, <1>5 DEF Pairs
  <2>2. task[a].todo \subseteq Pairs
    BY <1>4, <1>5 DEF TaskTypes
  <2> QED
    BY <1>3, <2>1, <2>2
<1>7. TaskTypes(t)
  BY <1>6 DEF TaskTypes, Settling
<1>8. /\ refs' \in [Actors -> SUBSET Pairs]
      /\ \A b \in Actors : refs'[b] \subseteq refs[b]
  BY <1>4, <1>5
<1>9. AssociatedBlobHasRow'
  BY <1>1, <1>4, <1>8 DEF RowsPart, AssociatedBlobHasRow
<1>10. task'[a] = t
  BY <1>1, <1>4 DEF Types
<1>11. TaskRows(a)'
  BY <1>6, <1>10 DEF TaskRows, Settling
<1> QED
  BY <1>4, <1>6, <1>7, <1>8, <1>9, <1>11, TaskMoves

LEMMA VerifyInv ==
    ASSUME Inv, NEW a \in Actors, Verify(a)
    PROVE  Inv'
<1>1. Types /\ RowsPart /\ TaskTypes(task[a])
  BY DEF Inv, Types
<1>2. /\ UNCHANGED <<rows, refs, temp, blocks, quarantined, garbage, uploads, reading, keys,
                     doomed, strayed, crossed, exposed>>
      /\ task[a].pc = "verify"
  BY DEF Verify, Objects, History, Bounds
<1>3. refs' \in [Actors -> SUBSET Pairs] /\ AssociatedBlobHasRow'
  BY <1>1, <1>2 DEF Types, RowsPart, AssociatedBlobHasRow
<1>4. CASE task' = [task EXCEPT ![a] = Idle]
  <2>1. task'[a] = Idle /\ Idle.pc = "idle" /\ TaskTypes(Idle)
    BY <1>1, <1>4 DEF Types, Idle, TaskTypes, Settling
  <2>2. TaskRows(a)'
    BY <2>1 DEF TaskRows, Settling
  <2> QED
    BY <1>2, <1>3, <1>4, <2>1, <2>2, TaskMoves
<1>5. ASSUME NEW p \in task[a].todo, NEW row, row = rows[a][p[2]], row.present, ~row.down,
             task' = [task EXCEPT ![a] =
               [pc |-> IF row.key = NoKey THEN "associate" ELSE "permanent",
                todo |-> task[a].todo, blob |-> p, key |-> row.key]]
      PROVE  Inv'
  <2>1. PICK t : t = [pc |-> IF row.key = NoKey THEN "associate" ELSE "permanent",
                      todo |-> task[a].todo, blob |-> p, key |-> row.key]
    OBVIOUS
  <2>2. /\ t.pc = (IF row.key = NoKey THEN "associate" ELSE "permanent") /\ t.blob = p
        /\ t.todo = task[a].todo /\ t.key = row.key
        /\ {"pc", "todo", "blob", "key"} \subseteq DOMAIN t
    BY <2>1
  <2>3. task' = [task EXCEPT ![a] = t] /\ task'[a] = t
    BY <1>1, <1>5, <2>1 DEF Types
  <2>4. task[a].todo \subseteq Pairs
    BY <1>1, <1>2 DEF TaskTypes
  <2>5. p[2] \in Cids
    BY <1>5, <2>4 DEF Pairs
  <2>6. row.key \in Nat
    BY <1>1, <1>5, <2>5 DEF Types, BlobRow
  <2>7. TaskTypes(t)
    BY <1>5, <2>2, <2>4, <2>6 DEF TaskTypes, Settling
  <2>8. TaskRows(a)'
    BY <1>2, <1>5, <2>2, <2>3 DEF TaskRows, Settling
  <2> QED
    BY <1>2, <1>3, <2>2, <2>3, <2>7, <2>8, TaskMoves
<1> QED
  BY <1>4, <1>5 DEF Verify

LEMMA AssociateInv ==
    ASSUME Inv, NEW a \in Actors, Associate(a)
    PROVE  Inv'
<1>1. Types /\ RowsPart /\ TaskTypes(task[a]) /\ TaskRows(a)
  BY DEF Inv, Types, RowsPart
<1>2. PICK p, t : p = task[a].blob /\ t = [pc |-> "verify", todo |-> task[a].todo \ {p}]
  OBVIOUS
<1>3. /\ UNCHANGED <<rows, temp, blocks, quarantined, garbage, uploads, reading, keys,
                     doomed, strayed, crossed, exposed>>
      /\ task[a].pc = "associate" /\ task' = [task EXCEPT ![a] = t]
      /\ refs' = [refs EXCEPT ![a] = refs[a] \cup {p}]
  BY <1>2 DEF Associate, Objects, History, Bounds
<1>4. p \in Pairs /\ task[a].todo \subseteq Pairs /\ rows[a][p[2]].present
  BY <1>1, <1>2, <1>3 DEF TaskTypes, TaskRows, Settling
<1>5. t.pc = "verify" /\ "todo" \in DOMAIN t /\ t.todo \subseteq Pairs
  BY <1>2, <1>4
<1>6. TaskTypes(t)
  BY <1>5 DEF TaskTypes, Settling
<1>7. refs \in [Actors -> SUBSET Pairs]
  BY <1>1 DEF Types
<1>8. /\ refs' \in [Actors -> SUBSET Pairs]
      /\ \A b \in Actors : refs'[b] = IF b = a THEN refs[a] \cup {p} ELSE refs[b]
  BY <1>3, <1>4, <1>7
<1>9. AssociatedBlobHasRow'
  BY <1>1, <1>3, <1>4, <1>8 DEF RowsPart, AssociatedBlobHasRow
<1>10. task'[a] = t
  BY <1>1, <1>3 DEF Types
<1>11. TaskRows(a)'
  BY <1>5, <1>10 DEF TaskRows, Settling
<1> QED
  BY <1>3, <1>5, <1>6, <1>8, <1>9, <1>11, TaskMoves

(* What other records and the batch still need is not collected.           *)
LEMMA CollectInv ==
    ASSUME Inv, NEW a \in Actors, Collect(a)
    PROVE  Inv'
<1>1. Types /\ RowsPart /\ TaskTypes(task[a])
  BY DEF Inv, Types
<1>2. PICK h \in Handles : h = Handle(a)
  BY HandleParts
<1>3. PICK gone : gone = Collectable(a, task[a])
  OBVIOUS
<1>4. PICK t : t = [pc |-> "verify", todo |-> task[a].todo]
  OBVIOUS
<1>5. PICK g : g = [handle |-> h, cids |-> gone]
  OBVIOUS
<1>6. /\ rows' = [rows EXCEPT ![a] = [c \in Cids |-> IF c \in gone THEN NoRow
                                                    ELSE rows[a][c]]]
      /\ garbage' = garbage \cup (IF gone = {} THEN {} ELSE {g})
      /\ task' = [task EXCEPT ![a] = t] /\ task[a].pc = "collect"
      /\ crossed' = crossed \cup {p \in Sharers(a) \X gone : p[2] \in Known(p[1])}
      /\ UNCHANGED <<refs, temp, blocks, quarantined, uploads, reading, keys,
                     doomed, strayed, exposed>>
  BY <1>2, <1>3, <1>4, <1>5 DEF Collect, Add, Cross, Objects, Bounds
<1>7. /\ gone \subseteq Cids /\ \A r \in refs[a] : r[2] \notin gone
      /\ task[a].todo \subseteq Pairs
  BY <1>1, <1>3, <1>6 DEF Collectable, TaskTypes
<1>8. rows \in [Actors -> [Cids -> BlobRow]] /\ refs \in [Actors -> SUBSET Pairs]
  BY <1>1 DEF Types
<1>9. NoRow \in BlobRow /\ NoRow.key = NoKey /\ ~NoRow.present /\ ~NoRow.down /\ NoKey = 0
  BY DEF NoRow, BlobRow, NoKey
<1>10. /\ rows' \in [Actors -> [Cids -> BlobRow]]
       /\ \A c \in Cids : rows'[a][c] = IF c \in gone THEN NoRow ELSE rows[a][c]
       /\ \A b \in Actors : b # a => rows'[b] = rows[b]
  BY <1>6, <1>8, <1>9
<1>11. /\ DOMAIN task' = Actors /\ task'[a] = t
       /\ \A b \in Actors : b # a => task'[b] = task[b]
  BY <1>1, <1>6 DEF Types
<1>12. t.pc = "verify" /\ "todo" \in DOMAIN t /\ t.todo \subseteq Pairs
  BY <1>4, <1>7
<1>13. Types'
  <2>1. \A b \in Actors : TaskTypes(task'[b])
    <3>1. TaskTypes(t)
      BY <1>12 DEF TaskTypes, Settling
    <3> QED
      BY <1>1, <1>11, <3>1 DEF Types
  <2>2. \A x \in garbage' : /\ x.cids # {} /\ x.cids \subseteq Cids
                            /\ x = [handle |-> x.handle, cids |-> x.cids]
    <3>1. ASSUME gone # {}
          PROVE  /\ g.cids # {} /\ g.cids \subseteq Cids
                 /\ g = [handle |-> g.handle, cids |-> g.cids]
      BY <1>5, <1>7, <3>1
    <3> QED
      BY <1>1, <1>6, <3>1 DEF Types
  <2>3. \A b \in Actors, c \in Cids : RowOK(rows[b][c])'
    <3> SUFFICES ASSUME NEW b \in Actors, NEW c \in Cids
                 PROVE  RowOK(rows[b][c])'
      OBVIOUS
    <3>1. RowOK(rows[b][c]) /\ keys \in Nat
      BY <1>1 DEF Types
    <3> QED
      BY <1>6, <1>9, <1>10, <3>1 DEF RowOK
  <2> QED
    BY <1>1, <1>6, <1>10, <1>11, <2>1, <2>2, <2>3 DEF Types
<1>14. RowsPart'
  <2>1. AssociatedBlobHasRow'
    <3> SUFFICES ASSUME NEW b \in Actors, NEW r \in refs[b]
                 PROVE  rows'[b][r[2]].present
      BY <1>6 DEF AssociatedBlobHasRow
    <3>1. r[2] \in Cids /\ rows[b][r[2]].present
      BY <1>1, <1>8 DEF RowsPart, AssociatedBlobHasRow, Pairs
    <3> QED
      BY <1>7, <1>10, <3>1
  <2>2. ASSUME NEW b \in Actors
        PROVE  TaskRows(b)'
    <3>1. CASE b = a
      BY <1>11, <1>12, <3>1 DEF TaskRows, Settling
    <3>2. CASE b # a
      BY <1>1, <1>10, <1>11, <3>2 DEF RowsPart, TaskRows
    <3> QED
      BY <3>1, <3>2
  <2> QED
    BY <2>1, <2>2 DEF RowsPart
<1>15. BytesPart'
  <2>1. BytesPart /\ BytesOf(a) /\ KeysPart /\ exposed' = {}
    BY <1>6 DEF Inv, BytesPart
  <2>2. KeysPart'
    <3>1. KeysOnce'
      BY <1>9, <1>10, <2>1 DEF KeysPart, KeysOnce
    <3>2. \A u \in uploads : u.key # NoKey
      BY <1>1, <1>9 DEF Types
    <3>3. UploadKeys'
      BY <1>6, <1>9, <1>10, <2>1, <3>2 DEF KeysPart, UploadKeys
    <3> QED
      BY <1>6, <2>1, <3>1, <3>3 DEF KeysPart, UploadsDiffer
  <2>3. \A c : Crossed(a, c) => Crossed(a, c)'
    BY <1>6 DEF Crossed
  <2>4. UploadsHeld(a)' /\ Cleared(a)'
    BY <1>6, <1>11, <1>12, <2>1, <2>3 DEF BytesOf, UploadsHeld, Cleared, Handle
  <2>5. DueOK(a)'
    <3>1. \A c : c \in Due(h)' => c \in Due(h) \/ c \in gone
      BY <1>5, <1>6 DEF Due
    <3> QED
      BY <1>2, <1>6, <1>9, <1>10, <2>1, <2>3, <3>1 DEF BytesOf, DueOK, Handle
  <2>6. Behind(a)'
    <3> SUFFICES ASSUME NEW c \in Cids, rows'[a][c].present, ~Crossed(a, c)
                 PROVE  HasBytes(a, c)' \/ c \in doomed[h]
      BY <1>2, <1>6, <2>3 DEF Behind, Handle
    <3>1. rows'[a][c] = rows[a][c] /\ (HasBytes(a, c) \/ c \in doomed[h])
      BY <1>2, <1>9, <1>10, <2>1 DEF BytesOf, Behind
    <3> QED
      BY <1>2, <1>6, <3>1 DEF HasBytes, Handle
  <2>7. Hidden(a)'
    BY <1>6, <1>9, <1>10, <2>1, <2>3 DEF BytesOf, Hidden, Settled, Handle
  <2>8. BytesOf(a)'
    BY <2>4, <2>5, <2>6, <2>7 DEF BytesOf
  <2>9. gone \in SUBSET Cids
        /\ \A x \in garbage' : x \in garbage \/ (x.handle = h /\ x.cids \subseteq gone)
    BY <1>5, <1>6, <1>7
  <2>10. /\ \A b \in Actors : b # a => /\ rows'[b] = rows[b] /\ task'[b] = task[b]
                                       /\ strayed'[b] = strayed[b]
         /\ UNCHANGED <<temp, blocks, quarantined, doomed, uploads, exposed>>
         /\ crossed' = crossed \cup {p \in Sharers(a) \X gone : p[2] \in Known(p[1])}
    BY <1>6, <1>10, <1>11
  <2> QED
    BY <1>1, <1>2, <2>1, <2>2, <2>8, <2>9, <2>10, OthersStay
<1> QED
  BY <1>13, <1>14, <1>15 DEF Inv

(* The bytes move to their place, or have been there.                      *)
LEMMA PermanentInv ==
    ASSUME Inv, NEW a \in Actors, Permanent(a)
    PROVE  Inv'
<1>1. Types /\ RowsPart /\ TaskTypes(task[a]) /\ TaskRows(a)
  BY DEF Inv, Types, RowsPart
<1>2. PICK h \in Handles : h = Handle(a)
  BY HandleParts
<1>3. PICK s, k, d : s = task[a] /\ k = task[a].key /\ d = task[a].blob[2]
  OBVIOUS
<1>4. PICK kept \in BOOLEAN : kept <=> Kept(h, k, d)
  BY DEF Kept
<1>5. PICK t : t = IF kept THEN [s EXCEPT !.pc = "clear"] ELSE Idle
  OBVIOUS
<1>6. /\ temp' = [temp EXCEPT ![h] = temp[h] \ {k}]
      /\ blocks' = [blocks EXCEPT ![h] = IF kept THEN blocks[h] \cup {d} ELSE blocks[h]]
      /\ doomed' = [doomed EXCEPT ![h] = doomed[h] \cup ({d} \cap Due(h))]
      /\ task' = [task EXCEPT ![a] = t] /\ task[a].pc = "permanent"
      /\ crossed' = crossed \cup {p \in Sharers(a) \X {d} : p[2] \in Known(p[1])}
      /\ UNCHANGED <<rows, refs, quarantined, garbage, uploads, reading, keys,
                     strayed, exposed>>
  BY <1>2, <1>3, <1>4, <1>5 DEF Permanent, MakePermanent, Cross, Bounds
<1>7. /\ s.pc = "permanent" /\ {"pc", "todo", "blob", "key"} \subseteq DOMAIN s
      /\ s.todo \subseteq Pairs /\ s.blob \in s.todo /\ s.key \in Nat
  BY <1>1, <1>3, <1>6 DEF TaskTypes, Settling
<1>8. /\ d \in Cids /\ k # NoKey /\ rows[a][d].present /\ ~rows[a][d].down
      /\ rows[a][d].key = k
  BY <1>1, <1>3, <1>6, <1>7 DEF TaskRows, Settling, Pairs
<1>9. /\ temp \in [Handles -> SUBSET (1..keys)] /\ blocks \in [Handles -> SUBSET Cids]
      /\ doomed \in [Handles -> SUBSET Cids]
  BY <1>1 DEF Types
<1>10. /\ temp' \in [Handles -> SUBSET (1..keys)] /\ blocks' \in [Handles -> SUBSET Cids]
       /\ doomed' \in [Handles -> SUBSET Cids]
       /\ temp'[h] = temp[h] \ {k} /\ doomed'[h] = doomed[h] \cup ({d} \cap Due(h))
       /\ blocks'[h] = IF kept THEN blocks[h] \cup {d} ELSE blocks[h]
       /\ \A x \in Handles : x # h => /\ temp'[x] = temp[x] /\ blocks'[x] = blocks[x]
                                      /\ doomed'[x] = doomed[x]
  BY <1>6, <1>8, <1>9
<1>11. /\ DOMAIN task' = Actors /\ task'[a] = t
       /\ \A b \in Actors : b # a => task'[b] = task[b]
  BY <1>1, <1>6 DEF Types
<1>12. \/ /\ kept /\ t.pc = "clear" /\ t.key = k /\ t.blob = s.blob /\ t.todo = s.todo
          /\ {"pc", "todo", "blob", "key"} \subseteq DOMAIN t
       \/ ~kept /\ t.pc = "idle"
  <2>1. CASE kept
    BY <1>3, <1>5, <1>7, <2>1
  <2>2. CASE ~kept
    BY <1>5, <2>2 DEF Idle
  <2> QED
    BY <2>1, <2>2
<1>13. Types'
  <2>1. TaskTypes(t)
    BY <1>7, <1>12, <1>3 DEF TaskTypes, Settling
  <2> QED
    BY <1>1, <1>6, <1>10, <1>11, <2>1 DEF Types, RowOK
<1>14. RowsPart'
  <2>1. AssociatedBlobHasRow'
    BY <1>1, <1>6 DEF RowsPart, AssociatedBlobHasRow
  <2>2. ASSUME NEW b \in Actors
        PROVE  TaskRows(b)'
    <3>1. CASE b = a
      BY <1>3, <1>6, <1>8, <1>11, <1>12, <3>1 DEF TaskRows, Settling
    <3>2. CASE b # a
      BY <1>1, <1>6, <1>11, <3>2 DEF RowsPart, TaskRows
    <3> QED
      BY <3>1, <3>2
  <2> QED
    BY <2>1, <2>2 DEF RowsPart
<1>15. BytesPart'
  <2>1. BytesPart /\ BytesOf(a) /\ KeysPart /\ KeysPart' /\ exposed' = {}
    BY <1>6, KeysStay DEF Inv, BytesPart
  <2>2. /\ \A b \in Actors, c \in Cids : rows[b][c].key = k => b = a /\ c = d
        /\ \A u \in uploads : u.key # k
    BY <1>8, <2>1 DEF KeysPart, KeysOnce, UploadKeys
  <2>3. \A c : Crossed(a, c) => Crossed(a, c)'
    BY <1>6 DEF Crossed
  <2>4. UploadsHeld(a)'
    BY <1>2, <1>6, <1>10, <2>1, <2>2, <2>3 DEF BytesOf, UploadsHeld, Handle
  <2>5. Cleared(a)'
    BY <1>2, <1>10, <1>11, <1>12 DEF Cleared, Handle
  <2>6. DueOK(a)'
    <3>1. Due(h)' = Due(h)
      BY <1>6 DEF Due
    <3> SUFFICES ASSUME NEW c \in Cids, rows[a][c].present, c \in Due(h), ~Crossed(a, c)
                 PROVE  rows[a][c].key \in temp'[h] \/ c \in doomed'[h]
      BY <1>2, <1>6, <2>3, <3>1 DEF DueOK, Handle
    <3>2. rows[a][c].key \in temp[h] \/ c \in doomed[h]
      BY <1>2, <2>1 DEF BytesOf, DueOK
    <3> QED
      BY <1>10, <2>2, <3>2
  <2>7. Behind(a)'
    <3> SUFFICES ASSUME NEW c \in Cids, rows[a][c].present, ~Crossed(a, c)
                 PROVE  HasBytes(a, c)' \/ c \in doomed'[h]
      BY <1>2, <1>6, <2>3 DEF Behind, Handle
    <3>1. HasBytes(a, c) \/ c \in doomed[h]
      BY <1>2, <2>1 DEF BytesOf, Behind
    <3>2. CASE c \in doomed[h]
      BY <1>10, <3>2
    <3>3. CASE c \in blocks[h]
      BY <1>2, <1>10, <3>3 DEF HasBytes, Handle
    <3>4. CASE c \notin blocks[h] /\ rows[a][c].key \in temp[h]
      BY <1>2, <1>4, <1>6, <1>8, <1>10, <2>2, <3>4 DEF HasBytes, Kept, Handle
    <3>5. CASE c \in quarantined[h] /\ (rows[a][c].down \/ c \in strayed[a])
      BY <1>2, <1>6, <3>5 DEF HasBytes, Handle
    <3>6. task[a] # [pc |-> "move", cid |-> c, applied |-> FALSE]
      BY <1>6
    <3> QED
      BY <1>2, <3>1, <3>2, <3>3, <3>4, <3>5, <3>6 DEF HasBytes
  <2>8. Hidden(a)'
    BY <1>2, <1>6, <1>8, <1>10, <2>1, <2>3 DEF BytesOf, Hidden, Settled, Handle
  <2>9. BytesOf(a)'
    BY <2>4, <2>5, <2>6, <2>7, <2>8 DEF BytesOf
  <2>10. /\ {d} \in SUBSET Cids
         /\ \A c \in Cids \ {d} : c \in blocks'[h] <=> c \in blocks[h]
         /\ \A u \in uploads : u.key \in temp[h] => u.key \in temp'[h]
         /\ \A b \in Actors, c \in Cids :
                b # a /\ rows[b][c].key \in temp[h] => rows[b][c].key \in temp'[h]
    BY <1>8, <1>10, <2>2
  <2>11. /\ \A b \in Actors : b # a => /\ rows'[b] = rows[b] /\ task'[b] = task[b]
                                       /\ strayed'[b] = strayed[b]
         /\ \A x \in Handles : x # h => /\ temp'[x] = temp[x] /\ blocks'[x] = blocks[x]
                                        /\ quarantined'[x] = quarantined[x]
                                        /\ doomed'[x] = doomed[x]
         /\ doomed[h] \subseteq doomed'[h]
         /\ \A c \in Cids \ {d} : c \in quarantined'[h] <=> c \in quarantined[h]
         /\ \A b \in Actors : b # a /\ task[b].pc = "clear" /\ task[b].key \in temp'[h]
                               => task[b].key \in temp[h]
         /\ UNCHANGED <<garbage, uploads>>
         /\ crossed' = crossed \cup {p \in Sharers(a) \X {d} : p[2] \in Known(p[1])}
    BY <1>6, <1>10, <1>11
  <2> QED
    BY <1>1, <1>2, <2>1, <2>9, <2>10, <2>11, OthersStay
<1> QED
  BY <1>13, <1>14, <1>15 DEF Inv

(* The one row with the key loses it. *)
LEMMA ClearTempInv ==
    ASSUME Inv, NEW a \in Actors, ClearTemp(a)
    PROVE  Inv'
<1>1. Types /\ RowsPart /\ TaskTypes(task[a]) /\ TaskRows(a)
  BY DEF Inv, Types, RowsPart
<1>2. PICK h \in Handles : h = Handle(a)
  BY HandleParts
<1>3. PICK s, k, d, t : /\ s = task[a] /\ k = task[a].key /\ d = task[a].blob[2]
                        /\ t = [task[a] EXCEPT !.pc = "associate"]
  OBVIOUS
<1>4. /\ rows' = [rows EXCEPT ![a] = [c \in Cids |->
            IF rows[a][c].key = k THEN [rows[a][c] EXCEPT !.key = NoKey] ELSE rows[a][c]]]
      /\ task' = [task EXCEPT ![a] = t] /\ task[a].pc = "clear"
      /\ UNCHANGED <<refs, temp, blocks, quarantined, garbage, uploads, reading, keys,
                     doomed, strayed, crossed, exposed>>
  BY <1>3 DEF ClearTemp, Objects, History, Bounds
<1>5. /\ s.pc = "clear" /\ {"pc", "todo", "blob", "key"} \subseteq DOMAIN s
      /\ s.todo \subseteq Pairs /\ s.blob \in s.todo /\ s.key \in Nat
  BY <1>1, <1>3, <1>4 DEF TaskTypes, Settling
<1>6. d \in Cids /\ k # NoKey /\ rows[a][d].present /\ ~rows[a][d].down /\ rows[a][d].key = k
  BY <1>1, <1>3, <1>4, <1>5 DEF TaskRows, Settling, Pairs
<1>7. rows \in [Actors -> [Cids -> BlobRow]] /\ NoKey = 0
  BY <1>1 DEF Types, NoKey
<1>8. /\ rows' \in [Actors -> [Cids -> BlobRow]]
      /\ \A c \in Cids : /\ rows'[a][c].present = rows[a][c].present
                         /\ rows'[a][c].down = rows[a][c].down
                         /\ rows'[a][c].key = IF rows[a][c].key = k THEN NoKey
                                              ELSE rows[a][c].key
      /\ \A b \in Actors : b # a => rows'[b] = rows[b]
  <2>1. \A c \in Cids : rows[a][c] \in BlobRow
    BY <1>7
  <2>2. \A row \in BlobRow : /\ [row EXCEPT !.key = NoKey] \in BlobRow
                             /\ [row EXCEPT !.key = NoKey].key = NoKey
                             /\ [row EXCEPT !.key = NoKey].present = row.present
                             /\ [row EXCEPT !.key = NoKey].down = row.down
    BY <1>7 DEF BlobRow
  <2>3. /\ \A b \in Actors : b # a => rows'[b] = rows[b]
        /\ \A c \in Cids : rows'[a][c] = IF rows[a][c].key = k
                                         THEN [rows[a][c] EXCEPT !.key = NoKey]
                                         ELSE rows[a][c]
    BY <1>4, <1>7
  <2>4. rows' \in [Actors -> [Cids -> BlobRow]]
    BY <1>4, <1>7, <2>1, <2>2
  <2>5. ASSUME NEW c \in Cids
        PROVE  /\ rows'[a][c].present = rows[a][c].present
               /\ rows'[a][c].down = rows[a][c].down
               /\ rows'[a][c].key = IF rows[a][c].key = k THEN NoKey ELSE rows[a][c].key
    <3>1. CASE rows[a][c].key = k
      BY <2>1, <2>2, <2>3, <3>1
    <3>2. CASE rows[a][c].key # k
      BY <2>3, <3>2
    <3> QED
      BY <3>1, <3>2
  <2> QED
    BY <2>3, <2>4, <2>5
<1>9. /\ DOMAIN task' = Actors /\ task'[a] = t
      /\ \A b \in Actors : b # a => task'[b] = task[b]
  BY <1>1, <1>4 DEF Types
<1>10. /\ t.pc = "associate" /\ t.key = k /\ t.blob = s.blob /\ t.todo = s.todo
       /\ {"pc", "todo", "blob", "key"} \subseteq DOMAIN t
  BY <1>3, <1>5
<1>11. Types'
  <2>1. TaskTypes(t)
    BY <1>3, <1>5, <1>10 DEF TaskTypes, Settling
  <2>2. \A b \in Actors, c \in Cids : RowOK(rows[b][c])'
    <3> SUFFICES ASSUME NEW b \in Actors, NEW c \in Cids
                 PROVE  RowOK(rows[b][c])'
      OBVIOUS
    <3>1. RowOK(rows[b][c]) /\ keys \in Nat
      BY <1>1 DEF Types
    <3> QED
      BY <1>4, <1>7, <1>8, <3>1 DEF RowOK
  <2> QED
    BY <1>1, <1>4, <1>8, <1>9, <2>1, <2>2 DEF Types
<1>12. RowsPart'
  <2>1. AssociatedBlobHasRow'
    <3> SUFFICES ASSUME NEW b \in Actors, NEW r \in refs[b]
                 PROVE  rows'[b][r[2]].present
      BY <1>4 DEF AssociatedBlobHasRow
    <3>1. r[2] \in Cids /\ rows[b][r[2]].present
      BY <1>1 DEF RowsPart, AssociatedBlobHasRow, Types, Pairs
    <3> QED
      BY <1>8, <3>1
  <2>2. ASSUME NEW b \in Actors
        PROVE  TaskRows(b)'
    <3>1. CASE b = a
      BY <1>3, <1>6, <1>8, <1>9, <1>10, <3>1 DEF TaskRows, Settling
    <3>2. CASE b # a
      BY <1>1, <1>8, <1>9, <3>2 DEF RowsPart, TaskRows
    <3> QED
      BY <3>1, <3>2
  <2> QED
    BY <2>1, <2>2 DEF RowsPart
<1>13. BytesPart'
  <2>1. BytesPart /\ BytesOf(a) /\ KeysPart /\ exposed' = {}
    BY <1>4 DEF Inv, BytesPart
  <2>2. k \notin temp[h]
    BY <1>2, <1>3, <1>4, <2>1 DEF BytesOf, Cleared
  <2>3. KeysPart'
    <3>1. KeysOnce'
      <4> SUFFICES ASSUME NEW b1 \in Actors, NEW b2 \in Actors, NEW c1 \in Cids, NEW c2 \in Cids,
                          rows'[b1][c1].key # NoKey, rows'[b1][c1].key = rows'[b2][c2].key
                   PROVE  b1 = b2 /\ c1 = c2
        BY DEF KeysOnce
      <4>1. \A b \in Actors, c \in Cids :
               rows'[b][c].key = NoKey \/ rows'[b][c].key = rows[b][c].key
        BY <1>8
      <4> QED
        BY <2>1, <4>1 DEF KeysPart, KeysOnce
    <3>2. \A u \in uploads : u.key # NoKey
      BY <1>1, <1>7 DEF Types
    <3>3. UploadKeys'
      BY <1>4, <1>8, <2>1, <3>2 DEF KeysPart, UploadKeys
    <3> QED
      BY <1>4, <2>1, <3>1, <3>3 DEF KeysPart, UploadsDiffer
  <2>4. UploadsHeld(a)'
    BY <1>4, <2>1 DEF BytesOf, UploadsHeld, Crossed, Handle
  <2>5. Cleared(a)'
    BY <1>9, <1>10 DEF Cleared
  <2>6. DueOK(a)'
    <3>1. Due(h)' = Due(h)
      BY <1>4 DEF Due
    <3> SUFFICES ASSUME NEW c \in Cids, rows[a][c].present, c \in Due(h), ~Crossed(a, c)
                 PROVE  rows'[a][c].key \in temp[h] \/ c \in doomed[h]
      BY <1>2, <1>4, <1>8, <3>1 DEF DueOK, Crossed, Handle
    <3>2. rows[a][c].key \in temp[h] \/ c \in doomed[h]
      BY <1>2, <2>1 DEF BytesOf, DueOK
    <3> QED
      BY <1>8, <2>2, <3>2
  <2>7. Behind(a)'
    <3> SUFFICES ASSUME NEW c \in Cids, rows[a][c].present, ~Crossed(a, c)
                 PROVE  HasBytes(a, c)' \/ c \in doomed[h]
      BY <1>2, <1>4, <1>8 DEF Behind, Crossed, Handle
    <3>1. HasBytes(a, c) \/ c \in doomed[h]
      BY <1>2, <2>1 DEF BytesOf, Behind
    <3>2. task[a] # [pc |-> "move", cid |-> c, applied |-> FALSE]
      BY <1>4
    <3> QED
      BY <1>2, <1>4, <1>8, <2>2, <3>1, <3>2 DEF HasBytes, Handle
  <2>8. Hidden(a)'
    BY <1>4, <1>8, <2>1 DEF BytesOf, Hidden, Settled, Crossed, Handle
  <2>9. BytesOf(a)'
    BY <2>4, <2>5, <2>6, <2>7, <2>8 DEF BytesOf
  <2> QED
    BY <1>4, <1>8, <1>9, <2>1, <2>3, <2>9, OthersSame
<1> QED
  BY <1>11, <1>12, <1>13 DEF Inv

(* The row of a takedown, before the bytes.                                *)
LEMMA StartTakedownInv ==
    ASSUME Inv, NEW a \in Actors, NEW d \in Cids, NEW applied \in BOOLEAN,
           StartTakedown(a, d, applied)
    PROVE  Inv'
<1>1. Types /\ RowsPart
  BY DEF Inv
<1>2. PICK h \in Handles : h = Handle(a)
  BY HandleParts
<1>3. PICK t, row : /\ t = [pc |-> "move", cid |-> d, applied |-> applied]
                    /\ row = [rows[a][d] EXCEPT !.down = applied /\ rows[a][d].present]
  OBVIOUS
<1>4. /\ rows' = [rows EXCEPT ![a][d] = row]
      /\ task' = [task EXCEPT ![a] = t] /\ task[a].pc = "idle"
      /\ UNCHANGED <<refs, temp, blocks, quarantined, garbage, uploads, reading, keys,
                     doomed, strayed, crossed, exposed>>
  <2>1. rows' = [rows EXCEPT ![a][d].down = applied /\ rows[a][d].present]
    BY DEF StartTakedown
  <2>2. /\ task' = [task EXCEPT ![a] = t] /\ task[a] = Idle
        /\ UNCHANGED <<refs, Objects, garbage, uploads, reading, keys, faults, History>>
    BY <1>3 DEF StartTakedown
  <2>3. rows' = [rows EXCEPT ![a][d] = row]
    BY <1>3, <2>1
  <2> QED
    BY <2>2, <2>3 DEF Objects, History, Idle
<1>5. rows \in [Actors -> [Cids -> BlobRow]]
  BY <1>1 DEF Types
<1>6. /\ row \in BlobRow /\ row.present = rows[a][d].present /\ row.key = rows[a][d].key
      /\ row.down = (applied /\ row.present)
  <2>1. rows[a][d] \in BlobRow
    BY <1>5
  <2> QED
    BY <1>3, <2>1 DEF BlobRow
<1>7. /\ rows' \in [Actors -> [Cids -> BlobRow]] /\ rows'[a][d] = row
      /\ \A c \in Cids : c # d => rows'[a][c] = rows[a][c]
      /\ \A b \in Actors : b # a => rows'[b] = rows[b]
  BY <1>4, <1>5, <1>6
<1>8. \A b \in Actors, c \in Cids : /\ rows'[b][c].present = rows[b][c].present
                                    /\ rows'[b][c].key = rows[b][c].key
  BY <1>6, <1>7
<1>9. /\ DOMAIN task' = Actors /\ task'[a] = t
      /\ \A b \in Actors : b # a => task'[b] = task[b]
  BY <1>1, <1>4 DEF Types
<1>10. t.pc = "move" /\ t.cid = d /\ t.applied = applied
  BY <1>3
<1>11. Types'
  <2>1. TaskTypes(t)
    BY <1>3, <1>10 DEF TaskTypes, Settling
  <2>2. ASSUME NEW b \in Actors, NEW c \in Cids
        PROVE  RowOK(rows[b][c])'
    <3>1. RowOK(rows[b][c])
      BY <1>1 DEF Types
    <3> QED
      BY <1>4, <1>6, <1>7, <1>8, <3>1 DEF RowOK
  <2> QED
    BY <1>1, <1>4, <1>7, <1>9, <2>1, <2>2 DEF Types
<1>12. RowsPart'
  <2>1. AssociatedBlobHasRow'
    <3> SUFFICES ASSUME NEW b \in Actors, NEW r \in refs[b]
                 PROVE  rows'[b][r[2]].present
      BY <1>4 DEF AssociatedBlobHasRow
    <3>1. r[2] \in Cids /\ rows[b][r[2]].present
      BY <1>1 DEF RowsPart, AssociatedBlobHasRow, Types, Pairs
    <3> QED
      BY <1>8, <3>1
  <2>2. ASSUME NEW b \in Actors
        PROVE  TaskRows(b)'
    <3>1. CASE b = a
      BY <1>6, <1>7, <1>9, <1>10, <3>1 DEF TaskRows, Settling
    <3>2. CASE b # a
      BY <1>1, <1>7, <1>9, <3>2 DEF RowsPart, TaskRows
    <3> QED
      BY <3>1, <3>2
  <2> QED
    BY <2>1, <2>2 DEF RowsPart
<1>13. BytesPart'
  <2>1. BytesPart /\ BytesOf(a) /\ KeysPart /\ exposed' = {}
    BY <1>4 DEF Inv, BytesPart
  <2>2. KeysPart' /\ UploadsHeld(a)'
    BY <1>4, <1>8, <2>1
       DEF BytesOf, KeysPart, KeysOnce, UploadKeys, UploadsDiffer, UploadsHeld, Crossed, Handle
  <2>3. Cleared(a)'
    BY <1>9, <1>10 DEF Cleared
  <2>4. DueOK(a)'
    <3>1. Due(h)' = Due(h)
      BY <1>4 DEF Due
    <3> QED
      BY <1>2, <1>4, <1>8, <2>1, <3>1 DEF BytesOf, DueOK, Crossed, Handle
  <2>5. Behind(a)'
    <3> SUFFICES ASSUME NEW c \in Cids, rows[a][c].present, ~Crossed(a, c)
                 PROVE  HasBytes(a, c)' \/ c \in doomed[h]
      BY <1>2, <1>4, <1>8 DEF Behind, Crossed, Handle
    <3>1. HasBytes(a, c) \/ c \in doomed[h]
      BY <1>2, <2>1 DEF BytesOf, Behind
    <3>2. task[a] # [pc |-> "move", cid |-> c, applied |-> FALSE]
      BY <1>4
    <3>3. CASE c # d
      BY <1>2, <1>4, <1>7, <3>1, <3>2, <3>3 DEF HasBytes, Handle
    <3>4. CASE c = d
      <4>1. row.down \/ task'[a] = [pc |-> "move", cid |-> c, applied |-> FALSE]
        BY <1>3, <1>6, <1>9, <3>4
      <4> QED
        BY <1>2, <1>4, <1>6, <1>7, <3>1, <3>2, <3>4, <4>1 DEF HasBytes, Handle
    <3> QED
      BY <3>3, <3>4
  <2>6. Hidden(a)'
    BY <1>4, <1>7, <1>9, <1>10, <2>1 DEF BytesOf, Hidden, Settled, Crossed, Handle
  <2>7. BytesOf(a)'
    BY <2>2, <2>3, <2>4, <2>5, <2>6 DEF BytesOf
  <2> QED
    BY <1>4, <1>7, <1>9, <2>1, <2>2, <2>7, OthersSame
<1> QED
  BY <1>11, <1>12, <1>13 DEF Inv

(* The bytes follow the row. *)
LEMMA MoveBytesInv ==
    ASSUME Inv, NEW a \in Actors, MoveBytes(a)
    PROVE  Inv'
<1>1. Types /\ RowsPart /\ TaskTypes(task[a]) /\ TaskRows(a)
  BY DEF Inv, Types, RowsPart
<1>2. PICK h \in Handles : h = Handle(a)
  BY HandleParts
<1>3. PICK d, applied : d = task[a].cid /\ applied = task[a].applied
  OBVIOUS
<1>4. /\ task' = [task EXCEPT ![a] = Idle] /\ task[a].pc = "move"
      /\ UNCHANGED <<rows, refs, temp, garbage, uploads, reading, keys, doomed, exposed>>
  BY DEF MoveBytes, Quarantine, Unquarantine, Objects, Bounds
<1>5. /\ d \in Cids /\ applied \in BOOLEAN
      /\ task[a] = [pc |-> "move", cid |-> d, applied |-> applied]
      /\ rows[a][d].down = (applied /\ rows[a][d].present)
  BY <1>1, <1>3, <1>4 DEF TaskTypes, TaskRows
<1>6. /\ blocks \in [Handles -> SUBSET Cids] /\ quarantined \in [Handles -> SUBSET Cids]
      /\ strayed \in [Actors -> SUBSET Cids]
  BY <1>1 DEF Types
<1>7. PICK cs \in {{}, {d}} :
        /\ crossed' = crossed \cup {p \in Sharers(a) \X cs : p[2] \in Known(p[1])}
        /\ blocks' \in [Handles -> SUBSET Cids] /\ quarantined' \in [Handles -> SUBSET Cids]
        /\ strayed' \in [Actors -> SUBSET Cids]
        /\ \/ /\ cs = {d} /\ strayed'[a] = strayed[a] \ {d}
              /\ \/ /\ applied /\ d \in blocks[h] /\ blocks'[h] = blocks[h] \ {d}
                    /\ quarantined'[h] = quarantined[h] \cup {d}
                 \/ /\ ~applied /\ d \in quarantined[h] /\ blocks'[h] = blocks[h] \cup {d}
                    /\ quarantined'[h] = quarantined[h] \ {d}
           \/ /\ IF applied THEN d \notin blocks[h] ELSE d \notin quarantined[h]
              /\ UNCHANGED <<blocks, quarantined, strayed>>
        /\ \A x \in Handles : x # h => blocks'[x] = blocks[x] /\ quarantined'[x] = quarantined[x]
        /\ \A b \in Actors : b # a => strayed'[b] = strayed[b]
  <2>1. CASE /\ applied /\ Quarantine(h, d) /\ Cross(a, {d})
             /\ strayed' = [strayed EXCEPT ![a] = strayed[a] \ {d}]
    BY <1>5, <1>6, <2>1 DEF Quarantine, Cross
  <2>2. CASE /\ ~applied /\ Unquarantine(h, d) /\ Cross(a, {d})
             /\ strayed' = [strayed EXCEPT ![a] = strayed[a] \ {d}]
    BY <1>5, <1>6, <2>2 DEF Unquarantine, Cross
  <2>3. CASE /\ IF applied THEN d \notin blocks[h] ELSE d \notin quarantined[h]
             /\ UNCHANGED <<blocks, quarantined, strayed, crossed>>
    <3>1. crossed' = crossed \cup {p \in Sharers(a) \X {} : p[2] \in Known(p[1])}
      BY <2>3
    <3> QED
      BY <1>6, <2>3, <3>1
  <2> QED
    BY <1>2, <1>3, <2>1, <2>2, <2>3 DEF MoveBytes, Objects
<1>8. /\ DOMAIN task' = Actors /\ task'[a] = Idle /\ Idle.pc = "idle"
      /\ \A b \in Actors : b # a => task'[b] = task[b]
  BY <1>1, <1>4 DEF Types, Idle
<1>9. Types'
  <2>1. TaskTypes(Idle)
    BY DEF TaskTypes, Settling, Idle
  <2> QED
    BY <1>1, <1>4, <1>7, <1>8, <2>1 DEF Types, RowOK
<1>10. RowsPart'
  BY <1>1, <1>4, <1>8, RowsStay DEF Settling
<1>11. BytesPart'
  <2>1. BytesPart /\ BytesOf(a) /\ KeysPart' /\ exposed' = {}
    BY <1>4, KeysStay DEF Inv, BytesPart
  <2>2. (\A c : Crossed(a, c) => Crossed(a, c)') /\ UploadsHeld(a)'
    <3>1. \A c : Crossed(a, c) => Crossed(a, c)'
      BY <1>7 DEF Crossed
    <3> QED
      BY <1>4, <2>1, <3>1 DEF BytesOf, UploadsHeld, Handle
  <2>3. Cleared(a)'
    BY <1>8 DEF Cleared
  <2>4. DueOK(a)'
    <3>1. Due(h)' = Due(h)
      BY <1>4 DEF Due
    <3> QED
      BY <1>2, <1>4, <2>1, <2>2, <3>1 DEF BytesOf, DueOK, Handle
  <2>5. Behind(a)'
    <3> SUFFICES ASSUME NEW c \in Cids, rows[a][c].present, ~Crossed(a, c)
                 PROVE  HasBytes(a, c)' \/ c \in doomed[h]
      BY <1>2, <1>4, <2>2 DEF Behind, Handle
    <3>1. HasBytes(a, c) \/ c \in doomed[h]
      BY <1>2, <2>1 DEF BytesOf, Behind
    <3>2. CASE c # d
      <4>1. task[a] # [pc |-> "move", cid |-> c, applied |-> FALSE]
        BY <1>3, <3>2
      <4> QED
        BY <1>2, <1>4, <1>7, <3>1, <3>2, <4>1 DEF HasBytes, Handle
    <3>3. CASE c = d /\ applied
      <4>1. task[a] # [pc |-> "move", cid |-> c, applied |-> FALSE]
        <5> SUFFICES ASSUME task[a] = [pc |-> "move", cid |-> c, applied |-> FALSE]
                     PROVE  FALSE
          OBVIOUS
        <5>1. task[a].applied = FALSE
          OBVIOUS
        <5> QED
          BY <1>3, <3>3, <5>1
      <4> QED
        BY <1>2, <1>4, <1>5, <1>7, <3>1, <3>3, <4>1 DEF HasBytes, Handle
    <3>4. CASE c = d /\ ~applied
      BY <1>2, <1>4, <1>5, <1>7, <3>1, <3>4 DEF HasBytes, Handle
    <3> QED
      BY <1>5, <3>2, <3>3, <3>4
  <2>6. Hidden(a)'
    <3> SUFFICES ASSUME NEW c \in Cids, rows[a][c].down, c \notin strayed'[a],
                        ~Crossed(a, c)
                 PROVE  c \notin blocks'[h]
      BY <1>2, <1>4, <2>2 DEF Hidden, Settled, Handle
    <3>1. CASE c # d
      <4>1. c \in Settled(a) \ strayed[a]
        BY <1>3, <1>7, <3>1 DEF Settled
      <4> QED
        BY <1>2, <1>7, <2>1, <3>1, <4>1 DEF BytesOf, Hidden
    <3>2. CASE c = d
      BY <1>5, <1>7, <3>2
    <3> QED
      BY <3>1, <3>2
  <2>7. BytesOf(a)'
    BY <2>2, <2>3, <2>4, <2>5, <2>6 DEF BytesOf
  <2>8. /\ cs \in SUBSET Cids
        /\ \A c \in Cids \ cs : /\ c \in blocks'[h] <=> c \in blocks[h]
                                /\ c \in quarantined'[h] <=> c \in quarantined[h]
    BY <1>5, <1>7
  <2> QED
    BY <1>1, <1>2, <1>4, <1>7, <1>8, <2>1, <2>7, <2>8, OthersStay
<1> QED
  BY <1>9, <1>10, <1>11 DEF Inv

-----------------------------------------------------------------------------
(* What goes wrong.                                                        *)

LEMMA FailInv ==
    ASSUME Inv, NEW a \in Actors, Fail(a)
    PROVE  Inv'
<1>1. Types /\ RowsPart /\ TaskTypes(task[a])
  BY DEF Inv, Types
<1>2. /\ task' = [task EXCEPT ![a] = Idle]
      /\ strayed' = IF task[a].pc = "move"
                    THEN [strayed EXCEPT ![a] = strayed[a] \cup {task[a].cid}] ELSE strayed
      /\ UNCHANGED <<rows, refs, temp, blocks, quarantined, garbage, uploads, reading, keys,
                     doomed, crossed, exposed>>
  BY DEF Fail, Objects
<1>3. /\ strayed' \in [Actors -> SUBSET Cids]
      /\ \A b \in Actors : strayed[b] \subseteq strayed'[b]
      /\ task[a].pc = "move" => task[a].cid \in strayed'[a]
  <2>1. task[a].pc = "move" => task[a].cid \in Cids
    BY <1>1 DEF TaskTypes
  <2>2. strayed \in [Actors -> SUBSET Cids]
    BY <1>1 DEF Types
  <2> QED
    BY <1>2, <2>1, <2>2
<1>4. /\ DOMAIN task' = Actors /\ task'[a] = Idle /\ Idle.pc = "idle"
      /\ \A b \in Actors : b # a => task'[b] = task[b]
  BY <1>1, <1>2 DEF Types, Idle
<1>5. Types'
  <2>1. TaskTypes(Idle)
    BY DEF TaskTypes, Settling, Idle
  <2> QED
    BY <1>1, <1>2, <1>3, <1>4, <2>1 DEF Types, RowOK
<1>6. RowsPart'
  BY <1>1, <1>2, <1>4, RowsStay DEF Settling
<1>7. BytesPart'
  <2>1. ASSUME NEW b \in Actors
        PROVE  BytesOf(b)'
    <3>1. BytesOf(b)
      BY DEF Inv, BytesPart
    <3>2. \/ task'[b] = task[b]
          \/ /\ task'[b].pc \notin {"clear", "move"}
             /\ task[b].pc = "move" => task[b].cid \in strayed'[b]
      BY <1>3, <1>4
    <3> QED
      BY <1>2, <1>3, <3>1, <3>2, BytesStay
  <2> QED
    BY <1>2, <2>1, KeysStay DEF Inv, BytesPart
<1> QED
  BY <1>5, <1>6, <1>7 DEF Inv

LEMMA RestartInv ==
    ASSUME Inv, Restart
    PROVE  Inv'
<1>1. Types /\ RowsPart
  BY DEF Inv
<1>2. /\ task' = [a \in Actors |-> Idle] /\ reading' = [a \in Actors |-> {}]
      /\ garbage' = {} /\ uploads' = {}
      /\ strayed' = [a \in Actors |-> strayed[a] \cup
                        {c \in Cids : task[a].pc = "move" /\ task[a].cid = c}]
      /\ UNCHANGED <<rows, refs, temp, blocks, quarantined, keys, doomed, crossed,
                     exposed>>
  BY DEF Restart, Objects
<1>3. /\ strayed' \in [Actors -> SUBSET Cids]
      /\ \A b \in Actors : /\ strayed[b] \subseteq strayed'[b]
                           /\ task[b].pc = "move" => task[b].cid \in strayed'[b]
  <2>1. \A b \in Actors : task[b].pc = "move" => task[b].cid \in Cids
    BY <1>1 DEF Types, TaskTypes
  <2>2. strayed \in [Actors -> SUBSET Cids]
    BY <1>1 DEF Types
  <2> QED
    BY <1>2, <2>1, <2>2
<1>4. DOMAIN task' = Actors /\ \A b \in Actors : task'[b] = Idle /\ Idle.pc = "idle"
  BY <1>2 DEF Idle
<1>5. Types'
  <2>1. TaskTypes(Idle)
    BY DEF TaskTypes, Settling, Idle
  <2> QED
    BY <1>1, <1>2, <1>3, <1>4, <2>1 DEF Types, RowOK
<1>6. RowsPart'
  BY <1>1, <1>2, <1>4, RowsStay DEF Settling
<1>7. BytesPart'
  <2>1. ASSUME NEW b \in Actors
        PROVE  BytesOf(b)'
    <3>1. BytesOf(b)
      BY DEF Inv, BytesPart
    <3> QED
      BY <1>2, <1>3, <1>4, <3>1, BytesStay
  <2> QED
    BY <1>2, <2>1, KeysStay DEF Inv, BytesPart
<1> QED
  BY <1>5, <1>6, <1>7 DEF Inv

LEMMA DestroyInv ==
    ASSUME Inv, NEW a \in Actors, Destroy(a)
    PROVE  Inv'
<1>1. Types /\ RowsPart
  BY DEF Inv
<1>2. PICK h \in Handles : h = Handle(a)
  BY HandleParts
<1>3. /\ rows' = [rows EXCEPT ![a] = [c \in Cids |-> NoRow]]
      /\ refs' = [refs EXCEPT ![a] = {}] /\ reading' = [reading EXCEPT ![a] = {}]
      /\ temp' = [temp EXCEPT ![h] = {}] /\ blocks' = [blocks EXCEPT ![h] = {}]
      /\ quarantined' = [quarantined EXCEPT ![h] = {}]
      /\ uploads' = {u \in uploads : u.actor # a}
      /\ crossed' = crossed \cup {p \in Sharers(a) \X Cids : p[2] \in Known(p[1])}
      /\ UNCHANGED <<garbage, task, keys, doomed, strayed, exposed>>
      /\ task[a].pc = "idle"
  <2>1. /\ task[a] = Idle /\ DeleteAll(h) /\ Cross(a, Cids)
        /\ UNCHANGED <<garbage, task, keys, doomed, strayed, exposed>>
    BY <1>2 DEF Destroy
  <2>2. /\ rows' = [rows EXCEPT ![a] = [c \in Cids |-> NoRow]]
        /\ refs' = [refs EXCEPT ![a] = {}] /\ reading' = [reading EXCEPT ![a] = {}]
        /\ uploads' = {u \in uploads : u.actor # a}
    BY DEF Destroy
  <2> QED
    BY <2>1, <2>2 DEF DeleteAll, Cross, Idle
<1>4. NoRow \in BlobRow /\ NoRow.key = NoKey /\ ~NoRow.present /\ ~NoRow.down /\ NoKey = 0
  BY DEF NoRow, BlobRow, NoKey
<1>5. /\ rows \in [Actors -> [Cids -> BlobRow]] /\ refs \in [Actors -> SUBSET Pairs]
      /\ temp \in [Handles -> SUBSET (1..keys)] /\ blocks \in [Handles -> SUBSET Cids]
      /\ quarantined \in [Handles -> SUBSET Cids] /\ reading \in [Actors -> SUBSET Cids]
  BY <1>1 DEF Types
<1>6. /\ rows' \in [Actors -> [Cids -> BlobRow]] /\ refs' \in [Actors -> SUBSET Pairs]
      /\ \A c \in Cids : rows'[a][c] = NoRow
      /\ refs'[a] = {} /\ \A b \in Actors : b # a => rows'[b] = rows[b] /\ refs'[b] = refs[b]
  BY <1>3, <1>4, <1>5
<1>7. /\ temp' \in [Handles -> SUBSET (1..keys)] /\ blocks' \in [Handles -> SUBSET Cids]
      /\ quarantined' \in [Handles -> SUBSET Cids] /\ reading' \in [Actors -> SUBSET Cids]
      /\ \A x \in Handles : x # h => /\ temp'[x] = temp[x] /\ blocks'[x] = blocks[x]
                                     /\ quarantined'[x] = quarantined[x]
  BY <1>3, <1>5
<1>8. uploads' \subseteq uploads /\ \A u \in uploads' : u.actor # a
  BY <1>3
<1>9. Types'
  <2>1. \A b \in Actors, c \in Cids : RowOK(rows[b][c])'
    <3> SUFFICES ASSUME NEW b \in Actors, NEW c \in Cids
                 PROVE  RowOK(rows[b][c])'
      OBVIOUS
    <3>1. RowOK(rows[b][c]) /\ keys \in Nat
      BY <1>1 DEF Types
    <3> QED
      BY <1>3, <1>4, <1>6, <3>1 DEF RowOK
  <2> QED
    BY <1>1, <1>3, <1>6, <1>7, <1>8, <2>1 DEF Types
<1>10. RowsPart'
  <2>1. AssociatedBlobHasRow'
    BY <1>1, <1>6 DEF RowsPart, AssociatedBlobHasRow
  <2>2. ASSUME NEW b \in Actors
        PROVE  TaskRows(b)'
    <3>1. CASE b = a
      BY <1>3, <3>1 DEF TaskRows, Settling
    <3>2. CASE b # a
      BY <1>1, <1>3, <1>6, <3>2 DEF RowsPart, TaskRows
    <3> QED
      BY <3>1, <3>2
  <2> QED
    BY <2>1, <2>2 DEF RowsPart
<1>11. BytesPart'
  <2>1. BytesPart /\ KeysPart /\ exposed' = {}
    BY <1>3 DEF Inv, BytesPart
  <2>2. KeysPart'
    <3>1. KeysOnce'
      BY <1>4, <1>6, <2>1 DEF KeysPart, KeysOnce
    <3>2. \A u \in uploads : u.key # NoKey
      BY <1>1, <1>4 DEF Types
    <3>3. UploadKeys'
      BY <1>4, <1>6, <1>8, <2>1, <3>2 DEF KeysPart, UploadKeys
    <3> QED
      BY <1>8, <2>1, <3>1, <3>3 DEF KeysPart, UploadsDiffer
  <2>3. BytesOf(a)'
    BY <1>3, <1>4, <1>6, <1>8
       DEF BytesOf, UploadsHeld, Cleared, DueOK, Behind, Hidden, Settled
  <2>4. temp'[h] = {} /\ Cids \in SUBSET Cids
    BY <1>3, <1>5
  <2>5. \A u \in uploads' : u \in uploads /\ u.cid \in Cids
    BY <1>1, <1>8 DEF Types, Uploads
  <2>6. /\ \A b \in Actors : b # a => /\ rows'[b] = rows[b] /\ task'[b] = task[b]
                                      /\ strayed'[b] = strayed[b]
        /\ \A x \in Handles : x # h => /\ temp'[x] = temp[x] /\ blocks'[x] = blocks[x]
                                       /\ quarantined'[x] = quarantined[x]
                                       /\ doomed'[x] = doomed[x]
        /\ doomed'[h] = doomed[h] /\ garbage' = garbage
        /\ crossed' = crossed \cup {p \in Sharers(a) \X Cids : p[2] \in Known(p[1])}
    BY <1>3, <1>6, <1>7
  <2> QED
    BY <1>1, <1>2, <2>1, <2>2, <2>3, <2>4, <2>5, <2>6, OthersStay
<1> QED
  BY <1>9, <1>10, <1>11 DEF Inv

-----------------------------------------------------------------------------
LEMMA InitInv ==
    ASSUME Init
    PROVE  Inv
<1>1. NoRow \in BlobRow /\ NoRow.key = 0 /\ NoKey = 0 /\ ~NoRow.present /\ ~NoRow.down
  BY DEF NoRow, BlobRow, NoKey
<1>2. \A a \in Actors : task[a] = Idle /\ Idle.pc = "idle"
  BY DEF Init, Idle
<1>3. \A a \in Actors, c \in Cids : rows[a][c] = NoRow
  BY DEF Init
<1>4. Types
  <2>1. TaskTypes(Idle)
    BY DEF TaskTypes, Settling, Idle
  <2>2. \A a \in Actors, c \in Cids : RowOK(rows[a][c])
    BY <1>1, <1>3 DEF Init, RowOK
  <2>3. rows \in [Actors -> [Cids -> BlobRow]]
    BY <1>1 DEF Init
  <2> QED
    BY <1>2, <2>1, <2>2, <2>3 DEF Init, Types
<1>5. RowsPart
  BY <1>2 DEF Init, RowsPart, AssociatedBlobHasRow, TaskRows, Settling
<1>6. ASSUME NEW a \in Actors
      PROVE  BytesOf(a)
  <2>1. uploads = {}
    BY DEF Init
  <2> QED
    BY <1>1, <1>2, <1>3, <2>1
       DEF BytesOf, UploadsHeld, Cleared, DueOK, Behind, Hidden, Settled
<1>7. KeysPart /\ exposed = {}
  BY <1>1, <1>3 DEF Init, KeysPart, KeysOnce, UploadKeys, UploadsDiffer
<1> QED
  BY <1>4, <1>5, <1>6, <1>7 DEF Inv, BytesPart

LEMMA NextInv ==
    ASSUME Inv, [Next]_vars
    PROVE  Inv'
<1>1. ASSUME NEW a \in Actors, TaskStep(a)
      PROVE  Inv'
  BY <1>1, DereferenceInv, CollectInv, VerifyInv, PermanentInv, ClearTempInv, AssociateInv,
     MoveBytesInv DEF TaskStep
<1>2. ASSUME NEW a \in Actors, StartWrite(a) \/ TrackUntethered(a) \/ Fail(a) \/ Destroy(a)
      PROVE  Inv'
  BY <1>2, StartWriteInv, TrackUntetheredInv, FailInv, DestroyInv
<1>3. ASSUME NEW a \in Actors, NEW c \in Cids,
             Upload(a, c) \/ UploadBlob(a, c) \/ GetMetadata(a, c) \/ GetStream(a, c)
      PROVE  Inv'
  BY <1>3, UploadInv, UploadBlobInv, GetMetadataInv, GetStreamInv
<1>4. ASSUME NEW a \in Actors, NEW c \in Cids, NEW applied \in BOOLEAN,
             StartTakedown(a, c, applied)
      PROVE  Inv'
  BY <1>4, StartTakedownInv
<1>5. ASSUME NEW g \in garbage, NEW c \in g.cids, DeleteOne(g, c)
      PROVE  Inv'
  BY <1>5, DeleteOneInv
<1>6. CASE Restart
  BY <1>6, RestartInv
<1>7. CASE UNCHANGED vars
  <2>1. UNCHANGED <<rows, refs, temp, blocks, quarantined, garbage, uploads, task, reading, keys,
                    doomed, strayed, crossed, exposed>>
    BY <1>7 DEF vars
  <2>2. Types'
    BY <2>1 DEF Inv, Types, RowOK
  <2>3. RowsPart'
    BY <2>1, RowsStay DEF Inv
  <2>4. BytesPart'
    <3>1. \A a \in Actors : BytesOf(a)'
      BY <2>1, BytesStay DEF Inv, BytesPart
    <3> QED
      BY <2>1, <3>1, KeysStay DEF Inv, BytesPart
  <2> QED
    BY <2>2, <2>3, <2>4 DEF Inv
<1> QED
  BY <1>1, <1>2, <1>3, <1>4, <1>5, <1>6, <1>7 DEF Next

(* The inductive invariant holds of every reachable state, however many    *)
(* actors, records, contents, tasks and failures.                          *)
THEOREM Invariance == Spec => []Inv
<1>1. Init => Inv
  BY InitInv
<1>2. Inv /\ [Next]_vars => Inv'
  BY NextInv
<1> QED
  BY <1>1, <1>2, PTL DEF Spec

(* Whatever fails in between, a blob that a record refers to has its row,  *)
(* also where all actors share a handle, as they do in the server:         *)
(* delete_dereferenced_blobs looks at the other records and at the batch.  *)
THEOREM RowsKept == Spec => []BlobRowsConsistent
<1>1. Inv => BlobRowsConsistent
  <2> SUFFICES ASSUME Inv
               PROVE  TypeOK
    BY DEF Inv, RowsPart, BlobRowsConsistent
  <2>1. Types
    BY DEF Inv
  <2>2. \A h \in Handles : blocks[h] \cup quarantined[h] \subseteq Cids
    BY <2>1 DEF Types
  <2> QED
    BY <2>1, <2>2 DEF Types, RowOK, TypeOK, Pairs
<1> QED
  BY <1>1, Invariance, PTL

(* A row of the blob table has its bytes, whether the actors have a        *)
(* blobstore handle each or, as in the server, share one, but for the      *)
(* contents that were stored again while the deletion of their former      *)
(* bytes was still due in the background, and for those whose object       *)
(* another actor of the same handle stored, moved or deleted.              *)
THEOREM BytesKept == Spec => []BytesBehindRow
<1>1. Inv => BytesBehindRow
  BY DEF Inv, BytesPart, BytesOf, Behind, Crossed, BytesBehindRow
<1> QED
  BY <1>1, Invariance, PTL

(* get_blob serves no blob whose takedown has returned and moved the       *)
(* bytes, also if it had found the row before the takedown, unless the     *)
(* bytes were uploaded straight to their place or another actor of the     *)
(* same handle had put its own copy there.                                 *)
THEOREM Takedown == Spec => []TakedownHides
<1>1. Inv => TakedownHides
  BY DEF Inv, BytesPart, TakedownHides
<1> QED
  BY <1>1, Invariance, PTL
=============================================================================
