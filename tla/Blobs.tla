------------------------------- MODULE Blobs -------------------------------
(***************************************************************************)
(* The blobs of the actors: the rows of tables blob and record_blob in     *)
(* each actor's store, and the objects in the shared backend under tmp/,   *)
(* blocks/ and quarantine/.                                                *)
(*                                                                         *)
(* The two are written one after the other, never together.  Whoever       *)
(* writes rows holds the write lock of the DID (see ActorStore), so there  *)
(* is one such task per actor; bytes are uploaded without it, and the      *)
(* bytes of a blob no record refers to are deleted in the background after *)
(* the answer.  A task may fail at every statement.                        *)
(***************************************************************************)
EXTENDS Integers, FiniteSets

CONSTANTS
    Actors,
    Uris,        \* records of an actor
    Cids,        \* contents
    PerDid,      \* whether each actor has a blobstore handle of its own
    MaxUploads,  \* bound: temp keys ever drawn
    MaxTasks,    \* bound: tasks under the lock
    MaxFaults    \* bound: statements that fail

ASSUME BlobsAssumption ==
    /\ PerDid \in BOOLEAN
    /\ {MaxUploads, MaxTasks, MaxFaults} \subseteq Nat

VARIABLES
    rows,        \* table blob of each actor
    refs,        \* table record_blob of each actor
    temp,        \* handle -> keys under tmp/
    blocks,      \* handle -> cids under blocks/
    quarantined, \* handle -> cids under quarantine/
    garbage,     \* background tasks: what delete_many has yet to delete
    uploads,     \* what upload_blob_and_get_metadata has answered
    task,        \* what the holder of each actor's lock is doing
    reading,     \* get_blob between the row and the bytes
    keys, tasks, faults,
    doomed,      \* history: handle -> cids stored while their deletion was due
    strayed,     \* history: actor -> cids uploaded straight to blocks/, or whose
                 \* takedown stopped before the bytes were moved
    crossed,     \* history: <<actor, cid>> of a blob whose object another actor of
                 \* the same handle stored, moved or deleted
    exposed      \* history: blobs served although taken down

vars == <<rows, refs, temp, blocks, quarantined, garbage, uploads, task, reading,
          keys, tasks, faults, doomed, strayed, crossed, exposed>>

(* The server builds one handle for the DID "shared" and passes it for     *)
(* every actor; the readers expect one per DID.                            *)
Handle(a) == IF PerDid THEN a ELSE "shared"

Handles == {Handle(a) : a \in Actors}

Idle == [pc |-> "idle"]

NoKey == 0

NoRow == [present |-> FALSE, key |-> NoKey, down |-> FALSE]

(* tempKey and takedownRef of a row; mime type and size are compared by    *)
(* verify_blob, whose refusal is one of the faults.                        *)
BlobRow == [present : BOOLEAN, key : Nat, down : BOOLEAN]

Init ==
    /\ rows = [a \in Actors |-> [c \in Cids |-> NoRow]]
    /\ refs = [a \in Actors |-> {}]
    /\ temp = [h \in Handles |-> {}]
    /\ blocks = [h \in Handles |-> {}]
    /\ quarantined = [h \in Handles |-> {}]
    /\ garbage = {} /\ uploads = {}
    /\ task = [a \in Actors |-> Idle]
    /\ reading = [a \in Actors |-> {}]
    /\ keys = 0 /\ tasks = 0 /\ faults = 0
    /\ doomed = [h \in Handles |-> {}]
    /\ strayed = [a \in Actors |-> {}]
    /\ crossed = {} /\ exposed = {}

Objects == <<temp, blocks, quarantined>>
History == <<doomed, strayed, crossed, exposed>>
Bounds  == <<keys, tasks, faults>>

-----------------------------------------------------------------------------
(* The backend (OpenDALBlobStore).                                         *)

(* put_temp under a fresh random key. *)
PutTemp(h) == /\ keys' = keys + 1
              /\ temp' = [temp EXCEPT ![h] = @ \cup {keys + 1}]

(* The cids a background task is still going to delete. *)
Due(h) == UNION {g.cids : g \in {x \in garbage : x.handle = h}}

(* Mutation of Kept: the temp file is removed even though it was not moved. *)
KeptNever(h, k, c) == FALSE

(* make_permanent renames the temp file unless the cid is stored already;  *)
(* a temp file that is not there is an error.                              *)
Kept(h, k, c) == k \in temp[h] \/ c \in blocks[h]

MakePermanent(h, k, c) ==
    /\ temp' = [temp EXCEPT ![h] = @ \ {k}]
    /\ blocks' = [blocks EXCEPT ![h] = IF Kept(h, k, c) THEN @ \cup {c} ELSE @]
    /\ doomed' = [doomed EXCEPT ![h] = @ \cup ({c} \cap Due(h))]
    /\ UNCHANGED quarantined

(* Mutation of Quarantine: the object is copied. *)
QuarantineCopy(h, c) ==
    /\ c \in blocks[h]
    /\ quarantined' = [quarantined EXCEPT ![h] = @ \cup {c}]
    /\ UNCHANGED <<temp, blocks>>

(* quarantine and unquarantine rename; a missing source is an error. *)
Quarantine(h, c) ==
    /\ c \in blocks[h]
    /\ blocks' = [blocks EXCEPT ![h] = @ \ {c}]
    /\ quarantined' = [quarantined EXCEPT ![h] = @ \cup {c}]
    /\ UNCHANGED temp

Unquarantine(h, c) ==
    /\ c \in quarantined[h]
    /\ blocks' = [blocks EXCEPT ![h] = @ \cup {c}]
    /\ quarantined' = [quarantined EXCEPT ![h] = @ \ {c}]
    /\ UNCHANGED temp

(* delete_all empties the three prefixes of the handle. *)
DeleteAll(h) ==
    /\ temp' = [temp EXCEPT ![h] = {}]
    /\ blocks' = [blocks EXCEPT ![h] = {}]
    /\ quarantined' = [quarantined EXCEPT ![h] = {}]

(* The other actors whose objects lie under the same handle. *)
Sharers(a) == {b \in Actors \ {a} : Handle(b) = Handle(a)}

(* The contents an actor has a row of, or an answered upload. *)
Known(a) == {c \in Cids : \/ rows[a][c].present
                         \/ \E u \in uploads : u.actor = a /\ u.cid = c}

(* An actor's step on the objects of cs is one on those of its sharers. *)
Cross(a, cs) == crossed' = crossed \cup {p \in Sharers(a) \X cs : p[2] \in Known(p[1])}

-----------------------------------------------------------------------------
(* Uploading.                                                              *)

(* uploadBlob writes the bytes under blocks/ at once, and no row. *)
UploadBlob(a, c) ==
    /\ blocks' = [blocks EXCEPT ![Handle(a)] = @ \cup {c}]
    /\ doomed' = [doomed EXCEPT ![Handle(a)] = @ \cup ({c} \cap Due(Handle(a)))]
    /\ strayed' = [strayed EXCEPT ![a] = @ \cup {c}]
    /\ Cross(a, {c})
    /\ UNCHANGED <<rows, refs, temp, quarantined, garbage, uploads, task, reading, Bounds,
                   exposed>>

(* upload_blob_and_get_metadata *)
Upload(a, c) ==
    /\ keys < MaxUploads
    /\ PutTemp(Handle(a))
    /\ uploads' = uploads \cup {[actor |-> a, key |-> keys + 1, cid |-> c]}
    /\ UNCHANGED <<rows, refs, blocks, quarantined, garbage, task, reading, tasks, faults,
                   History>>

(* INSERT ... ON CONFLICT DO UPDATE SET tempKey WHERE tempKey IS NOT NULL. *)
Tracked(row, k) ==
    IF row.present /\ row.key = NoKey THEN row ELSE [row EXCEPT !.present = TRUE, !.key = k]

(* track_untethered_blob refuses a blob that is taken down. *)
TrackUntethered(a) ==
    \E u \in uploads :
        /\ u.actor = a /\ task[a] = Idle
        /\ rows' = IF rows[a][u.cid].down THEN rows
                   ELSE [rows EXCEPT ![a][u.cid] = Tracked(@, u.key)]
        /\ uploads' = uploads \ {u}
        /\ UNCHANGED <<refs, Objects, garbage, task, reading, Bounds, History>>

-----------------------------------------------------------------------------
(* process_write_blobs, after the commit has been applied.                 *)

(* A batch, as far as blobs go: the records it updates or deletes, whose   *)
(* former blobs are let go, and the blobs of those it creates or updates.  *)
(* A create is of a record that is not there (see ActorStore).             *)
StartWrite(a) ==
    /\ task[a] = Idle /\ tasks < MaxTasks
    /\ tasks' = tasks + 1
    /\ \E touched \in SUBSET Uris, todo \in SUBSET (Uris \X Cids) :
         /\ \A p \in todo : p[1] \in touched \/ \A r \in refs[a] : r[1] # p[1]
         /\ task' = [task EXCEPT ![a] = [pc |-> "deref", touched |-> touched, todo |-> todo]]
    /\ UNCHANGED <<rows, refs, Objects, garbage, uploads, reading, keys, faults, History>>

(* delete_dereferenced_blobs, 1: the rows of the touched records go. *)
Dereference(a) ==
    LET freed == {r \in refs[a] : r[1] \in task[a].touched}
    IN  /\ task[a].pc = "deref"
        /\ refs' = [refs EXCEPT ![a] = @ \ freed]
        /\ task' = [task EXCEPT ![a] = [pc |-> "collect", todo |-> task[a].todo,
                                        freed |-> {r[2] : r \in freed}]]
        /\ UNCHANGED <<rows, Objects, garbage, uploads, reading, Bounds, History>>

(* Mutation of Collectable: other records are not looked at. *)
CollectableOwn(a, t) == t.freed \ {p[2] : p \in t.todo}

(* 2 and 3: what other records and this batch refer to survives. *)
Collectable(a, t) == t.freed \ ({r[2] : r \in refs[a]} \cup {p[2] : p \in t.todo})

(* BackgroundQueue::add: a spawned task, in the order the runtime likes. *)
Add(h, gone) == garbage' = garbage \cup {[handle |-> h, cids |-> gone]}

(* 4: the rows go, and the bytes later. *)
Collect(a) ==
    LET gone == Collectable(a, task[a])
    IN  /\ task[a].pc = "collect"
        /\ rows' = [rows EXCEPT ![a] = [c \in Cids |-> IF c \in gone THEN NoRow ELSE @[c]]]
        /\ IF gone = {} THEN UNCHANGED garbage ELSE Add(Handle(a), gone)
        /\ Cross(a, gone)
        /\ task' = [task EXCEPT ![a] = [pc |-> "verify", todo |-> task[a].todo]]
        /\ UNCHANGED <<refs, Objects, uploads, reading, Bounds, doomed, strayed, exposed>>

(* verify_blob_and_make_permanent: the row must be there and not taken     *)
(* down; a row without tempKey is permanent already.                       *)
Verify(a) ==
    /\ task[a].pc = "verify"
    /\ \/ /\ task[a].todo = {}
          /\ task' = [task EXCEPT ![a] = Idle]
       \/ \E p \in task[a].todo :
            LET row == rows[a][p[2]]
            IN  task' = [task EXCEPT ![a] =
                  IF ~row.present \/ row.down THEN Idle
                  ELSE [pc |-> IF row.key = NoKey THEN "associate" ELSE "permanent",
                        todo |-> task[a].todo, blob |-> p, key |-> row.key]]
    /\ UNCHANGED <<rows, refs, Objects, garbage, uploads, reading, Bounds, History>>

Permanent(a) ==
    LET t == task[a]
    IN  /\ t.pc = "permanent"
        /\ MakePermanent(Handle(a), t.key, t.blob[2])
        /\ Cross(a, {t.blob[2]})
        /\ task' = [task EXCEPT ![a] = IF Kept(Handle(a), t.key, t.blob[2])
                                       THEN [t EXCEPT !.pc = "clear"] ELSE Idle]
        /\ UNCHANGED <<rows, refs, garbage, uploads, reading, Bounds, strayed, exposed>>

(* UPDATE blob SET tempKey = NULL WHERE tempKey = ? *)
ClearTemp(a) ==
    /\ task[a].pc = "clear"
    /\ rows' = [rows EXCEPT ![a] = [c \in Cids |->
                  IF @[c].key = task[a].key THEN [@[c] EXCEPT !.key = NoKey] ELSE @[c]]]
    /\ task' = [task EXCEPT ![a].pc = "associate"]
    /\ UNCHANGED <<refs, Objects, garbage, uploads, reading, Bounds, History>>

Associate(a) ==
    /\ task[a].pc = "associate"
    /\ refs' = [refs EXCEPT ![a] = @ \cup {task[a].blob}]
    /\ task' = [task EXCEPT ![a] = [pc |-> "verify", todo |-> task[a].todo \ {task[a].blob}]]
    /\ UNCHANGED <<rows, Objects, garbage, uploads, reading, Bounds, History>>

(* delete_many in the background, one object at a time; an object that     *)
(* cannot be deleted is only logged, and one that is not there is no       *)
(* error.                                                                  *)
DeleteOne(g, c) ==
    /\ blocks' = [blocks EXCEPT ![g.handle] = @ \ {c}]
    /\ garbage' = (garbage \ {g}) \cup
         (IF g.cids = {c} THEN {} ELSE {[g EXCEPT !.cids = @ \ {c}]})
    /\ UNCHANGED <<rows, refs, temp, quarantined, uploads, task, reading, Bounds, History>>

-----------------------------------------------------------------------------
(* Takedown.                                                               *)

(* update_blob_takedown_status: the row, then the bytes. *)
StartTakedown(a, c, applied) ==
    /\ task[a] = Idle /\ tasks < MaxTasks
    /\ tasks' = tasks + 1
    /\ rows' = [rows EXCEPT ![a][c].down = applied /\ rows[a][c].present]
    /\ task' = [task EXCEPT ![a] = [pc |-> "move", cid |-> c, applied |-> applied]]
    /\ UNCHANGED <<refs, Objects, garbage, uploads, reading, keys, faults, History>>

(* An error of the backend is only logged. *)
MoveBytes(a) ==
    LET t == task[a]
        h == Handle(a)
    IN  /\ t.pc = "move"
        /\ \/ /\ IF t.applied THEN Quarantine(h, t.cid) ELSE Unquarantine(h, t.cid)
              /\ strayed' = [strayed EXCEPT ![a] = @ \ {t.cid}]
              /\ Cross(a, {t.cid})
           \/ /\ t.cid \notin IF t.applied THEN blocks[h] ELSE quarantined[h]
              /\ UNCHANGED <<Objects, strayed, crossed>>
        /\ task' = [task EXCEPT ![a] = Idle]
        /\ UNCHANGED <<rows, refs, garbage, uploads, reading, Bounds, doomed, exposed>>

(* get_blob_metadata *)
Visible(row) == row.present /\ ~row.down

(* get_blob: get_blob_metadata reads the row, then get_stream opens the    *)
(* object.                                                                 *)
GetMetadata(a, c) ==
    /\ reading[a] = {}
    /\ Visible(rows[a][c])
    /\ reading' = [reading EXCEPT ![a] = {c}]
    /\ UNCHANGED <<rows, refs, Objects, garbage, uploads, task, Bounds, History>>

(* The taken-down blobs whose takedown has returned. *)
Settled(a) == {c \in Cids : rows[a][c].down /\ ~(task[a].pc = "move" /\ task[a].cid = c)}

GetStream(a, c) ==
    /\ c \in reading[a]
    /\ reading' = [reading EXCEPT ![a] = {}]
    /\ exposed' = IF /\ c \in blocks[Handle(a)] /\ c \in Settled(a) \ strayed[a]
                     /\ <<a, c>> \notin crossed
                  THEN exposed \cup {<<a, c>>} ELSE exposed
    /\ UNCHANGED <<rows, refs, Objects, garbage, uploads, task, Bounds, doomed, strayed, crossed>>

-----------------------------------------------------------------------------
(* The task of an actor fails where it is. *)
Fail(a) ==
    /\ task[a] # Idle /\ faults < MaxFaults
    /\ faults' = faults + 1
    /\ task' = [task EXCEPT ![a] = Idle]
    /\ strayed' = IF task[a].pc = "move"
                  THEN [strayed EXCEPT ![a] = @ \cup {task[a].cid}] ELSE strayed
    /\ UNCHANGED <<rows, refs, Objects, garbage, uploads, reading, keys, tasks, doomed,
                   crossed, exposed>>

(* The process stops: its tasks, its readers and what was still to be      *)
(* deleted in the background are forgotten.                                *)
Restart ==
    /\ faults < MaxFaults
    /\ faults' = faults + 1
    /\ task' = [a \in Actors |-> Idle]
    /\ reading' = [a \in Actors |-> {}]
    /\ garbage' = {} /\ uploads' = {}
    /\ strayed' = [a \in Actors |-> strayed[a] \cup
                      {c \in Cids : task[a].pc = "move" /\ task[a].cid = c}]
    /\ UNCHANGED <<rows, refs, Objects, keys, tasks, doomed, crossed, exposed>>

(* ActorStore::destroy; the races with a writer are in ActorStore. *)
Destroy(a) ==
    /\ task[a] = Idle /\ tasks < MaxTasks
    /\ tasks' = tasks + 1
    /\ DeleteAll(Handle(a)) /\ Cross(a, Cids)
    /\ rows' = [rows EXCEPT ![a] = [c \in Cids |-> NoRow]]
    /\ refs' = [refs EXCEPT ![a] = {}]
    /\ uploads' = {u \in uploads : u.actor # a}
    /\ reading' = [reading EXCEPT ![a] = {}]
    /\ UNCHANGED <<garbage, task, keys, faults, doomed, strayed, exposed>>

TaskStep(a) ==
    \/ Dereference(a) \/ Collect(a) \/ Verify(a) \/ Permanent(a) \/ ClearTemp(a)
    \/ Associate(a) \/ MoveBytes(a)

Next ==
    \/ \E a \in Actors :
         \/ StartWrite(a) \/ TrackUntethered(a) \/ TaskStep(a) \/ Fail(a) \/ Destroy(a)
         \/ \E c \in Cids : \/ Upload(a, c) \/ UploadBlob(a, c)
                            \/ GetMetadata(a, c) \/ GetStream(a, c)
                            \/ \E applied \in BOOLEAN : StartTakedown(a, c, applied)
    \/ \E g \in garbage : \E c \in g.cids : DeleteOne(g, c)
    \/ Restart

Spec == Init /\ [][Next]_vars

-----------------------------------------------------------------------------
(* Types; a permanent row is one a key was cleared from.                   *)
TypeOK ==
    /\ rows \in [Actors -> [Cids -> BlobRow]]
    /\ \A a \in Actors : refs[a] \subseteq Uris \X Cids /\ reading[a] \subseteq Cids
    /\ \A h \in Handles : /\ temp[h] \subseteq 1..keys
                          /\ blocks[h] \cup quarantined[h] \subseteq Cids
    /\ \A a \in Actors, c \in Cids : rows[a][c].key \in 0..keys
    /\ \A g \in garbage : g.cids # {} /\ g.cids \subseteq Cids

(* Every blob a record refers to has its row: delete_dereferenced_blobs    *)
(* takes none that another record or the same batch needs, and a blob is   *)
(* associated only once its row was found, whatever fails in between.      *)
AssociatedBlobHasRow ==
    \A a \in Actors : \A r \in refs[a] : rows[a][r[2]].present

(* Whether the object of a row can be found where the row says it is. *)
HasBytes(a, c) ==
    LET row == rows[a][c]
        h == Handle(a)
    IN  \/ c \in blocks[h]
        \/ row.key \in temp[h]
        \/ c \in quarantined[h] /\ (row.down \/ c \in strayed[a]
                                    \/ task[a] = [pc |-> "move", cid |-> c, applied |-> FALSE])

(* No row without its bytes, through uploads, failed writes and takedowns, *)
(* but for two cases: a blob that was stored again while the background    *)
(* deletion of its former bytes was due, which takes the new ones; and one *)
(* whose object another actor stored, moved or deleted, since all actors   *)
(* share the handle the server builds.                                     *)
BytesBehindRow ==
    \A a \in Actors : \A c \in Cids :
        rows[a][c].present => HasBytes(a, c) \/ c \in doomed[Handle(a)] \/ <<a, c>> \in crossed

(* Once a takedown has returned, not even a reader that had looked the     *)
(* blob up before it is served the bytes, unless the move to quarantine    *)
(* was cut short, the bytes were uploaded again, or another actor has put  *)
(* its own copy of them under the shared handle.                           *)
TakedownHides == exposed = {}

(* The rows of the blob table keep up with the records: whatever fails in  *)
(* between, a blob that a record refers to has its row.                    *)
BlobRowsConsistent == TypeOK /\ AssociatedBlobHasRow
=============================================================================
