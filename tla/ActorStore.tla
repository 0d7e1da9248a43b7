----------------------------- MODULE ActorStore -----------------------------
(***************************************************************************)
(* The store of one actor: the SQLite file with its repo and its record    *)
(* index, the cache of open files, the write lock of the DID, and the      *)
(* requests that write records, create the account or delete it.           *)
(*                                                                         *)
(* A writer takes the lock of the DID and keeps it until its commit has    *)
(* been handed to the sequencer.  It formats a commit, indexes the         *)
(* records, applies the commit in one transaction and then settles the     *)
(* blobs, each in a statement of its own that may fail.  destroy takes no  *)
(* lock.  A file that is removed lives on for whoever has it open.  Here   *)
(* every request runs to its answer; one whose client goes away while its  *)
(* commit is being applied is in RepoStorage.                              *)
(***************************************************************************)
EXTENDS Integers, Sequences, FiniteSets

CONSTANTS
    Handlers,    \* concurrent requests
    Uris,        \* record keys
    Cids,        \* record contents
    NoCid,       \* no record
    NoHandler,   \* an unlocked mutex
    MaxStores,   \* bound: files ever created
    MaxCommits,  \* bound: commits ever formatted
    MaxReads,    \* bound: lock-free reads
    MaxFaults    \* bound: statements that fail and restarts of the process

ASSUME ActorStoreAssumption ==
    /\ {MaxStores, MaxCommits, MaxReads, MaxFaults} \subseteq Nat
    /\ NoCid \notin Cids
    /\ NoHandler \notin Handlers

VARIABLES
    stores,    \* every store.sqlite ever created, by number
    dir,       \* the number of the one in the actor's directory
    keyFile,   \* whether the directory holds the signing key
    cache,     \* the entry of the DID in ActorStore.cache
    locks,     \* the entry of the DID in ActorStore.locks
    holder,    \* for every mutex ever made, the request that holds it
    account,   \* whether the account's rows exist
    revs,      \* number of commits formatted; a commit is its number
    log,       \* the commits handed to the sequencer
    req,       \* progress of each request
    reads, faults,
    torn,      \* history: store -> uris a failed write may have left
               \* indexed otherwise than in the repo
    unguarded, \* history: stores that were open when destroy dropped the lock,
               \* or opened under a lock it had dropped
    lost       \* history: commits applied but never sequenced

vars == <<stores, dir, keyFile, cache, locks, holder, account, revs, log, req,
          reads, faults, torn, unguarded, lost>>

Idle == [pc |-> "idle"]

(* No file, no cached connection, no mutex, no repo root. *)
None == 0

(* Tables repo_root, repo_block and record.  Of the blocks only records    *)
(* are told apart; mst is the content of the tree under the root.          *)
Store == [root : Nat, mst : [Uris -> Cids \cup {NoCid}],
          blocks : SUBSET Cids, index : [Uris -> Cids \cup {NoCid}]]

EmptyStore ==
    [root |-> None, mst |-> [u \in Uris |-> NoCid],
     blocks |-> {}, index |-> [u \in Uris |-> NoCid]]

Init ==
    /\ stores = <<[EmptyStore EXCEPT !.root = 1]>>
    /\ dir = 1 /\ keyFile = TRUE /\ account = TRUE
    /\ cache = None /\ locks = None /\ holder = <<>>
    /\ revs = 1 /\ log = <<>>
    /\ req = [h \in Handlers |-> Idle]
    /\ reads = 0 /\ faults = 0
    /\ torn = <<{}>> /\ unguarded = {} /\ lost = {}

-----------------------------------------------------------------------------
(* How a request ends.                                                     *)

(* The uris of a batch that are indexed while the commit is not applied.   *)
Unapplied(r) ==
    CASE r.pc = "index" -> DOMAIN r.batch \ r.todo
      [] r.pc = "apply" -> DOMAIN r.batch
      [] OTHER -> {}

(* The commit that is applied and not sequenced. *)
Unsequenced(r) ==
    IF r.pc \in {"blobs", "sequence"} /\ r.kind = "write" THEN {r.rev} ELSE {}

(* Dropping the transactor frees the mutex, if the request holds it. *)
Release(h) == [l \in DOMAIN holder |-> IF holder[l] = h THEN NoHandler ELSE holder[l]]

(* The records of what requests R leave behind when they stop where they are. *)
LeaveBehind(R) ==
    /\ torn' = [s \in DOMAIN torn |-> torn[s] \cup
                  UNION {Unapplied(req[h]) : h \in {g \in R : req[g].pc \in {"index", "apply"}
                                                    /\ req[g].store = s}}]
    /\ lost' = lost \cup UNION {Unsequenced(req[h]) : h \in R}

(* The request is answered, with an error if it stops early; createAccount *)
(* destroys the store first when it has created it.  destroy fails when    *)
(* the blobs or the directory cannot be removed.                           *)
Abandon(h) ==
    /\ LeaveBehind({h})
    /\ IF req[h].kind = "create" /\ req[h].pc # "remove"
       THEN /\ req' = [req EXCEPT ![h] = [pc |-> "destroy", kind |-> "create"]]
            /\ UNCHANGED holder
       ELSE /\ req' = [req EXCEPT ![h] = Idle]
            /\ holder' = Release(h)

(* A statement of request h fails. *)
Fault(h) ==
    /\ req[h].pc \in {"warm", "key", "format", "index", "apply", "blobs", "sequence",
                      "init", "account", "remove"}
    /\ faults < MaxFaults
    /\ faults' = faults + 1
    /\ Abandon(h)
    /\ UNCHANGED <<stores, dir, keyFile, cache, locks, account, revs, log, reads,
                   unguarded>>

(* The process stops and starts again: memory is gone, the directory stays. *)
Crash ==
    /\ faults < MaxFaults
    /\ faults' = faults + 1
    /\ LeaveBehind(Handlers)
    /\ req' = [h \in Handlers |-> Idle]
    /\ cache' = None
    /\ locks' = None
    /\ holder' = [l \in DOMAIN holder |-> NoHandler]
    /\ UNCHANGED <<stores, dir, keyFile, account, revs, log, reads, unguarded>>

-----------------------------------------------------------------------------
(* Opening a store.                                                        *)

(* A request that knows one thing more. *)
With(r, f, v) == [x \in DOMAIN r \cup {f} |-> IF x = f THEN v ELSE r[x]]

(* did_lock: the mutex of the DID, made when the map has none.             *)
DidLock(h, r) ==
    LET new == Len(holder) + 1
    IN  IF locks # None
        THEN /\ req' = [req EXCEPT ![h] = With(r, "lock", locks)]
             /\ UNCHANGED <<locks, holder>>
        ELSE /\ req' = [req EXCEPT ![h] = With(r, "lock", new)]
             /\ locks' = new
             /\ holder' = Append(holder, NoHandler)

(* lock_owned().await *)
Lock(h) ==
    /\ req[h].pc = "lock"
    /\ holder[req[h].lock] = NoHandler
    /\ holder' = [holder EXCEPT ![req[h].lock] = h]
    /\ req' = [req EXCEPT ![h].pc = "open"]
    /\ UNCHANGED <<stores, dir, keyFile, cache, locks, account, revs, log, reads,
                   faults, torn, unguarded, lost>>

(* What follows open_db: a transactor loads the key, a reader reads. *)
AfterOpen(r) == IF r.kind = "read" THEN "root" ELSE "key"

Exists == dir # None

(* open_db: the cached connection, or the file in the directory, or        *)
(* NotFound.  A file that is opened enters the cache only after the        *)
(* warm-up query.                                                          *)
OpenDb(h) ==
    LET r == req[h]
    IN  /\ r.pc = "open"
        /\ \/ /\ cache # None
              /\ req' = [req EXCEPT ![h] = With([r EXCEPT !.pc = AfterOpen(r)], "store", cache)]
              /\ UNCHANGED <<holder, torn, lost>>
           \/ /\ cache = None /\ Exists
              /\ req' = [req EXCEPT ![h] = With([r EXCEPT !.pc = "warm"], "store", dir)]
              /\ UNCHANGED <<holder, torn, lost>>
           \/ /\ cache = None /\ ~Exists
              /\ Abandon(h)
        /\ unguarded' = unguarded \cup
             IF r.kind = "read" \/ r.lock = locks THEN {} ELSE {cache, dir} \ {None}
        /\ UNCHANGED <<stores, dir, keyFile, cache, locks, account, revs, log, reads,
                       faults>>

CachePut(h) ==
    /\ req[h].pc = "warm"
    /\ cache' = req[h].store
    /\ req' = [req EXCEPT ![h].pc = AfterOpen(req[h])]
    /\ UNCHANGED <<stores, dir, keyFile, locks, holder, account, revs, log, reads,
                   faults, torn, unguarded, lost>>

(* The least recently used connection makes room for another actor's. *)
Evict ==
    /\ cache # None
    /\ cache' = None
    /\ UNCHANGED <<stores, dir, keyFile, locks, holder, account, revs, log, req, reads,
                   faults, torn, unguarded, lost>>

(* transact loads the signing key, which destroy may have removed. *)
LoadKey(h) ==
    /\ req[h].pc = "key"
    /\ \/ /\ keyFile
          /\ req' = [req EXCEPT ![h].pc = IF req[h].kind = "create" THEN "init" ELSE "format"]
          /\ UNCHANGED <<holder, torn, lost>>
       \/ /\ ~keyFile
          /\ Abandon(h)
    /\ UNCHANGED <<stores, dir, keyFile, cache, locks, account, revs, log, reads,
                   faults, unguarded>>

-----------------------------------------------------------------------------
(* Writing records.                                                        *)

Write == [action : {"create", "update"}, cid : Cids] \cup [action : {"delete"}, cid : {NoCid}]

(* A batch writes every record at most once. *)
Batches == UNION {[U -> Write] : U \in (SUBSET Uris) \ {{}}}

(* The batches of the handlers for one record. *)
Singles(action) == {b \in Batches : \E u \in Uris : DOMAIN b = {u} /\ b[u].action = action}

(* check_record_swap: a record swap needs the record to be there with that *)
(* content, and a create never has one.                                    *)
CheckRecordSwap(action, current, swap) ==
    swap = NoCid \/ (action # "create" /\ current = swap)

(* The handlers for one record hand swapCommit, the cid of a commit, to    *)
(* the record swap too; applyWrites has no record swap.                    *)
RecordSwap(r) == IF r.single /\ r.swap # None THEN "commit" ELSE NoCid

(* External (rsky_repo): the tree refuses to create a key it has and to    *)
(* update or delete one it has not.                                        *)
MstAccepts(mst, batch) ==
    \A u \in DOMAIN batch : (batch[u].action = "create") <=> (mst[u] = NoCid)

MstApplied(mst, batch) ==
    [u \in Uris |-> IF u \in DOMAIN batch THEN batch[u].cid ELSE mst[u]]

Added(batch) == {batch[u].cid : u \in DOMAIN batch} \ {NoCid}

(* External (rsky_repo): record blocks the old tree reached and the new    *)
(* one replaces.                                                           *)
Replaced(mst, batch) == {mst[u] : u \in DOMAIN batch} \ (Added(batch) \cup {NoCid})

(* get_duplicate_record_cids: of these, the ones another record refers to, *)
(* as far as the index knows.                                              *)
Duplicates(index, cids, touched) ==
    IF touched = {} THEN {} ELSE {c \in cids : \E u \in Uris \ touched : index[u] = c}

(* The records whose old version the batch replaces. *)
DeletedOrUpdated(batch) == {u \in DOMAIN batch : batch[u].action # "create"}

(* Mutation of Refused: no compare and swap on the commit. *)
RefusedIgnoringSwap(s, r) ==
    \/ s.root = None
    \/ \E u \in DOMAIN r.batch : ~CheckRecordSwap(r.batch[u].action, s.index[u], RecordSwap(r))
    \/ ~MstAccepts(s.mst, r.batch)

(* The errors of format_commit. *)
Refused(s, r) ==
    \/ s.root = None
    \/ r.swap # None /\ r.swap # s.root
    \/ \E u \in DOMAIN r.batch : ~CheckRecordSwap(r.batch[u].action, s.index[u], RecordSwap(r))
    \/ ~MstAccepts(s.mst, r.batch)

(* Requests that will format a commit. *)
Coming == {h \in Handlers : req[h].pc \in {"lock", "open", "warm", "key", "format"}
                            /\ req[h].kind = "write"}

(* A handler has prepared its writes, and transact asks for the lock.      *)
(* Only an account has a token to write with.                              *)
StartWrite(h, batches, single) ==
    /\ req[h] = Idle
    /\ account
    /\ revs + Cardinality(Coming) < MaxCommits
    /\ \E batch \in batches, swap \in {None, revs} :
         DidLock(h, [pc |-> "lock", kind |-> "write", batch |-> batch,
                     swap |-> swap, single |-> single])
    /\ UNCHANGED <<stores, dir, keyFile, cache, account, revs, log, reads, faults,
                   torn, unguarded, lost>>

CreateRecord(h) == StartWrite(h, Singles("create"), TRUE)

(* putRecord is prepared as an update, whether or not the record exists. *)
PutRecord(h) == StartWrite(h, Singles("update"), TRUE)

DeleteRecord(h) == StartWrite(h, Singles("delete"), TRUE)

ApplyWrites(h) == StartWrite(h, Batches, FALSE)

(* Mutation of Prev: the previous version is looked up once the new one is known. *)
PrevLate(index, batch) ==
    [u \in DOMAIN batch |-> IF batch[u].cid = NoCid THEN index[u] ELSE batch[u].cid]

(* The previous version of each record, from the index. *)
Prev(index, batch) == [u \in DOMAIN batch |-> index[u]]

(* format_commit. *)
FormatCommit(h) ==
    LET r == req[h]
        s == stores[r.store]
        old == Replaced(s.mst, r.batch)
    IN  /\ r.pc = "format"
        /\ \/ /\ Refused(s, r)
              /\ Abandon(h)
              /\ UNCHANGED revs
           \/ /\ ~Refused(s, r)
              /\ revs' = revs + 1
              /\ req' = [req EXCEPT ![h] =
                   [pc |-> "index", kind |-> "write", store |-> r.store, lock |-> r.lock,
                    batch |-> r.batch, swap |-> r.swap, todo |-> DOMAIN r.batch,
                    rev |-> revs + 1, since |-> s.root,
                    prev |-> Prev(s.index, r.batch),
                    was |-> [u \in DOMAIN r.batch |-> s.mst[u]], stale |-> torn[r.store],
                    mst |-> MstApplied(s.mst, r.batch),
                    gone |-> old \ Duplicates(s.index, old, DeletedOrUpdated(r.batch))]]
              /\ UNCHANGED <<holder, torn, lost>>
        /\ UNCHANGED <<stores, dir, keyFile, cache, locks, account, log, reads,
                       faults, unguarded>>

(* Mutation of Indexed: a deleted record keeps its row. *)
IndexedNotDeleted(index, u, w) == IF w.cid = NoCid THEN index ELSE [index EXCEPT ![u] = w.cid]

Indexed(index, u, w) == [index EXCEPT ![u] = w.cid]

(* index_writes, one record: index_record overwrites the row of the uri,   *)
(* delete_record removes it.                                               *)
IndexRecord(h) ==
    LET r == req[h]
    IN  /\ r.pc = "index"
        /\ \E u \in r.todo :
             /\ stores' = [stores EXCEPT ![r.store].index = Indexed(@, u, r.batch[u])]
             /\ req' = [req EXCEPT ![h].todo = @ \ {u},
                                   ![h].pc = IF r.todo = {u} THEN "apply" ELSE "index"]
        /\ UNCHANGED <<dir, keyFile, cache, locks, holder, account, revs, log, reads,
                       faults, torn, unguarded, lost>>

(* apply_commit: the row of the root is rewritten, whatever it was, blocks *)
(* are inserted and removed, all in one transaction.                       *)
ApplyCommit(h) ==
    LET r == req[h]
        s == stores[r.store]
    IN  /\ r.pc = "apply"
        /\ stores' = [stores EXCEPT ![r.store] =
             [root |-> r.rev, mst |-> r.mst, index |-> s.index,
              blocks |-> (s.blocks \cup Added(r.batch)) \ r.gone]]
        /\ torn' = [torn EXCEPT ![r.store] = @ \ DOMAIN r.batch]
        /\ req' = [req EXCEPT ![h].pc = "blobs"]
        /\ UNCHANGED <<dir, keyFile, cache, locks, holder, account, revs, log, reads,
                       faults, unguarded, lost>>

(* process_write_blobs, see module Blobs. *)
WriteBlobs(h) ==
    /\ req[h].pc = "blobs"
    /\ req' = [req EXCEPT ![h].pc = "sequence"]
    /\ UNCHANGED <<stores, dir, keyFile, cache, locks, holder, account, revs, log,
                   reads,
                   faults, torn, unguarded, lost>>

(* sequence_commit, see module Sequencer; the answer drops the transactor. *)
SequenceCommit(h) ==
    LET r == req[h]
    IN  /\ r.pc = "sequence"
        /\ log' = Append(log, [store |-> r.store, rev |-> r.rev, since |-> r.since,
                               swap |-> r.swap, prev |-> r.prev, was |-> r.was,
                               stale |-> r.stale])
        /\ req' = [req EXCEPT ![h] = Idle]
        /\ holder' = Release(h)
        /\ UNCHANGED <<stores, dir, keyFile, cache, locks, account, revs, reads,
                       faults, torn, unguarded, lost>>

-----------------------------------------------------------------------------
(* Reading without the lock: get_sync_event_data of activateAccount.       *)

StartRead(h) ==
    /\ req[h] = Idle
    /\ account
    /\ reads < MaxReads
    /\ reads' = reads + 1
    /\ req' = [req EXCEPT ![h] = [pc |-> "open", kind |-> "read"]]
    /\ UNCHANGED <<stores, dir, keyFile, cache, locks, holder, account, revs, log,
                   faults, torn, unguarded, lost>>

(* get_root_detailed, then get_blocks; the block of a commit that has been *)
(* replaced meanwhile is gone, which the reader does not notice.           *)
ReadRoot(h) ==
    /\ req[h].pc = "root"
    /\ req' = [req EXCEPT ![h] = With([req[h] EXCEPT !.pc = "read"], "root",
                                      stores[req[h].store].root)]
    /\ UNCHANGED <<stores, dir, keyFile, cache, locks, holder, account, revs, log,
                   reads,
                   faults, torn, unguarded, lost>>

ReadBlocks(h) ==
    /\ req[h].pc = "read"
    /\ req' = [req EXCEPT ![h] = Idle]
    /\ UNCHANGED <<stores, dir, keyFile, cache, locks, holder, account, revs, log,
                   reads,
                   faults, torn, unguarded, lost>>

-----------------------------------------------------------------------------
(* Creating and destroying the store.                                      *)

(* createAccount of an existing DID: create refuses when there is a file.  *)
StartCreate(h) ==
    /\ req[h] = Idle
    /\ dir = None
    /\ Len(stores) < MaxStores
    /\ revs + Cardinality(Coming) < MaxCommits
    /\ req' = [req EXCEPT ![h] = [pc |-> "create", kind |-> "create"]]
    /\ UNCHANGED <<stores, dir, keyFile, cache, locks, holder, account, revs, log,
                   reads,
                   faults, torn, unguarded, lost>>

(* create: the key and the file are written and the connection is cached.  *)
(* A file that has appeared since the check is opened as it is.            *)
CreateDb(h) ==
    /\ req[h].pc = "create"
    /\ keyFile' = TRUE
    /\ \/ /\ dir = None
          /\ stores' = Append(stores, EmptyStore)
          /\ torn' = Append(torn, {})
          /\ dir' = Len(stores) + 1
          /\ cache' = Len(stores) + 1
       \/ /\ dir # None
          /\ cache' = dir
          /\ UNCHANGED <<stores, dir, torn>>
    /\ DidLock(h, [pc |-> "lock", kind |-> "create"])
    /\ UNCHANGED <<account, revs, log, reads, faults, unguarded, lost>>

(* create_repo: the first commit inserts the root, which fails when there  *)
(* is one.  The lock is dropped before the account's rows are written.     *)
CreateRepo(h) ==
    LET r == req[h]
    IN  /\ r.pc = "init"
        /\ \/ /\ stores[r.store].root # None
              /\ Abandon(h)
              /\ UNCHANGED <<stores, revs>>
           \/ /\ stores[r.store].root = None
              /\ revs' = revs + 1
              /\ stores' = [stores EXCEPT ![r.store].root = revs + 1]
              /\ req' = [req EXCEPT ![h].pc = "account"]
              /\ holder' = Release(h)
              /\ UNCHANGED <<torn, lost>>
        /\ UNCHANGED <<dir, keyFile, cache, locks, account, log, reads, faults,
                       unguarded>>

(* AccountManager::create_account, see module Accounts; it refuses a DID   *)
(* that has rows.                                                          *)
CreateRows(h) ==
    /\ req[h].pc = "account"
    /\ \/ /\ ~account
          /\ account' = TRUE
          /\ req' = [req EXCEPT ![h] = Idle]
          /\ UNCHANGED <<holder, torn, lost>>
       \/ /\ account
          /\ Abandon(h)
          /\ UNCHANGED account
    /\ UNCHANGED <<stores, dir, keyFile, cache, locks, revs, log, reads, faults,
                   unguarded>>

(* deleteAccount, once the password and the token are checked. *)
StartDelete(h) ==
    /\ req[h] = Idle
    /\ account
    /\ req' = [req EXCEPT ![h] = [pc |-> "destroy", kind |-> "delete"]]
    /\ UNCHANGED <<stores, dir, keyFile, cache, locks, holder, account, revs, log,
                   reads,
                   faults, torn, unguarded, lost>>

(* The stores that somebody can still write to. *)
Open == {dir, cache} \cup {req[h].store : h \in {g \in Handlers : "store" \in DOMAIN req[g]}}

(* destroy: the cached connection goes, then the mutex, which nobody need  *)
(* have released, and after the blobs the directory.                       *)
PopCache(h) ==
    /\ req[h].pc = "destroy"
    /\ cache' = None
    /\ req' = [req EXCEPT ![h].pc = "unlock"]
    /\ UNCHANGED <<stores, dir, keyFile, locks, holder, account, revs, log, reads,
                   faults, torn, unguarded, lost>>

RemoveLock(h) ==
    /\ req[h].pc = "unlock"
    /\ locks' = None
    /\ unguarded' = unguarded \cup (Open \ {None})
    /\ req' = [req EXCEPT ![h].pc = "remove"]
    /\ UNCHANGED <<stores, dir, keyFile, cache, holder, account, revs, log, reads,
                   faults, torn, lost>>

RemoveDir(h) ==
    /\ req[h].pc = "remove"
    /\ dir' = None
    /\ keyFile' = FALSE
    /\ req' = [req EXCEPT ![h] = IF req[h].kind = "delete"
                                 THEN [pc |-> "rows", kind |-> "delete"] ELSE Idle]
    /\ holder' = Release(h)
    /\ UNCHANGED <<stores, cache, locks, account, revs, log, reads, faults, torn,
                   unguarded, lost>>

(* AccountManager::delete_account *)
DeleteRows(h) ==
    /\ req[h].pc = "rows"
    /\ account' = FALSE
    /\ req' = [req EXCEPT ![h] = Idle]
    /\ UNCHANGED <<stores, dir, keyFile, cache, locks, holder, revs, log, reads,
                   faults, torn, unguarded, lost>>

-----------------------------------------------------------------------------
Step(h) ==
    \/ Lock(h) \/ OpenDb(h) \/ CachePut(h) \/ LoadKey(h)
    \/ FormatCommit(h) \/ IndexRecord(h) \/ ApplyCommit(h) \/ WriteBlobs(h)
    \/ SequenceCommit(h) \/ ReadRoot(h) \/ ReadBlocks(h)
    \/ CreateDb(h) \/ CreateRepo(h) \/ CreateRows(h)
    \/ PopCache(h) \/ RemoveLock(h) \/ RemoveDir(h) \/ DeleteRows(h)

Next ==
    \/ \E h \in Handlers :
         \/ CreateRecord(h) \/ PutRecord(h) \/ DeleteRecord(h) \/ ApplyWrites(h)
         \/ StartRead(h) \/ StartCreate(h) \/ StartDelete(h)
         \/ Step(h) \/ Fault(h)
    \/ Evict \/ Crash

Spec == Init /\ [][Next]_vars

-----------------------------------------------------------------------------
Pcs == {"idle", "lock", "open", "warm", "key", "format", "index", "apply", "blobs",
        "sequence", "root", "read", "create", "init", "account", "destroy", "unlock",
        "remove", "rows"}

(* Types; a request past open_db has a store, a waiting one has a mutex.   *)
TypeOK ==
    /\ stores \in Seq(Store)
    /\ {dir, cache} \subseteq 0..Len(stores)
    /\ locks \in 0..Len(holder)
    /\ \A l \in DOMAIN holder : holder[l] \in Handlers \cup {NoHandler}
    /\ \A h \in Handlers : /\ req[h].pc \in Pcs
                           /\ req[h].pc \in {"key", "format", "index", "apply", "blobs",
                                             "sequence", "root", "read", "init", "warm"}
                                => req[h].store \in DOMAIN stores
                           /\ req[h].pc = "lock" => req[h].lock \in DOMAIN holder

Guarded(i) == log[i].store \notin unguarded

(* The commits of one store reach the sequencer in the order in which they *)
(* were made, as long as destroy has not dropped the lock: the guard is    *)
(* kept through sequence_commit.                                           *)
SequencedInOrder ==
    \A i, j \in DOMAIN log :
        i < j /\ log[i].store = log[j].store /\ Guarded(i) => log[i].rev < log[j].rev

(* Each commit on the firehose follows on the one before it, unless one in *)
(* between was applied and then lost to a failure; and a swapCommit that   *)
(* was accepted names the commit that was replaced.                        *)
CommitsChain ==
    \A j \in DOMAIN log : Guarded(j) =>
        /\ log[j].swap \in {None, log[j].since}
        /\ \A i \in DOMAIN log :
             /\ i < j /\ log[i].store = log[j].store
             /\ \A k \in i + 1 .. j - 1 : log[k].store # log[j].store
             => log[j].since = log[i].rev \/ log[j].since \in lost

(* The requests between indexing their records and applying the commit. *)
Indexing(s) == UNION {Unapplied(req[h]) : h \in {g \in Handlers :
                   req[g].pc \in {"index", "apply"} /\ req[g].store = s}}

(* The index agrees with the repo except where a write is under way or     *)
(* failed between index_writes and apply_commit, and a later write of the  *)
(* record repairs that.                                                    *)
IndexMatchesRepo ==
    \A s \in DOMAIN stores \ unguarded : \A u \in Uris \ (torn[s] \cup Indexing(s)) :
        stores[s].index[u] = stores[s].mst[u]

(* Every record of the repo has its block: the blocks a commit removes are *)
(* no other record's.  A record that a failed write left out of the index  *)
(* is not protected.                                                       *)
RecordBlocksPresent ==
    \A s \in DOMAIN stores \ unguarded :
        \A u \in Uris \ torn[s] : stores[s].mst[u] \in stores[s].blocks \cup {NoCid}

(* What the firehose says of a record's previous version is true of the    *)
(* repo, unless a failed write had left the index behind.                  *)
PrevIsTrue ==
    \A i \in DOMAIN log : Guarded(i) =>
        \A u \in DOMAIN log[i].prev \ log[i].stale : log[i].prev[u] = log[i].was[u]

(* A mutex is held by a request that is still under way: every way out of  *)
(* a request, the failing ones and destroy included, frees it, so that no  *)
(* writer waits forever.                                                   *)
NoLeakedLock ==
    \A l \in DOMAIN holder : holder[l] # NoHandler => req[holder[l]].pc # "idle"

(* Through failing statements, a restart, a second store of the DID and    *)
(* requests that end anywhere, the store of an actor stays consistent:     *)
(* index and repo agree, every record has its block, no lock is left held. *)
StoreConsistent ==
    TypeOK /\ IndexMatchesRepo /\ RecordBlocksPresent /\ NoLeakedLock

(* What the firehose shows of an actor is one chain of commits: they reach *)
(* the sequencer in the order in which they were applied, each follows on  *)
(* the one before, and a swapCommit named the commit that it replaced.     *)
CommitsInOrder == SequencedInOrder /\ CommitsChain
=============================================================================
