----------------------------- MODULE RepoStorage -----------------------------
(* The block store of one repo (sql_repo.rs): the tables repo_root and
   repo_block, the block cache every request has of its own, the commit as one
   transaction, and keyset pages over the blocks.

   A writer holds the write lock of the DID from the time it opens the store
   until it is dropped.  The trait method apply_commit runs its transaction in a
   spawned task and awaits it: when the request is dropped at that await, the
   lock is freed and the task runs on.  Of a commit only its number (rev) and
   the set of blocks reached from it are kept.                                *)
EXTENDS Integers, FiniteSets, FiniteSetsExt

CONSTANTS Writers,      \* requests that may write
          Cids,         \* blocks, named by numbers that order as the cids do
          NoWriter,     \* the lock is free
          MaxRev,       \* bound: commits formatted
          CacheLimit,   \* rows cache_rev loads
          PageSize,     \* rows of a page of get_block_range
          MaxDrops      \* bound: requests dropped, statements failed

ASSUME RepoStorageAssumption ==
    /\ {MaxRev, CacheLimit, PageSize, MaxDrops} \subseteq Nat
    /\ Cids \subseteq Nat \ {0}
    /\ IsFiniteSet(Cids)
    /\ MaxRev > 0
    /\ PageSize > 0
    /\ NoWriter \notin Writers

VARIABLES root,       \* repo_root: the rev of the current commit
          block,      \* repo_block: cid -> repo_rev, 0: no row
          lock,       \* the holder of the DID's write lock
          req,        \* the writers
          spawned,    \* commits whose task outlived the request
          walk,       \* a caller going through the pages
          revs,       \* commits formatted so far
          drops,
          tree,       \* history: rev -> the blocks reached from it
          overlap,    \* history: a writer has been at work beside a spawned task
          forked      \* history: commits applied to a root they were not made from

vars == <<root, block, lock, req, spawned, walk, revs, drops, tree, overlap, forked>>

Commit == [rev : 1..MaxRev, base : 0..MaxRev, new : SUBSET Cids, removed : SUBSET Cids]
NoCommit == [rev |-> 0, base |-> 0, new |-> {}, removed |-> {}]

Stored == {c \in Cids : block[c] # 0}

Idle == [pc |-> "idle", cache |-> {}, todo |-> {}, commit |-> NoCommit]

------------------------------------------------------------------------------
(* A writer.                                                                  *)

(* SqlRepoReader::new with an empty cache, once the lock is taken.            *)
Open(w) ==
    /\ req[w] = Idle
    /\ revs < MaxRev
    /\ lock = NoWriter
    /\ lock' = w
    /\ req' = [req EXCEPT ![w].pc = "root"]
    /\ overlap' = (overlap \/ spawned # {})
    /\ UNCHANGED <<root, block, spawned, walk, revs, drops, tree, forked>>

(* The transactor is dropped, and with it the guard of the lock.              *)
Close(w) ==
    /\ lock' = NoWriter
    /\ req' = [req EXCEPT ![w] = Idle]

(* Mutation of GetRootDetailed: the last commit ever made, applied or not.    *)
GetRootDetailedLast(w) ==
    /\ req[w].pc = "root"
    /\ req' = [req EXCEPT ![w].pc = "warm", ![w].commit.base = revs]
    /\ UNCHANGED <<root, block, lock, spawned, walk, revs, drops, tree, overlap, forked>>

(* get_root_detailed, for format_commit; a missing root fails the request.    *)
GetRootDetailed(w) ==
    /\ req[w].pc = "root"
    /\ IF root = 0
       THEN Close(w)
       ELSE /\ req' = [req EXCEPT ![w].pc = "warm", ![w].commit.base = root]
            /\ UNCHANGED lock
    /\ UNCHANGED <<root, block, spawned, walk, revs, drops, tree, overlap, forked>>

(* cache_rev: some CacheLimit blocks of the current rev.                      *)
CacheRev(w) ==
    LET rows == {c \in Cids : block[c] = req[w].commit.base}
        n == IF Cardinality(rows) < CacheLimit THEN Cardinality(rows) ELSE CacheLimit IN
    /\ req[w].pc = "warm"
    /\ \E S \in kSubset(n, rows) :
          req' = [req EXCEPT ![w].pc = "load", ![w].cache = @ \cup S,
                             ![w].todo = tree[req[w].commit.base]]
    /\ UNCHANGED <<root, block, lock, spawned, walk, revs, drops, tree, overlap, forked>>

(* get_bytes_impl for a node on the way through the tree: from the cache, else
   from the table and into the cache.                                         *)
GetBytes(w, c) ==
    /\ req[w].pc = "load"
    /\ c \in req[w].todo
    /\ IF c \in req[w].cache \cup Stored
       THEN /\ req' = [req EXCEPT ![w].cache = @ \cup {c}, ![w].todo = @ \ {c}]
            /\ UNCHANGED lock
       ELSE Close(w)
    /\ UNCHANGED <<root, block, spawned, walk, revs, drops, tree, overlap, forked>>

(* The diff of the tree before and after the writes; new blocks may be stored
   already, as another record's.                                              *)
FormatCommit(w) ==
    LET r == req[w]
        old == tree[r.commit.base] IN
    /\ r.pc = "load"
    /\ r.todo = {}
    /\ revs < MaxRev
    /\ revs' = revs + 1
    /\ \E after \in (SUBSET Cids) \ {old} :
          /\ tree' = [tree EXCEPT ![revs'] = after]
          /\ req' = [req EXCEPT ![w].pc = "relevant", ![w].todo = after \ old,
                        ![w].commit = [@ EXCEPT !.rev = revs', !.new = after \ old,
                                                !.removed = old \ after]]
    /\ UNCHANGED <<root, block, lock, spawned, walk, drops, overlap, forked>>

(* get_blocks_impl for the record blocks the diff lacks: cached ones are not
   asked for, the rest are read in batches and cached; missing ones are fine. *)
GetBlocks(w, asked) ==
    /\ req[w].pc = "relevant"
    /\ asked \subseteq req[w].todo
    /\ req' = [req EXCEPT ![w].pc = "apply", ![w].todo = {},
                          ![w].cache = @ \cup (asked \cap Stored)]
    /\ UNCHANGED <<root, block, lock, spawned, walk, revs, drops, tree, overlap, forked>>

(* Mutation of Inserted: a block that is there gets the rev of the commit.    *)
InsertedAnew(c) == [d \in Cids |-> IF d \in c.new THEN c.rev ELSE block[d]]

(* The inserts of apply_commit_inner: ON CONFLICT DO NOTHING.                 *)
Inserted(c) == [d \in Cids |-> IF d \in c.new /\ block[d] = 0 THEN c.rev ELSE block[d]]

(* apply_commit_inner: the row of the root, the inserts and the deletes in one
   transaction; the row is written whatever root it holds.                    *)
ApplyCommitInner(c) ==
    /\ root' = c.rev
    /\ block' = [d \in Cids |-> IF d \in c.removed THEN 0 ELSE Inserted(c)[d]]
    /\ forked' = IF c.base = root THEN forked ELSE forked \cup {c.rev}

(* Blocks that have been stored all along, and those a page has shown.        *)
Watch == walk' = [walk EXCEPT !.steady = @ \cap {c \in Cids : block'[c] # 0}]

(* The spawned task of apply_commit commits while its request awaits it.      *)
ApplyCommit(w) ==
    /\ req[w].pc = "apply"
    /\ ApplyCommitInner(req[w].commit)
    /\ Watch
    /\ req' = [req EXCEPT ![w].pc = "evict"]
    /\ UNCHANGED <<lock, spawned, revs, drops, tree, overlap>>

(* Mutation of RollBack: the root row is written outside the transaction.     *)
RollBackBlocks(c) == root' = c.rev /\ UNCHANGED block

(* A failing statement rolls the whole commit back.                           *)
RollBack(c) == UNCHANGED <<root, block>>

ApplyFails(w) ==
    /\ req[w].pc = "apply"
    /\ drops < MaxDrops
    /\ drops' = drops + 1
    /\ RollBack(req[w].commit)
    /\ Close(w)
    /\ UNCHANGED <<spawned, walk, revs, tree, overlap, forked>>

(* apply_commit_impl after the transaction.                                   *)
Evicted(w) == req[w].cache \ req[w].commit.removed

EvictCache(w) ==
    /\ req[w].pc = "evict"
    /\ req' = [req EXCEPT ![w].pc = "after", ![w].cache = Evicted(w)]
    /\ UNCHANGED <<root, block, lock, spawned, walk, revs, drops, tree, overlap, forked>>

(* The request settles its blobs, is sequenced and answered.                  *)
Answer(w) ==
    /\ req[w].pc = "after"
    /\ Close(w)
    /\ UNCHANGED <<root, block, spawned, walk, revs, drops, tree, overlap, forked>>

(* The client goes away: the request's future is dropped at an await, with its
   lock; a task it had spawned is not.                                        *)
Drop(w) ==
    /\ req[w].pc # "idle"
    /\ drops < MaxDrops
    /\ drops' = drops + 1
    /\ spawned' = spawned \cup (IF req[w].pc = "apply" THEN {req[w].commit} ELSE {})
    /\ Close(w)
    /\ UNCHANGED <<root, block, walk, revs, tree, overlap, forked>>

(* A task whose request is gone commits.                                      *)
ApplySpawned(c) ==
    /\ ApplyCommitInner(c)
    /\ Watch
    /\ spawned' = spawned \ {c}
    /\ UNCHANGED <<lock, req, revs, drops, tree, overlap>>

------------------------------------------------------------------------------
(* Readers, which take no lock.                                               *)

(* The keyset condition of get_block_range: newest rev first, then cid.       *)
Before(c) == \/ walk.rev = 0
             \/ block[c] < walk.rev
             \/ block[c] = walk.rev /\ c < walk.cid

(* The first PageSize rows in the order of the query.                         *)
Page ==
    LET rows == {c \in Stored : Before(c)}
        ahead(c) == {d \in rows : block[d] > block[c] \/ (block[d] = block[c] /\ d > c)}
    IN  {c \in rows : Cardinality(ahead(c)) < PageSize}

(* get_block_range without a cursor, and with the last row's.                 *)
GetBlockRange ==
    LET last == CHOOSE c \in Page : \A d \in Page :
                    block[c] < block[d] \/ (block[c] = block[d] /\ c <= d) IN
    /\ walk.pc = "page"
    /\ walk' = IF Page = {}
               THEN [walk EXCEPT !.pc = "done"]
               ELSE [walk EXCEPT !.rev = block[last], !.cid = last,
                                 !.seen = @ \cup Page, !.twice = @ \cup (walk.seen \cap Page)]
    /\ UNCHANGED <<root, block, lock, req, spawned, revs, drops, tree, overlap, forked>>

Quiet == [pc |-> "none", rev |-> 0, cid |-> 0, steady |-> {}, seen |-> {}, twice |-> {}]

StartWalk ==
    /\ walk.pc # "page"
    /\ walk' = [Quiet EXCEPT !.pc = "page", !.steady = Stored]
    /\ UNCHANGED <<root, block, lock, req, spawned, revs, drops, tree, overlap, forked>>

------------------------------------------------------------------------------

(* A repo with one commit (create_repo).                                      *)
Init ==
    /\ root = 1
    /\ \E S \in SUBSET Cids :
          /\ block = [c \in Cids |-> IF c \in S THEN 1 ELSE 0]
          /\ tree = [r \in 0..MaxRev |-> IF r = 1 THEN S ELSE {}]
    /\ lock = NoWriter
    /\ req = [w \in Writers |-> Idle]
    /\ spawned = {}
    /\ walk = Quiet
    /\ revs = 1
    /\ drops = 0
    /\ overlap = FALSE
    /\ forked = {}

Write(w) ==
    \/ Open(w) \/ GetRootDetailed(w) \/ CacheRev(w)
    \/ \E c \in Cids : GetBytes(w, c)
    \/ FormatCommit(w)
    \/ \E S \in SUBSET req[w].todo : GetBlocks(w, S)
    \/ ApplyCommit(w) \/ ApplyFails(w) \/ EvictCache(w) \/ Answer(w)
    \/ Drop(w)

Next ==
    \/ \E w \in Writers : Write(w)
    \/ \E c \in spawned : ApplySpawned(c)
    \/ StartWalk \/ GetBlockRange

Spec == Init /\ [][Next]_vars

------------------------------------------------------------------------------
(* Properties.                                                                *)

(* Every variable has its type; only the holder of the lock is at work.       *)
TypeOK ==
    /\ root \in 1..MaxRev
    /\ block \in [Cids -> 0..MaxRev]
    /\ lock \in Writers \cup {NoWriter}
    /\ \A w \in Writers :
         /\ req[w].pc \in {"idle", "root", "warm", "load", "relevant", "apply", "evict", "after"}
         /\ req[w].cache \subseteq Cids /\ req[w].todo \subseteq Cids
         /\ req[w].commit.rev \in 0..revs /\ req[w].commit.base \in 0..revs
         /\ req[w].pc # "idle" <=> lock = w
    /\ spawned \subseteq Commit
    /\ revs \in 1..MaxRev
    /\ drops \in 0..MaxDrops
    /\ overlap \in BOOLEAN
    /\ forked \subseteq 1..revs

(* Every block the current commit reaches is stored: the root row, the new
   blocks and the removed ones change together.  A writer that worked beside a
   spawned task may have built on a root that was replaced under it.          *)
RootIsWhole == ~overlap => tree[root] \subseteq Stored

(* What a writer has cached is in the table, from one end of the request to the
   other: no other writer removes blocks under it, and its own commit evicts
   what it removes before the request goes on.                                *)
CacheIsStored ==
    ~overlap => \A w \in Writers : req[w].pc # "evict" => req[w].cache \subseteq Stored

(* Going through the pages shows every block that was stored from the first
   page to the last, and none of them twice, whatever is committed meanwhile:
   a block that is inserted again keeps its rev and so its place.             *)
WalkIsComplete ==
    /\ walk.pc = "done" => walk.steady \subseteq walk.seen
    /\ walk.twice \cap walk.steady = {}

(* Writers serialize: every commit that is applied was made from the root it
   replaces, also after requests that failed or were dropped before or after
   their commit.  Only a request dropped at the await of its commit breaks it:
   the lock is free while the spawned task has yet to write the root.         *)
WritersSerialize == ~overlap => forked = {}

(* Table and caches stay consistent: a commit is stored whole or not at all,
   and a writer's cache never shows a block the table has lost.               *)
StorageConsistent == TypeOK /\ RootIsWhole /\ CacheIsStored
==============================================================================
