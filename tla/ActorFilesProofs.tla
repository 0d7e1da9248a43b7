-------------------------- MODULE ActorFilesProofs --------------------------
(***************************************************************************)
(* Two components that keep an actor's directory, the block store of its   *)
(* repo and its rotation key.                                              *)
(*                                                                         *)
(* The repo.  Whatever the writers, the bounds and the order of their      *)
(* steps, the writers of a repo serialize, the tables stay whole, and a    *)
(* walk through the pages is complete, unless a request was dropped while  *)
(* its commit was under way and another writer began before that commit    *)
(* was done.  The invariant behind it follows a commit from the read of    *)
(* the root to the transaction: the writer holds the lock, so the root     *)
(* cannot move (Based); when the writer is gone, the one commit it left is *)
(* still made from the root, and nobody is at work (Orphan); and a commit  *)
(* is the difference of two trees (Diff).                                  *)
(*                                                                         *)
(* The rotation keys are in the second part, from KeySets on.              *)
(***************************************************************************)
EXTENDS RepoStorage, Rotation, FiniteSetTheorems, TLAPS

Steps == {"idle", "root", "warm", "load", "relevant", "apply", "evict", "after"}

CommitState(n) == [rev : 0..n, base : 0..n, new : SUBSET Cids, removed : SUBSET Cids]
ReqState(n) == [pc : Steps, cache : SUBSET Cids, todo : SUBSET Cids,
                commit : CommitState(n)]
WalkState(n) == [pc : {"none", "page", "done"}, rev : 0..n, cid : Cids \cup {0},
                 steady : SUBSET Cids, seen : SUBSET Cids, twice : SUBSET Cids]

(* What the invariant needs of the types and TypeOK does not say.          *)
Types ==
    /\ root \in 1..revs
    /\ block \in [Cids -> 0..revs]
    /\ lock \in Writers \cup {NoWriter}
    /\ req \in [Writers -> ReqState(revs)]
    /\ \A w \in Writers : req[w].pc # "idle" <=> lock = w
    /\ spawned \subseteq CommitState(revs)
    /\ walk \in WalkState(revs)
    /\ revs \in 1..MaxRev
    /\ drops \in 0..MaxDrops
    /\ tree \in [0..MaxRev -> SUBSET Cids]
    /\ overlap \in BOOLEAN
    /\ forked \subseteq 1..revs

(* A writer without the lock has nothing.                                  *)
Resting == \A w \in Writers : req[w].pc = "idle" => req[w] = Idle

(* A formatted commit is the difference of two trees.                      *)
Diff(c) ==
    /\ c.rev # 0
    /\ c.new = tree[c.rev] \ tree[c.base]
    /\ c.removed = tree[c.base] \ tree[c.rev]

Formatted ==
    /\ \A w \in Writers : req[w].pc \in {"relevant", "apply", "evict", "after"}
                             => Diff(req[w].commit)
    /\ \A c \in spawned : Diff(c)

(* From the read of the root to the transaction, the root does not move.   *)
Based ==
    ~overlap => \A w \in Writers : req[w].pc \in {"warm", "load", "relevant", "apply"}
                             => req[w].commit.base = root

(* At most one commit is left by a dropped request, and then nobody writes. *)
Orphan ==
    ~overlap => /\ \A c \in spawned : c.base = root
                /\ \A c, d \in spawned : c = d
                /\ spawned # {} => lock = NoWriter

(* The cache before and after the transaction.                             *)
CacheHolds ==
    ~overlap => \A w \in Writers :
        IF req[w].pc = "evict" THEN Evicted(w) \subseteq Stored
                               ELSE req[w].cache \subseteq Stored

(* What a walk has shown of the steady blocks is what its cursor has passed. *)
Passed ==
    /\ walk.steady \subseteq Stored
    /\ walk.pc = "page" => \A c \in walk.steady : c \in walk.seen <=> ~Before(c)
    /\ walk.pc = "done" => walk.steady \subseteq walk.seen
    /\ walk.twice \cap walk.steady = {}

Inv == /\ Types /\ Resting /\ Formatted /\ Based /\ Orphan
       /\ WritersSerialize /\ RootIsWhole /\ CacheHolds /\ Passed

(* What the invariant says is what the runs check.                         *)
LEMMA InvImplies == Inv => StorageConsistent /\ WalkIsComplete /\ WritersSerialize
<1> SUFFICES ASSUME Inv PROVE StorageConsistent /\ WalkIsComplete /\ WritersSerialize
  OBVIOUS
<1>1. revs \in Nat /\ revs <= MaxRev /\ MaxRev \in Nat
  BY RepoStorageAssumption DEF Inv, Types
<1>2. CommitState(revs) \subseteq [rev : 0..MaxRev, base : 0..MaxRev,
                                   new : SUBSET Cids, removed : SUBSET Cids]
  BY <1>1 DEF CommitState
<1>3. spawned \subseteq Commit
  <2> SUFFICES ASSUME NEW c \in spawned PROVE c \in Commit
    OBVIOUS
  <2>1. c \in CommitState(revs) /\ c.rev # 0
    BY DEF Inv, Types, Formatted, Diff
  <2>2. c = [rev |-> c.rev, base |-> c.base, new |-> c.new, removed |-> c.removed]
    BY <2>1 DEF CommitState
  <2>3. /\ c.rev \in 1..MaxRev /\ c.base \in 0..MaxRev
        /\ c.new \in SUBSET Cids /\ c.removed \in SUBSET Cids
    BY <1>1, <2>1 DEF CommitState
  <2> QED
    BY <2>2, <2>3 DEF Commit
<1>4. TypeOK
  BY <1>1, <1>3 DEF Inv, Types, TypeOK, ReqState, CommitState, Steps
<1>5. CacheIsStored
  BY DEF Inv, CacheHolds, CacheIsStored
<1>6. WalkIsComplete
  BY DEF Inv, Passed, WalkIsComplete
<1> QED
  BY <1>4, <1>5, <1>6 DEF Inv, StorageConsistent

(* A repo with one commit, and nobody at work.                             *)
LEMMA InitInv == Init => Inv
<1> SUFFICES ASSUME Init PROVE Inv
  OBVIOUS
<1>1. PICK S \in SUBSET Cids :
         /\ block = [c \in Cids |-> IF c \in S THEN 1 ELSE 0]
         /\ tree = [r \in 0..MaxRev |-> IF r = 1 THEN S ELSE {}]
  BY DEF Init
<1>2. MaxRev \in Nat \ {0} /\ MaxDrops \in Nat /\ NoWriter \notin Writers
  BY RepoStorageAssumption
<1>3. Idle \in ReqState(1)
  BY DEF Idle, NoCommit, ReqState, CommitState, Steps
<1>4. Quiet \in WalkState(1)
  BY DEF Quiet, WalkState
<1>5. Types
  <2>1. block \in [Cids -> 0..1] /\ tree \in [0..MaxRev -> SUBSET Cids]
    BY <1>1
  <2>2. /\ req \in [Writers -> ReqState(1)]
        /\ \A w \in Writers : req[w].pc # "idle" <=> lock = w
    BY <1>2, <1>3 DEF Init, Idle
  <2>3. 0 \in 0..MaxDrops /\ 1 \in 1..MaxRev /\ 1 \in 1..1
    BY <1>2
  <2> QED
    BY <1>4, <2>1, <2>2, <2>3 DEF Init, Types
<1>6. Stored = S
  BY <1>1 DEF Stored
<1>7. Formatted /\ Based /\ Orphan /\ WritersSerialize
  BY DEF Init, Formatted, Based, Orphan, WritersSerialize, Idle
<1>8. RootIsWhole
  BY <1>1, <1>2, <1>6 DEF RootIsWhole, Init
<1>9. CacheHolds
  BY DEF Init, CacheHolds, Idle
<1>10. Passed
  BY DEF Init, Passed, Quiet
<1> QED
  BY <1>5, <1>7, <1>8, <1>9, <1>10 DEF Inv, Resting, Init

-----------------------------------------------------------------------------
(* A writer at work takes a step of its own and keeps the lock.            *)
LEMMA RequestInv ==
    ASSUME Inv, NEW w \in Writers, req[w].pc # "idle",
           NEW r \in ReqState(revs), r.pc # "idle",
           r.pc \in {"relevant", "apply", "evict", "after"} => Diff(r.commit),
           ~overlap /\ r.pc \in {"warm", "load", "relevant", "apply"}
              => r.commit.base = root,
           ~overlap => IF r.pc = "evict" THEN r.cache \ r.commit.removed \subseteq Stored
                                         ELSE r.cache \subseteq Stored,
           req' = [req EXCEPT ![w] = r],
           UNCHANGED <<root, block, lock, spawned, walk, revs, drops, tree,
                       overlap, forked>>
    PROVE  Inv'
<1>1. req'[w] = r /\ \A v \in Writers : v # w => req'[v] = req[v]
  BY DEF Inv, Types
<1>2. Types'
  BY <1>1 DEF Inv, Types
<1>3. Formatted'
  BY <1>1 DEF Inv, Formatted, Diff
<1>4. Based' /\ Orphan' /\ WritersSerialize' /\ RootIsWhole'
  BY <1>1 DEF Inv, Based, Orphan, WritersSerialize, RootIsWhole, Stored
<1>5. CacheHolds'
  BY <1>1 DEF Inv, CacheHolds, Evicted, Stored
<1>6. Passed'
  BY DEF Inv, Passed, Stored, Before
<1> QED
  BY <1>1, <1>2, <1>3, <1>4, <1>5, <1>6 DEF Inv, Resting

(* A writer goes: it was answered, it failed, or it was dropped, at the    *)
(* await of its commit or elsewhere.                                       *)
LEMMA CloseInv ==
    ASSUME Inv, NEW w \in Writers, req[w].pc # "idle", Close(w),
           spawned' = spawned \cup (IF req[w].pc = "apply" THEN {req[w].commit} ELSE {})
           \/ spawned' = spawned,
           drops' \in 0..MaxDrops,
           UNCHANGED <<root, block, walk, revs, tree, overlap, forked>>
    PROVE  Inv'
<1>1. /\ lock = w /\ req'[w] = Idle
      /\ \A v \in Writers : v # w => req'[v] = req[v]
  BY DEF Inv, Types, Close
<1>2. Idle \in ReqState(revs) /\ revs \in Nat
  BY DEF Idle, NoCommit, ReqState, CommitState, Steps, Inv, Types
<1>3. Types'
  <2>1. \A v \in Writers : req'[v].pc # "idle" <=> lock' = v
    BY <1>1, RepoStorageAssumption DEF Inv, Types, Close, Idle
  <2>2. spawned' \subseteq CommitState(revs)
    BY DEF Inv, Types, ReqState
  <2> QED
    BY <1>2, <2>1, <2>2 DEF Inv, Types, Close
<1>4. Formatted'
  BY <1>1 DEF Inv, Formatted, Diff, Idle
<1>5. Based' /\ WritersSerialize' /\ RootIsWhole'
  BY <1>1 DEF Inv, Based, WritersSerialize, RootIsWhole, Stored, Idle
<1>6. Orphan'
  BY <1>1, RepoStorageAssumption DEF Inv, Based, Orphan, Close
<1>7. CacheHolds'
  BY <1>1 DEF Inv, CacheHolds, Evicted, Stored, Idle
<1>8. Passed'
  BY DEF Inv, Passed, Stored, Before
<1> QED
  BY <1>1, <1>3, <1>4, <1>5, <1>6, <1>7, <1>8 DEF Inv, Resting

(* A writer takes the lock; beside a spawned task it may go wrong.         *)
LEMMA OpenInv ==
    ASSUME Inv, NEW w \in Writers, Open(w)
    PROVE  Inv'
<1> DEFINE r == [req[w] EXCEPT !.pc = "root"]
<1>1. /\ req'[w] = r /\ lock = NoWriter /\ lock' = w /\ req[w] = Idle
      /\ \A v \in Writers : v # w => req'[v] = req[v]
      /\ \A v \in Writers : req[v].pc = "idle"
  BY RepoStorageAssumption DEF Inv, Types, Open
<1>2. r = [pc |-> "root", cache |-> {}, todo |-> {}, commit |-> NoCommit]
  BY <1>1 DEF Idle
<1>3. r \in ReqState(revs)
  BY <1>2 DEF NoCommit, ReqState, CommitState, Steps, Inv, Types
<1> HIDE DEF r
<1>4. Types'
  <2>1. req' \in [Writers -> ReqState(revs)]
    BY <1>1, <1>3 DEF Open, Inv, Types
  <2> QED
    BY <1>1, <1>2, <2>1 DEF Inv, Types, Open
<1>5. /\ UNCHANGED <<root, block, spawned, walk, revs, drops, tree, forked>>
      /\ ~overlap' => ~overlap /\ spawned = {}
      /\ Stored' = Stored
  BY DEF Open, Stored
<1>6. Formatted'
  BY <1>1, <1>2, <1>5 DEF Inv, Formatted, Diff
<1>7. Based' /\ RootIsWhole' /\ WritersSerialize' /\ Orphan'
  BY <1>1, <1>2, <1>5 DEF Inv, Based, RootIsWhole, WritersSerialize, Orphan
<1>8. CacheHolds'
  BY <1>1, <1>2, <1>5 DEF Inv, CacheHolds
<1>9. Passed'
  BY DEF Inv, Open, Passed, Stored, Before
<1> QED
  BY <1>1, <1>2, <1>4, <1>6, <1>7, <1>8, <1>9 DEF Inv, Resting

-----------------------------------------------------------------------------
(* What the diff of a commit does to the table: the tree of the commit is  *)
(* stored if its base was, what is cached or steady loses only what the    *)
(* commit removes, and what stays keeps its rev.                           *)
LEMMA TransactionStores ==
    ASSUME Inv, NEW c \in CommitState(revs), Diff(c), ApplyCommitInner(c)
    PROVE  /\ root' \in 1..revs
           /\ block' \in [Cids -> 0..revs]
           /\ forked' \subseteq 1..revs
           /\ Stored' = (Stored \ c.removed) \cup (c.new \ c.removed)
           /\ \A d \in Stored \cap Stored' : block'[d] = block[d]
           /\ c.base = root /\ tree[root] \subseteq Stored
                 => forked' = forked /\ tree[root'] \subseteq Stored'
<1>1. /\ c.rev \in 1..revs /\ c.base \in 0..revs
      /\ c.new \subseteq Cids /\ c.removed \subseteq Cids
      /\ revs \in Nat
  BY DEF CommitState, Diff, Inv, Types
<1>2. root' \in 1..revs /\ forked' \subseteq 1..revs
  BY <1>1 DEF ApplyCommitInner, Inv, Types
<1>3. \A d \in Cids : block'[d] = IF d \in c.removed THEN 0
                                  ELSE IF d \in c.new /\ block[d] = 0 THEN c.rev
                                  ELSE block[d]
  BY DEF ApplyCommitInner, Inserted
<1>4. block' \in [Cids -> 0..revs]
  BY <1>1 DEF ApplyCommitInner, Inserted, Inv, Types
<1>5. Stored' = (Stored \ c.removed) \cup (c.new \ c.removed)
  BY <1>1, <1>3, Zenon DEF Stored, Diff
<1>6. \A d \in Stored \cap Stored' : block'[d] = block[d]
  BY <1>3 DEF Stored
<1>7. ASSUME c.base = root, tree[root] \subseteq Stored
      PROVE  forked' = forked /\ tree[root'] \subseteq Stored'
  BY <1>5, <1>7 DEF ApplyCommitInner, Diff
<1> QED
  BY <1>2, <1>4, <1>5, <1>6, <1>7

(* A walk in progress keeps what it knows: a steady block does not move.   *)
LEMMA WatchKeeps ==
    ASSUME Inv, block' \in [Cids -> 0..revs], Watch,
           \A d \in Stored \cap Stored' : block'[d] = block[d]
    PROVE  walk' \in WalkState(revs) /\ Passed'
<1>1. walk' = [walk EXCEPT !.steady = walk.steady \cap Stored']
  BY DEF Watch, Stored
<1>2. /\ walk'.pc = walk.pc /\ walk'.rev = walk.rev /\ walk'.cid = walk.cid
      /\ walk'.seen = walk.seen /\ walk'.twice = walk.twice
      /\ walk'.steady = walk.steady \cap Stored'
      /\ walk' \in WalkState(revs)
  BY <1>1 DEF WalkState, Inv, Types
<1>3. \A d \in walk'.steady : d \in walk.steady /\ block'[d] = block[d]
  BY <1>2 DEF Inv, Passed
<1>4. \A d \in walk'.steady : Before(d)' <=> Before(d)
  BY <1>2, <1>3 DEF Before
<1>5. Passed'
  BY <1>2, <1>3, <1>4 DEF Inv, Passed
<1> QED
  BY <1>2, <1>5

(* The transaction commits while its request waits for it.                 *)
LEMMA ApplyCommitInv ==
    ASSUME Inv, NEW w \in Writers, ApplyCommit(w)
    PROVE  Inv'
<1> DEFINE c == req[w].commit
<1>1. /\ req[w].pc = "apply" /\ c \in CommitState(revs) /\ Diff(c) /\ lock = w
      /\ ApplyCommitInner(c) /\ Watch
      /\ UNCHANGED <<lock, spawned, revs, drops, tree, overlap>>
  BY DEF ApplyCommit, Inv, Types, ReqState, Formatted
<1>2. /\ req'[w] = [req[w] EXCEPT !.pc = "evict"]
      /\ req' \in [Writers -> ReqState(revs)]
      /\ \A v \in Writers : v # w => req'[v] = req[v] /\ req[v].pc = "idle"
  BY <1>1 DEF ApplyCommit, Inv, Types, ReqState, Steps
<1>3. /\ req'[w].pc = "evict" /\ req'[w].commit = c /\ req'[w].cache = req[w].cache
      /\ Evicted(w)' = req[w].cache \ c.removed
  BY <1>2 DEF Evicted, Inv, Types, ReqState
<1> HIDE DEF c
<1>4. /\ root' \in 1..revs
      /\ block' \in [Cids -> 0..revs]
      /\ forked' \subseteq 1..revs
      /\ Stored' = (Stored \ c.removed) \cup (c.new \ c.removed)
      /\ \A d \in Stored \cap Stored' : block'[d] = block[d]
      /\ c.base = root /\ tree[root] \subseteq Stored
            => forked' = forked /\ tree[root'] \subseteq Stored'
  BY <1>1, TransactionStores
<1>5. walk' \in WalkState(revs) /\ Passed'
  BY <1>1, <1>4, WatchKeeps
<1>6. Types'
  BY <1>1, <1>2, <1>3, <1>4, <1>5 DEF Inv, Types
<1>7. Formatted'
  BY <1>1, <1>2, <1>3 DEF Inv, Formatted, Diff
<1>8. ~overlap => c.base = root /\ tree[root] \subseteq Stored /\ forked = {}
                  /\ req[w].cache \subseteq Stored /\ spawned = {}
  BY <1>1, RepoStorageAssumption
  DEF Inv, Based, RootIsWhole, WritersSerialize, CacheHolds, Orphan, c
<1>9. Based' /\ Orphan' /\ WritersSerialize' /\ RootIsWhole'
  BY <1>1, <1>2, <1>3, <1>4, <1>8 DEF Based, Orphan, WritersSerialize, RootIsWhole
<1>10. CacheHolds'
  <2> SUFFICES ASSUME ~overlap, NEW v \in Writers
               PROVE  IF req'[v].pc = "evict" THEN Evicted(v)' \subseteq Stored'
                                              ELSE req'[v].cache \subseteq Stored'
    BY <1>1 DEF CacheHolds
  <2>1. CASE v = w
    BY <1>3, <1>4, <1>8, <2>1
  <2>2. CASE v # w
    <3>1. req'[v] = Idle
      BY <1>2, <2>2 DEF Inv, Resting
    <3> QED
      BY <3>1 DEF Idle
  <2> QED
    BY <2>1, <2>2
<1> QED
  BY <1>2, <1>3, <1>5, <1>6, <1>7, <1>9, <1>10 DEF Inv, Resting

(* The task of a request that is gone commits.                             *)
LEMMA ApplySpawnedInv ==
    ASSUME Inv, NEW c \in spawned, ApplySpawned(c)
    PROVE  Inv'
<1>1. /\ c \in CommitState(revs) /\ Diff(c)
      /\ ApplyCommitInner(c) /\ Watch
      /\ UNCHANGED <<lock, req, revs, drops, tree, overlap>>
      /\ spawned' = spawned \ {c}
  BY DEF ApplySpawned, Inv, Types, Formatted
<1>2. /\ root' \in 1..revs
      /\ block' \in [Cids -> 0..revs]
      /\ forked' \subseteq 1..revs
      /\ Stored' = (Stored \ c.removed) \cup (c.new \ c.removed)
      /\ \A d \in Stored \cap Stored' : block'[d] = block[d]
      /\ c.base = root /\ tree[root] \subseteq Stored
            => forked' = forked /\ tree[root'] \subseteq Stored'
  BY <1>1, TransactionStores
<1>3. walk' \in WalkState(revs) /\ Passed'
  BY <1>1, <1>2, WatchKeeps
<1>4. Types'
  BY <1>1, <1>2, <1>3 DEF Inv, Types
<1>5. Formatted'
  BY <1>1 DEF Inv, Formatted, Diff
<1>6. ~overlap => /\ c.base = root /\ tree[root] \subseteq Stored /\ forked = {}
                  /\ spawned' = {}
                  /\ \A v \in Writers : req[v] = Idle
  BY <1>1, RepoStorageAssumption
  DEF Inv, Types, Orphan, RootIsWhole, WritersSerialize, Resting
<1>7. Based' /\ Orphan' /\ WritersSerialize' /\ RootIsWhole' /\ CacheHolds'
  BY <1>1, <1>2, <1>6
  DEF Based, Orphan, WritersSerialize, RootIsWhole, CacheHolds, Idle
<1> QED
  BY <1>1, <1>3, <1>4, <1>5, <1>7 DEF Inv, Resting

(* The steps before the commit is formatted.                               *)
LEMMA ReadingInv ==
    ASSUME Inv, NEW w \in Writers,
           \/ GetRootDetailed(w) \/ CacheRev(w)
           \/ \E c \in Cids : GetBytes(w, c)
    PROVE  Inv'
<1>1. req[w] \in ReqState(revs) /\ root \in 0..revs /\ root # 0
  BY DEF Inv, Types
<1>2. CASE GetRootDetailed(w)
  <2> DEFINE r == [req[w] EXCEPT !.pc = "warm", !.commit.base = root]
  <2>1. /\ req' = [req EXCEPT ![w] = r]
        /\ UNCHANGED <<root, block, lock, spawned, walk, revs, drops, tree, overlap, forked>>
        /\ req[w].pc = "root"
    BY <1>1, <1>2 DEF GetRootDetailed
  <2>2. /\ r \in ReqState(revs) /\ r.pc = "warm" /\ r.commit.base = root
        /\ r.cache = req[w].cache
    BY <1>1 DEF ReqState, CommitState, Steps
  <2>3. ~overlap => r.cache \subseteq Stored
    BY <2>1, <2>2 DEF Inv, CacheHolds
  <2> HIDE DEF r
  <2> QED
    BY <2>1, <2>2, <2>3, RequestInv
<1>3. CASE CacheRev(w)
  <2>1. PICK S \in SUBSET {c \in Cids : block[c] = req[w].commit.base} :
           req' = [req EXCEPT ![w].pc = "load", ![w].cache = @ \cup S,
                              ![w].todo = tree[req[w].commit.base]]
    BY <1>3 DEF CacheRev, kSubset
  <2> DEFINE r == [req[w] EXCEPT !.pc = "load", !.cache = @ \cup S,
                                 !.todo = tree[req[w].commit.base]]
  <2>2. /\ req' = [req EXCEPT ![w] = r]
        /\ UNCHANGED <<root, block, lock, spawned, walk, revs, drops, tree, overlap, forked>>
        /\ req[w].pc = "warm"
    BY <1>3, <2>1 DEF CacheRev
  <2>3. tree[req[w].commit.base] \subseteq Cids
    <3>1. req[w].commit.base \in 0..MaxRev
      BY <1>1, RepoStorageAssumption DEF ReqState, CommitState, Inv, Types
    <3> QED
      BY <3>1 DEF Inv, Types
  <2>4. /\ r \in ReqState(revs) /\ r.pc = "load" /\ r.commit = req[w].commit
        /\ r.cache = req[w].cache \cup S
    BY <1>1, <2>3 DEF ReqState, Steps
  <2>5. ~overlap => r.commit.base = root /\ S \subseteq Stored /\ r.cache \subseteq Stored
    BY <1>1, <2>2, <2>4 DEF Inv, Based, CacheHolds, Stored
  <2> HIDE DEF r
  <2> QED
    BY <2>2, <2>4, <2>5, RequestInv
<1>4. ASSUME NEW c \in Cids, GetBytes(w, c) PROVE Inv'
  <2>1. /\ UNCHANGED <<root, block, spawned, walk, revs, drops, tree, overlap, forked>>
        /\ req[w].pc = "load"
    BY <1>4 DEF GetBytes
  <2>2. CASE c \in req[w].cache \cup Stored
    <3> DEFINE r == [req[w] EXCEPT !.cache = @ \cup {c}, !.todo = @ \ {c}]
    <3>1. req' = [req EXCEPT ![w] = r] /\ lock' = lock
      BY <1>4, <2>2 DEF GetBytes
    <3>2. /\ r \in ReqState(revs) /\ r.pc = "load" /\ r.commit = req[w].commit
          /\ r.cache = req[w].cache \cup {c}
      BY <1>1, <2>1 DEF ReqState
    <3>3. ~overlap => r.commit.base = root /\ r.cache \subseteq Stored
      BY <2>1, <2>2, <3>2 DEF Inv, Based, CacheHolds
    <3> HIDE DEF r
    <3> QED
      BY <2>1, <3>1, <3>2, <3>3, RequestInv
  <2>3. CASE c \notin req[w].cache \cup Stored
    <3>1. Close(w)
      BY <1>4, <2>3 DEF GetBytes
    <3>2. drops' \in 0..MaxDrops
      BY <2>1 DEF Inv, Types
    <3> QED
      BY <2>1, <3>1, <3>2, CloseInv
  <2> QED
    BY <2>2, <2>3
<1> QED
  BY <1>2, <1>3, <1>4

(* Formatting gives the commit its number: no tree that is in use changes. *)
LEMMA FormatCommitInv ==
    ASSUME Inv, NEW w \in Writers, FormatCommit(w)
    PROVE  Inv'
<1> DEFINE base == req[w].commit.base
           old == tree[base]
<1>1. PICK after \in SUBSET Cids :
         /\ tree' = [tree EXCEPT ![revs'] = after]
         /\ req' = [req EXCEPT ![w].pc = "relevant", ![w].todo = after \ old,
                       ![w].commit = [@ EXCEPT !.rev = revs', !.new = after \ old,
                                               !.removed = old \ after]]
  BY DEF FormatCommit
<1>2. /\ req[w].pc = "load" /\ revs' = revs + 1 /\ revs < MaxRev
      /\ UNCHANGED <<root, block, lock, spawned, walk, drops, overlap, forked>>
  BY DEF FormatCommit
<1>3. /\ revs \in 1..MaxRev /\ revs' \in 1..MaxRev /\ 0..revs \subseteq 0..revs'
      /\ 1..revs \subseteq 1..revs' /\ revs' \notin 0..revs /\ MaxRev \in Nat
  BY <1>2, RepoStorageAssumption DEF Inv, Types
<1>4. /\ req[w] \in ReqState(revs) /\ base \in 0..revs /\ old \subseteq Cids
  BY <1>3 DEF Inv, Types, ReqState, CommitState
<1>5. CommitState(revs) \subseteq CommitState(revs')
  BY <1>3 DEF CommitState
<1>6. ReqState(revs) \subseteq ReqState(revs')
  BY <1>5 DEF ReqState
<1>7. WalkState(revs) \subseteq WalkState(revs')
  BY <1>3 DEF WalkState
<1> PICK c : c = [req[w].commit EXCEPT !.rev = revs', !.new = after \ old,
                                       !.removed = old \ after]
  OBVIOUS
<1> DEFINE r == [req[w] EXCEPT !.pc = "relevant", !.todo = after \ old, !.commit = c]
<1>8. req' = [req EXCEPT ![w] = r]
  BY <1>1
<1>9. /\ c \in CommitState(revs') /\ c.base = base /\ c.rev = revs'
      /\ c.new = after \ old /\ c.removed = old \ after
  <2>1. req[w].commit \in CommitState(revs') /\ revs' \in 0..revs'
    BY <1>3, <1>4, <1>5 DEF ReqState
  <2> QED
    BY <1>4, <2>1 DEF CommitState
<1>10. /\ r \in ReqState(revs') /\ r.pc = "relevant" /\ r.commit = c
       /\ r.cache = req[w].cache
  BY <1>4, <1>9 DEF ReqState, Steps
<1> HIDE DEF r
<1>11. /\ req'[w] = r
       /\ \A v \in Writers : v # w => req'[v] = req[v]
       /\ req' \in [Writers -> ReqState(revs')]
  BY <1>6, <1>8, <1>10 DEF Inv, Types
<1>12. /\ tree' \in [0..MaxRev -> SUBSET Cids]
       /\ tree'[revs'] = after /\ \A n \in 0..revs : tree'[n] = tree[n]
  BY <1>1, <1>3 DEF Inv, Types
<1> HIDE DEF base
<1>13. \A d \in CommitState(revs) : Diff(d) => Diff(d)'
  BY <1>12 DEF Diff, CommitState
<1>14. Diff(c)'
  BY <1>3, <1>4, <1>9, <1>12 DEF Diff
<1>15. Types'
  <2>1. block' \in [Cids -> 0..revs'] /\ root' \in 1..revs' /\ forked' \subseteq 1..revs'
    BY <1>2, <1>3 DEF Inv, Types
  <2>2. spawned' \subseteq CommitState(revs') /\ walk' \in WalkState(revs')
    BY <1>2, <1>5, <1>7 DEF Inv, Types
  <2>3. \A v \in Writers : req'[v].pc # "idle" <=> lock' = v
    BY <1>2, <1>10, <1>11 DEF Inv, Types
  <2> QED
    BY <1>2, <1>3, <1>11, <1>12, <2>1, <2>2, <2>3 DEF Inv, Types
<1>16. Resting' /\ Formatted'
  <2>1. \A v \in Writers : req[v].commit \in CommitState(revs)
    BY DEF Inv, Types, ReqState
  <2>2. \A d \in spawned' : Diff(d)'
    BY <1>2, <1>13 DEF Inv, Types, Formatted
  <2>3. \A v \in Writers : req'[v].pc \in {"relevant", "apply", "evict", "after"}
                              => Diff(req[v].commit)'
    BY <1>10, <1>11, <1>13, <1>14, <2>1 DEF Inv, Formatted
  <2> QED
    BY <1>10, <1>11, <2>2, <2>3 DEF Inv, Resting, Formatted
<1>17. Based' /\ Orphan' /\ WritersSerialize' /\ CacheHolds'
  <2>1. ~overlap => base = root /\ r.cache \subseteq Stored
    BY <1>2, <1>10 DEF Inv, Based, CacheHolds, base
  <2>2. Stored' = Stored
    BY <1>2 DEF Stored
  <2>3. Based' /\ Orphan' /\ WritersSerialize'
    BY <1>2, <1>9, <1>10, <1>11, <2>1 DEF Inv, Based, Orphan, WritersSerialize
  <2>4. CacheHolds'
    BY <1>2, <1>10, <1>11, <2>1, <2>2 DEF Inv, CacheHolds, Evicted
  <2> QED
    BY <2>3, <2>4
<1>18. RootIsWhole'
  BY <1>2, <1>3, <1>12 DEF Inv, Types, RootIsWhole, Stored
<1>19. Passed'
  BY <1>2 DEF Inv, Passed, Stored, Before
<1> QED
  BY <1>15, <1>16, <1>17, <1>18, <1>19 DEF Inv

-----------------------------------------------------------------------------
(* Pages.  A finite set has an element with nothing before it, in any      *)
(* order that shrinks what lies before: here the order of the query, from  *)
(* either end.                                                             *)

(* The rows that come before row c in the order of the query, and after.   *)
Ahead(S, c) == {d \in S : block[d] > block[c] \/ (block[d] = block[c] /\ d > c)}
Behind(S, c) == {d \in S : block[d] < block[c] \/ (block[d] = block[c] /\ d < c)}

LEMMA FirstAndLast ==
    ASSUME Inv, NEW S \in SUBSET Cids, S # {}
    PROVE  /\ \E c \in S : Ahead(S, c) = {}
           /\ \E c \in S : Behind(S, c) = {}
<1>1. IsFiniteSet(S)
  BY RepoStorageAssumption, FS_Subset
<1>2. IsWellFoundedOn(StrictSubsetOrdering(S), FiniteSubsetsOf(S))
  BY FS_StrictSubsetOrderingWellFounded
<1>3. FiniteSubsetsOf(S) = SUBSET S
  BY <1>1, FS_FiniteSubsetsOfFinite
<1>4. \A c \in S : block[c] \in Int /\ c \in Int
  BY RepoStorageAssumption DEF Inv, Types
<1>5. \E c \in S : Ahead(S, c) = {}
  <2> DEFINE T == {Ahead(S, c) : c \in S}
  <2>1. T \subseteq SUBSET S /\ T # {}
    BY DEF Ahead
  <2> HIDE DEF T
  <2>2. PICK x \in T : \A y \in T : ~(<<y, x>> \in StrictSubsetOrdering(S))
    BY <1>2, <1>3, <2>1, WFMin
  <2>3. PICK c \in S : x = Ahead(S, c)
    BY <2>2 DEF T
  <2>4. ASSUME NEW d \in Ahead(S, c) PROVE FALSE
    <3>1. d \in S /\ Ahead(S, d) \subseteq Ahead(S, c) /\ d \notin Ahead(S, d)
      BY <1>4, <2>4 DEF Ahead
    <3>2. Ahead(S, d) \in T /\ Ahead(S, c) \in SUBSET S /\ Ahead(S, d) \in SUBSET S
      BY <3>1 DEF T, Ahead
    <3>3. <<Ahead(S, d), Ahead(S, c)>> \in StrictSubsetOrdering(S)
      BY <2>4, <3>1, <3>2 DEF StrictSubsetOrdering
    <3> QED
      BY <2>2, <2>3, <3>2, <3>3
  <2> QED
    BY <2>4
<1>6. \E c \in S : Behind(S, c) = {}
  <2> DEFINE T == {Behind(S, c) : c \in S}
  <2>1. T \subseteq SUBSET S /\ T # {}
    BY DEF Behind
  <2> HIDE DEF T
  <2>2. PICK x \in T : \A y \in T : ~(<<y, x>> \in StrictSubsetOrdering(S))
    BY <1>2, <1>3, <2>1, WFMin
  <2>3. PICK c \in S : x = Behind(S, c)
    BY <2>2 DEF T
  <2>4. ASSUME NEW d \in Behind(S, c) PROVE FALSE
    <3>1. d \in S /\ Behind(S, d) \subseteq Behind(S, c) /\ d \notin Behind(S, d)
      BY <1>4, <2>4 DEF Behind
    <3>2. Behind(S, d) \in T /\ Behind(S, c) \in SUBSET S /\ Behind(S, d) \in SUBSET S
      BY <3>1 DEF T, Behind
    <3>3. <<Behind(S, d), Behind(S, c)>> \in StrictSubsetOrdering(S)
      BY <2>4, <3>1, <3>2 DEF StrictSubsetOrdering
    <3> QED
      BY <2>2, <2>3, <3>2, <3>3
  <2> QED
    BY <2>4
<1> QED
  BY <1>5, <1>6

(* A page takes from the front: a row that comes before a row of the page  *)
(* is on it, the page is empty only when no row is left, and it has a last *)
(* row.                                                                    *)
LEMMA PageIsPrefix ==
    ASSUME Inv
    PROVE  LET rows == {c \in Stored : Before(c)} IN
           /\ Page \subseteq rows
           /\ \A c \in Page : Ahead(rows, c) \subseteq Page
           /\ Page = {} => rows = {}
           /\ Page # {} => \E c \in Page : \A d \in Page :
                               block[c] < block[d] \/ (block[c] = block[d] /\ c <= d)
<1> DEFINE rows == {c \in Stored : Before(c)}
<1>1. rows \in SUBSET Cids /\ IsFiniteSet(rows)
  BY RepoStorageAssumption, FS_Subset DEF Stored
<1>2. Page = {c \in rows : Cardinality(Ahead(rows, c)) < PageSize}
  BY DEF Page, Ahead
<1>3. \A c \in Cids : block[c] \in Int /\ c \in Int
  BY RepoStorageAssumption DEF Inv, Types
<1> HIDE DEF rows
<1>4. ASSUME NEW c \in Page, NEW d \in Ahead(rows, c) PROVE d \in Page
  <2>1. c \in rows /\ d \in rows /\ Cardinality(Ahead(rows, c)) < PageSize
    BY <1>2, <1>4 DEF Ahead
  <2>2. Ahead(rows, d) \subseteq Ahead(rows, c)
    BY <1>1, <1>3, <1>4, <2>1 DEF Ahead
  <2>3. IsFiniteSet(Ahead(rows, c)) /\ Ahead(rows, c) \in SUBSET rows
    BY <1>1, FS_Subset DEF Ahead
  <2>4. /\ Cardinality(Ahead(rows, d)) <= Cardinality(Ahead(rows, c))
        /\ Cardinality(Ahead(rows, c)) \in Nat /\ Cardinality(Ahead(rows, d)) \in Nat
    BY <2>2, <2>3, FS_Subset, FS_CardinalityType
  <2>5. Cardinality(Ahead(rows, d)) < PageSize
    BY <2>1, <2>4, RepoStorageAssumption
  <2> QED
    BY <1>2, <2>1, <2>5
<1>5. ASSUME rows # {} PROVE Page # {}
  <2>1. PICK c \in rows : Ahead(rows, c) = {}
    BY <1>1, <1>5, FirstAndLast
  <2>2. Cardinality(Ahead(rows, c)) = 0
    BY <2>1, FS_EmptySet
  <2> QED
    BY <1>2, <2>1, <2>2, RepoStorageAssumption
<1>6. ASSUME Page # {}
      PROVE  \E c \in Page : \A d \in Page :
                 block[c] < block[d] \/ (block[c] = block[d] /\ c <= d)
  <2>1. Page \in SUBSET Cids
    BY <1>1, <1>2
  <2>2. PICK c \in Page : Behind(Page, c) = {}
    BY <1>6, <2>1, FirstAndLast
  <2>3. \A d \in Page : ~(block[d] < block[c] \/ (block[d] = block[c] /\ d < c))
    BY <2>2 DEF Behind
  <2> QED
    BY <1>3, <2>1, <2>2, <2>3
<1>7. Page \subseteq rows
  BY <1>2
<1> QED
  BY <1>4, <1>5, <1>6, <1>7 DEF rows

(* The rest of the invariant does not see the walk.                        *)
LEMMA WalkInv ==
    ASSUME Inv, walk' \in WalkState(revs), Passed',
           UNCHANGED <<root, block, lock, req, spawned, revs, drops, tree, overlap, forked>>
    PROVE  Inv'
<1>1. Types' /\ Resting'
  BY DEF Inv, Types, Resting
<1>2. Formatted' /\ Based' /\ Orphan'
  BY DEF Inv, Formatted, Diff, Based, Orphan
<1>3. WritersSerialize' /\ RootIsWhole' /\ CacheHolds'
  BY DEF Inv, WritersSerialize, RootIsWhole, CacheHolds, Evicted, Stored
<1> QED
  BY <1>1, <1>2, <1>3 DEF Inv

LEMMA StartWalkInv ==
    ASSUME Inv, StartWalk
    PROVE  Inv'
<1>1. walk' = [pc |-> "page", rev |-> 0, cid |-> 0, steady |-> Stored,
               seen |-> {}, twice |-> {}]
  BY DEF StartWalk, Quiet
<1>2. walk' \in WalkState(revs)
  BY <1>1 DEF WalkState, Stored, Inv, Types
<1>3. Stored' = Stored
  BY DEF StartWalk, Stored
<1>4. Passed'
  BY <1>1, <1>3 DEF Passed, Before
<1> QED
  BY <1>2, <1>4, WalkInv DEF StartWalk

(* The next page: the rows shown are again those the cursor has passed.    *)
LEMMA GetBlockRangeInv ==
    ASSUME Inv, GetBlockRange
    PROVE  Inv'
<1> DEFINE rows == {c \in Stored : Before(c)}
<1>1. /\ Page \subseteq rows
      /\ \A c \in Page : Ahead(rows, c) \subseteq Page
      /\ Page = {} => rows = {}
      /\ Page # {} => \E c \in Page : \A d \in Page :
                          block[c] < block[d] \/ (block[c] = block[d] /\ c <= d)
  BY PageIsPrefix
<1>2. /\ walk.pc = "page" /\ walk \in WalkState(revs)
      /\ UNCHANGED <<root, block, lock, req, spawned, revs, drops, tree, overlap, forked>>
      /\ Stored' = Stored
  BY DEF GetBlockRange, Inv, Types, Stored
<1>3. CASE Page = {}
  <2>1. walk' = [walk EXCEPT !.pc = "done"]
    BY <1>3 DEF GetBlockRange
  <2>2. /\ walk' \in WalkState(revs) /\ walk'.pc = "done"
        /\ walk'.steady = walk.steady /\ walk'.seen = walk.seen /\ walk'.twice = walk.twice
    BY <1>2, <2>1 DEF WalkState
  <2>3. \A c \in walk.steady : ~Before(c)
    BY <1>1, <1>3 DEF Inv, Passed
  <2>4. Passed'
    BY <1>2, <2>2, <2>3 DEF Inv, Passed
  <2> QED
    BY <1>2, <2>2, <2>4, WalkInv
<1>4. CASE Page # {}
  <2> DEFINE last == CHOOSE c \in Page : \A d \in Page :
                         block[c] < block[d] \/ (block[c] = block[d] /\ c <= d)
  <2>1. last \in Page /\ \A d \in Page :
            block[last] < block[d] \/ (block[last] = block[d] /\ last <= d)
    BY <1>1, <1>4
  <2>2. walk' = [walk EXCEPT !.rev = block[last], !.cid = last,
                             !.seen = @ \cup Page, !.twice = @ \cup (walk.seen \cap Page)]
    BY <1>4 DEF GetBlockRange
  <2> HIDE DEF last
  <2>3. /\ last \in Cids /\ block[last] \in 0..revs /\ block[last] # 0
        /\ Page \subseteq Cids /\ Before(last)
    BY <1>1, <2>1 DEF Stored, Inv, Types
  <2>4. /\ walk' \in WalkState(revs) /\ walk'.pc = "page"
        /\ walk'.rev = block[last] /\ walk'.cid = last
        /\ walk'.steady = walk.steady /\ walk'.seen = walk.seen \cup Page
        /\ walk'.twice = walk.twice \cup (walk.seen \cap Page)
    BY <1>2, <2>2, <2>3 DEF WalkState
  <2>5. /\ \A c \in Cids : block[c] \in Int /\ c \in Int
        /\ walk.rev \in Int /\ walk.cid \in Int
    <3>1. \A c \in Cids : block[c] \in Int /\ c \in Int
      BY RepoStorageAssumption DEF Inv, Types
    <3>2. walk.rev \in 0..revs /\ walk.cid \in Cids \cup {0} /\ revs \in Nat
      BY <1>2 DEF WalkState, Inv, Types
    <3>3. walk.rev \in Int
      BY <3>2
    <3>4. walk.cid \in Int
      <4>1. CASE walk.cid \in Cids
        BY <4>1, <3>1
      <4>2. CASE walk.cid = 0
        BY <4>2
      <4> QED
        BY <3>2, <4>1, <4>2
    <3> QED
      BY <3>1, <3>3, <3>4
  <2>6. ASSUME NEW c \in walk.steady
        PROVE  /\ c \in walk'.seen <=> ~Before(c)'
               /\ c \in walk'.twice => c \in walk.twice
    <3>1. /\ c \in Stored /\ c \in Cids
          /\ c \in walk.seen <=> ~Before(c)
          /\ c \in Page => Before(c)
      BY <1>1, <1>2, <2>6 DEF Inv, Passed, Stored
    <3>2. Before(c)' <=> \/ block[c] < block[last]
                         \/ block[c] = block[last] /\ c < last
      BY <1>2, <2>3, <2>4 DEF Before
    <3>3. CASE c \in Page
      BY <2>1, <2>3, <2>4, <2>5, <3>1, <3>2, <3>3
    <3>4. CASE c \in walk.seen
      BY <2>3, <2>4, <2>5, <3>1, <3>2, <3>4 DEF Before
    <3>5. CASE c \notin Page /\ c \notin walk.seen
      <4>1. c \in rows /\ c \notin Ahead(rows, last) /\ c # last
        BY <1>1, <2>1, <3>1, <3>5
      <4> QED
        BY <2>3, <2>4, <2>5, <3>1, <3>2, <3>5, <4>1 DEF Ahead
    <3> QED
      BY <3>3, <3>4, <3>5
  <2>7. Passed'
    BY <1>2, <2>4, <2>6 DEF Inv, Passed
  <2> QED
    BY <1>2, <2>4, <2>7, WalkInv
<1> QED
  BY <1>3, <1>4

-----------------------------------------------------------------------------
(* A writer's step preserves the invariant.                                *)
LEMMA WriteInv ==
    ASSUME Inv, NEW w \in Writers, Write(w)
    PROVE  Inv'
<1>1. req[w] \in ReqState(revs) /\ drops \in 0..MaxDrops /\ MaxDrops \in Nat
  BY RepoStorageAssumption DEF Inv, Types
<1>2. CASE Open(w)
  BY <1>2, OpenInv
<1>3. CASE GetRootDetailed(w) \/ CacheRev(w) \/ \E c \in Cids : GetBytes(w, c)
  BY <1>3, ReadingInv
<1>4. CASE FormatCommit(w)
  BY <1>4, FormatCommitInv
<1>5. ASSUME NEW S \in SUBSET req[w].todo, GetBlocks(w, S) PROVE Inv'
  <2> DEFINE r == [req[w] EXCEPT !.pc = "apply", !.todo = {},
                                 !.cache = @ \cup (S \cap Stored)]
  <2>1. /\ req' = [req EXCEPT ![w] = r] /\ req[w].pc = "relevant"
        /\ UNCHANGED <<root, block, lock, spawned, walk, revs, drops, tree, overlap, forked>>
    BY <1>5 DEF GetBlocks
  <2>2. /\ r \in ReqState(revs) /\ r.pc = "apply" /\ r.commit = req[w].commit
        /\ r.cache = req[w].cache \cup (S \cap Stored)
    BY <1>1 DEF ReqState, Steps, Stored
  <2> HIDE DEF r
  <2>3. /\ Diff(r.commit)
        /\ ~overlap => r.commit.base = root /\ r.cache \subseteq Stored
    BY <2>1, <2>2 DEF Inv, Formatted, Based, CacheHolds
  <2> QED
    BY <2>1, <2>2, <2>3, RequestInv
<1>6. CASE ApplyCommit(w)
  BY <1>6, ApplyCommitInv
<1>7. CASE ApplyFails(w)
  <2>1. /\ req[w].pc # "idle" /\ Close(w) /\ drops' \in 0..MaxDrops
        /\ UNCHANGED <<root, block, spawned, walk, revs, tree, overlap, forked>>
    BY <1>1, <1>7 DEF ApplyFails, RollBack
  <2> QED
    BY <2>1, CloseInv
<1>8. CASE EvictCache(w)
  <2> DEFINE r == [req[w] EXCEPT !.pc = "after", !.cache = Evicted(w)]
  <2>1. /\ req' = [req EXCEPT ![w] = r] /\ req[w].pc = "evict"
        /\ UNCHANGED <<root, block, lock, spawned, walk, revs, drops, tree, overlap, forked>>
    BY <1>8 DEF EvictCache
  <2>2. /\ r \in ReqState(revs) /\ r.pc = "after" /\ r.commit = req[w].commit
        /\ r.cache = Evicted(w)
    BY <1>1 DEF ReqState, Steps, Evicted
  <2> HIDE DEF r
  <2>3. Diff(r.commit) /\ (~overlap => r.cache \subseteq Stored)
    BY <2>1, <2>2 DEF Inv, Formatted, CacheHolds
  <2> QED
    BY <2>1, <2>2, <2>3, RequestInv
<1>9. CASE Answer(w)
  <2>1. /\ req[w].pc # "idle" /\ Close(w) /\ drops' \in 0..MaxDrops
        /\ UNCHANGED <<root, block, spawned, walk, revs, tree, overlap, forked>>
    BY <1>1, <1>9 DEF Answer
  <2> QED
    BY <2>1, CloseInv
<1>10. CASE Drop(w)
  <2>1. /\ req[w].pc # "idle" /\ Close(w) /\ drops' \in 0..MaxDrops
        /\ spawned' = spawned \cup (IF req[w].pc = "apply" THEN {req[w].commit} ELSE {})
        /\ UNCHANGED <<root, block, walk, revs, tree, overlap, forked>>
    BY <1>1, <1>10 DEF Drop
  <2> QED
    BY <2>1, CloseInv
<1> QED
  BY <1>2, <1>3, <1>4, <1>5, <1>6, <1>7, <1>8, <1>9, <1>10 DEF Write

(* The invariant, for every number of writers, blocks and commits.         *)
THEOREM Invariance == Spec => []Inv
<1>1. Init => Inv
  BY InitInv
<1>2. Inv /\ [Next]_vars => Inv'
  <2> SUFFICES ASSUME Inv, [Next]_vars PROVE Inv'
    OBVIOUS
  <2>1. ASSUME NEW w \in Writers, Write(w) PROVE Inv'
    BY <2>1, WriteInv
  <2>2. ASSUME NEW c \in spawned, ApplySpawned(c) PROVE Inv'
    BY <2>2, ApplySpawnedInv
  <2>3. CASE StartWalk
    BY <2>3, StartWalkInv
  <2>4. CASE GetBlockRange
    BY <2>4, GetBlockRangeInv
  <2>5. CASE UNCHANGED vars
    <3>1. walk' \in WalkState(revs) /\ Passed'
      BY <2>5 DEF vars, Inv, Types, Passed, Stored, Before
    <3> QED
      BY <2>5, <3>1, WalkInv DEF vars
  <2> QED
    BY <2>1, <2>2, <2>3, <2>4, <2>5 DEF Next
<1> QED
  BY <1>1, <1>2, PTL DEF Spec

(* Writers serialize: every commit that is applied was made from the root  *)
(* it replaces.  The lock of SqlRepoReader holds the root from the read in *)
(* get_root_detailed to the transaction of apply_commit_inner, and a task  *)
(* that outlived its request spoils it only by another writer beside it.   *)
THEOREM Serialized == Spec => []WritersSerialize
<1>1. Inv => WritersSerialize
  BY InvImplies
<1> QED
  BY <1>1, Invariance, PTL

(* The tables stay whole and the caches true: the root row and the blocks  *)
(* change together in apply_commit_inner, and a writer's cache shows no    *)
(* block the table has lost.                                               *)
THEOREM Whole == Spec => []StorageConsistent
<1>1. Inv => StorageConsistent
  BY InvImplies
<1> QED
  BY <1>1, Invariance, PTL

(* A walk with get_block_range shows every block that was stored from its  *)
(* first page to its last, and none of them twice, for every page size:    *)
(* ON CONFLICT DO NOTHING keeps the rev of a block and so its place.       *)
THEOREM WalkComplete == Spec => []WalkIsComplete
<1>1. Inv => WalkIsComplete
  BY InvImplies
<1> QED
  BY <1>1, Invariance, PTL

-----------------------------------------------------------------------------
(***************************************************************************)
(* The rotation keys: createAccount, deleteAccount and cacos-pds-migrate.  *)
(* An account that is being created has no row, so no pass of the tool has *)
(* it on its list (Created); from listing a did to having its operation    *)
(* accepted the tool has not used up what a did may cost (Budget), and     *)
(* until the row is marked the tool either is about to mark it or has      *)
(* failed; and a document that still is the one createAccount sent, with   *)
(* the did's own key, is that of a did whose key file is there (OwnKey),   *)
(* until the account is deleted or a failed createAccount destroys the     *)
(* directory.                                                              *)
(***************************************************************************)

(* The keys an operation may list, and the operations of a document.       *)
KeySets == {{"own"}, {"recovery", "own"}, {"shared"}, {"shared", "recovery"}, {"foreign"},
            {"foreign", "shared"}}
Ops == {Operation(ks) : ks \in KeySets} \cup {CreateOpV1, Tombstone}

(* The tool at each place of its two passes.                               *)
SeedWalk == [pass : {"seed"}, pc : {"walk"}, todo : SUBSET Dids]
SeedFile == [pass : {"seed"}, pc : {"write"}, todo : SUBSET Dids, did : Dids,
             seen : {None}]
Listing == [pass : {"rewrite"}, pc : {"next"}, todo : SUBSET Dids, dry : BOOLEAN]
Changing == [pass : {"rewrite"}, pc : {"send", "mark"}, todo : SUBSET Dids, dry : {FALSE},
             did : Dids, key : {"own", "shared"}, upd : [op : Ops, prev : Nat]]

(* What the invariant needs of the types and TypeOK does not say.          *)
KeyTypes ==
    /\ RotationTypeOK
    /\ log \in [Dids -> Seq(Ops)]
    /\ tool \in {NoTool} \cup SeedWalk \cup SeedFile \cup Listing \cup Changing
    /\ rewrites \in [Dids -> Nat] /\ faults \in Nat

(* What the tool is about to send to the directory. *)
Sending ==
    tool.pass = "rewrite" /\ tool.pc \in {"send", "mark"} =>
        /\ tool.did \notin tool.todo
        /\ tool.pc = "send" => tool.upd.op = Operation({"shared"})

(* An account that is being created has no row and was not rewritten. *)
Unlisted(d) == d \in Minted /\ create[d] \in {"new", "store", "key", "sent"}

(* The tool has d on its list, or an operation for d in hand.              *)
Pending(d) ==
    /\ tool.pass = "rewrite"
    /\ d \in tool.todo \/ (tool.pc = "send" /\ tool.did = d)

Marking(d) == tool.pass = "rewrite" /\ tool.pc = "mark" /\ tool.did = d

Created ==
    \A d \in Dids :
        Unlisted(d) => row[d] = None /\ rewrites[d] = 0 /\ ~Pending(d) /\ ~Marking(d)

(* What a did may cost, and one less while its row is unmarked.            *)
Budget ==
    \A d \in Dids :
        /\ rewrites[d] <= 1 + faults
        /\ row[d] = "unmigrated" /\ ~Marking(d) => rewrites[d] <= faults
        /\ Pending(d) => rewrites[d] <= faults

(* The did's own key. *)
Kept(d) == disk[d].key = "own" \/ d \in clobbered

(* From the key file to the row, and in a document as it was created. *)
OwnKey ==
    /\ \A d \in Minted : create[d] \in {"key", "sent"} => Kept(d)
    /\ \A d \in Dids : log[d] # <<>> /\ LastOp(d) \in GenesisOps
                       => Kept(d) \/ d \in gone \/ Destroyed(d)

KeyInv == KeyTypes /\ Sending /\ Created /\ Budget /\ OwnKey

-----------------------------------------------------------------------------
(* The state of the tool fits what it is at. *)
LEMMA ToolParts ==
    ASSUME KeyTypes
    PROVE  /\ tool.pass = "seed" /\ tool.pc = "walk" => tool \in SeedWalk
           /\ tool.pass = "seed" /\ tool.pc = "write" => tool \in SeedFile
           /\ tool.pass = "rewrite" /\ tool.pc = "next" => tool \in Listing
           /\ tool.pass = "rewrite" /\ tool.pc \in {"send", "mark"} => tool \in Changing
           /\ tool.pass \in {None, "seed", "rewrite"}
           /\ tool.pass = None => tool = NoTool
<1>1. tool \in {NoTool} \cup SeedWalk \cup SeedFile \cup Listing \cup Changing
  BY DEF KeyTypes
<1>2. CASE tool = NoTool
  <2>1. tool.pass = None /\ None \notin {"seed", "rewrite"}
    BY <1>2 DEF NoTool, None
  <2> QED
    BY <1>2, <2>1
<1>3. CASE tool \in SeedWalk
  BY <1>3 DEF SeedWalk, None
<1>4. CASE tool \in SeedFile
  BY <1>4 DEF SeedFile, None
<1>5. CASE tool \in Listing
  BY <1>5 DEF Listing, None
<1>6. CASE tool \in Changing
  BY <1>6 DEF Changing, None
<1> QED
  BY <1>1, <1>2, <1>3, <1>4, <1>5, <1>6

(* The logs of the directory once it has accepted op for d.                *)
Extended(d, op) == [log EXCEPT ![d] = Append(@, op)]

(* The last operation of a log that is appended to. *)
LEMMA Appended ==
    ASSUME KeyTypes, NEW d \in Dids, NEW op \in Ops
    PROVE  /\ Extended(d, op) \in [Dids -> Seq(Ops)]
           /\ Extended(d, op)[d][Len(Extended(d, op)[d])] = op
           /\ \A e \in Dids : e # d => Extended(d, op)[e] = log[e]
<1>1. log \in [Dids -> Seq(Ops)]
  BY DEF KeyTypes
<1>2. Append(log[d], op) \in Seq(Ops)
  BY <1>1
<1>3. /\ Extended(d, op)[d] = Append(log[d], op)
      /\ \A e \in Dids : e # d => Extended(d, op)[e] = log[e]
  BY <1>1 DEF Extended
<1>4. Extended(d, op) \in [Dids -> Seq(Ops)]
  BY <1>1, <1>2 DEF Extended
<1> QED
  BY <1>1, <1>2, <1>3, <1>4

(* No operation of the tool or of another server is a genesis operation. *)
LEMMA Differ == /\ GenesisOps \subseteq Ops
                /\ Operation({"own"}) \in Ops /\ Operation({"shared"}) \in Ops
                /\ Operation({"shared"}) \notin GenesisOps
                /\ \A ks \in {{"foreign"}, {"foreign", "shared"}} :
                     Operation(ks) \in Ops /\ Operation(ks) \notin GenesisOps
<1>1. \A ks \in KeySets : Operation(ks) \in Ops /\ Operation(ks).keys = ks
  BY DEF Ops, Operation
<1>2. /\ {"own"} \in KeySets /\ {"shared"} \in KeySets /\ {"foreign"} \in KeySets
      /\ {"foreign", "shared"} \in KeySets /\ {"recovery", "own"} \in KeySets
  BY DEF KeySets
<1>3. \A op \in GenesisOps : "own" \in op.keys
  BY <1>1, <1>2 DEF GenesisOps
<1>4. \A ks \in {{"shared"}, {"foreign"}, {"foreign", "shared"}} : "own" \notin ks
  OBVIOUS
<1>5. \A ks \in {{"shared"}, {"foreign"}, {"foreign", "shared"}} :
        Operation(ks) \notin GenesisOps
  BY <1>1, <1>2, <1>3, <1>4
<1> QED
  BY <1>1, <1>2, <1>5 DEF GenesisOps

-----------------------------------------------------------------------------
(* The server. *)

(* ActorStore::create makes a directory without a key.                     *)
LEMMA CreateStoreInv ==
    ASSUME KeyInv, NEW d \in Minted, CreateStore(d)
    PROVE  KeyInv'
<1>1. KeyTypes'
  BY DEF KeyInv, KeyTypes, RotationTypeOK, Dir, CreateStore, toolVars, Dids
<1>2. Sending' /\ Created' /\ Budget'
  BY DEF KeyInv, KeyTypes, RotationTypeOK, CreateStore, toolVars, Sending, Created,
         Unlisted, Pending, Marking, Budget
<1>3. OwnKey'
  <2>1. \A e \in Dids : disk'[e].key = disk[e].key
    BY DEF KeyInv, KeyTypes, RotationTypeOK, Dir, CreateStore, Dids
  <2> QED
    BY <2>1 DEF KeyInv, KeyTypes, RotationTypeOK, CreateStore, OwnKey, Kept, LastOp, Destroyed, Dids
<1> QED
  BY <1>1, <1>2, <1>3 DEF KeyInv

(* A step that fails leaves the directory as it is; the genesis operation  *)
(* may have reached the directory of PLC, and then the key file is there.  *)
LEMMA AbandonInv ==
    ASSUME KeyInv, NEW d \in Minted, create[d] # "failed", Abandon(d), faults' = faults + 1,
           \/ log' = log
           \/ create[d] = "key" /\ \E op \in GenesisOps : log' = [log EXCEPT ![d] = <<op>>],
           UNCHANGED <<disk, row, gone, toolVars, clobbered>>
    PROVE  KeyInv'
<1>1. d \in Dids
  BY DEF Dids
<1>2. /\ \A e \in Dids : e # d => log'[e] = log[e]
      /\ log' \in [Dids -> Seq(Ops)]
      /\ log'[d] = log[d] \/ create[d] = "key"
  <2>1. CASE log' = log
    BY <2>1 DEF KeyInv, KeyTypes
  <2>2. CASE create[d] = "key" /\ \E op \in GenesisOps : log' = [log EXCEPT ![d] = <<op>>]
    <3>1. PICK op \in GenesisOps : log' = [log EXCEPT ![d] = <<op>>]
      BY <2>2
    <3>2. <<op>> \in Seq(Ops)
      BY Differ
    <3> QED
      BY <1>1, <2>2, <3>1, <3>2 DEF KeyInv, KeyTypes
  <2> QED
    BY <2>1, <2>2
<1>3. /\ \A e \in Minted : create'[e] = IF e = d THEN "undo" ELSE create[e]
      /\ create' \in [Minted -> {"new", "store", "key", "sent", "row", "done", "undo",
                                 "failed", "stuck"}]
  BY DEF KeyInv, KeyTypes, RotationTypeOK, Abandon
<1>4. KeyTypes'
  <2>1. faults' \in Nat
    BY DEF KeyInv, KeyTypes
  <2> QED
    BY <1>2, <1>3, <2>1 DEF KeyInv, KeyTypes, RotationTypeOK, toolVars
<1>5. Sending'
  BY DEF KeyInv, toolVars, Sending
<1>6. Created'
  BY <1>3 DEF KeyInv, toolVars, Created, Unlisted, Pending, Marking
<1>7. Budget'
  BY DEF KeyInv, KeyTypes, toolVars, Budget, Pending, Marking
<1>8. OwnKey'
  <2>1. \A e \in Minted : create'[e] \in {"key", "sent"} => Kept(e)'
    BY <1>3 DEF KeyInv, OwnKey, Kept
  <2>2. ASSUME NEW e \in Dids, log'[e] # <<>>, LastOp(e)' \in GenesisOps
        PROVE  (Kept(e) \/ e \in gone \/ Destroyed(e))'
    <3>1. CASE log'[e] = log[e]
      <4>1. Kept(e) \/ e \in gone \/ Destroyed(e)
        BY <2>2, <3>1 DEF KeyInv, OwnKey, LastOp
      <4>2. Destroyed(e) => Destroyed(e)'
        BY <1>3 DEF Destroyed
      <4>3. UNCHANGED <<disk, gone, clobbered>>
        OBVIOUS
      <4> QED
        BY <4>1, <4>2, <4>3 DEF Kept
    <3>2. CASE log'[e] # log[e]
      <4>1. e = d /\ create[d] = "key"
        BY <1>2, <3>2
      <4> QED
        BY <4>1 DEF KeyInv, OwnKey, Kept
    <3> QED
      BY <3>1, <3>2
  <2> QED
    BY <2>1, <2>2 DEF OwnKey
<1> QED
  BY <1>4, <1>5, <1>6, <1>7, <1>8 DEF KeyInv

(* The key file of a minted did is there before its operation is sent.     *)
LEMMA StoreRotationKeypairInv ==
    ASSUME KeyInv, NEW d \in Minted, StoreRotationKeypair(d)
    PROVE  KeyInv'
<1>1. CASE Fault /\ Abandon(d) /\ UNCHANGED disk
  BY <1>1, AbandonInv DEF StoreRotationKeypair, Fault
<1>2. CASE /\ Works /\ disk' = [disk EXCEPT ![d].key = "own"]
           /\ create' = [create EXCEPT ![d] = "key"]
  <2>1. KeyTypes'
    BY <1>2 DEF KeyInv, KeyTypes, RotationTypeOK, Dir, StoreRotationKeypair, Works,
                toolVars, Dids
  <2>2. Sending' /\ Created' /\ Budget'
    BY <1>2 DEF KeyInv, KeyTypes, RotationTypeOK, StoreRotationKeypair, Works, toolVars,
                Sending, Created, Unlisted, Pending, Marking, Budget
  <2>3. OwnKey'
    <3>1. disk'[d].key = "own" /\ \A e \in Dids : e # d => disk'[e] = disk[e]
      BY <1>2 DEF KeyInv, KeyTypes, RotationTypeOK, Dir, Dids
    <3>2. \A e \in Minted : e # d => create'[e] = create[e]
      BY <1>2 DEF KeyInv, KeyTypes, RotationTypeOK
    <3> QED
      BY <3>1, <3>2 DEF KeyInv, StoreRotationKeypair, OwnKey, Kept, LastOp, Destroyed, Dids
  <2> QED
    BY <2>1, <2>2, <2>3 DEF KeyInv
<1> QED
  BY <1>1, <1>2 DEF StoreRotationKeypair

(* The genesis operation lists the key whose file was written.             *)
LEMMA SendGenesisInv ==
    ASSUME KeyInv, NEW d \in Minted, SendGenesis(d)
    PROVE  KeyInv'
<1>1. PICK op \in GenesisOps :
        \/ Works /\ log' = [log EXCEPT ![d] = <<op>>] /\ create' = [create EXCEPT ![d] = "sent"]
        \/ Fault /\ log' \in {log, [log EXCEPT ![d] = <<op>>]} /\ Abandon(d)
  BY DEF SendGenesis
<1>2. CASE Fault /\ log' \in {log, [log EXCEPT ![d] = <<op>>]} /\ Abandon(d)
  <2>1. create[d] = "key" /\ UNCHANGED <<disk, row, gone, toolVars, clobbered>>
    BY DEF SendGenesis
  <2> QED
    BY <1>2, <2>1, AbandonInv DEF Fault
<1>3. CASE /\ Works /\ log' = [log EXCEPT ![d] = <<op>>]
           /\ create' = [create EXCEPT ![d] = "sent"]
  <2>1. <<op>> \in Seq(Ops)
    BY Differ
  <2>2. KeyTypes'
    BY <1>3, <2>1 DEF KeyInv, KeyTypes, RotationTypeOK, SendGenesis, Works, toolVars, Dids
  <2>3. Sending' /\ Created' /\ Budget'
    BY <1>3 DEF KeyInv, KeyTypes, RotationTypeOK, SendGenesis, Works, toolVars, Sending,
                Created, Unlisted, Pending, Marking, Budget
  <2>4. OwnKey'
    <3>1. Kept(d)
      BY DEF KeyInv, SendGenesis, OwnKey
    <3>2. \A e \in Dids : e # d => log'[e] = log[e]
      BY <1>3 DEF KeyInv, KeyTypes
    <3>3. \A e \in Minted : e # d => create'[e] = create[e]
      BY <1>3 DEF KeyInv, KeyTypes, RotationTypeOK
    <3> QED
      BY <1>3, <3>1, <3>2, <3>3 DEF KeyInv, SendGenesis, OwnKey, Kept, LastOp, Destroyed, Dids
  <2> QED
    BY <2>2, <2>3, <2>4 DEF KeyInv
<1> QED
  BY <1>1, <1>2, <1>3

(* No rewrite came before the row.                                         *)
LEMMA RegisterActorInv ==
    ASSUME KeyInv, NEW d \in Minted, RegisterActor(d)
    PROVE  KeyInv'
<1>1. CASE Fault /\ Abandon(d) /\ UNCHANGED row
  BY <1>1, AbandonInv DEF RegisterActor, Fault
<1>2. CASE /\ Works /\ row' = [row EXCEPT ![d] = "unmigrated"]
           /\ create' = [create EXCEPT ![d] = "row"]
  <2>1. KeyTypes'
    BY <1>2 DEF KeyInv, KeyTypes, RotationTypeOK, Row, RegisterActor, Works, toolVars,
                Dids
  <2>2. Sending' /\ Created' /\ Budget'
    BY <1>2 DEF KeyInv, KeyTypes, RotationTypeOK, RegisterActor, Works, toolVars, Sending,
                Created, Unlisted, Pending, Marking, Budget, Dids
  <2>3. OwnKey'
    <3>1. \A e \in Minted : e # d => create'[e] = create[e]
      BY <1>2 DEF KeyInv, KeyTypes, RotationTypeOK
    <3> QED
      BY <1>2, <3>1 DEF KeyInv, KeyTypes, RotationTypeOK, RegisterActor, OwnKey, Kept,
                        LastOp, Destroyed, Dids
  <2> QED
    BY <2>1, <2>2, <2>3 DEF KeyInv
<1> QED
  BY <1>1, <1>2 DEF RegisterActor

(* A failure after the row leaves row, key file and document as they are.  *)
LEMMA RegisterAccountInv ==
    ASSUME KeyInv, NEW d \in Minted, RegisterAccount(d)
    PROVE  KeyInv'
<1>1. CASE Fault /\ Abandon(d)
  BY <1>1, AbandonInv DEF RegisterAccount, Fault
<1>2. CASE Works /\ create' = [create EXCEPT ![d] = "done"]
  <2>1. KeyTypes'
    BY <1>2 DEF KeyInv, KeyTypes, RotationTypeOK, RegisterAccount, Works, toolVars
  <2>2. Sending' /\ Created' /\ Budget'
    BY <1>2 DEF KeyInv, KeyTypes, RotationTypeOK, RegisterAccount, Works, toolVars, Sending,
                Created, Unlisted, Pending, Marking, Budget
  <2>3. OwnKey'
    BY <1>2 DEF KeyInv, KeyTypes, RotationTypeOK, RegisterAccount, OwnKey, Kept, LastOp,
                Destroyed
  <2> QED
    BY <2>1, <2>2, <2>3 DEF KeyInv
<1> QED
  BY <1>1, <1>2 DEF RegisterAccount

(* What was created of a failed account's files is destroyed, or stays.    *)
LEMMA UndoCreateInv ==
    ASSUME KeyInv, NEW d \in Minted, UndoCreate(d)
    PROVE  KeyInv'
<1>1. PICK c \in {"failed", "stuck"} :
        /\ create' = [create EXCEPT ![d] = c]
        /\ \/ disk' = disk
           \/ c = "failed" /\ disk' = [disk EXCEPT ![d] = [store |-> FALSE, key |-> None]]
  BY DEF UndoCreate
<1>2. d \in Dids /\ create[d] = "undo"
      /\ UNCHANGED <<log, row, gone, toolVars, faults, clobbered>>
  BY DEF UndoCreate, Dids
<1>3. /\ \A e \in Minted : create'[e] = IF e = d THEN c ELSE create[e]
      /\ create' \in [Minted -> {"new", "store", "key", "sent", "row", "done", "undo",
                                 "failed", "stuck"}]
  BY <1>1 DEF KeyInv, KeyTypes, RotationTypeOK
<1>4. /\ disk' \in [Dids -> Dir] /\ \A e \in Dids : e # d => disk'[e] = disk[e]
      /\ disk'[d] = disk[d] \/ c = "failed"
  <2>1. [store |-> FALSE, key |-> None] \in Dir
    BY DEF Dir
  <2> QED
    BY <1>1, <1>2, <2>1 DEF KeyInv, KeyTypes, RotationTypeOK
<1>5. KeyTypes'
  BY <1>2, <1>3, <1>4 DEF KeyInv, KeyTypes, RotationTypeOK, toolVars
<1>6. Sending' /\ Budget'
  BY <1>2 DEF KeyInv, toolVars, Sending, Budget, Pending, Marking
<1>7. Created'
  BY <1>2, <1>3 DEF KeyInv, toolVars, Created, Unlisted, Pending, Marking
<1>8. OwnKey'
  <2>1. \A e \in Minted : create'[e] \in {"key", "sent"} => Kept(e)'
    <3> SUFFICES ASSUME NEW e \in Minted, create'[e] \in {"key", "sent"}
                 PROVE  Kept(e)'
      OBVIOUS
    <3>1. e # d /\ e \in Dids
      BY <1>3 DEF Dids
    <3> QED
      BY <1>2, <1>3, <1>4, <3>1 DEF KeyInv, OwnKey, Kept
  <2>2. ASSUME NEW e \in Dids, log[e] # <<>>, LastOp(e) \in GenesisOps
        PROVE  (Kept(e) \/ e \in gone \/ Destroyed(e))'
    <3>1. Kept(e) \/ e \in gone \/ Destroyed(e)
      BY <2>2 DEF KeyInv, OwnKey
    <3>2. Destroyed(e) => Destroyed(e)'
      BY <1>2, <1>3 DEF Destroyed
    <3>3. e = d /\ c = "failed" => Destroyed(e)'
      BY <1>3 DEF Destroyed
    <3>4. ~(e = d /\ c = "failed") /\ Kept(e) => Kept(e)'
      BY <1>2, <1>4 DEF Kept
    <3> QED
      BY <1>2, <3>1, <3>2, <3>3, <3>4
  <2> QED
    BY <1>2, <2>1, <2>2 DEF OwnKey, LastOp
<1> QED
  BY <1>5, <1>6, <1>7, <1>8 DEF KeyInv

(* A directory that goes belongs to a did whose deletion has begun.        *)
LEMMA DestroyStoreInv ==
    ASSUME KeyInv, NEW d \in Dids, DestroyStore(d)
    PROVE  KeyInv'
<1>1. KeyTypes'
  BY DEF KeyInv, KeyTypes, RotationTypeOK, Dir, DestroyStore, toolVars, None
<1>2. Sending' /\ Created' /\ Budget'
  BY DEF KeyInv, KeyTypes, RotationTypeOK, DestroyStore, toolVars, Sending, Created,
         Unlisted, Pending, Marking, Budget
<1>3. OwnKey'
  <2>1. \A e \in Dids : e # d => disk'[e] = disk[e]
    BY DEF KeyInv, KeyTypes, RotationTypeOK, DestroyStore
  <2>2. d \in Minted => create[d] \notin {"key", "sent"}
    BY DEF KeyInv, Created, Unlisted, DestroyStore
  <2> QED
    BY <2>1, <2>2 DEF KeyInv, DestroyStore, OwnKey, Kept, LastOp, Destroyed, Dids
<1> QED
  BY <1>1, <1>2, <1>3 DEF KeyInv

(* A row that goes leaves nothing unmarked.                                *)
LEMMA DeleteRowsInv ==
    ASSUME KeyInv, NEW d \in Dids, DeleteRows(d)
    PROVE  KeyInv'
<1>1. KeyTypes'
  BY DEF KeyInv, KeyTypes, RotationTypeOK, Row, DeleteRows, serverVars, toolVars
<1>2. Sending' /\ Created' /\ Budget'
  BY DEF KeyInv, KeyTypes, RotationTypeOK, DeleteRows, serverVars, toolVars, Sending,
         Created, Unlisted, Pending, Marking, Budget, None
<1>3. OwnKey'
  BY DEF KeyInv, DeleteRows, serverVars, OwnKey, Kept, LastOp, Destroyed
<1> QED
  BY <1>1, <1>2, <1>3 DEF KeyInv

(* What the owner sends lists another server's key.                        *)
LEMMA UserOpInv ==
    ASSUME KeyInv, NEW d \in Dids, UserOp(d)
    PROVE  KeyInv'
<1>1. PICK ks \in {{"foreign"}, {"foreign", "shared"}} :
         log' = [log EXCEPT ![d] = Append(@, Operation(ks))]
  BY DEF UserOp
<1>2. Operation(ks) \in Ops /\ Operation(ks) \notin GenesisOps
  BY Differ
<1>3. /\ log' \in [Dids -> Seq(Ops)]
      /\ \A e \in Dids : log'[e] # <<>> =>
           \/ log[e] # <<>> /\ log'[e][Len(log'[e])] = LastOp(e)
           \/ log'[e][Len(log'[e])] = Operation(ks)
  <2>1. KeyTypes
    BY DEF KeyInv
  <2>2. /\ Extended(d, Operation(ks)) \in [Dids -> Seq(Ops)]
        /\ Extended(d, Operation(ks))[d][Len(Extended(d, Operation(ks))[d])] = Operation(ks)
        /\ \A e \in Dids : e # d => Extended(d, Operation(ks))[e] = log[e]
    BY <1>2, <2>1, Appended
  <2>3. log' = Extended(d, Operation(ks))
    BY <1>1 DEF Extended
  <2> QED
    BY <2>2, <2>3 DEF LastOp
<1>4. UNCHANGED <<disk, row, create, gone, tool, runs, rewrites, faults, clobbered>>
  BY DEF UserOp, serverVars, toolVars
<1>5. KeyTypes'
  BY <1>3, <1>4 DEF KeyInv, KeyTypes, RotationTypeOK
<1>6. Sending' /\ Created' /\ Budget'
  BY <1>4 DEF KeyInv, Sending, Created, Unlisted, Pending, Marking, Budget
<1>7. OwnKey'
  BY <1>2, <1>3, <1>4 DEF KeyInv, OwnKey, Kept, LastOp, Destroyed
<1> QED
  BY <1>5, <1>6, <1>7 DEF KeyInv

-----------------------------------------------------------------------------
(* The tool. *)

(* A step of the tool that touches nothing but itself.                     *)
LEMMA ToolStep ==
    ASSUME KeyInv, UNCHANGED <<log, disk, row, serverVars, clobbered, rewrites>>,
           faults' \in Nat, faults <= faults',
           tool' \in {NoTool} \cup SeedWalk \cup SeedFile \cup Listing \cup Changing,
           Sending',
           \A d \in Dids : Pending(d)' => Pending(d) \/ (row[d] = "unmigrated" /\ ~Marking(d)),
           \A d \in Dids : Marking(d)' => Pending(d),
           \A d \in Dids : Marking(d) => faults' = faults + 1
    PROVE  KeyInv'
<1>1. KeyTypes'
  <2>1. tool'.pass \in {None, "seed", "rewrite"}
    <3>1. CASE tool' = NoTool
      BY <3>1 DEF NoTool
    <3>2. CASE tool' \in SeedWalk \cup SeedFile
      BY <3>2 DEF SeedWalk, SeedFile
    <3>3. CASE tool' \in Listing \cup Changing
      BY <3>3 DEF Listing, Changing
    <3> QED
      BY <3>1, <3>2, <3>3
  <2> QED
    BY <2>1 DEF KeyInv, KeyTypes, RotationTypeOK, serverVars
<1>2. Created'
  <2> SUFFICES ASSUME NEW d \in Dids, Unlisted(d)'
               PROVE  row'[d] = None /\ rewrites'[d] = 0 /\ ~Pending(d)' /\ ~Marking(d)'
    BY DEF Created
  <2>1. Unlisted(d)
    BY DEF Unlisted, serverVars
  <2>2. row[d] = None /\ rewrites[d] = 0 /\ ~Pending(d) /\ ~Marking(d)
    BY <2>1 DEF KeyInv, Created
  <2>3. row[d] # "unmigrated"
    BY <2>2 DEF None
  <2> QED
    BY <2>2, <2>3
<1>3. Budget'
  <2> SUFFICES ASSUME NEW d \in Dids
               PROVE  /\ rewrites[d] <= 1 + faults'
                      /\ row[d] = "unmigrated" /\ ~Marking(d)' => rewrites[d] <= faults'
                      /\ Pending(d)' => rewrites[d] <= faults'
    BY DEF Budget
  <2>1. rewrites[d] \in Nat /\ faults \in Nat
    BY DEF KeyInv, KeyTypes
  <2>2. /\ rewrites[d] <= 1 + faults
        /\ row[d] = "unmigrated" /\ ~Marking(d) => rewrites[d] <= faults
        /\ Pending(d) => rewrites[d] <= faults
    BY DEF KeyInv, Budget
  <2>3. Marking(d) => faults' = faults + 1
    OBVIOUS
  <2>4. Pending(d)' => Pending(d) \/ (row[d] = "unmigrated" /\ ~Marking(d))
    OBVIOUS
  <2> QED
    BY <2>1, <2>2, <2>3, <2>4
<1>4. OwnKey'
  BY DEF KeyInv, OwnKey, Kept, LastOp, Destroyed, serverVars
<1> QED
  BY <1>1, <1>2, <1>3, <1>4 DEF KeyInv

(* The seed pass starts with every directory and nothing to send.          *)
LEMMA StartSeedInv ==
    ASSUME KeyInv, StartSeed
    PROVE  KeyInv'
<1>1. tool' \in SeedWalk /\ tool'.pass = "seed"
  BY DEF StartSeed, SeedWalk
<1>2. tool.pass = None
  BY DEF StartSeed, NoTool
<1>3. faults' = faults /\ faults \in Nat
  BY DEF StartSeed, KeyInv, KeyTypes
<1> QED
  BY <1>1, <1>2, <1>3, ToolStep DEF StartSeed, Sending, Pending, Marking, None

(* The seed pass remembers that it saw no key.                             *)
LEMMA SeedCheckInv ==
    ASSUME KeyInv, NEW d \in Dids, SeedCheck(d)
    PROVE  KeyInv'
<1>1. tool \in SeedWalk
  BY ToolParts DEF KeyInv, SeedCheck
<1>2. tool' \in SeedWalk \cup SeedFile /\ tool'.pass = "seed"
  <2>1. CASE tool' = [tool EXCEPT !.todo = @ \ {d}]
    BY <1>1, <2>1 DEF SeedWalk
  <2>2. CASE /\ ~HasRotationKeypair(d)
             /\ tool' = [pass |-> "seed", pc |-> "write", todo |-> tool.todo \ {d}, did |-> d,
                         seen |-> disk[d].key]
    BY <1>1, <2>2 DEF SeedWalk, SeedFile, HasRotationKeypair
  <2> QED
    BY <2>1, <2>2 DEF SeedCheck
<1>3. faults' = faults /\ faults \in Nat /\ tool.pass = "seed"
  BY DEF SeedCheck, KeyInv, KeyTypes
<1> QED
  BY <1>2, <1>3, ToolStep DEF SeedCheck, Sending, Pending, Marking

(* The shared key is written over the own key only of a did that is then   *)
(* counted as clobbered.                                                   *)
LEMMA SeedWriteInv ==
    ASSUME KeyInv, SeedWrite
    PROVE  KeyInv'
<1>1. tool \in SeedFile
  BY ToolParts DEF KeyInv, SeedWrite
<1>2. tool' \in SeedWalk /\ tool'.pass = "seed" /\ tool.pass = "seed" /\ tool.seen = None
      /\ tool.did \in Dids
  BY <1>1 DEF SeedWalk, SeedFile, SeedWrite
<1>3. CASE Fault /\ UNCHANGED <<disk, clobbered>>
  <2>1. faults' \in Nat /\ faults <= faults'
    BY <1>3 DEF Fault, KeyInv, KeyTypes
  <2> QED
    BY <1>2, <1>3, <2>1, ToolStep DEF SeedWrite, Sending, Pending, Marking
<1>4. CASE /\ Works /\ disk' = [disk EXCEPT ![tool.did].key = "shared"]
           /\ clobbered' = IF tool.seen = None /\ disk[tool.did].key = "own"
                           THEN clobbered \cup {tool.did} ELSE clobbered
  <2>1. PICK d \in Dids : d = tool.did
    BY <1>2
  <2>2. /\ disk' \in [Dids -> Dir] /\ \A e \in Dids : e # d => disk'[e] = disk[e]
        /\ clobbered' \subseteq Dids
    BY <1>4, <2>1 DEF KeyInv, KeyTypes, RotationTypeOK, Dir
  <2>3. UNCHANGED <<log, row, create, gone, rewrites, faults>>
    BY <1>4 DEF SeedWrite, serverVars, Works
  <2>4. KeyTypes'
    BY <1>2, <2>2, <2>3 DEF KeyInv, KeyTypes, RotationTypeOK
  <2>5. Sending' /\ Created' /\ Budget'
    BY <1>2, <2>3 DEF KeyInv, Sending, Created, Unlisted, Pending, Marking, Budget
  <2>6. \A e \in Dids : Kept(e) => Kept(e)'
    BY <1>2, <1>4, <2>1, <2>2 DEF Kept
  <2>7. OwnKey'
    BY <2>3, <2>6 DEF KeyInv, OwnKey, LastOp, Destroyed, Dids
  <2> QED
    BY <2>4, <2>5, <2>7 DEF KeyInv
<1> QED
  BY <1>3, <1>4 DEF SeedWrite

(* The rows listed are unmarked, so their dids have not used up the budget. *)
LEMMA StartRewriteInv ==
    ASSUME KeyInv, StartRewrite
    PROVE  KeyInv'
<1>1. PICK dry \in BOOLEAN :
         tool' = [pass |-> "rewrite", pc |-> "next", todo |-> ListUnmigrated, dry |-> dry]
  BY DEF StartRewrite
<1>2. tool' \in Listing /\ tool'.pc = "next" /\ tool'.todo = ListUnmigrated
  BY <1>1 DEF Listing, ListUnmigrated
<1>3. tool.pass = None
  BY DEF StartRewrite, NoTool
<1>4. faults' = faults /\ faults \in Nat
  BY DEF StartRewrite, KeyInv, KeyTypes
<1>5. \A d \in Dids : Pending(d)' => row[d] = "unmigrated"
  BY <1>2 DEF Pending, ListUnmigrated
<1>6. /\ \A d \in Dids : ~Marking(d) /\ ~Marking(d)'
      /\ Sending'
  BY <1>2, <1>3 DEF Sending, Marking, None
<1> QED
  BY <1>2, <1>4, <1>5, <1>6, ToolStep DEF StartRewrite

(* What is sent lists the shared key: a document that lists the did's own  *)
(* key counts as clean.                                                    *)
LEMMA FetchLastOpInv ==
    ASSUME KeyInv, NEW d \in Dids, FetchLastOp(d)
    PROVE  KeyInv'
<1>1. tool \in Listing /\ d \in tool.todo /\ tool.pass = "rewrite" /\ tool.pc = "next"
  BY ToolParts DEF KeyInv, FetchLastOp
<1>2. PICK t : t = [tool EXCEPT !.todo = @ \ {d}]
  OBVIOUS
<1>3. t \in Listing /\ t.todo = tool.todo \ {d} /\ t.pass = "rewrite" /\ t.pc = "next"
  BY <1>1, <1>2 DEF Listing
<1>4. PICK upd : upd = UpdateOp(d, {disk[d].key})
  OBVIOUS
<1>5. /\ \/ tool' = t
         \/ /\ disk[d].key # None /\ AlreadyClean(upd.op) /\ ~t.dry
            /\ tool' = [pass |-> "rewrite", pc |-> "mark", todo |-> t.todo, dry |-> t.dry,
                        did |-> d, key |-> disk[d].key, upd |-> upd]
         \/ /\ disk[d].key # None /\ ~AlreadyClean(upd.op) /\ ~t.dry
            /\ tool' = [pass |-> "rewrite", pc |-> "send", todo |-> t.todo, dry |-> t.dry,
                        did |-> d, key |-> disk[d].key, upd |-> upd]
      /\ faults' \in Nat /\ faults <= faults'
  <2>1. Works \/ Fault => faults' \in Nat /\ faults <= faults'
    BY DEF Works, Fault, KeyInv, KeyTypes
  <2>2. t.dry \in BOOLEAN
    BY <1>3 DEF Listing
  <2> QED
    BY <1>2, <1>4, <2>1, <2>2 DEF FetchLastOp
<1>6. tool' = t \/ (tool' \in Changing /\ tool'.did = d /\ tool'.todo = t.todo
                      /\ (tool'.pc = "send" => tool'.upd.op = Operation({"shared"})))
  <2>1. ASSUME disk[d].key # None
        PROVE  /\ disk[d].key \in {"own", "shared"} /\ upd \in [op : Ops, prev : Nat]
               /\ ~AlreadyClean(upd.op) => upd.op = Operation({"shared"})
    <3>1. disk[d].key \in {"own", "shared"}
      BY <2>1 DEF KeyInv, KeyTypes, RotationTypeOK, Dir
    <3>2. upd.op = Operation({disk[d].key}) /\ upd.prev = Len(log[d])
          /\ upd = [op |-> Operation({disk[d].key}), prev |-> Len(log[d])]
      BY <1>4 DEF UpdateOp
    <3>3. Len(log[d]) \in Nat
      BY DEF KeyInv, KeyTypes
    <3>4. Operation({disk[d].key}) \in Ops
      BY <3>1, Differ
    <3>5. Operation({disk[d].key}).keys = {disk[d].key}
      BY DEF Operation
    <3> QED
      BY <3>1, <3>2, <3>3, <3>4, <3>5 DEF AlreadyClean
  <2>2. t.todo \in SUBSET Dids /\ t.dry \in BOOLEAN
    BY <1>3 DEF Listing
  <2>3. CASE tool' = t
    BY <2>3
  <2>4. CASE /\ disk[d].key # None /\ AlreadyClean(upd.op) /\ ~t.dry
             /\ tool' = [pass |-> "rewrite", pc |-> "mark", todo |-> t.todo, dry |-> t.dry,
                         did |-> d, key |-> disk[d].key, upd |-> upd]
    BY <2>1, <2>2, <2>4 DEF Changing
  <2>5. CASE /\ disk[d].key # None /\ ~AlreadyClean(upd.op) /\ ~t.dry
             /\ tool' = [pass |-> "rewrite", pc |-> "send", todo |-> t.todo, dry |-> t.dry,
                         did |-> d, key |-> disk[d].key, upd |-> upd]
    BY <2>1, <2>2, <2>5 DEF Changing
  <2> QED
    BY <1>5, <2>3, <2>4, <2>5
<1>7. \A e \in Dids : Pending(e)' => Pending(e)
  BY <1>1, <1>3, <1>6 DEF Pending
<1>8. \A e \in Dids : Marking(e)' => Pending(e)
  BY <1>1, <1>3, <1>6 DEF Pending, Marking
<1>9. Sending' /\ \A e \in Dids : ~Marking(e)
  BY <1>1, <1>3, <1>6 DEF Sending, Marking
<1> QED
  BY <1>3, <1>5, <1>6, <1>7, <1>8, <1>9, ToolStep DEF FetchLastOp

(* An operation that is accepted is the last one of this did in this run,  *)
(* and the row is marked next or something has failed.                     *)
LEMMA SendOperationInv ==
    ASSUME KeyInv, SendOperation
    PROVE  KeyInv'
<1>1. /\ tool \in Changing /\ tool.did \notin tool.todo
      /\ tool.upd.op = Operation({"shared"}) /\ tool.pass = "rewrite" /\ tool.pc = "send"
  BY ToolParts DEF KeyInv, Sending, SendOperation
<1>2. PICK d \in Dids, op \in Ops : d = tool.did /\ op = tool.upd.op
  BY <1>1 DEF Changing
<1>3. PICK sent, count : /\ sent = [log EXCEPT ![d] = Append(@, op)]
                         /\ count = [rewrites EXCEPT ![d] = @ + 1]
  OBVIOUS
<1>4. \/ /\ log' = log /\ rewrites' = rewrites /\ tool' = Next1(tool)
         /\ faults' \in {faults, faults + 1}
      \/ /\ log' = sent /\ rewrites' = count /\ tool' = [tool EXCEPT !.pc = "mark"]
         /\ faults' = faults
      \/ log' = sent /\ rewrites' = count /\ tool' = Next1(tool) /\ faults' = faults + 1
  <2>1. CASE ~Accepts(d, tool.upd.prev, tool.key)
    BY <1>2, <1>3, <2>1 DEF SendOperation, Works, Fault
  <2>2. CASE Accepts(d, tool.upd.prev, tool.key)
    BY <1>2, <1>3, <2>2 DEF SendOperation, Works, Fault
  <2> QED
    BY <2>1, <2>2
<1>5. UNCHANGED <<disk, row, create, gone, clobbered>>
  BY DEF SendOperation, serverVars
<1>6. /\ Next1(tool) \in Listing /\ Next1(tool).todo = tool.todo /\ Next1(tool).pc = "next"
      /\ [tool EXCEPT !.pc = "mark"] \in Changing
      /\ [tool EXCEPT !.pc = "mark"].pc = "mark"
      /\ [tool EXCEPT !.pc = "mark"].todo = tool.todo
      /\ [tool EXCEPT !.pc = "mark"].did = tool.did
  BY <1>1 DEF Changing, Listing, Next1
<1>7. tool' \in Listing \cup Changing /\ tool'.todo = tool.todo
      /\ (tool'.pc = "next" \/ (tool'.pc = "mark" /\ tool'.did = d))
  BY <1>2, <1>4, <1>6
<1>8. /\ log' \in [Dids -> Seq(Ops)]
      /\ \A e \in Dids : log'[e] # <<>> =>
           \/ log[e] # <<>> /\ log'[e][Len(log'[e])] = LastOp(e)
           \/ log'[e][Len(log'[e])] = op
  <2>1. CASE log' = log
    BY <2>1 DEF KeyInv, KeyTypes, LastOp
  <2>2. CASE log' = sent
    <3>1. KeyTypes /\ d \in Dids /\ op \in Ops
      BY <1>2 DEF KeyInv
    <3>2. /\ Extended(d, op) \in [Dids -> Seq(Ops)]
          /\ Extended(d, op)[d][Len(Extended(d, op)[d])] = op
          /\ \A e \in Dids : e # d => Extended(d, op)[e] = log[e]
      BY <3>1, Appended
    <3>3. log' = Extended(d, op)
      BY <1>3, <2>2 DEF Extended
    <3> QED
      BY <3>2, <3>3 DEF LastOp
  <2> QED
    BY <1>4, <2>1, <2>2
<1>9. faults \in Nat /\ faults' \in Nat /\ rewrites \in [Dids -> Nat]
  BY <1>4 DEF KeyInv, KeyTypes
<1>10. KeyTypes'
  <2>1. rewrites' \in [Dids -> Nat]
    BY <1>3, <1>4, <1>9
  <2>2. tool'.pass = "rewrite"
    BY <1>7 DEF Listing, Changing
  <2> QED
    BY <1>5, <1>7, <1>8, <1>9, <2>1, <2>2 DEF KeyInv, KeyTypes, RotationTypeOK
<1>11. Sending'
  BY <1>1, <1>2, <1>7 DEF Sending
<1>12. Pending(d) /\ ~Unlisted(d)
  <2>1. Pending(d)
    BY <1>1, <1>2 DEF Pending
  <2> QED
    BY <2>1 DEF KeyInv, Created
<1>13. Created'
  <2> SUFFICES ASSUME NEW e \in Dids, Unlisted(e)
               PROVE  row[e] = None /\ rewrites'[e] = 0 /\ ~Pending(e)' /\ ~Marking(e)'
    BY <1>5 DEF Created, Unlisted
  <2>1. e # d /\ row[e] = None /\ rewrites[e] = 0 /\ ~Pending(e)
    BY <1>12 DEF KeyInv, Created
  <2>2. rewrites'[e] = rewrites[e]
    BY <1>3, <1>4, <1>9, <2>1
  <2>3. ~Pending(e)' /\ ~Marking(e)'
    BY <1>1, <1>7, <2>1 DEF Pending, Marking
  <2> QED
    BY <2>1, <2>2, <2>3
<1>14. Budget'
  <2> SUFFICES ASSUME NEW e \in Dids
               PROVE  /\ rewrites'[e] <= 1 + faults'
                      /\ row[e] = "unmigrated" /\ ~Marking(e)' => rewrites'[e] <= faults'
                      /\ Pending(e)' => rewrites'[e] <= faults'
    BY <1>5 DEF Budget
  <2>1. /\ rewrites[e] <= 1 + faults /\ rewrites[e] \in Nat
        /\ row[e] = "unmigrated" /\ ~Marking(e) => rewrites[e] <= faults
        /\ Pending(e) => rewrites[e] <= faults
    BY <1>9 DEF KeyInv, Budget
  <2>2. ~Marking(e)
    BY <1>1 DEF Marking
  <2>3. CASE e # d
    <3>1. rewrites'[e] = rewrites[e] /\ faults <= faults'
      BY <1>3, <1>4, <1>9, <2>3
    <3>2. Pending(e)' => Pending(e)
      BY <1>1, <1>7 DEF Pending
    <3> QED
      BY <1>9, <2>1, <2>2, <3>1, <3>2
  <2>4. CASE e = d
    <3>1. rewrites[d] <= faults
      BY <1>12, <2>1, <2>4
    <3>2. ~Pending(d)'
      BY <1>1, <1>2, <1>7 DEF Pending
    <3>3. \/ rewrites'[d] = rewrites[d] /\ faults <= faults'
          \/ rewrites'[d] = rewrites[d] + 1 /\ faults' = faults + 1
          \/ rewrites'[d] = rewrites[d] + 1 /\ faults' = faults /\ Marking(d)'
      <4>1. [tool EXCEPT !.pc = "mark"].pass = "rewrite"
        BY <1>6 DEF Changing
      <4>2. count[d] = rewrites[d] + 1
        BY <1>3, <1>9
      <4>3. CASE rewrites' = rewrites /\ faults' \in {faults, faults + 1}
        BY <1>9, <4>3
      <4>4. CASE /\ rewrites' = count /\ faults' = faults
                 /\ tool' = [tool EXCEPT !.pc = "mark"]
        BY <1>2, <1>6, <4>1, <4>2, <4>4 DEF Marking
      <4>5. CASE rewrites' = count /\ faults' = faults + 1
        BY <4>2, <4>5
      <4> QED
        BY <1>4, <4>3, <4>4, <4>5
    <3> QED
      BY <1>9, <2>1, <2>4, <3>1, <3>2, <3>3
  <2> QED
    BY <2>3, <2>4
<1>15. OwnKey'
  <2>1. op \notin GenesisOps
    BY <1>1, <1>2, Differ
  <2> QED
    BY <1>5, <1>8, <2>1 DEF KeyInv, OwnKey, Kept, LastOp, Destroyed
<1> QED
  BY <1>10, <1>11, <1>13, <1>14, <1>15 DEF KeyInv

(* A row that is marked, and one whose UPDATE fails.                       *)
LEMMA MarkMigratedInv ==
    ASSUME KeyInv, MarkMigrated
    PROVE  KeyInv'
<1>1. /\ tool \in Changing /\ tool.did \notin tool.todo /\ tool.pass = "rewrite"
      /\ tool.pc = "mark" /\ tool.did \in Dids
  BY ToolParts DEF KeyInv, Sending, MarkMigrated, Changing
<1>2. tool' \in Listing /\ tool'.todo = tool.todo /\ tool'.pc = "next"
  BY <1>1 DEF Changing, Listing, Next1, MarkMigrated
<1>3. /\ Sending' /\ \A e \in Dids : ~Marking(e)'
      /\ \A e \in Dids : Pending(e)' => Pending(e)
  BY <1>1, <1>2 DEF Sending, Marking, Pending
<1>4. CASE Fault /\ UNCHANGED row
  <2>1. faults' \in Nat /\ faults' = faults + 1 /\ faults <= faults'
    BY <1>4 DEF Fault, KeyInv, KeyTypes
  <2> QED
    BY <1>2, <1>3, <1>4, <2>1, ToolStep DEF MarkMigrated
<1>5. CASE /\ Works
           /\ row' = IF row[tool.did] = None THEN row ELSE [row EXCEPT ![tool.did] = "migrated"]
  <2>1. UNCHANGED <<log, disk, create, gone, faults, clobbered, rewrites>>
    BY <1>5 DEF MarkMigrated, serverVars, Works
  <2>2. /\ row' \in [Dids -> Row]
        /\ \A e \in Dids : e # tool.did => row'[e] = row[e]
        /\ row'[tool.did] \in {None, "migrated"}
        /\ \A e \in Dids : row[e] = None => row'[e] = None
    BY <1>1, <1>5 DEF KeyInv, KeyTypes, RotationTypeOK, Row
  <2>3. KeyTypes'
    <3>1. tool'.pass = "rewrite"
      BY <1>2 DEF Listing
    <3> QED
      BY <1>2, <2>1, <2>2, <3>1 DEF KeyInv, KeyTypes, RotationTypeOK
  <2>4. Created'
    BY <1>3, <2>1, <2>2 DEF KeyInv, Created, Unlisted
  <2>5. Budget'
    <3>1. \A e \in Dids : row'[e] = "unmigrated" => row[e] = "unmigrated" /\ ~Marking(e)
      BY <1>1, <2>2 DEF Marking, None
    <3> QED
      BY <1>3, <2>1, <3>1 DEF KeyInv, Budget
  <2>6. OwnKey'
    BY <2>1 DEF KeyInv, OwnKey, Kept, LastOp, Destroyed
  <2> QED
    BY <1>3, <2>3, <2>4, <2>5, <2>6 DEF KeyInv
<1> QED
  BY <1>4, <1>5 DEF MarkMigrated

(* A pass that ends has nothing left to mark.                              *)
LEMMA FinishInv ==
    ASSUME KeyInv, Finish
    PROVE  KeyInv'
<1>1. tool' = NoTool /\ tool'.pass = None
  BY DEF Finish, NoTool
<1>2. /\ Sending' /\ \A e \in Dids : ~Marking(e)' /\ ~Pending(e)'
      /\ \A e \in Dids : ~Marking(e)
  BY <1>1 DEF Finish, Sending, Marking, Pending, None
<1>3. faults' = faults /\ faults \in Nat
  BY DEF Finish, KeyInv, KeyTypes
<1> QED
  BY <1>1, <1>2, <1>3, ToolStep DEF Finish

(* A tool that dies before the row is marked has failed once more.         *)
LEMMA DieInv ==
    ASSUME KeyInv, Die
    PROVE  KeyInv'
<1>1. tool' = NoTool /\ tool'.pass = None
  BY DEF Die, NoTool
<1>2. Sending' /\ \A e \in Dids : ~Marking(e)' /\ ~Pending(e)'
  BY <1>1 DEF Sending, Marking, Pending, None
<1>3. faults' = faults + 1 /\ faults \in Nat /\ faults' \in Nat /\ faults <= faults'
  BY DEF Die, Fault, KeyInv, KeyTypes
<1> QED
  BY <1>1, <1>2, <1>3, ToolStep DEF Die

-----------------------------------------------------------------------------
(* No document from before the run lists a key of its did's own.           *)
LEMMA KeyInitInv == RotationInit => KeyInv
<1> SUFFICES ASSUME RotationInit
             PROVE  KeyInv
  OBVIOUS
<1>1. \A op \in Ops : <<op>> \in Seq(Ops) /\ \A op2 \in Ops : <<op, op2>> \in Seq(Ops)
  OBVIOUS
<1>2. log \in [Dids -> Seq(Ops)]
  <2>1. /\ {"shared"} \in KeySets /\ {"shared", "recovery"} \in KeySets
        /\ {"foreign"} \in KeySets
    BY DEF KeySets
  <2>2. /\ Operation({"shared"}) \in Ops /\ Operation({"shared", "recovery"}) \in Ops
        /\ Operation({"foreign"}) \in Ops
        /\ CreateOpV1 \in Ops /\ Tombstone \in Ops
    BY <2>1 DEF Ops
  <2>3. LegacyLogs \subseteq Seq(Ops) /\ ImportedLogs \subseteq Seq(Ops) /\ <<>> \in Seq(Ops)
    BY <1>1, <2>2 DEF LegacyLogs, ImportedLogs
  <2> QED
    BY <2>3 DEF RotationInit
<1>3. \A d \in Dids : log[d] # <<>> => LastOp(d) \notin GenesisOps
  <2> SUFFICES ASSUME NEW d \in Dids, log[d] # <<>>
               PROVE  LastOp(d) \notin GenesisOps
    OBVIOUS
  <2>1. /\ \A op \in GenesisOps : op.type = "operation" /\ "own" \in op.keys
        /\ \A ks \in KeySets : Operation(ks).keys = ks
    BY DEF GenesisOps, Operation
  <2>2. /\ {"shared"} \in KeySets /\ {"shared", "recovery"} \in KeySets
        /\ {"foreign"} \in KeySets
        /\ "own" \notin {"shared"} /\ "own" \notin {"shared", "recovery"}
        /\ "own" \notin {"foreign"}
    BY DEF KeySets
  <2>3. CreateOpV1.type # "operation" /\ Tombstone.type # "operation"
    BY DEF CreateOpV1, Tombstone
  <2>4. CASE d \in Legacy
    <3>1. log[d] \in LegacyLogs
      BY <2>4 DEF RotationInit
    <3>2. LastOp(d) \in {Operation({"shared"}), Operation({"shared", "recovery"}),
                         CreateOpV1}
      BY <3>1 DEF LegacyLogs, LastOp
    <3> QED
      BY <2>1, <2>2, <2>3, <3>2
  <2>5. CASE d \in Imported
    <3>1. log[d] \in ImportedLogs
      BY <2>5 DEF RotationInit
    <3>2. LastOp(d) \in {Operation({"foreign"}), Tombstone}
      BY <3>1 DEF ImportedLogs, LastOp
    <3> QED
      BY <2>1, <2>2, <2>3, <3>2
  <2>6. d \notin Minted
    BY DEF RotationInit
  <2> QED
    BY <2>4, <2>5, <2>6 DEF Dids
<1>4. tool.pass = None /\ tool = NoTool
  BY DEF RotationInit, NoTool
<1>5. KeyTypes
  BY <1>2, <1>4 DEF RotationInit, KeyTypes, RotationTypeOK, Row
<1>6. Sending /\ \A d \in Dids : ~Pending(d) /\ ~Marking(d)
  BY <1>4 DEF Sending, Pending, Marking, None
<1>7. \A d \in Dids : Unlisted(d) => row[d] = None
  BY DEF RotationInit, Unlisted
<1>8. Created /\ Budget
  BY <1>6, <1>7 DEF RotationInit, Created, Budget
<1>9. OwnKey
  BY <1>3 DEF RotationInit, OwnKey
<1> QED
  BY <1>5, <1>6, <1>8, <1>9 DEF KeyInv

(* Every step of the server, of an owner and of the tool.                  *)
LEMMA KeyNextInv == KeyInv /\ [RotationNext]_rotationVars => KeyInv'
<1> SUFFICES ASSUME KeyInv, [RotationNext]_rotationVars
             PROVE  KeyInv'
  OBVIOUS
<1>1. CASE UNCHANGED rotationVars
  BY <1>1 DEF rotationVars, KeyInv, KeyTypes, RotationTypeOK, Sending, Created, Unlisted, Pending,
              Marking, Budget, OwnKey, Kept, LastOp, Destroyed
<1>2. ASSUME NEW d \in Dids, Server(d)
      PROVE  KeyInv'
  BY <1>2, CreateStoreInv, StoreRotationKeypairInv, SendGenesisInv, RegisterActorInv,
     RegisterAccountInv, UndoCreateInv, DestroyStoreInv, DeleteRowsInv DEF Server
<1>3. ASSUME NEW d \in Dids, UserOp(d)
      PROVE  KeyInv'
  BY <1>3, UserOpInv
<1>4. CASE Tool
  BY <1>4, StartSeedInv, SeedCheckInv, SeedWriteInv, StartRewriteInv, FetchLastOpInv,
     SendOperationInv, MarkMigratedInv, FinishInv, DieInv DEF Tool
<1> QED
  BY <1>1, <1>2, <1>3, <1>4 DEF RotationNext

(* The last operation of a living account's document lists the shared key, *)
(* keys of its owner or of another server, or is the one createAccount     *)
(* sent, and then the file of the key it lists is there.                   *)
LEMMA KeysHeld ==
    ASSUME KeyInv
    PROVE  KeysConsistent
<1> SUFFICES ASSUME NEW d \in Dids, row[d] # None, d \notin gone, DocKeys(d) # {},
                    DocKeys(d) \cap {"foreign", "signing"} = {}
             PROVE  DocKeys(d) \cap Held(d) # {} \/ d \in clobbered \/ Destroyed(d)
  BY DEF KeyInv, KeyTypes, KeysConsistent, Manageable
<1>1. /\ log[d] # <<>> /\ LastOp(d).type # "tombstone"
      /\ DocKeys(d) = NormalizeOp(LastOp(d))
  BY DEF DocKeys, Exists
<1>2. LastOp(d) \in Ops
  <2>1. log[d] \in Seq(Ops)
    BY DEF KeyInv, KeyTypes
  <2>2. Len(log[d]) \in 1..Len(log[d])
    BY <1>1, <2>1
  <2> QED
    BY <2>1, <2>2 DEF LastOp
<1>3. LastOp(d) # Tombstone
  BY <1>1 DEF Tombstone
<1>4. CASE LastOp(d) = CreateOpV1
  BY <1>1, <1>4 DEF NormalizeOp, CreateOpV1
<1>5. ASSUME NEW ks \in KeySets, LastOp(d) = Operation(ks)
      PROVE  DocKeys(d) \cap Held(d) # {} \/ d \in clobbered \/ Destroyed(d)
  <2>1. DocKeys(d) = ks
    BY <1>1, <1>5 DEF NormalizeOp, Operation
  <2>2. CASE "shared" \in ks
    BY <2>1, <2>2 DEF Held
  <2>3. CASE ks \in {{"own"}, {"recovery", "own"}}
    <3>1. LastOp(d) \in GenesisOps
      BY <1>5, <2>3 DEF GenesisOps
    <3>2. Kept(d) \/ Destroyed(d)
      BY <1>1, <3>1 DEF KeyInv, OwnKey
    <3>3. "own" \in DocKeys(d)
      BY <2>1, <2>3
    <3> QED
      BY <3>2, <3>3 DEF Kept, Held
  <2>4. ks \in {{"own"}, {"recovery", "own"}} \/ "shared" \in ks \/ "foreign" \in ks
    BY DEF KeySets
  <2> QED
    BY <2>1, <2>2, <2>3, <2>4
<1> QED
  BY <1>2, <1>3, <1>4, <1>5 DEF Ops

(* While createAccount and deleteAccount fail half-way and the passes of   *)
(* cacos-pds-migrate die and are run again, the tool's state fits what it  *)
(* is at, no account in the making is on its list, what a did may cost is  *)
(* not used up before its row is marked, and a document as it was created  *)
(* belongs to a did that has its key file, was deleted, or whose           *)
(* createAccount failed and destroyed the directory.                       *)
THEOREM RotationInvariance == RotationSpec => []KeyInv
<1> QED
  BY KeyInitInv, KeyNextInv, PTL DEF RotationSpec

(* Wherever the migration tool dies, the document of every account that    *)
(* lives here lists a key the server has a file of or the shared key,      *)
(* except where write_rotation_key_from_bytes overwrote a key made since   *)
(* it looked, and where createAccount failed after register_actor and      *)
(* destroyed the directory but not the actor row.                          *)
THEOREM DocumentsStayManageable == RotationSpec => []KeysConsistent
<1>1. KeyInv => KeysConsistent
  BY KeysHeld
<1> QED
  BY <1>1, RotationInvariance, PTL

(* plc-rotation-keys has an operation of its own accepted for a did at     *)
(* most once, and once more for every lost answer, failed UPDATE or death. *)
THEOREM RewritesAreBounded == RotationSpec => []RewrittenOnce
<1>1. KeyInv => RewrittenOnce
  BY DEF KeyInv, Budget, RewrittenOnce
<1> QED
  BY <1>1, RotationInvariance, PTL

(* Under --dry-run no step of plc-rotation-keys touches the directory's    *)
(* log, a key file or an actor row.                                        *)
THEOREM DryRunIsDry == RotationSpec => DryRunWritesNothing
<1>1. KeyInv /\ [RotationNext]_rotationVars =>
        [tool.pass = "rewrite" /\ tool' # tool =>
           (tool.dry => UNCHANGED <<log, disk, row>>)]_rotationVars
  <2> SUFFICES ASSUME KeyInv, RotationNext, tool.pass = "rewrite", tool' # tool, tool.dry
               PROVE  UNCHANGED <<log, disk, row>>
    OBVIOUS
  <2>1. ~(tool.pc \in {"send", "mark"})
    <3>1. tool.pc \in {"send", "mark"} => tool.dry = FALSE
      BY ToolParts DEF KeyInv, Changing
    <3> QED
      BY <3>1
  <2>2. Tool
    BY DEF RotationNext, Server, UserOp, CreateStore, StoreRotationKeypair,
           SendGenesis, RegisterActor, RegisterAccount, UndoCreate, DestroyStore,
           DeleteRows, toolVars
  <2> QED
    BY <2>1, <2>2 DEF Tool, StartSeed, SeedCheck, SeedWrite, StartRewrite,
                      FetchLastOp, SendOperation, MarkMigrated, Finish, Die,
                      NoTool, None
<1> QED
  BY <1>1, RotationInvariance, PTL DEF RotationSpec, DryRunWritesNothing
============================================================================
