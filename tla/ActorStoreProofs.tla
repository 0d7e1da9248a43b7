-------------------------- MODULE ActorStoreProofs --------------------------
(***************************************************************************)
(* Theorems about the store of an actor, for every number of requests,     *)
(* records, stores and failures: while destroy has not dropped the lock    *)
(* under a writer, the index agrees with the repo, every record has its    *)
(* block, and the commits reach the sequencer as one chain.                *)
(*                                                                         *)
(* The argument: whoever works on a store that destroy has not dropped the *)
(* lock of holds the mutex that is in the map (Guarding), so there is one  *)
(* (Alone), and what it read when it formatted its commit is still true    *)
(* when it applies it and hands it to the sequencer (Good).                *)
(***************************************************************************)
EXTENDS ActorStore, SequenceTheorems, TLAPS

Writing == {"index", "apply", "blobs", "sequence"}

(* A transactor is open, or the store is being opened for one. *)
Working == {"warm", "key", "format", "init"} \cup Writing

Content == Cids \cup {NoCid}

(* Versions of some of the records. *)
Versions == UNION {[U -> Content] : U \in SUBSET Uris}

(* A request with a formatted commit, when there are n stores and m        *)
(* mutexes and v commits have been formatted.                              *)
CommitState(n, m, v) ==
    [pc : Writing, kind : {"write"}, store : 1..n, lock : 1..m, batch : Batches,
     swap : Nat, todo : SUBSET Uris, rev : 1..v, since : Nat, prev : Versions,
     was : Versions, stale : SUBSET Uris, mst : [Uris -> Content], gone : SUBSET Cids]

Entry(n, v) ==
    [store : 1..n, rev : 1..v, since : Nat, swap : Nat, prev : Versions, was : Versions,
     stale : SUBSET Uris]

(* What a request knows, by how far it has come. *)
ReqOK(r, n, m, v) ==
    /\ r.pc \in Pcs /\ "pc" \in DOMAIN r
    /\ r.pc # "idle" => "kind" \in DOMAIN r
    /\ r.pc \in {"lock", "key"} => r.kind \in {"write", "create"}
    /\ r.pc \in {"open", "warm"} => r.kind \in {"write", "create", "read"}
    /\ r.pc = "format" => r.kind = "write"
    /\ r.pc \in {"create", "init", "account"} => r.kind = "create"
    /\ r.pc \in {"root", "read"} => r.kind = "read"
    /\ r.pc \in {"destroy", "unlock", "remove"} => r.kind \in {"create", "delete"}
    /\ r.pc \in {"warm", "key", "format", "init", "root", "read"}
         => "store" \in DOMAIN r /\ r.store \in 1..n
    /\ r.pc \in {"lock", "open", "warm", "key", "format", "init"} /\ r.kind # "read"
         => "lock" \in DOMAIN r /\ r.lock \in 1..m
    /\ r.pc \in {"lock", "open", "warm", "key", "format"} /\ r.kind = "write"
         => {"batch", "swap"} \subseteq DOMAIN r /\ r.batch \in Batches /\ r.swap \in Nat
    /\ r.pc \in Writing => /\ r \in CommitState(n, m, v)
                           /\ r.todo \subseteq DOMAIN r.batch
                           /\ r.pc = "apply" => r.todo = {}

Types ==
    /\ stores \in Seq(Store)
    /\ dir \in 0..Len(stores) /\ cache \in 0..Len(stores)
    /\ holder \in Seq(Handlers \cup {NoHandler})
    /\ locks \in 0..Len(holder)
    /\ torn \in Seq(SUBSET Uris) /\ Len(torn) = Len(stores)
    /\ revs \in Nat
    /\ log \in Seq(Entry(Len(stores), revs))
    /\ DOMAIN req = Handlers

Requests == \A h \in Handlers : ReqOK(req[h], Len(stores), Len(holder), revs)

(* Only a request that is under way and may free a mutex later holds one.  *)
Keeps(r) == r.pc \in {"open", "destroy", "unlock", "remove"} \cup Working /\ r.kind # "read"

Held == \A l \in DOMAIN holder : holder[l] # NoHandler => Keeps(req[holder[l]])

(* A writer holds its mutex from the lock to its answer. *)
Holding ==
    \A h \in Handlers : req[h].pc \in {"open"} \cup Working /\ req[h].kind # "read"
                          => holder[req[h].lock] = h

(* On a store that destroy has not dropped the lock of, it is the mutex in *)
(* the map.                                                                *)
Guarding ==
    \A h \in Handlers : req[h].pc \in Working /\ req[h].kind # "read"
                        /\ req[h].store \notin unguarded
                          => req[h].lock = locks

LockPart == Held /\ Holding /\ Guarding

Applied(h) == req[h].pc \in {"blobs", "sequence"}

(* Entry i of the log is the last one of store s. *)
Last(i, s) == log[i].store = s /\ \A k \in i + 1 .. Len(log) : log[k].store # s

(* The next commit of s follows on the last one of the log, or on one that *)
(* was lost, or somebody is about to sequence one.                         *)
Chained ==
    \A s \in DOMAIN stores \ unguarded : \A i \in DOMAIN log :
        Last(i, s) => \/ stores[s].root \in {log[i].rev} \cup lost
                      \/ \E h \in Handlers : Applied(h) /\ req[h].store = s

(* The root is past the commits that were sequenced. *)
Roots ==
    /\ \A s \in DOMAIN stores : stores[s].root <= revs
    /\ \A s \in DOMAIN stores \ unguarded : \A i \in DOMAIN log :
         log[i].store = s => log[i].rev <= stores[s].root

(* What a writer has read and formatted fits the store it will commit to.  *)
Good(h) ==
    LET r == req[h]
        s == stores[r.store]
    IN  /\ r.swap \in {None, r.since}
        /\ \A u \in DOMAIN r.prev \ r.stale : r.prev[u] = r.was[u]
        /\ \A i \in DOMAIN log : Last(i, r.store) => r.since \in {log[i].rev} \cup lost
        /\ r.pc \in {"index", "apply"} =>
             /\ r.since = s.root /\ s.root < r.rev
             /\ r.mst = MstApplied(s.mst, r.batch)
             /\ \A u \in DOMAIN r.batch \ r.todo : s.index[u] = r.batch[u].cid
             /\ \A u \in Uris \ (DOMAIN r.batch \cup torn[r.store]) : s.mst[u] \notin r.gone
             /\ r.gone \cap Added(r.batch) = {}
        /\ Applied(h) =>
             /\ s.root = r.rev
             /\ \A i \in DOMAIN log : log[i].store = r.store => log[i].rev < r.rev

Writers == \A h \in Handlers :
             req[h].pc \in Writing /\ req[h].store \notin unguarded => Good(h)

RepoPart == /\ IndexMatchesRepo /\ RecordBlocksPresent /\ Roots /\ Chained /\ Writers
            /\ SequencedInOrder /\ CommitsChain /\ PrevIsTrue

Inv == Types /\ Requests /\ LockPart /\ RepoPart

-----------------------------------------------------------------------------
(* What the types say of the sequences. *)
LEMMA Parts ==
    ASSUME Types
    PROVE  /\ Len(stores) \in Nat /\ DOMAIN stores = 1..Len(stores)
           /\ DOMAIN torn = 1..Len(stores)
           /\ Len(holder) \in Nat /\ DOMAIN holder = 1..Len(holder)
           /\ Len(log) \in Nat /\ DOMAIN log = 1..Len(log)
           /\ \A s \in 1..Len(stores) : stores[s] \in Store /\ torn[s] \in SUBSET Uris
           /\ \A i \in 1..Len(log) : log[i] \in Entry(Len(stores), revs)
           /\ \A l \in 1..Len(holder) : holder[l] \in Handlers \cup {NoHandler}
<1>1. /\ stores \in Seq(Store) /\ torn \in Seq(SUBSET Uris)
      /\ holder \in Seq(Handlers \cup {NoHandler})
      /\ log \in Seq(Entry(Len(stores), revs)) /\ Len(torn) = Len(stores)
  BY DEF Types
<1> HIDE DEF Types
<1>2. Len(stores) \in Nat /\ DOMAIN stores = 1..Len(stores) /\ DOMAIN torn = 1..Len(stores)
  BY <1>1
<1>3. Len(holder) \in Nat /\ DOMAIN holder = 1..Len(holder)
  BY <1>1
<1>4. Len(log) \in Nat /\ DOMAIN log = 1..Len(log)
  BY <1>1
<1>5. \A s \in 1..Len(stores) : stores[s] \in Store /\ torn[s] \in SUBSET Uris
  BY <1>1, <1>2
<1>6. \A i \in 1..Len(log) : log[i] \in Entry(Len(stores), revs)
  BY <1>1, <1>4
<1>7. \A l \in 1..Len(holder) : holder[l] \in Handlers \cup {NoHandler}
  BY <1>1, <1>3
<1> QED
  BY <1>2, <1>3, <1>4, <1>5, <1>6, <1>7

(* The fields of a request with a commit. *)
LEMMA CommitParts ==
    ASSUME NEW n, NEW m, NEW v, NEW r \in CommitState(n, m, v)
    PROVE  /\ r.pc \in Writing /\ r.kind = "write" /\ r.store \in 1..n /\ r.lock \in 1..m
           /\ r.batch \in Batches /\ r.swap \in Nat /\ r.todo \in SUBSET Uris
           /\ r.rev \in 1..v /\ r.since \in Nat /\ r.prev \in Versions
           /\ r.was \in Versions /\ r.stale \in SUBSET Uris
           /\ r.mst \in [Uris -> Content] /\ r.gone \in SUBSET Cids
           /\ {"pc", "kind", "store", "lock"} \subseteq DOMAIN r
BY DEF CommitState

(* A batch. *)
LEMMA BatchParts ==
    ASSUME NEW b \in Batches
    PROVE  /\ DOMAIN b \subseteq Uris /\ DOMAIN b # {}
           /\ \A u \in DOMAIN b : b[u] \in Write /\ b[u].cid \in Content
<1>1. PICK U \in SUBSET Uris : U # {} /\ b \in [U -> Write]
  BY DEF Batches
<1>2. \A w \in Write : w.cid \in Content
  BY DEF Write, Content
<1> QED
  BY <1>1, <1>2

(* More stores, mutexes and commits leave what a request knows as it is.   *)
LEMMA ReqGrows ==
    ASSUME NEW n \in Nat, NEW m \in Nat, NEW v \in Nat, NEW n1 \in Nat, NEW m1 \in Nat,
           NEW v1 \in Nat, n <= n1, m <= m1, v <= v1, NEW r, ReqOK(r, n, m, v)
    PROVE  ReqOK(r, n1, m1, v1)
<1>1. 1..n \subseteq 1..n1 /\ 1..m \subseteq 1..m1 /\ 1..v \subseteq 1..v1
  OBVIOUS
<1>2. CommitState(n, m, v) \subseteq CommitState(n1, m1, v1)
  BY <1>1 DEF CommitState
<1> QED
  BY <1>1, <1>2 DEF ReqOK

(* A working request has a store, and unless it reads a mutex. *)
LEMMA WorkParts ==
    ASSUME Requests, NEW h \in Handlers, req[h].pc \in Working
    PROVE  /\ req[h].store \in 1..Len(stores) /\ "store" \in DOMAIN req[h]
           /\ req[h].kind # "read" => req[h].lock \in 1..Len(holder)
           /\ req[h].pc \in Writing => req[h] \in CommitState(Len(stores), Len(holder), revs)
<1>1. ReqOK(req[h], Len(stores), Len(holder), revs)
  BY DEF Requests
<1>2. CASE req[h].pc \in Writing
  BY <1>1, <1>2, CommitParts DEF ReqOK
<1>3. CASE req[h].pc \notin Writing
  BY <1>1, <1>3 DEF ReqOK, Working
<1> QED
  BY <1>2, <1>3

(* One writer at a time works on a store that is guarded. *)
LEMMA Alone ==
    ASSUME Types, Requests, LockPart, NEW g \in Handlers, NEW h \in Handlers,
           req[g].pc \in Working, req[g].kind # "read", req[g].store \notin unguarded,
           req[h].pc \in Working, req[h].kind # "read", req[h].store \notin unguarded
    PROVE  g = h
<1>1. req[g].lock = locks /\ req[h].lock = locks
  BY DEF LockPart, Guarding
<1>2. holder[locks] = g /\ holder[locks] = h
  BY <1>1 DEF LockPart, Holding
<1> QED
  BY <1>2

(* Uris of a batch under way. *)
LEMMA IndexingParts ==
    ASSUME NEW s, NEW u
    PROVE  u \in Indexing(s) <=> \E h \in Handlers : /\ req[h].pc \in {"index", "apply"}
                                                     /\ req[h].store = s
                                                     /\ u \in Unapplied(req[h])
BY DEF Indexing

-----------------------------------------------------------------------------
(* The repo and the log stay, and a writer that stops is remembered.       *)
LEMMA KeepsRepo ==
    ASSUME Inv, UNCHANGED <<stores, log, revs>>, unguarded \subseteq unguarded',
           lost \subseteq lost', DOMAIN torn' = DOMAIN torn,
           \A s \in DOMAIN torn : torn[s] \subseteq torn'[s],
           \A g \in Handlers : req'[g].pc \in Writing => req'[g] = req[g],
           \A g \in Handlers : req[g].pc \in Writing =>
               \/ req'[g] = req[g]
               \/ /\ req[g].pc \in {"index", "apply"}
                       => Unapplied(req[g]) \subseteq torn'[req[g].store]
                  /\ Applied(g) => req[g].rev \in lost'
    PROVE  RepoPart'
<1>1. Types /\ Requests /\ RepoPart
  BY DEF Inv
<1>2. DOMAIN stores = 1..Len(stores) /\ DOMAIN torn = 1..Len(stores)
  BY <1>1, Parts
<1>3. IndexMatchesRepo'
  <2> SUFFICES ASSUME NEW s \in DOMAIN stores \ unguarded', NEW u \in Uris,
                      u \notin torn'[s], u \notin Indexing(s)'
               PROVE  stores[s].index[u] = stores[s].mst[u]
    BY DEF IndexMatchesRepo
  <2>1. u \notin torn[s] /\ s \notin unguarded
    BY <1>2
  <2>2. u \notin Indexing(s)
    <3> SUFFICES ASSUME NEW g \in Handlers, req[g].pc \in {"index", "apply"},
                        req[g].store = s, u \in Unapplied(req[g])
                 PROVE  FALSE
      BY IndexingParts
    <3>1. req'[g] = req[g]
      BY DEF Writing
    <3>2. u \in Indexing(s)'
      BY <3>1 DEF Indexing, Unapplied
    <3> QED
      BY <3>2
  <2> QED
    BY <1>1, <2>1, <2>2 DEF RepoPart, IndexMatchesRepo
<1>4. RecordBlocksPresent'
  BY <1>1, <1>2 DEF RepoPart, RecordBlocksPresent
<1>5. Roots'
  BY <1>1 DEF RepoPart, Roots
<1>6. Chained'
  <2> SUFFICES ASSUME NEW s \in DOMAIN stores \ unguarded', NEW i \in DOMAIN log, Last(i, s)
               PROVE  \/ stores[s].root \in {log[i].rev} \cup lost'
                      \/ \E h \in Handlers : Applied(h)' /\ req'[h].store = s
    BY DEF Chained, Last
  <2>1. CASE stores[s].root \in {log[i].rev} \cup lost
    BY <2>1
  <2>2. ASSUME NEW h \in Handlers, Applied(h), req[h].store = s
        PROVE  \/ stores[s].root \in {log[i].rev} \cup lost'
               \/ \E g \in Handlers : Applied(g)' /\ req'[g].store = s
    <3>1. req[h].pc \in Writing
      BY <2>2 DEF Applied, Writing
    <3>2. CASE req'[h] = req[h]
      BY <2>2, <3>2 DEF Applied
    <3>3. CASE req[h].rev \in lost'
      <4>1. stores[s].root = req[h].rev
        BY <1>1, <2>2, <3>1 DEF RepoPart, Writers, Good
      <4> QED
        BY <3>3, <4>1
    <3> QED
      BY <2>2, <3>1, <3>2, <3>3
  <2> QED
    BY <1>1, <2>1, <2>2 DEF RepoPart, Chained
<1>7. Writers'
  <2> SUFFICES ASSUME NEW h \in Handlers, req'[h].pc \in Writing,
                      req'[h].store \notin unguarded'
               PROVE  Good(h)'
    BY DEF Writers
  <2>1. req'[h] = req[h]
    OBVIOUS
  <2>2. Good(h) /\ req[h].pc \in Working
    BY <1>1, <2>1 DEF RepoPart, Writers, Working
  <2>3. req[h].store \in DOMAIN torn
    BY <1>1, <1>2, <2>2, WorkParts
  <2> QED
    BY <2>1, <2>2, <2>3 DEF Good, Applied, Last
<1>8. SequencedInOrder' /\ CommitsChain' /\ PrevIsTrue'
  <2>1. SequencedInOrder'
    BY <1>1 DEF RepoPart, SequencedInOrder, Guarded
  <2>2. CommitsChain'
    BY <1>1 DEF RepoPart, CommitsChain, Guarded
  <2>3. PrevIsTrue'
    BY <1>1 DEF RepoPart, PrevIsTrue, Guarded
  <2> QED
    BY <2>1, <2>2, <2>3
<1> QED
  BY <1>3, <1>4, <1>5, <1>6, <1>7, <1>8 DEF RepoPart

(* What requests leave behind when they stop. *)
LEMMA Behind ==
    ASSUME Inv, NEW R \in SUBSET Handlers, LeaveBehind(R)
    PROVE  /\ torn' \in Seq(SUBSET Uris) /\ Len(torn') = Len(stores)
           /\ DOMAIN torn' = DOMAIN torn /\ lost \subseteq lost'
           /\ \A s \in DOMAIN torn : torn[s] \subseteq torn'[s]
           /\ \A g \in R : req[g].pc \in {"index", "apply"}
                             => Unapplied(req[g]) \subseteq torn'[req[g].store]
           /\ \A g \in R : Applied(g) => req[g].rev \in lost'
<1>1. Types /\ Requests
  BY DEF Inv
<1>2. /\ Len(stores) \in Nat /\ DOMAIN torn = 1..Len(stores)
      /\ \A s \in 1..Len(stores) : torn[s] \in SUBSET Uris
  BY <1>1, Parts
<1> DEFINE stopped(s) == {g \in R : req[g].pc \in {"index", "apply"} /\ req[g].store = s}
           left(s) == UNION {Unapplied(req[h]) : h \in stopped(s)}
<1>3. torn' = [s \in DOMAIN torn |-> torn[s] \cup left(s)]
  BY DEF LeaveBehind
<1>4. \A g \in R : req[g].pc \in {"index", "apply"} => Unapplied(req[g]) \subseteq Uris
  <2> SUFFICES ASSUME NEW g \in R, req[g].pc \in {"index", "apply"}
               PROVE  Unapplied(req[g]) \subseteq DOMAIN req[g].batch /\ req[g].batch \in Batches
    BY BatchParts
  <2>1. req[g] \in CommitState(Len(stores), Len(holder), revs)
    BY <1>1, WorkParts DEF Working, Writing
  <2>2. req[g].batch \in Batches
    BY <2>1, CommitParts
  <2> QED
    BY <2>2 DEF Unapplied
<1>5. \A s \in DOMAIN torn : torn[s] \cup left(s) \in SUBSET Uris
  BY <1>2, <1>4
<1>6. torn' \in [1..Len(stores) -> SUBSET Uris]
  BY <1>2, <1>3, <1>5
<1>7. torn' \in Seq(SUBSET Uris) /\ Len(torn') = Len(stores)
  BY <1>2, <1>6
<1>8. \A s \in DOMAIN torn : torn[s] \subseteq torn'[s]
  BY <1>3
<1>9. ASSUME NEW g \in R, req[g].pc \in {"index", "apply"}
      PROVE  Unapplied(req[g]) \subseteq torn'[req[g].store]
  <2>1. req[g].store \in DOMAIN torn
    BY <1>1, <1>2, <1>9, WorkParts DEF Working, Writing
  <2>2. g \in stopped(req[g].store)
    BY <1>9
  <2>3. Unapplied(req[g]) \subseteq left(req[g].store)
    BY <2>2
  <2> QED
    BY <1>3, <2>1, <2>3
<1>10. ASSUME NEW g \in R, Applied(g)
       PROVE  req[g].rev \in lost'
  <2>1. req[g] \in CommitState(Len(stores), Len(holder), revs)
    BY <1>1, <1>10, WorkParts DEF Applied, Working, Writing
  <2>2. req[g].kind = "write"
    BY <2>1, CommitParts
  <2>3. req[g].rev \in Unsequenced(req[g])
    BY <1>10, <2>2 DEF Unsequenced, Applied
  <2> QED
    BY <2>3 DEF LeaveBehind
<1>11. lost \subseteq lost' /\ DOMAIN torn' = DOMAIN torn
  BY <1>3 DEF LeaveBehind
<1> QED
  BY <1>7, <1>8, <1>9, <1>10, <1>11

(* No request but h changes. *)
Only(h) == DOMAIN req' = Handlers /\ \A g \in Handlers : g # h => req'[g] = req[g]

(* One request changes. *)
LEMMA OneRequest ==
    ASSUME Types, Requests, NEW h \in Handlers, Only(h),
           Len(stores') \in Nat, Len(holder') \in Nat, revs' \in Nat,
           Len(stores) <= Len(stores'), Len(holder) <= Len(holder'), revs <= revs',
           ReqOK(req'[h], Len(stores'), Len(holder'), revs')
    PROVE  Requests'
<1>1. Len(stores) \in Nat /\ Len(holder) \in Nat /\ revs \in Nat
  BY Parts DEF Types
<1>2. ASSUME NEW g \in Handlers
      PROVE  ReqOK(req[g], Len(stores'), Len(holder'), revs')
  <2>1. PICK n1, m1, v1 : n1 = Len(stores') /\ m1 = Len(holder') /\ v1 = revs'
    OBVIOUS
  <2>2. PICK n, m, v, q : n = Len(stores) /\ m = Len(holder) /\ v = revs /\ q = req[g]
    OBVIOUS
  <2>3. ReqOK(q, n, m, v)
    BY <2>2 DEF Requests
  <2>4. n \in Nat /\ m \in Nat /\ v \in Nat /\ n1 \in Nat /\ m1 \in Nat /\ v1 \in Nat
    BY <1>1, <2>1, <2>2
  <2>5. n <= n1 /\ m <= m1 /\ v <= v1
    BY <2>1, <2>2
  <2>6. ReqOK(q, n1, m1, v1)
    BY ONLY <2>3, <2>4, <2>5, ReqGrows
  <2> QED
    BY <2>1, <2>2, <2>6
<1>3. \A g \in Handlers : ReqOK(req'[g], Len(stores'), Len(holder'), revs')
  BY <1>2 DEF Only
<1> QED
  BY <1>3 DEF Requests

(* It keeps the mutex it has. *)
LEMMA KeepsLocks ==
    ASSUME Types, LockPart, NEW h \in Handlers, Only(h),
           UNCHANGED <<holder, locks>>, unguarded \subseteq unguarded',
           Keeps(req[h]) => Keeps(req'[h]),
           req'[h].pc \in {"open"} \cup Working /\ req'[h].kind # "read"
             => holder[req'[h].lock] = h,
           req'[h].pc \in Working /\ req'[h].kind # "read" /\ req'[h].store \notin unguarded'
             => req'[h].lock = locks
    PROVE  LockPart' /\ holder' \in Seq(Handlers \cup {NoHandler}) /\ Len(holder') = Len(holder)
<1>1. Held'
  BY Parts DEF LockPart, Held, Only
<1>2. Holding'
  BY DEF LockPart, Holding, Only
<1>3. Guarding'
  BY DEF LockPart, Guarding, Only
<1> QED
  BY <1>1, <1>2, <1>3 DEF LockPart, Types

(* It frees the mutex and is done with it. *)
LEMMA FreesLocks ==
    ASSUME Types, Requests, LockPart, NEW h \in Handlers, Only(h),
           holder' = Release(h), locks' = locks, unguarded \subseteq unguarded',
           req'[h].pc \notin {"open"} \cup Working
    PROVE  LockPart' /\ holder' \in Seq(Handlers \cup {NoHandler}) /\ Len(holder') = Len(holder)
<1>1. /\ Len(holder) \in Nat /\ DOMAIN holder = 1..Len(holder)
      /\ \A l \in 1..Len(holder) : holder[l] \in Handlers \cup {NoHandler}
  BY Parts
<1>2. /\ DOMAIN holder' = DOMAIN holder
      /\ \A l \in DOMAIN holder : holder'[l] = IF holder[l] = h THEN NoHandler ELSE holder[l]
  BY DEF Release
<1>3. holder' \in [1..Len(holder) -> Handlers \cup {NoHandler}]
  BY <1>1 DEF Release
<1>4. holder' \in Seq(Handlers \cup {NoHandler}) /\ Len(holder') = Len(holder)
  BY <1>1, <1>3
<1>5. NoHandler \notin Handlers
  BY ActorStoreAssumption
<1>6. Held'
  BY <1>1, <1>2 DEF LockPart, Held, Only
<1>7. Holding'
  <2> SUFFICES ASSUME NEW g \in Handlers, req'[g].pc \in {"open"} \cup Working,
                      req'[g].kind # "read"
               PROVE  holder'[req'[g].lock] = g
    BY DEF Holding
  <2>1. g # h /\ req'[g] = req[g]
    BY DEF Only
  <2>2. holder[req[g].lock] = g
    BY <2>1 DEF LockPart, Holding
  <2>3. req[g].lock \in 1..Len(holder)
    <3>1. CASE req[g].pc = "open"
      BY <2>1, <3>1 DEF Requests, ReqOK
    <3>2. CASE req[g].pc \in Working
      BY <2>1, <3>2, WorkParts
    <3> QED
      BY <2>1, <3>1, <3>2
  <2> QED
    BY <1>1, <1>2, <2>1, <2>2, <2>3
<1>8. Guarding'
  BY DEF LockPart, Guarding, Only
<1> QED
  BY <1>4, <1>6, <1>7, <1>8 DEF LockPart

-----------------------------------------------------------------------------
(* A step of one request that is writing neither before nor after, or      *)
(* stops: the repo stays.                                                  *)
LEMMA StepInv ==
    ASSUME Inv, NEW h \in Handlers, Only(h),
           UNCHANGED <<stores, log, revs>>, unguarded \subseteq unguarded',
           dir' \in 0..Len(stores), cache' \in 0..Len(stores),
           holder' \in Seq(Handlers \cup {NoHandler}), Len(holder) <= Len(holder'),
           locks' \in 0..Len(holder'), LockPart',
           ReqOK(req'[h], Len(stores), Len(holder'), revs), req'[h].pc \notin Writing,
           LeaveBehind({h}) \/ (UNCHANGED <<torn, lost>> /\ req[h].pc \notin Writing)
    PROVE  Inv'
<1>1. Types /\ Requests /\ RepoPart
  BY DEF Inv
<1>2. Len(stores) \in Nat /\ Len(holder) \in Nat /\ Len(holder') \in Nat /\ revs \in Nat
  BY <1>1, Parts DEF Types
<1>3. Requests'
  <2>1. /\ Len(stores') \in Nat /\ revs' \in Nat /\ Len(stores) <= Len(stores')
        /\ revs <= revs' /\ ReqOK(req'[h], Len(stores'), Len(holder'), revs')
    BY <1>2
  <2> QED
    BY <1>1, <1>2, <2>1, OneRequest
<1>4. /\ torn' \in Seq(SUBSET Uris) /\ Len(torn') = Len(stores)
      /\ DOMAIN torn' = DOMAIN torn /\ lost \subseteq lost'
      /\ \A s \in DOMAIN torn : torn[s] \subseteq torn'[s]
      /\ req[h].pc \in Writing =>
           /\ req[h].pc \in {"index", "apply"}
                => Unapplied(req[h]) \subseteq torn'[req[h].store]
           /\ Applied(h) => req[h].rev \in lost'
  <2>1. CASE LeaveBehind({h})
    BY <2>1, Behind
  <2>2. CASE UNCHANGED <<torn, lost>> /\ req[h].pc \notin Writing
    BY <1>1, <2>2 DEF Types
  <2> QED
    BY <2>1, <2>2
<1>5. RepoPart'
  BY <1>4, KeepsRepo DEF Only
<1>6. Types'
  BY <1>1, <1>4 DEF Types, Only
<1> QED
  BY <1>3, <1>5, <1>6 DEF Inv

(* A request that is replaced in the map of requests. *)
LEMMA Replace ==
    ASSUME Types, NEW h \in Handlers, NEW r, req' = [req EXCEPT ![h] = r]
    PROVE  Only(h) /\ req'[h] = r
BY DEF Types, Only

(* A request that is over. *)
LEMMA IdleOK ==
    ASSUME NEW n, NEW m, NEW v
    PROVE  ReqOK(Idle, n, m, v) /\ Idle.pc = "idle"
BY DEF Idle, ReqOK, Pcs, Writing

(* A request that stops with an error. *)
LEMMA AbandonInv ==
    ASSUME Inv, NEW h \in Handlers, Abandon(h),
           UNCHANGED <<stores, log, revs, dir, cache, locks>>, unguarded \subseteq unguarded'
    PROVE  Inv'
<1>1. Types /\ Requests /\ LockPart /\ LeaveBehind({h})
  BY DEF Inv, Abandon
<1>2. /\ dir' \in 0..Len(stores) /\ cache' \in 0..Len(stores)
      /\ holder \in Seq(Handlers \cup {NoHandler}) /\ locks' \in 0..Len(holder)
      /\ Len(holder) \in Nat
  BY <1>1, Parts DEF Types
<1>3. /\ Only(h) /\ ReqOK(req'[h], Len(stores), Len(holder'), revs)
      /\ req'[h].pc \notin Writing
      /\ LockPart' /\ holder' \in Seq(Handlers \cup {NoHandler}) /\ Len(holder') = Len(holder)
  <2>1. CASE req[h].kind = "create" /\ req[h].pc # "remove"
    <3>1. req' = [req EXCEPT ![h] = [pc |-> "destroy", kind |-> "create"]] /\ holder' = holder
      BY <2>1 DEF Abandon
    <3>2. Only(h) /\ req'[h] = [pc |-> "destroy", kind |-> "create"]
      BY <1>1, <3>1, Replace
    <3>3. /\ ReqOK(req'[h], Len(stores), Len(holder'), revs)
          /\ req'[h].pc \notin {"open"} \cup Working \cup Writing /\ Keeps(req'[h])
      BY <3>2 DEF ReqOK, Pcs, Writing, Working, Keeps
    <3>4. /\ LockPart' /\ holder' \in Seq(Handlers \cup {NoHandler})
          /\ Len(holder') = Len(holder)
      BY <1>1, <3>1, <3>2, <3>3, KeepsLocks
    <3> QED
      BY <3>2, <3>3, <3>4
  <2>2. CASE ~(req[h].kind = "create" /\ req[h].pc # "remove")
    <3>1. req' = [req EXCEPT ![h] = Idle] /\ holder' = Release(h)
      BY <2>2 DEF Abandon
    <3>2. Only(h) /\ req'[h] = Idle
      BY <1>1, <3>1, Replace
    <3>3. /\ ReqOK(req'[h], Len(stores), Len(holder'), revs)
          /\ req'[h].pc \notin {"open"} \cup Working \cup Writing
      BY <3>2, IdleOK DEF Working, Writing
    <3>4. /\ LockPart' /\ holder' \in Seq(Handlers \cup {NoHandler})
          /\ Len(holder') = Len(holder)
      BY <1>1, <3>1, <3>2, <3>3, FreesLocks
    <3> QED
      BY <3>2, <3>3, <3>4
  <2> QED
    BY <2>1, <2>2
<1>4. Len(holder) <= Len(holder') /\ locks' \in 0..Len(holder')
  BY <1>2, <1>3
<1> QED
  BY <1>1, <1>2, <1>3, <1>4, StepInv

(* A step of one request, away from its commit, that leaves the mutexes.   *)
LEMMA QuietInv ==
    ASSUME Inv, NEW h \in Handlers, Only(h),
           UNCHANGED <<stores, log, revs, torn, lost, holder, locks>>,
           unguarded \subseteq unguarded',
           dir' \in 0..Len(stores), cache' \in 0..Len(stores),
           req[h].pc \notin Writing, req'[h].pc \notin Writing,
           ReqOK(req'[h], Len(stores), Len(holder), revs),
           Keeps(req[h]) => Keeps(req'[h]),
           req'[h].pc \in {"open"} \cup Working /\ req'[h].kind # "read"
             => holder[req'[h].lock] = h,
           req'[h].pc \in Working /\ req'[h].kind # "read" /\ req'[h].store \notin unguarded'
             => req'[h].lock = locks
    PROVE  Inv'
<1>1. Types /\ Requests /\ LockPart
  BY DEF Inv
<1>2. LockPart' /\ holder' \in Seq(Handlers \cup {NoHandler}) /\ Len(holder') = Len(holder)
  BY <1>1, KeepsLocks
<1>3. locks' \in 0..Len(holder') /\ Len(holder) <= Len(holder')
  BY <1>1, Parts DEF Types
<1> QED
  BY <1>2, <1>3, StepInv

(* The mutex of the DID, for a request that holds none. *)
LEMMA DidLockParts ==
    ASSUME Types, Requests, LockPart, NEW h \in Handlers, NEW r, DidLock(h, r),
           unguarded \subseteq unguarded', ~Keeps(req[h]),
           r.pc = "lock", "pc" \in DOMAIN r
    PROVE  /\ Only(h)
           /\ \E l \in 1..Len(holder') : req'[h] = With(r, "lock", l)
           /\ LockPart' /\ holder' \in Seq(Handlers \cup {NoHandler})
           /\ Len(holder) <= Len(holder') /\ locks' \in 0..Len(holder')
<1>1. /\ holder \in Seq(Handlers \cup {NoHandler}) /\ locks \in 0..Len(holder)
      /\ Len(holder) \in Nat /\ DOMAIN holder = 1..Len(holder)
      /\ \A l \in 1..Len(holder) : holder[l] \in Handlers \cup {NoHandler}
  BY Parts DEF Types
<1>2. \A l : With(r, "lock", l).pc = "lock"
  BY DEF With
<1>3. CASE locks # None
  <2>1. req' = [req EXCEPT ![h] = With(r, "lock", locks)] /\ UNCHANGED <<locks, holder>>
    BY <1>3 DEF DidLock
  <2>2. Only(h) /\ req'[h] = With(r, "lock", locks)
    BY <2>1, Replace
  <2>3. req'[h].pc = "lock"
    BY <1>2, <2>2
  <2>4. LockPart'
    BY <2>1, <2>2, <2>3, KeepsLocks DEF Working, Writing
  <2> QED
    BY <1>1, <1>3, <2>1, <2>2, <2>4 DEF None
<1>4. CASE locks = None
  <2> DEFINE new == Len(holder) + 1
  <2>1. /\ req' = [req EXCEPT ![h] = With(r, "lock", new)]
        /\ locks' = new /\ holder' = Append(holder, NoHandler)
    BY <1>4 DEF DidLock
  <2>2. Only(h) /\ req'[h] = With(r, "lock", new)
    BY <2>1, Replace
  <2>3. req'[h].pc = "lock"
    BY <1>2, <2>2
  <2>4. /\ holder' \in Seq(Handlers \cup {NoHandler}) /\ Len(holder') = new
        /\ \A l \in 1..Len(holder) : holder'[l] = holder[l]
        /\ holder'[new] = NoHandler /\ DOMAIN holder' = 1..new
    BY <1>1, <2>1, AppendProperties
  <2>5. ASSUME NEW g \in Handlers, req'[g].pc \in Working \cup {"open"}, req'[g].kind # "read"
        PROVE  g # h /\ req'[g] = req[g] /\ req[g].lock \in 1..Len(holder)
    <3>1. g # h /\ req'[g] = req[g]
      BY <2>2, <2>3, <2>5 DEF Only, Working, Writing
    <3>2. CASE req[g].pc = "open"
      BY <2>5, <3>1, <3>2 DEF Requests, ReqOK
    <3>3. CASE req[g].pc \in Working
      BY <2>5, <3>1, <3>3, WorkParts
    <3> QED
      BY <2>5, <3>1, <3>2, <3>3
  <2>6. Held'
    <3> SUFFICES ASSUME NEW l \in 1..new, holder'[l] # NoHandler
                 PROVE  Keeps(req'[holder'[l]])
      BY <2>4 DEF Held
    <3>1. l \in 1..Len(holder) /\ holder'[l] = holder[l] /\ holder[l] \in Handlers
      BY <1>1, <2>4
    <3>2. Keeps(req[holder[l]])
      BY <1>1, <3>1 DEF LockPart, Held
    <3> QED
      BY <2>2, <3>1, <3>2 DEF Only
  <2>7. Holding'
    BY <2>4, <2>5 DEF LockPart, Holding
  <2>8. Guarding'
    <3> SUFFICES ASSUME NEW g \in Handlers, req'[g].pc \in Working, req'[g].kind # "read",
                        req'[g].store \notin unguarded'
                 PROVE  FALSE
      BY DEF Guarding
    <3>1. req[g].lock = locks
      BY <2>5 DEF LockPart, Guarding
    <3> QED
      BY <1>4, <2>5, <3>1 DEF None
  <2> QED
    BY <1>1, <2>1, <2>2, <2>4, <2>6, <2>7, <2>8 DEF LockPart
<1> QED
  BY <1>3, <1>4

(* A request asks for the lock. *)
LEMMA StartWriteInv ==
    ASSUME Inv, NEW h \in Handlers, NEW bs \in SUBSET Batches, NEW b \in BOOLEAN,
           StartWrite(h, bs, b)
    PROVE  Inv'
<1>1. Types /\ Requests /\ LockPart
  BY DEF Inv
<1>2. /\ dir' \in 0..Len(stores) /\ cache' \in 0..Len(stores) /\ revs \in Nat
  BY <1>1 DEF Types, StartWrite
<1>3. PICK batch \in bs, swap \in {None, revs} :
        DidLock(h, [pc |-> "lock", kind |-> "write", batch |-> batch,
                    swap |-> swap, single |-> b])
  BY DEF StartWrite
<1>4. PICK r : r = [pc |-> "lock", kind |-> "write", batch |-> batch, swap |-> swap, single |-> b]
  OBVIOUS
<1>5. /\ DOMAIN r = {"pc", "kind", "batch", "swap", "single"} /\ r.pc = "lock"
      /\ r.kind = "write" /\ r.batch = batch /\ r.swap = swap
  BY <1>4
<1>6. req[h].pc = "idle" /\ ~Keeps(req[h]) /\ req[h].pc \notin Writing
  BY DEF StartWrite, Idle, Keeps, Working, Writing
<1>7. UNCHANGED <<stores, log, revs, torn, lost>> /\ unguarded \subseteq unguarded'
  BY DEF StartWrite
<1>8. DidLock(h, r)
  BY <1>3, <1>4
<1>9. /\ Only(h)
      /\ \E l \in 1..Len(holder') : req'[h] = With(r, "lock", l)
      /\ LockPart' /\ holder' \in Seq(Handlers \cup {NoHandler})
      /\ Len(holder) <= Len(holder') /\ locks' \in 0..Len(holder')
  BY <1>1, <1>5, <1>6, <1>7, <1>8, DidLockParts
<1>10. PICK l \in 1..Len(holder') : req'[h] = With(r, "lock", l)
  BY <1>9
<1>11. /\ DOMAIN req'[h] = DOMAIN r \cup {"lock"} /\ req'[h].lock = l
       /\ \A x \in DOMAIN r : x # "lock" => req'[h][x] = r[x]
  BY <1>10 DEF With
<1>12. /\ req'[h].pc = "lock" /\ req'[h].kind = "write" /\ req'[h].batch = batch
       /\ req'[h].swap = swap
       /\ DOMAIN req'[h] = {"pc", "kind", "batch", "swap", "single", "lock"}
  BY <1>5, <1>11
<1>13. swap \in Nat /\ batch \in Batches
  BY <1>2 DEF None
<1>14. ReqOK(req'[h], Len(stores), Len(holder'), revs) /\ req'[h].pc \notin Writing
  BY <1>11, <1>12, <1>13 DEF ReqOK, Pcs, Writing
<1> QED
  BY <1>2, <1>6, <1>7, <1>9, <1>14, StepInv

(* A request moves on with what it knows. *)
LEMMA Moves ==
    ASSUME Types, Requests, NEW h \in Handlers, NEW p, req' = [req EXCEPT ![h].pc = p]
    PROVE  /\ Only(h) /\ req'[h].pc = p /\ DOMAIN req'[h] = DOMAIN req[h]
           /\ \A x \in DOMAIN req[h] : x # "pc" => req'[h][x] = req[h][x]
<1>1. "pc" \in DOMAIN req[h]
  BY DEF Requests, ReqOK
<1> QED
  BY <1>1 DEF Types, Only

LEMMA LockInv ==
    ASSUME Inv, NEW h \in Handlers, Lock(h)
    PROVE  Inv'
<1>1. Types /\ Requests /\ LockPart
  BY DEF Inv
<1>2. /\ dir' \in 0..Len(stores) /\ cache' \in 0..Len(stores)
      /\ holder \in Seq(Handlers \cup {NoHandler}) /\ locks' \in 0..Len(holder)
      /\ Len(holder) \in Nat /\ DOMAIN holder = 1..Len(holder)
      /\ \A l \in 1..Len(holder) : holder[l] \in Handlers \cup {NoHandler}
  BY <1>1, Parts DEF Types, Lock
<1>3. /\ Only(h) /\ req'[h].pc = "open" /\ DOMAIN req'[h] = DOMAIN req[h]
      /\ \A x \in DOMAIN req[h] : x # "pc" => req'[h][x] = req[h][x]
  BY <1>1, Moves DEF Lock
<1>4. ReqOK(req[h], Len(stores), Len(holder), revs) /\ req[h].pc = "lock"
  BY <1>1 DEF Requests, Lock
<1>5. /\ req[h].kind \in {"write", "create"} /\ {"kind", "lock"} \subseteq DOMAIN req[h]
      /\ req[h].lock \in 1..Len(holder)
  BY <1>4 DEF ReqOK
<1>6. req'[h].kind = req[h].kind /\ req'[h].lock = req[h].lock
  BY <1>3, <1>5
<1>7. req[h].kind = "write" => /\ {"batch", "swap"} \subseteq DOMAIN req[h]
                               /\ req[h].batch \in Batches /\ req[h].swap \in Nat
  BY <1>4 DEF ReqOK
<1>8. req[h].kind = "write" => req'[h].batch = req[h].batch /\ req'[h].swap = req[h].swap
  BY <1>3, <1>7
<1> DEFINE l == req[h].lock
<1>9. holder' = [holder EXCEPT ![l] = h] /\ holder[l] = NoHandler
  BY DEF Lock
<1>10. holder' \in Seq(Handlers \cup {NoHandler}) /\ Len(holder') = Len(holder)
  BY <1>2, <1>5, <1>9, ExceptSeq
<1>11. \A k \in 1..Len(holder) : holder'[k] = IF k = l THEN h ELSE holder[k]
  BY <1>2, <1>9
<1>12. ReqOK(req'[h], Len(stores), Len(holder), revs) /\ req'[h].pc \notin Working \cup Writing
  BY <1>3, <1>4, <1>5, <1>6, <1>7, <1>8 DEF ReqOK, Pcs, Working, Writing
<1>13. Held'
  <2>1. Keeps(req'[h])
    BY <1>3, <1>5, <1>6 DEF Keeps
  <2> SUFFICES ASSUME NEW k \in 1..Len(holder), holder'[k] # NoHandler
               PROVE  Keeps(req'[holder'[k]])
    BY <1>2, <1>9 DEF Held
  <2>2. CASE holder'[k] = h
    BY <2>1, <2>2
  <2>3. CASE holder'[k] # h
    <3>1. holder'[k] = holder[k] /\ holder[k] \in Handlers /\ Keeps(req[holder[k]])
      BY <1>1, <1>2, <1>11, <2>3 DEF LockPart, Held
    <3> QED
      BY <1>3, <2>3, <3>1 DEF Only
  <2> QED
    BY <2>2, <2>3
<1>14. Holding'
  <2> SUFFICES ASSUME NEW g \in Handlers, req'[g].pc \in {"open"} \cup Working,
                      req'[g].kind # "read"
               PROVE  holder'[req'[g].lock] = g
    BY DEF Holding
  <2>1. CASE g = h
    BY <1>5, <1>6, <1>11, <2>1
  <2>2. CASE g # h
    <3>1. req'[g] = req[g] /\ holder[req[g].lock] = g
      BY <1>1, <1>3, <2>2 DEF Only, LockPart, Holding
    <3>2. req[g].lock \in 1..Len(holder)
      <4>1. CASE req[g].pc = "open"
        BY <1>1, <3>1, <4>1 DEF Requests, ReqOK
      <4>2. CASE req[g].pc \in Working
        BY <1>1, <3>1, <4>2, WorkParts
      <4> QED
        BY <3>1, <4>1, <4>2
    <3>3. req[g].lock # l
      BY <1>9, <3>1, ActorStoreAssumption
    <3> QED
      BY <1>11, <3>1, <3>2, <3>3
  <2> QED
    BY <2>1, <2>2
<1>15. Guarding'
  BY <1>1, <1>3, <1>12 DEF LockPart, Guarding, Only, Lock
<1>16. /\ UNCHANGED <<stores, log, revs, torn, lost>> /\ unguarded \subseteq unguarded'
       /\ req[h].pc \notin Writing
  BY <1>4 DEF Lock, Writing
<1>17. Len(holder) <= Len(holder') /\ locks' \in 0..Len(holder') /\ LockPart'
       /\ ReqOK(req'[h], Len(stores), Len(holder'), revs)
  BY <1>2, <1>10, <1>12, <1>13, <1>14, <1>15 DEF LockPart
<1> QED
  BY <1>2, <1>3, <1>10, <1>12, <1>16, <1>17, StepInv

LEMMA OpenDbInv ==
    ASSUME Inv, NEW h \in Handlers, OpenDb(h)
    PROVE  Inv'
<1>1. Types /\ Requests /\ LockPart
  BY DEF Inv
<1>2. /\ dir \in 0..Len(stores) /\ cache \in 0..Len(stores) /\ Len(stores) \in Nat
      /\ UNCHANGED <<stores, log, revs, dir, cache, locks>> /\ unguarded \subseteq unguarded'
  BY <1>1, Parts DEF Types, OpenDb
<1>3. ReqOK(req[h], Len(stores), Len(holder), revs) /\ req[h].pc = "open"
  BY <1>1 DEF Requests, OpenDb
<1>4. /\ {"pc", "kind"} \subseteq DOMAIN req[h] /\ req[h].kind \in {"write", "create", "read"}
      /\ req[h].kind # "read" => "lock" \in DOMAIN req[h] /\ req[h].lock \in 1..Len(holder)
      /\ req[h].kind = "write" => /\ {"batch", "swap"} \subseteq DOMAIN req[h]
                                  /\ req[h].batch \in Batches /\ req[h].swap \in Nat
  BY <1>3 DEF ReqOK
<1>5. req[h].kind # "read" => holder[req[h].lock] = h
  BY <1>1, <1>3 DEF LockPart, Holding
<1>6. unguarded' = unguarded \cup
             IF req[h].kind = "read" \/ req[h].lock = locks THEN {} ELSE {cache, dir} \ {None}
  BY DEF OpenDb
<1>7. CASE cache = None /\ dir = None /\ Abandon(h)
  BY <1>2, <1>7, AbandonInv
<1>8. ASSUME NEW s \in {cache, dir} \ {None}, NEW p \in {"warm", AfterOpen(req[h])},
             req' = [req EXCEPT ![h] = With([req[h] EXCEPT !.pc = p], "store", s)],
             UNCHANGED <<holder, torn, lost>>
      PROVE  Inv'
  <2>1. Only(h) /\ req'[h] = With([req[h] EXCEPT !.pc = p], "store", s)
    BY <1>1, <1>8, Replace
  <2>2. /\ DOMAIN req'[h] = DOMAIN req[h] \cup {"store"}
        /\ req'[h].pc = p /\ req'[h].store = s
        /\ \A x \in DOMAIN req[h] : x \notin {"pc", "store"} => req'[h][x] = req[h][x]
    BY <1>4, <2>1 DEF With
  <2>3. /\ req'[h].kind = req[h].kind
        /\ req[h].kind # "read" => req'[h].lock = req[h].lock
        /\ req[h].kind = "write" => req'[h].batch = req[h].batch /\ req'[h].swap = req[h].swap
    BY <1>4, <2>2
  <2>4. p \in {"warm", "root", "key"} /\ (p = "root" => req[h].kind = "read")
        /\ (p = "key" => req[h].kind # "read")
    BY <1>8 DEF AfterOpen
  <2>5. s \in 1..Len(stores)
    BY <1>2 DEF None
  <2>6. ReqOK(req'[h], Len(stores), Len(holder), revs)
    BY <1>4, <2>2, <2>3, <2>4, <2>5 DEF ReqOK, Pcs, Writing
  <2>7. /\ Keeps(req[h]) => Keeps(req'[h])
        /\ req[h].pc \notin Writing /\ req'[h].pc \notin Writing
    BY <1>3, <2>2, <2>3, <2>4 DEF Keeps, Working, Writing
  <2>8. req'[h].kind # "read" => holder[req'[h].lock] = h
    BY <1>5, <2>3
  <2>9. req'[h].kind # "read" /\ req'[h].store \notin unguarded' => req'[h].lock = locks
    BY <1>6, <2>2, <2>3
  <2>10. UNCHANGED <<stores, log, revs, torn, lost, holder, locks>>
    BY <1>2, <1>8
  <2> QED
    BY <1>2, <2>1, <2>6, <2>7, <2>8, <2>9, <2>10, QuietInv
<1> QED
  BY <1>7, <1>8 DEF OpenDb, Exists

LEMMA CachePutInv ==
    ASSUME Inv, NEW h \in Handlers, CachePut(h)
    PROVE  Inv'
<1>1. Types /\ Requests /\ LockPart
  BY DEF Inv
<1>2. ReqOK(req[h], Len(stores), Len(holder), revs) /\ req[h].pc = "warm"
  BY <1>1 DEF Requests, CachePut
<1>3. /\ {"pc", "kind", "store"} \subseteq DOMAIN req[h]
      /\ req[h].kind \in {"write", "create", "read"} /\ req[h].store \in 1..Len(stores)
      /\ req[h].kind # "read" => "lock" \in DOMAIN req[h] /\ req[h].lock \in 1..Len(holder)
      /\ req[h].kind = "write" => /\ {"batch", "swap"} \subseteq DOMAIN req[h]
                                  /\ req[h].batch \in Batches /\ req[h].swap \in Nat
  BY <1>2 DEF ReqOK
<1>4. /\ Only(h) /\ req'[h].pc = AfterOpen(req[h]) /\ DOMAIN req'[h] = DOMAIN req[h]
      /\ \A x \in DOMAIN req[h] : x # "pc" => req'[h][x] = req[h][x]
  BY <1>1, Moves DEF CachePut
<1>5. /\ req'[h].kind = req[h].kind /\ req'[h].store = req[h].store
      /\ req[h].kind # "read" => req'[h].lock = req[h].lock
      /\ req[h].kind = "write" => req'[h].batch = req[h].batch /\ req'[h].swap = req[h].swap
  BY <1>3, <1>4
<1>6. req'[h].pc = IF req[h].kind = "read" THEN "root" ELSE "key"
  BY <1>4 DEF AfterOpen
<1>7. ReqOK(req'[h], Len(stores), Len(holder), revs)
  BY <1>3, <1>4, <1>5, <1>6 DEF ReqOK, Pcs, Writing
<1>8. /\ Keeps(req[h]) => Keeps(req'[h])
      /\ req[h].pc \notin Writing /\ req'[h].pc \notin Writing
  BY <1>2, <1>5, <1>6 DEF Keeps, Working, Writing
<1>9. /\ req'[h].kind # "read" => holder[req'[h].lock] = h
      /\ req'[h].kind # "read" /\ req'[h].store \notin unguarded => req'[h].lock = locks
  BY <1>1, <1>2, <1>5 DEF LockPart, Holding, Guarding, Working
<1>10. /\ UNCHANGED <<stores, log, revs, torn, lost, holder, locks, unguarded>>
       /\ dir' \in 0..Len(stores) /\ cache' \in 0..Len(stores)
  BY <1>1, <1>3, Parts DEF CachePut, Types
<1> QED
  BY <1>4, <1>7, <1>8, <1>9, <1>10, QuietInv

LEMMA LoadKeyInv ==
    ASSUME Inv, NEW h \in Handlers, LoadKey(h)
    PROVE  Inv'
<1>1. Types /\ Requests /\ LockPart
  BY DEF Inv
<1>2. ReqOK(req[h], Len(stores), Len(holder), revs) /\ req[h].pc = "key"
  BY <1>1 DEF Requests, LoadKey
<1>3. /\ {"pc", "kind", "store", "lock"} \subseteq DOMAIN req[h]
      /\ req[h].kind \in {"write", "create"} /\ req[h].store \in 1..Len(stores)
      /\ req[h].lock \in 1..Len(holder)
      /\ req[h].kind = "write" => /\ {"batch", "swap"} \subseteq DOMAIN req[h]
                                  /\ req[h].batch \in Batches /\ req[h].swap \in Nat
  BY <1>2 DEF ReqOK
<1>4. UNCHANGED <<stores, dir, cache, locks, revs, log, unguarded>>
  BY DEF LoadKey
<1>5. CASE Abandon(h)
  BY <1>4, <1>5, AbandonInv
<1>6. CASE /\ req' = [req EXCEPT ![h].pc = IF req[h].kind = "create" THEN "init" ELSE "format"]
           /\ UNCHANGED <<holder, torn, lost>>
  <2> DEFINE p == IF req[h].kind = "create" THEN "init" ELSE "format"
  <2>1. /\ Only(h) /\ req'[h].pc = p /\ DOMAIN req'[h] = DOMAIN req[h]
        /\ \A x \in DOMAIN req[h] : x # "pc" => req'[h][x] = req[h][x]
    BY <1>1, <1>6, Moves
  <2>2. /\ req'[h].kind = req[h].kind /\ req'[h].store = req[h].store
        /\ req'[h].lock = req[h].lock
        /\ req[h].kind = "write" => req'[h].batch = req[h].batch /\ req'[h].swap = req[h].swap
    BY <1>3, <2>1
  <2>3. ReqOK(req'[h], Len(stores), Len(holder), revs)
    BY <1>3, <2>1, <2>2 DEF ReqOK, Pcs, Writing
  <2>4. /\ Keeps(req[h]) => Keeps(req'[h])
        /\ req[h].pc \notin Writing /\ req'[h].pc \notin Writing
    BY <1>2, <2>1, <2>2 DEF Keeps, Working, Writing
  <2>5. /\ req'[h].kind # "read" => holder[req'[h].lock] = h
        /\ req'[h].kind # "read" /\ req'[h].store \notin unguarded => req'[h].lock = locks
    BY <1>1, <1>2, <2>2 DEF LockPart, Holding, Guarding, Working
  <2>6. /\ UNCHANGED <<stores, log, revs, torn, lost, holder, locks, unguarded>>
        /\ dir' \in 0..Len(stores) /\ cache' \in 0..Len(stores)
    BY <1>1, <1>4, <1>6 DEF Types
  <2> QED
    BY <2>1, <2>3, <2>4, <2>5, <2>6, QuietInv
<1> QED
  BY <1>5, <1>6 DEF LoadKey

(* A request that is outside the transactor before and after, and holds no *)
(* mutex that it does not keep.                                            *)
LEMMA OutsideInv ==
    ASSUME Inv, NEW h \in Handlers, Only(h),
           UNCHANGED <<stores, log, revs, torn, lost, holder, locks, unguarded, dir>>,
           cache' \in {cache, None}, req[h].pc \notin Writing,
           req'[h].pc \in {"open"} \cup Working \cup Writing =>
             req'[h].pc = "open" /\ req'[h].kind = "read",
           ReqOK(req'[h], Len(stores), Len(holder), revs),
           Keeps(req[h]) => Keeps(req'[h])
    PROVE  Inv'
<1>1. dir' \in 0..Len(stores) /\ cache' \in 0..Len(stores)
  BY Parts DEF Inv, Types, None
<1>2. req'[h].pc \notin Writing \cup Working
  BY DEF Writing, Working
<1> QED
  BY <1>1, <1>2, QuietInv

LEMMA ReadsInv ==
    ASSUME Inv, NEW h \in Handlers, StartRead(h) \/ ReadRoot(h) \/ ReadBlocks(h)
    PROVE  Inv'
<1>1. Types /\ Requests /\ ReqOK(req[h], Len(stores), Len(holder), revs)
  BY DEF Inv, Requests
<1>2. CASE StartRead(h)
  <2>1. req' = [req EXCEPT ![h] = [pc |-> "open", kind |-> "read"]]
    BY <1>2 DEF StartRead
  <2>2. Only(h) /\ req'[h] = [pc |-> "open", kind |-> "read"]
    BY <1>1, <2>1, Replace
  <2>3. ReqOK(req'[h], Len(stores), Len(holder), revs)
    BY <2>2 DEF ReqOK, Pcs, Writing
  <2>4. ~Keeps(req[h]) /\ req[h].pc \notin Writing
    BY <1>2 DEF StartRead, Idle, Keeps, Working, Writing
  <2> QED
    BY <1>2, <2>2, <2>3, <2>4, OutsideInv DEF StartRead, Working, Writing
<1>3. CASE ReadRoot(h)
  <2>1. /\ {"pc", "kind", "store"} \subseteq DOMAIN req[h] /\ req[h].kind = "read"
        /\ req[h].store \in 1..Len(stores) /\ req[h].pc = "root"
    BY <1>1, <1>3 DEF ReqOK, ReadRoot
  <2>2. PICK v : req' = [req EXCEPT ![h] = With([req[h] EXCEPT !.pc = "read"], "root", v)]
    BY <1>3 DEF ReadRoot
  <2>3. Only(h) /\ req'[h] = With([req[h] EXCEPT !.pc = "read"], "root", v)
    BY <1>1, <2>2, Replace
  <2>4. /\ req'[h].pc = "read" /\ req'[h].kind = "read" /\ req'[h].store = req[h].store
        /\ {"pc", "kind", "store"} \subseteq DOMAIN req'[h]
    BY <2>1, <2>3 DEF With
  <2>5. ReqOK(req'[h], Len(stores), Len(holder), revs)
    BY <2>1, <2>4 DEF ReqOK, Pcs, Writing
  <2>6. ~Keeps(req[h]) /\ req[h].pc \notin Writing /\ req'[h].pc \notin Working \cup Writing
    BY <2>1, <2>4 DEF Keeps, Working, Writing
  <2> QED
    BY <1>3, <2>3, <2>4, <2>5, <2>6, OutsideInv DEF ReadRoot
<1>4. CASE ReadBlocks(h)
  <2>1. Only(h) /\ req'[h] = Idle
    BY <1>1, <1>4, Replace DEF ReadBlocks
  <2>2. ReqOK(req'[h], Len(stores), Len(holder), revs) /\ req'[h].pc = "idle"
    BY <2>1, IdleOK
  <2>3. ~Keeps(req[h]) /\ req[h].pc \notin Writing
    BY <1>4 DEF ReadBlocks, Keeps, Working, Writing
  <2> QED
    BY <1>4, <2>1, <2>2, <2>3, OutsideInv DEF ReadBlocks, Working, Writing
<1> QED
  BY <1>2, <1>3, <1>4

LEMMA CreatesInv ==
    ASSUME Inv, NEW h \in Handlers, StartCreate(h) \/ CreateRows(h)
    PROVE  Inv'
<1>1. Types /\ Requests
  BY DEF Inv
<1>2. CASE StartCreate(h)
  <2>1. Only(h) /\ req'[h] = [pc |-> "create", kind |-> "create"]
    BY <1>1, <1>2, Replace DEF StartCreate
  <2>2. ReqOK(req'[h], Len(stores), Len(holder), revs)
    BY <2>1 DEF ReqOK, Pcs, Writing
  <2>3. ~Keeps(req[h]) /\ req[h].pc \notin Writing
    BY <1>2 DEF StartCreate, Idle, Keeps, Working, Writing
  <2> QED
    BY <1>2, <2>1, <2>2, <2>3, OutsideInv DEF StartCreate, Working, Writing
<1>3. CASE CreateRows(h) /\ Abandon(h)
  BY <1>3, AbandonInv DEF CreateRows
<1>4. CASE CreateRows(h) /\ req' = [req EXCEPT ![h] = Idle] /\ UNCHANGED <<holder, torn, lost>>
  <2>1. Only(h) /\ req'[h] = Idle
    BY <1>1, <1>4, Replace
  <2>2. ReqOK(req'[h], Len(stores), Len(holder), revs) /\ req'[h].pc = "idle"
    BY <2>1, IdleOK
  <2>3. ~Keeps(req[h]) /\ req[h].pc \notin Writing
    BY <1>4 DEF CreateRows, Keeps, Working, Writing
  <2> QED
    BY <1>4, <2>1, <2>2, <2>3, OutsideInv DEF CreateRows, Working, Writing
<1> QED
  BY <1>2, <1>3, <1>4 DEF CreateRows

LEMMA DeletesInv ==
    ASSUME Inv, NEW h \in Handlers, StartDelete(h) \/ PopCache(h) \/ DeleteRows(h)
    PROVE  Inv'
<1>1. Types /\ Requests /\ ReqOK(req[h], Len(stores), Len(holder), revs)
  BY DEF Inv, Requests
<1>2. CASE StartDelete(h)
  <2>1. Only(h) /\ req'[h] = [pc |-> "destroy", kind |-> "delete"]
    BY <1>1, <1>2, Replace DEF StartDelete
  <2>2. ReqOK(req'[h], Len(stores), Len(holder), revs)
    BY <2>1 DEF ReqOK, Pcs, Writing
  <2>3. ~Keeps(req[h]) /\ req[h].pc \notin Writing
    BY <1>2 DEF StartDelete, Idle, Keeps, Working, Writing
  <2> QED
    BY <1>2, <2>1, <2>2, <2>3, OutsideInv DEF StartDelete, Working, Writing
<1>3. CASE PopCache(h)
  <2>1. req[h].pc = "destroy" /\ req[h].kind \in {"create", "delete"} /\ "kind" \in DOMAIN req[h]
    BY <1>1, <1>3 DEF ReqOK, PopCache
  <2>2. /\ Only(h) /\ req'[h].pc = "unlock" /\ DOMAIN req'[h] = DOMAIN req[h]
        /\ \A x \in DOMAIN req[h] : x # "pc" => req'[h][x] = req[h][x]
    BY <1>1, <1>3, Moves DEF PopCache
  <2>3. req'[h].kind = req[h].kind
    BY <2>1, <2>2
  <2>4. ReqOK(req'[h], Len(stores), Len(holder), revs)
    BY <1>1, <2>1, <2>2, <2>3 DEF ReqOK, Pcs, Writing
  <2>5. Keeps(req'[h]) /\ req[h].pc \notin Writing
    BY <2>1, <2>2, <2>3 DEF Keeps, Writing
  <2> QED
    BY <1>3, <2>2, <2>4, <2>5, OutsideInv DEF PopCache, Working, Writing
<1>4. CASE DeleteRows(h)
  <2>1. Only(h) /\ req'[h] = Idle
    BY <1>1, <1>4, Replace DEF DeleteRows
  <2>2. ReqOK(req'[h], Len(stores), Len(holder), revs) /\ req'[h].pc = "idle"
    BY <2>1, IdleOK
  <2>3. ~Keeps(req[h]) /\ req[h].pc \notin Writing
    BY <1>4 DEF DeleteRows, Keeps, Working, Writing
  <2> QED
    BY <1>4, <2>1, <2>2, <2>3, OutsideInv DEF DeleteRows, Working, Writing
<1> QED
  BY <1>2, <1>3, <1>4

(* destroy drops the lock: everything that is open is without it from then *)
(* on.                                                                     *)
LEMMA RemoveLockInv ==
    ASSUME Inv, NEW h \in Handlers, RemoveLock(h)
    PROVE  Inv'
<1>1. Types /\ Requests /\ LockPart /\ ReqOK(req[h], Len(stores), Len(holder), revs)
  BY DEF Inv, Requests
<1>2. req[h].pc = "unlock" /\ req[h].kind \in {"create", "delete"} /\ "kind" \in DOMAIN req[h]
  BY <1>1 DEF ReqOK, RemoveLock
<1>3. /\ Only(h) /\ req'[h].pc = "remove" /\ DOMAIN req'[h] = DOMAIN req[h]
      /\ \A x \in DOMAIN req[h] : x # "pc" => req'[h][x] = req[h][x]
  BY <1>1, Moves DEF RemoveLock
<1>4. req'[h].kind = req[h].kind
  BY <1>2, <1>3
<1>5. ReqOK(req'[h], Len(stores), Len(holder'), revs)
  BY <1>1, <1>2, <1>3, <1>4 DEF ReqOK, Pcs, Writing, RemoveLock
<1>6. Keeps(req'[h]) /\ req[h].pc \notin Writing /\ req'[h].pc \notin {"open"} \cup Working \cup Writing
  BY <1>2, <1>3, <1>4 DEF Keeps, Writing, Working
<1>7. /\ UNCHANGED <<stores, log, revs, torn, lost, holder, dir, cache>>
      /\ unguarded' = unguarded \cup (Open \ {None}) /\ locks' = None
  BY DEF RemoveLock
<1>8. Held' /\ Holding'
  <2>1. Held'
    BY <1>1, <1>3, <1>6, <1>7, Parts DEF LockPart, Held, Only
  <2>2. Holding'
    BY <1>1, <1>3, <1>6, <1>7 DEF LockPart, Holding, Only
  <2> QED
    BY <2>1, <2>2
<1>9. Guarding'
  <2> SUFFICES ASSUME NEW g \in Handlers, req'[g].pc \in Working,
                      req'[g].store \notin unguarded'
               PROVE  FALSE
    BY DEF Guarding
  <2>1. req'[g] = req[g]
    BY <1>3, <1>6 DEF Only
  <2>2. req[g].store \in 1..Len(stores) /\ "store" \in DOMAIN req[g]
    BY <1>1, <2>1, WorkParts
  <2>3. req[g].store \in Open /\ req[g].store # None
    BY <2>2 DEF Open, None
  <2> QED
    BY <1>7, <2>1, <2>3
<1>10. /\ dir' \in 0..Len(stores) /\ cache' \in 0..Len(stores)
       /\ holder' \in Seq(Handlers \cup {NoHandler}) /\ Len(holder) <= Len(holder')
       /\ locks' \in 0..Len(holder') /\ unguarded \subseteq unguarded'
  BY <1>1, <1>7, Parts DEF Types, None
<1>11. LockPart'
  BY <1>8, <1>9 DEF LockPart
<1> QED
  BY <1>3, <1>5, <1>6, <1>7, <1>10, <1>11, StepInv

LEMMA RemoveDirInv ==
    ASSUME Inv, NEW h \in Handlers, RemoveDir(h)
    PROVE  Inv'
<1>1. Types /\ Requests /\ LockPart
  BY DEF Inv
<1>2. PICK r \in {[pc |-> "rows", kind |-> "delete"], Idle} : req' = [req EXCEPT ![h] = r]
  BY DEF RemoveDir
<1>3. Only(h) /\ req'[h] = r
  BY <1>1, <1>2, Replace
<1>4. /\ ReqOK(req'[h], Len(stores), Len(holder), revs)
      /\ req'[h].pc \notin {"open"} \cup Working \cup Writing
  BY <1>3 DEF Idle, ReqOK, Pcs, Working, Writing
<1>5. /\ UNCHANGED <<stores, cache, locks, revs, log, torn, unguarded, lost>>
      /\ dir' = None /\ req[h].pc \notin Writing /\ holder' = Release(h)
  BY DEF RemoveDir, Writing
<1>6. LockPart' /\ holder' \in Seq(Handlers \cup {NoHandler}) /\ Len(holder') = Len(holder)
  BY <1>1, <1>3, <1>4, <1>5, FreesLocks
<1>7. /\ dir' \in 0..Len(stores) /\ cache' \in 0..Len(stores)
      /\ Len(holder) <= Len(holder') /\ locks' \in 0..Len(holder')
  BY <1>1, <1>5, <1>6, Parts DEF Types, None
<1> QED
  BY <1>3, <1>4, <1>5, <1>6, <1>7, StepInv

LEMMA FaultInv ==
    ASSUME Inv, NEW h \in Handlers, Fault(h)
    PROVE  Inv'
BY AbandonInv DEF Fault

LEMMA EvictInv ==
    ASSUME Inv, Evict
    PROVE  Inv'
<1>1. Types /\ Requests /\ LockPart /\ RepoPart
  BY DEF Inv
<1>2. UNCHANGED <<stores, dir, locks, holder, revs, log, req, torn, unguarded, lost>>
  BY DEF Evict
<1>3. RepoPart'
  BY <1>2, KeepsRepo
<1>4. Types'
  BY <1>1, <1>2, Parts DEF Types, Evict, None
<1>5. Requests' /\ LockPart'
  BY <1>1, <1>2 DEF Requests, LockPart, Held, Holding, Guarding
<1> QED
  BY <1>3, <1>4, <1>5 DEF Inv

(* A restart: every request stops where it is. *)
LEMMA CrashInv ==
    ASSUME Inv, Crash
    PROVE  Inv'
<1>1. Types /\ Requests /\ LeaveBehind(Handlers)
  BY DEF Inv, Crash
<1>2. /\ UNCHANGED <<stores, dir, revs, log, unguarded>> /\ cache' = None /\ locks' = None
      /\ req' = [h \in Handlers |-> Idle] /\ holder' = [l \in DOMAIN holder |-> NoHandler]
  BY DEF Crash
<1>3. /\ torn' \in Seq(SUBSET Uris) /\ Len(torn') = Len(stores)
      /\ DOMAIN torn' = DOMAIN torn /\ lost \subseteq lost'
      /\ \A s \in DOMAIN torn : torn[s] \subseteq torn'[s]
      /\ \A g \in Handlers : req[g].pc \in {"index", "apply"}
                               => Unapplied(req[g]) \subseteq torn'[req[g].store]
      /\ \A g \in Handlers : Applied(g) => req[g].rev \in lost'
  BY <1>1, Behind
<1>4. \A g \in Handlers : req'[g] = Idle /\ req'[g].pc = "idle"
  BY <1>2, IdleOK
<1>5. "idle" \notin {"open"} \cup Working \cup Writing
  BY DEF Working, Writing
<1>6. RepoPart'
  BY <1>2, <1>3, <1>4, <1>5, KeepsRepo
<1>7. Requests'
  BY <1>4, IdleOK DEF Requests
<1>8. LockPart'
  <2>1. Held'
    BY <1>2 DEF Held
  <2>2. Holding' /\ Guarding'
    BY <1>4, <1>5 DEF Holding, Guarding
  <2> QED
    BY <2>1, <2>2 DEF LockPart
<1>9. holder' \in Seq(Handlers \cup {NoHandler}) /\ Len(holder') = Len(holder)
  <2>1. Len(holder) \in Nat /\ DOMAIN holder = 1..Len(holder)
    BY <1>1, Parts
  <2>2. holder' \in [1..Len(holder) -> Handlers \cup {NoHandler}]
    BY <1>2, <2>1
  <2> QED
    BY <2>1, <2>2
<1>10. Types'
  BY <1>1, <1>2, <1>3, <1>9, Parts DEF Types, None
<1> QED
  BY <1>6, <1>7, <1>8, <1>10 DEF Inv

-----------------------------------------------------------------------------
(* What a store that is guarded keeps, one store at a time.                *)
StoreOK(s) ==
    /\ \A u \in Uris \ (torn[s] \cup Indexing(s)) : stores[s].index[u] = stores[s].mst[u]
    /\ \A u \in Uris \ torn[s] : stores[s].mst[u] \in stores[s].blocks \cup {NoCid}
    /\ \A i \in DOMAIN log : log[i].store = s => log[i].rev <= stores[s].root
    /\ \A i \in DOMAIN log :
         Last(i, s) => \/ stores[s].root \in {log[i].rev} \cup lost
                       \/ \E h \in Handlers : Applied(h) /\ req[h].store = s
    /\ \A h \in Handlers : req[h].pc \in Writing /\ req[h].store = s => Good(h)

RootsBelow == \A s \in DOMAIN stores : stores[s].root <= revs

LEMMA ByStore ==
    ASSUME Requests, Types
    PROVE  RepoPart <=> /\ RootsBelow /\ \A s \in DOMAIN stores \ unguarded : StoreOK(s)
                        /\ SequencedInOrder /\ CommitsChain /\ PrevIsTrue
<1>1. DOMAIN stores = 1..Len(stores)
  BY Parts
<1>2. \A h \in Handlers : req[h].pc \in Writing => req[h].store \in DOMAIN stores
  BY <1>1, WorkParts DEF Working
<1>3. ASSUME RepoPart
      PROVE  /\ RootsBelow /\ \A s \in DOMAIN stores \ unguarded : StoreOK(s)
             /\ SequencedInOrder /\ CommitsChain /\ PrevIsTrue
  <2>1. RootsBelow
    BY <1>3 DEF RepoPart, Roots, RootsBelow
  <2>2. ASSUME NEW s \in DOMAIN stores \ unguarded
        PROVE  StoreOK(s)
    <3>1. /\ \A u \in Uris \ (torn[s] \cup Indexing(s)) : stores[s].index[u] = stores[s].mst[u]
          /\ \A u \in Uris \ torn[s] : stores[s].mst[u] \in stores[s].blocks \cup {NoCid}
      BY <1>3 DEF RepoPart, IndexMatchesRepo, RecordBlocksPresent
    <3>2. /\ \A i \in DOMAIN log : log[i].store = s => log[i].rev <= stores[s].root
          /\ \A i \in DOMAIN log :
               Last(i, s) => \/ stores[s].root \in {log[i].rev} \cup lost
                             \/ \E h \in Handlers : Applied(h) /\ req[h].store = s
      BY <1>3 DEF RepoPart, Roots, Chained
    <3>3. \A h \in Handlers : req[h].pc \in Writing /\ req[h].store = s => Good(h)
      BY <1>3 DEF RepoPart, Writers
    <3> QED
      BY <3>1, <3>2, <3>3 DEF StoreOK
  <2> QED
    BY <1>3, <2>1, <2>2 DEF RepoPart
<1>4. ASSUME RootsBelow, \A s \in DOMAIN stores \ unguarded : StoreOK(s),
             SequencedInOrder, CommitsChain, PrevIsTrue
      PROVE  RepoPart
  <2>1. IndexMatchesRepo /\ RecordBlocksPresent
    BY <1>4 DEF StoreOK, IndexMatchesRepo, RecordBlocksPresent
  <2>2. Roots
    BY <1>4 DEF StoreOK, Roots, RootsBelow
  <2>3. Chained
    BY <1>4 DEF StoreOK, Chained
  <2>4. Writers
    BY <1>2, <1>4 DEF StoreOK, Writers
  <2> QED
    BY <1>4, <2>1, <2>2, <2>3, <2>4 DEF RepoPart
<1> QED
  BY <1>3, <1>4

(* A store that a step leaves alone. *)
LEMMA Elsewhere ==
    ASSUME NEW h \in Handlers, NEW s, Only(h), StoreOK(s), UNCHANGED <<log, lost>>,
           stores'[s] = stores[s], torn'[s] = torn[s],
           req[h].pc \in Writing => req[h].store # s,
           req'[h].pc \in Writing => req'[h].store # s
    PROVE  StoreOK(s)'
<1>1. \A g \in Handlers : req[g].pc \in Writing /\ req[g].store = s => req'[g] = req[g]
  BY DEF Only
<1>2. \A g \in Handlers : req'[g].pc \in Writing /\ req'[g].store = s => req'[g] = req[g]
  BY DEF Only
<1>3. ASSUME NEW u, u \in Indexing(s)
      PROVE  u \in Indexing(s)'
  <2>1. PICK g \in Handlers : /\ req[g].pc \in {"index", "apply"} /\ req[g].store = s
                              /\ u \in Unapplied(req[g])
    BY <1>3, IndexingParts
  <2>2. req'[g] = req[g]
    BY <1>1, <2>1 DEF Writing
  <2> QED
    BY <2>1, <2>2 DEF Indexing, Unapplied
<1>4. \A u \in Uris \ (torn'[s] \cup Indexing(s)') : stores'[s].index[u] = stores'[s].mst[u]
  BY <1>3 DEF StoreOK
<1>5. ASSUME NEW i \in DOMAIN log, Last(i, s)
      PROVE  \/ stores[s].root \in {log[i].rev} \cup lost
             \/ \E g \in Handlers : Applied(g)' /\ req'[g].store = s
  <2>1. CASE stores[s].root \in {log[i].rev} \cup lost
    BY <2>1
  <2>2. ASSUME NEW g \in Handlers, Applied(g), req[g].store = s
        PROVE  Applied(g)' /\ req'[g].store = s
    BY <1>1, <2>2 DEF Applied, Writing
  <2> QED
    BY <1>5, <2>1, <2>2 DEF StoreOK
<1>6. ASSUME NEW g \in Handlers, req'[g].pc \in Writing, req'[g].store = s
      PROVE  Good(g)'
  <2>1. req'[g] = req[g]
    BY <1>2, <1>6
  <2>2. Good(g)
    BY <1>6, <2>1 DEF StoreOK
  <2> QED
    BY <1>6, <2>1, <2>2 DEF Good, Applied, Last
<1> QED
  BY <1>4, <1>5, <1>6 DEF StoreOK, Last

(* The same after a step. *)
LEMMA Together ==
    ASSUME Requests', Types', RootsBelow', \A s \in DOMAIN stores' \ unguarded' : StoreOK(s)',
           SequencedInOrder', CommitsChain', PrevIsTrue'
    PROVE  RepoPart'
<1>1. IndexMatchesRepo' /\ RecordBlocksPresent'
  BY DEF StoreOK, IndexMatchesRepo, RecordBlocksPresent
<1>2. Roots'
  BY DEF StoreOK, Roots, RootsBelow
<1>3. Chained'
  BY DEF StoreOK, Chained
<1>4. Writers'
  <2> SUFFICES ASSUME NEW g \in Handlers, req'[g].pc \in Writing, req'[g].store \notin unguarded'
               PROVE  Good(g)'
    BY DEF Writers
  <2>1. ReqOK(req'[g], Len(stores'), Len(holder'), revs')
    BY DEF Requests
  <2>2. req'[g] \in CommitState(Len(stores'), Len(holder'), revs')
    BY <2>1 DEF ReqOK
  <2>3. req'[g].store \in DOMAIN stores'
    BY <2>2 DEF CommitState, Types
  <2> QED
    BY <2>3 DEF StoreOK
<1> QED
  BY <1>1, <1>2, <1>3, <1>4 DEF RepoPart

(* A step of one request that changes one store, s0, and no log.           *)
LEMMA WorkInv ==
    ASSUME Inv, NEW h \in Handlers, Only(h), Types', Requests', LockPart',
           UNCHANGED <<log, lost, unguarded>>, NEW s0 \in 1..Len(stores'),
           \A s \in 1..Len(stores') : s # s0 => /\ s \in 1..Len(stores)
                                                /\ stores'[s] = stores[s] /\ torn'[s] = torn[s],
           req[h].pc \in Writing => req[h].store = s0,
           req'[h].pc \in Writing => req'[h].store = s0,
           revs' \in Nat, revs <= revs', stores'[s0].root <= revs',
           s0 \notin unguarded => StoreOK(s0)'
    PROVE  Inv'
<1>1. Types /\ Requests /\ RepoPart
  BY DEF Inv
<1>2. DOMAIN stores = 1..Len(stores) /\ DOMAIN stores' = 1..Len(stores')
      /\ \A s \in 1..Len(stores) : stores[s].root \in Nat
  <2>1. DOMAIN stores' = 1..Len(stores')
    BY DEF Types
  <2>2. DOMAIN stores = 1..Len(stores) /\ \A s \in 1..Len(stores) : stores[s] \in Store
    BY <1>1, Parts
  <2> QED
    BY <2>1, <2>2 DEF Store
<1>3. /\ RootsBelow /\ \A s \in DOMAIN stores \ unguarded : StoreOK(s)
      /\ SequencedInOrder /\ CommitsChain /\ PrevIsTrue
  BY <1>1, ByStore
<1>4. RootsBelow'
  <2> SUFFICES ASSUME NEW s \in 1..Len(stores')
               PROVE  stores'[s].root <= revs'
    BY <1>2 DEF RootsBelow
  <2>1. CASE s # s0
    <3>1. stores'[s].root = stores[s].root /\ stores[s].root \in Nat /\ stores[s].root <= revs
      BY <1>2, <1>3, <2>1 DEF RootsBelow
    <3>2. revs \in Nat
      BY <1>1 DEF Types
    <3> QED
      BY <3>1, <3>2
  <2> QED
    BY <2>1
<1>5. ASSUME NEW s \in DOMAIN stores' \ unguarded'
      PROVE  StoreOK(s)'
  <2>1. CASE s = s0
    BY <2>1
  <2>2. CASE s # s0
    <3>1. StoreOK(s) /\ stores'[s] = stores[s] /\ torn'[s] = torn[s]
      BY <1>2, <1>3, <2>2
    <3> QED
      BY <2>2, <3>1, Elsewhere
  <2> QED
    BY <2>1, <2>2
<1>6. SequencedInOrder' /\ CommitsChain' /\ PrevIsTrue'
  BY <1>3 DEF SequencedInOrder, CommitsChain, PrevIsTrue, Guarded
<1>7. RepoPart'
  <2>1. \A s \in DOMAIN stores' \ unguarded' : StoreOK(s)'
    BY <1>5
  <2> QED
    BY <1>4, <1>6, <2>1, Together
<1> QED
  BY <1>7 DEF Inv

(* Nobody else writes where a guarded request works. *)
LEMMA NobodyElse ==
    ASSUME Inv, NEW h \in Handlers, req[h].pc \in Working, req[h].kind # "read",
           req[h].store \notin unguarded, NEW g \in Handlers, g # h, req[g].pc \in Writing
    PROVE  req[g].store # req[h].store
<1>1. Types /\ Requests /\ LockPart
  BY DEF Inv
<1>2. req[g] \in CommitState(Len(stores), Len(holder), revs) /\ req[g].pc \in Working
  BY <1>1, WorkParts DEF Working
<1>3. req[g].kind = "write"
  BY <1>2, CommitParts
<1> QED
  BY <1>1, <1>2, <1>3, Alone

(* A request with a commit moves on. *)
LEMMA CommitMoves ==
    ASSUME NEW n, NEW m, NEW v, NEW r \in CommitState(n, m, v), NEW p \in Writing,
           NEW t \in SUBSET Uris
    PROVE  [r EXCEPT !.todo = t, !.pc = p] \in CommitState(n, m, v)
BY DEF CommitState

(* What a request with a commit knows when it has moved on. *)
LEMMA CommitStep ==
    ASSUME Inv, NEW h \in Handlers, req[h].pc \in Writing, NEW p \in Writing,
           NEW t \in SUBSET req[h].todo, p = "apply" => t = {},
           req' = [req EXCEPT ![h].todo = t, ![h].pc = p],
           Len(stores') = Len(stores), UNCHANGED <<holder, locks, revs, unguarded>>
    PROVE  /\ Only(h) /\ req'[h] = [req[h] EXCEPT !.todo = t, !.pc = p]
           /\ Requests' /\ LockPart'
<1>1. Types /\ Requests /\ LockPart /\ ReqOK(req[h], Len(stores), Len(holder), revs)
  BY DEF Inv, Requests
<1>2. /\ req[h] \in CommitState(Len(stores), Len(holder), revs)
      /\ req[h].todo \subseteq DOMAIN req[h].batch
  BY <1>1 DEF ReqOK
<1>3. Only(h) /\ req'[h] = [req[h] EXCEPT !.todo = t, !.pc = p]
  BY <1>1, <1>2 DEF Types, Only, CommitState
<1>4. req[h].todo \in SUBSET Uris
  BY <1>2, CommitParts
<1>5. req'[h] \in CommitState(Len(stores), Len(holder), revs)
  <2>1. PICK r, n, m, v : r = req[h] /\ n = Len(stores) /\ m = Len(holder) /\ v = revs
    OBVIOUS
  <2>2. r \in CommitState(n, m, v) /\ t \in SUBSET Uris
    BY <1>2, <1>4, <2>1
  <2>3. [r EXCEPT !.todo = t, !.pc = p] \in CommitState(n, m, v)
    BY ONLY <2>2, p \in Writing, CommitMoves
  <2> QED
    BY <1>3, <2>1, <2>3
<1>6. /\ req'[h].pc = p /\ req'[h].todo = t /\ req'[h].batch = req[h].batch
      /\ req'[h].lock = req[h].lock /\ req'[h].store = req[h].store
      /\ req'[h].kind = "write" /\ req[h].kind = "write"
  <2>1. {"pc", "todo", "batch", "lock", "store", "kind"} \subseteq DOMAIN req[h]
    BY <1>2 DEF CommitState
  <2>2. req[h].kind = "write"
    BY <1>2, CommitParts
  <2> QED
    BY <1>3, <2>1, <2>2
<1>7. p \in Pcs /\ "pc" \in DOMAIN req'[h] /\ "kind" \in DOMAIN req'[h]
  BY <1>5, CommitParts DEF Writing, Pcs
<1>8. ReqOK(req'[h], Len(stores), Len(holder), revs)
  BY <1>2, <1>5, <1>6, <1>7 DEF ReqOK, Writing
<1>9. Len(stores) \in Nat /\ Len(holder) \in Nat /\ revs \in Nat
  BY <1>1, Parts DEF Types
<1>10. Requests'
  <2>1. /\ Len(stores') \in Nat /\ Len(holder') \in Nat /\ revs' \in Nat
        /\ Len(stores) <= Len(stores') /\ Len(holder) <= Len(holder') /\ revs <= revs'
        /\ ReqOK(req'[h], Len(stores'), Len(holder'), revs')
    BY <1>8, <1>9
  <2> QED
    BY <1>1, <1>3, <2>1, OneRequest
<1>11. LockPart'
  <2>1. Keeps(req'[h]) /\ req[h].pc \in Working
    BY <1>6 DEF Keeps, Working
  <2>2. holder[req'[h].lock] = h /\ (req'[h].store \notin unguarded' => req'[h].lock = locks)
    BY <1>1, <1>6, <2>1 DEF LockPart, Holding, Guarding
  <2> QED
    BY <1>1, <1>3, <2>1, <2>2, KeepsLocks
<1> QED
  BY <1>3, <1>10, <1>11

LEMMA WriteBlobsInv ==
    ASSUME Inv, NEW h \in Handlers, WriteBlobs(h)
    PROVE  Inv'
<1>1. Types /\ Requests /\ RepoPart
  BY DEF Inv
<1>2. /\ req[h].pc = "blobs" /\ req[h].pc \in Working /\ req[h].pc \in Writing
      /\ UNCHANGED <<stores, dir, cache, locks, holder, revs, log, torn, unguarded, lost>>
      /\ req' = [req EXCEPT ![h].pc = "sequence"]
  BY DEF WriteBlobs, Working, Writing
<1>3. req[h] \in CommitState(Len(stores), Len(holder), revs) /\ req[h].store \in 1..Len(stores)
  BY <1>1, <1>2, WorkParts
<1>4. req' = [req EXCEPT ![h].todo = req[h].todo, ![h].pc = "sequence"]
  BY <1>1, <1>2, <1>3 DEF Types, CommitState
<1>5. /\ Only(h) /\ req'[h] = [req[h] EXCEPT !.todo = req[h].todo, !.pc = "sequence"]
      /\ Requests' /\ LockPart'
  <2>1. PICK t, p : t = req[h].todo /\ p = "sequence"
    OBVIOUS
  <2>2. /\ p \in Writing /\ t \in SUBSET req[h].todo /\ p # "apply"
        /\ req' = [req EXCEPT ![h].todo = t, ![h].pc = p]
        /\ Len(stores') = Len(stores) /\ UNCHANGED <<holder, locks, revs, unguarded>>
    BY <1>2, <1>4, <2>1 DEF Writing
  <2>3. /\ Only(h) /\ req'[h] = [req[h] EXCEPT !.todo = t, !.pc = p]
        /\ Requests' /\ LockPart'
    BY <1>2, <2>2, CommitStep
  <2> QED
    BY <2>1, <2>3
<1>6. req'[h] = [req[h] EXCEPT !.pc = "sequence"]
  BY <1>3, <1>5 DEF CommitState
<1>70. PICK s0 \in 1..Len(stores) : s0 = req[h].store
  BY <1>3
<1>7. req'[h].pc = "sequence" /\ req'[h].store = s0
  BY <1>3, <1>6, <1>70 DEF CommitState
<1>8. Types'
  BY <1>1, <1>2, <1>5 DEF Types, Only
<1>9. ASSUME s0 \notin unguarded
      PROVE  StoreOK(s0)'
  <2>1. StoreOK(s0)
    BY <1>1, <1>3, <1>9, ByStore, Parts
  <2>2. ASSUME NEW u, u \in Indexing(s0)
        PROVE  u \in Indexing(s0)'
    <3>1. PICK g \in Handlers : /\ req[g].pc \in {"index", "apply"} /\ req[g].store = s0
                                /\ u \in Unapplied(req[g])
      BY <2>2, IndexingParts
    <3>2. req'[g] = req[g]
      BY <1>2, <1>5, <3>1 DEF Only
    <3> QED
      BY <3>1, <3>2 DEF Indexing, Unapplied
  <2>3. \A u \in Uris \ (torn'[s0] \cup Indexing(s0)') : stores'[s0].index[u] = stores'[s0].mst[u]
    BY <1>2, <2>1, <2>2 DEF StoreOK
  <2>4. Applied(h)' /\ req'[h].store = s0
    BY <1>7 DEF Applied
  <2>5. ASSUME NEW g \in Handlers, req'[g].pc \in Writing, req'[g].store = s0
        PROVE  Good(g)'
    <3>1. CASE g = h
      <4>1. Good(h) /\ Applied(h)
        BY <1>2, <1>70, <2>1 DEF StoreOK, Applied
      <4>2. /\ req'[h].swap = req[h].swap /\ req'[h].since = req[h].since
            /\ req'[h].prev = req[h].prev /\ req'[h].stale = req[h].stale
            /\ req'[h].was = req[h].was /\ req'[h].rev = req[h].rev
        BY <1>3, <1>6 DEF CommitState
      <4> QED
        BY <1>2, <1>7, <3>1, <4>1, <4>2 DEF Good, Last
    <3>2. CASE g # h
      <4>1. req'[g] = req[g] /\ Good(g)
        BY <1>5, <2>1, <2>5, <3>2 DEF Only, StoreOK
      <4> QED
        BY <1>2, <4>1 DEF Good, Last, Applied
    <3> QED
      BY <3>1, <3>2
  <2> QED
    BY <1>2, <2>1, <2>3, <2>4, <2>5 DEF StoreOK
<1>10. /\ stores'[s0].root <= revs' /\ revs' \in Nat /\ revs <= revs'
       /\ s0 \in 1..Len(stores')
       /\ \A s \in 1..Len(stores') : /\ s \in 1..Len(stores)
                                     /\ stores'[s] = stores[s] /\ torn'[s] = torn[s]
  BY <1>1, <1>2, <1>3, Parts DEF RepoPart, Roots, Types
<1> QED
  BY <1>2, <1>5, <1>7, <1>70, <1>8, <1>9, <1>10, WorkInv

LEMMA IndexRecordInv ==
    ASSUME Inv, NEW h \in Handlers, IndexRecord(h)
    PROVE  Inv'
<1>1. Types /\ Requests /\ RepoPart
  BY DEF Inv
<1>2. /\ req[h].pc = "index" /\ req[h].pc \in Working /\ req[h].pc \in Writing
      /\ UNCHANGED <<dir, cache, locks, holder, revs, log, torn, unguarded, lost>>
  BY DEF IndexRecord, Working, Writing
<1>3. PICK w \in req[h].todo :
        /\ stores' = [stores EXCEPT ![req[h].store].index = Indexed(@, w, req[h].batch[w])]
        /\ req' = [req EXCEPT ![h].todo = @ \ {w},
                              ![h].pc = IF req[h].todo = {w} THEN "apply" ELSE "index"]
  BY DEF IndexRecord
<1>4. /\ ReqOK(req[h], Len(stores), Len(holder), revs)
      /\ req[h] \in CommitState(Len(stores), Len(holder), revs)
  BY <1>1, <1>2, WorkParts DEF Requests
<1>5. /\ req[h].store \in 1..Len(stores) /\ req[h].batch \in Batches /\ req[h].kind = "write"
      /\ req[h].todo \subseteq DOMAIN req[h].batch
  BY <1>2, <1>4, CommitParts DEF ReqOK
<1>6. PICK s0 \in 1..Len(stores) : s0 = req[h].store
  BY <1>5
<1>7. PICK b \in Batches : b = req[h].batch
  BY <1>5
<1>8. w \in DOMAIN b /\ DOMAIN b \subseteq Uris /\ b[w].cid \in Content
  BY <1>5, <1>7, BatchParts
<1>9. PICK t, p : t = req[h].todo \ {w} /\ p = IF req[h].todo = {w} THEN "apply" ELSE "index"
  OBVIOUS
<1>10. /\ Only(h) /\ req'[h] = [req[h] EXCEPT !.todo = t, !.pc = p] /\ Requests' /\ LockPart'
       /\ Len(stores') = Len(stores)
  <2>1. Len(stores') = Len(stores)
    BY <1>1, <1>3, Parts
  <2>2. req' = [req EXCEPT ![h].todo = t, ![h].pc = p]
    BY <1>1, <1>3, <1>4, <1>9 DEF Types, CommitState
  <2>3. p \in Writing /\ t \in SUBSET req[h].todo /\ (p = "apply" => t = {})
    BY <1>9 DEF Writing
  <2>4. /\ Only(h) /\ req'[h] = [req[h] EXCEPT !.todo = t, !.pc = p] /\ Requests' /\ LockPart'
    BY <1>2, <2>1, <2>2, <2>3, CommitStep
  <2> QED
    BY <2>1, <2>4
<1>11. stores[s0] \in Store /\ torn[s0] \subseteq Uris
  BY <1>1, Parts
<1>12. /\ stores'[s0] = [stores[s0] EXCEPT !.index = [stores[s0].index EXCEPT ![w] = b[w].cid]]
       /\ \A s \in 1..Len(stores) : s # s0 => stores'[s] = stores[s]
  BY <1>1, <1>3, <1>6, <1>7, Parts DEF Indexed
<1>13. /\ stores'[s0].root = stores[s0].root /\ stores'[s0].mst = stores[s0].mst
       /\ stores'[s0].blocks = stores[s0].blocks
       /\ stores'[s0].index = [stores[s0].index EXCEPT ![w] = b[w].cid]
       /\ stores'[s0] \in Store
  BY <1>8, <1>11, <1>12 DEF Store, Content
<1>14. stores' \in Seq(Store)
  <2>1. stores' \in [1..Len(stores) -> Store]
    <3>1. DOMAIN stores' = 1..Len(stores)
      BY <1>1, <1>3, Parts
    <3>2. \A s \in 1..Len(stores) : stores'[s] \in Store
      BY <1>1, <1>12, <1>13, Parts
    <3>3. stores' = [s \in 1..Len(stores) |-> stores'[s]]
      BY <1>1, <1>3, Parts
    <3> QED
      BY <3>1, <3>2, <3>3
  <2> QED
    BY <1>1, <2>1, Parts
<1>15. /\ req'[h].pc = p /\ req'[h].store = s0 /\ req'[h].batch = b /\ req'[h].todo = t
       /\ req'[h].swap = req[h].swap /\ req'[h].since = req[h].since
       /\ req'[h].prev = req[h].prev /\ req'[h].stale = req[h].stale
       /\ req'[h].was = req[h].was /\ req'[h].rev = req[h].rev
       /\ req'[h].mst = req[h].mst /\ req'[h].gone = req[h].gone
  <2>1. {"pc", "todo", "store", "batch", "swap", "since", "prev", "stale", "was", "rev",
         "mst", "gone"} \subseteq DOMAIN req[h]
    BY <1>4 DEF CommitState
  <2> QED
    BY <1>6, <1>7, <1>10, <2>1
<1>16. Types'
  BY <1>1, <1>2, <1>10, <1>14 DEF Types, Only
<1>17. ASSUME s0 \notin unguarded
       PROVE  StoreOK(s0)'
  <2>1. StoreOK(s0)
    BY <1>1, <1>17, ByStore, Parts
  <2>2. \A g \in Handlers : g # h /\ req[g].pc \in Writing => req[g].store # s0
    BY <1>2, <1>5, <1>6, <1>17, NobodyElse
  <2>3. \A g \in Handlers : g # h => req'[g] = req[g]
    BY <1>10 DEF Only
  <2>4. Unapplied(req'[h]) = DOMAIN b \ t
    BY <1>9, <1>15, <1>5, <1>7 DEF Unapplied
  <2>5. Unapplied(req[h]) = DOMAIN b \ req[h].todo
    BY <1>2, <1>7 DEF Unapplied
  <2>6. ASSUME NEW u \in Uris, u \notin torn[s0], u \notin Indexing(s0)'
        PROVE  stores'[s0].index[u] = stores'[s0].mst[u]
    <3>1. u \notin DOMAIN b \ t
      BY <1>9, <1>15, <2>4, <2>6 DEF Indexing
    <3>2. u # w
      BY <1>8, <1>9, <3>1
    <3>3. u \notin Indexing(s0)
      <4> SUFFICES ASSUME NEW g \in Handlers, req[g].pc \in {"index", "apply"},
                          req[g].store = s0, u \in Unapplied(req[g])
                   PROVE  FALSE
        BY IndexingParts
      <4>1. g = h
        BY <2>2 DEF Writing
      <4> QED
        BY <1>9, <2>5, <3>1, <4>1
    <3>4. stores[s0].index[u] = stores[s0].mst[u]
      BY <2>1, <2>6, <3>3 DEF StoreOK
    <3> QED
      BY <1>11, <1>13, <3>2, <3>4 DEF Store
  <2>7. \A g \in Handlers : Applied(g) => req'[g] = req[g]
    BY <1>2, <2>3 DEF Applied
  <2>8. \A i \in DOMAIN log :
          Last(i, s0) => \/ stores'[s0].root \in {log[i].rev} \cup lost
                         \/ \E g \in Handlers : Applied(g)' /\ req'[g].store = s0
    BY <1>13, <2>1, <2>7 DEF StoreOK, Applied
  <2>9. ASSUME NEW g \in Handlers, req'[g].pc \in Writing, req'[g].store = s0
        PROVE  Good(g)'
    <3>1. g = h
      BY <2>2, <2>3, <2>9
    <3>2. Good(h)
      BY <1>2, <1>6, <2>1 DEF StoreOK
    <3>3. req[h].store = s0 /\ req[h].batch = b /\ req[h].pc = "index"
      BY <1>2, <1>6, <1>7
    <3>4. /\ req[h].since = stores[s0].root /\ stores[s0].root < req[h].rev
          /\ req[h].mst = MstApplied(stores[s0].mst, b)
          /\ \A u \in DOMAIN b \ req[h].todo : stores[s0].index[u] = b[u].cid
          /\ \A u \in Uris \ (DOMAIN b \cup torn[s0]) : stores[s0].mst[u] \notin req[h].gone
          /\ req[h].gone \cap Added(b) = {}
      BY <3>2, <3>3 DEF Good
    <3>5. \A u \in DOMAIN b \ t : stores'[s0].index[u] = b[u].cid
      BY <1>8, <1>9, <1>11, <1>13, <3>4 DEF Store
    <3>6. /\ req[h].swap \in {None, req[h].since}
          /\ \A u \in DOMAIN req[h].prev \ req[h].stale : req[h].prev[u] = req[h].was[u]
          /\ \A i \in DOMAIN log : Last(i, s0) => req[h].since \in {log[i].rev} \cup lost
      BY <3>2, <3>3 DEF Good
    <3>7. ~Applied(h)'
      BY <1>9, <1>15 DEF Applied
    <3>8. \A i \in DOMAIN log : Last(i, s0)' <=> Last(i, s0)
      BY <1>2 DEF Last
    <3>9. /\ req'[h].swap \in {None, req'[h].since}
          /\ \A u \in DOMAIN req'[h].prev \ req'[h].stale : req'[h].prev[u] = req'[h].was[u]
          /\ \A i \in DOMAIN log' :
               Last(i, req[h].store)' => req'[h].since \in {log'[i].rev} \cup lost'
      <4>1. \A i \in DOMAIN log' : Last(i, req[h].store)' => Last(i, s0)
        BY <1>2, <1>15 DEF Last
      <4> QED
        BY <1>2, <1>15, <3>6, <4>1
    <3>10. /\ req'[h].since = stores'[req'[h].store].root
           /\ stores'[req'[h].store].root < req'[h].rev
           /\ req'[h].mst = MstApplied(stores'[req'[h].store].mst, req'[h].batch)
           /\ \A u \in DOMAIN req'[h].batch \ req'[h].todo :
                stores'[req'[h].store].index[u] = req'[h].batch[u].cid
           /\ \A u \in Uris \ (DOMAIN req'[h].batch \cup torn'[req'[h].store]) :
                stores'[req'[h].store].mst[u] \notin req'[h].gone
           /\ req'[h].gone \cap Added(req'[h].batch) = {}
      BY <1>2, <1>13, <1>15, <3>4, <3>5
    <3>11. Good(h)'
      BY ONLY <3>7, <3>9, <3>10 DEF Good
    <3> QED
      BY <3>1, <3>11
  <2>10. \A u \in Uris \ torn[s0] : stores'[s0].mst[u] \in stores'[s0].blocks \cup {NoCid}
    BY <1>13, <2>1 DEF StoreOK
  <2>11. \A i \in DOMAIN log : log[i].store = s0 => log[i].rev <= stores'[s0].root
    BY <1>13, <2>1 DEF StoreOK
  <2>12. \A i \in DOMAIN log : Last(i, s0)' <=> Last(i, s0)
    BY <1>2 DEF Last
  <2> QED
    BY <1>2, <2>6, <2>8, <2>9, <2>10, <2>11, <2>12 DEF StoreOK
<1>18. /\ stores'[s0].root <= revs' /\ revs' \in Nat /\ revs <= revs'
       /\ s0 \in 1..Len(stores')
       /\ \A s \in 1..Len(stores') : s # s0 => /\ s \in 1..Len(stores)
                                               /\ stores'[s] = stores[s] /\ torn'[s] = torn[s]
  BY <1>1, <1>2, <1>10, <1>12, <1>13, Parts DEF RepoPart, Roots, Types
<1> QED
  BY <1>2, <1>6, <1>10, <1>15, <1>16, <1>17, <1>18, WorkInv

LEMMA ApplyCommitInv ==
    ASSUME Inv, NEW h \in Handlers, ApplyCommit(h)
    PROVE  Inv'
<1>1. Types /\ Requests /\ RepoPart
  BY DEF Inv
<1>2. /\ req[h].pc = "apply" /\ req[h].pc \in Working /\ req[h].pc \in Writing
      /\ UNCHANGED <<dir, cache, locks, holder, revs, log, unguarded, lost>>
  BY DEF ApplyCommit, Working, Writing
<1>3. /\ ReqOK(req[h], Len(stores), Len(holder), revs)
      /\ req[h] \in CommitState(Len(stores), Len(holder), revs)
  BY <1>1, <1>2, WorkParts DEF Requests
<1>4. /\ req[h].store \in 1..Len(stores) /\ req[h].batch \in Batches /\ req[h].kind = "write"
      /\ req[h].todo = {} /\ req[h].rev \in 1..revs /\ req[h].mst \in [Uris -> Content]
  BY <1>2, <1>3, CommitParts DEF ReqOK
<1>5. PICK s0 \in 1..Len(stores), b \in Batches : s0 = req[h].store /\ b = req[h].batch
  BY <1>4
<1>6. DOMAIN b \subseteq Uris /\ \A u \in DOMAIN b : b[u].cid \in Content
  BY BatchParts
<1>7. stores[s0] \in Store /\ torn[s0] \subseteq Uris
  BY <1>1, Parts
<1> DEFINE new == [root |-> req[h].rev, mst |-> req[h].mst, index |-> stores[s0].index,
                   blocks |-> (stores[s0].blocks \cup Added(b)) \ req[h].gone]
<1>8. /\ stores' = [stores EXCEPT ![s0] = new]
      /\ torn' = [torn EXCEPT ![s0] = torn[s0] \ DOMAIN b]
      /\ req' = [req EXCEPT ![h].pc = "blobs"]
  BY <1>1, <1>5, Parts DEF ApplyCommit
<1>9. Added(b) \subseteq Cids
  BY <1>6 DEF Added, Content
<1>10. new \in Store
  <2>1. req[h].rev \in Nat /\ stores[s0].index \in [Uris -> Content]
    BY <1>1, <1>4, <1>7 DEF Store, Content, Types
  <2>2. (stores[s0].blocks \cup Added(b)) \ req[h].gone \in SUBSET Cids
    BY <1>7, <1>9 DEF Store
  <2> QED
    BY <1>4, <2>1, <2>2 DEF Store, Content
<1>11. /\ stores'[s0] = new /\ torn'[s0] = torn[s0] \ DOMAIN b
       /\ \A s \in 1..Len(stores) : s # s0 => stores'[s] = stores[s] /\ torn'[s] = torn[s]
  BY <1>1, <1>8, Parts
<1> HIDE DEF new
<1>12. /\ stores' \in Seq(Store) /\ Len(stores') = Len(stores)
       /\ torn' \in Seq(SUBSET Uris) /\ Len(torn') = Len(torn)
  <2>1. stores \in Seq(Store) /\ torn \in Seq(SUBSET Uris) /\ s0 \in 1..Len(torn)
    BY <1>1 DEF Types
  <2>2. torn[s0] \ DOMAIN b \in SUBSET Uris
    BY <1>7
  <2>3. stores' \in Seq(Store) /\ Len(stores') = Len(stores)
    BY <1>8, <1>10, <2>1, ExceptSeq
  <2>4. torn' \in Seq(SUBSET Uris) /\ Len(torn') = Len(torn)
    BY <1>8, <2>1, <2>2, ExceptSeq
  <2> QED
    BY <2>3, <2>4
<1>13. /\ stores'[s0].root = req[h].rev /\ stores'[s0].mst = req[h].mst
       /\ stores'[s0].index = stores[s0].index
       /\ stores'[s0].blocks = (stores[s0].blocks \cup Added(b)) \ req[h].gone
  BY <1>11 DEF new
<1>14. req' = [req EXCEPT ![h].todo = {}, ![h].pc = "blobs"]
  BY <1>1, <1>3, <1>4, <1>8 DEF Types, CommitState
<1>15. /\ Only(h) /\ req'[h] = [req[h] EXCEPT !.todo = {}, !.pc = "blobs"]
       /\ Requests' /\ LockPart'
  <2>1. PICK t, p : t = {} /\ p = "blobs"
    OBVIOUS
  <2>2. /\ p \in Writing /\ t \in SUBSET req[h].todo /\ p # "apply"
        /\ req' = [req EXCEPT ![h].todo = t, ![h].pc = p]
        /\ Len(stores') = Len(stores) /\ UNCHANGED <<holder, locks, revs, unguarded>>
    BY <1>2, <1>12, <1>14, <2>1 DEF Writing
  <2>3. /\ Only(h) /\ req'[h] = [req[h] EXCEPT !.todo = t, !.pc = p]
        /\ Requests' /\ LockPart'
    BY <1>2, <2>2, CommitStep
  <2> QED
    BY <2>1, <2>3
<1>16. /\ req'[h].pc = "blobs" /\ req'[h].store = s0
       /\ req'[h].swap = req[h].swap /\ req'[h].since = req[h].since
       /\ req'[h].prev = req[h].prev /\ req'[h].stale = req[h].stale
       /\ req'[h].was = req[h].was /\ req'[h].rev = req[h].rev
  <2>1. {"pc", "todo", "store", "swap", "since", "prev", "stale", "was", "rev"}
          \subseteq DOMAIN req[h]
    BY <1>3 DEF CommitState
  <2> QED
    BY <1>5, <1>15, <2>1
<1>17. Types'
  BY <1>1, <1>2, <1>12, <1>15 DEF Types, Only
<1>20. revs \in Nat
  BY <1>1 DEF Types
<1>18. ASSUME s0 \notin unguarded
       PROVE  StoreOK(s0)'
  <2>1. StoreOK(s0)
    BY <1>1, <1>18, ByStore, Parts
  <2>2. \A g \in Handlers : g # h /\ req[g].pc \in Writing => req[g].store # s0
    BY <1>2, <1>4, <1>5, <1>18, NobodyElse
  <2>3. \A g \in Handlers : g # h => req'[g] = req[g]
    BY <1>15 DEF Only
  <2>4. Good(h)
    BY <1>2, <1>5, <2>1 DEF StoreOK
  <2>5. /\ req[h].since = stores[s0].root /\ stores[s0].root < req[h].rev
        /\ req[h].mst = MstApplied(stores[s0].mst, b)
        /\ \A u \in DOMAIN b : stores[s0].index[u] = b[u].cid
        /\ \A u \in Uris \ (DOMAIN b \cup torn[s0]) : stores[s0].mst[u] \notin req[h].gone
        /\ req[h].gone \cap Added(b) = {}
    BY <1>2, <1>4, <1>5, <2>4 DEF Good
  <2>6. \A u \in Uris : req[h].mst[u] = IF u \in DOMAIN b THEN b[u].cid ELSE stores[s0].mst[u]
    BY <2>5 DEF MstApplied
  <2>7. Indexing(s0) = DOMAIN b
    <3>1. Unapplied(req[h]) = DOMAIN b
      BY <1>2, <1>5 DEF Unapplied
    <3>2. \A g \in Handlers : req[g].pc \in {"index", "apply"} /\ req[g].store = s0 => g = h
      BY <2>2 DEF Writing
    <3>3. \A u : u \in Indexing(s0) <=> u \in DOMAIN b
      BY <1>2, <1>5, <3>1, <3>2, IndexingParts
    <3> QED
      BY <3>3
  <2>8. ASSUME NEW u \in Uris, u \notin torn'[s0]
        PROVE  stores'[s0].index[u] = stores'[s0].mst[u]
    <3>1. CASE u \in DOMAIN b
      BY <1>13, <2>5, <2>6, <3>1
    <3>2. CASE u \notin DOMAIN b
      <4>1. u \notin torn[s0] /\ u \notin Indexing(s0)
        BY <1>11, <2>7, <2>8, <3>2
      <4>2. stores[s0].index[u] = stores[s0].mst[u]
        BY <2>1, <4>1 DEF StoreOK
      <4> QED
        BY <1>13, <2>6, <3>2, <4>2
    <3> QED
      BY <3>1, <3>2
  <2>9. ASSUME NEW u \in Uris, u \notin torn'[s0]
        PROVE  stores'[s0].mst[u] \in stores'[s0].blocks \cup {NoCid}
    <3>1. CASE u \in DOMAIN b
      <4>1. b[u].cid \in Added(b) \cup {NoCid}
        BY <3>1 DEF Added
      <4> QED
        BY <1>13, <2>5, <2>6, <3>1, <4>1
    <3>2. CASE u \notin DOMAIN b
      <4>1. u \notin torn[s0]
        BY <1>11, <2>9, <3>2
      <4>2. stores[s0].mst[u] \in stores[s0].blocks \cup {NoCid}
        BY <2>1, <4>1 DEF StoreOK
      <4>3. stores[s0].mst[u] \notin req[h].gone
        BY <2>5, <3>2, <4>1
      <4> QED
        BY <1>13, <2>6, <3>2, <4>2, <4>3
    <3> QED
      BY <3>1, <3>2
  <2>10. \A i \in DOMAIN log : log[i].store = s0 => log[i].rev < req[h].rev
    <3> SUFFICES ASSUME NEW i \in 1..Len(log), log[i].store = s0
                 PROVE  log[i].rev < req[h].rev
      BY <1>1, Parts
    <3>1. log[i].rev \in Nat /\ stores[s0].root \in Nat /\ req[h].rev \in Nat
      <4>1. log[i] \in Entry(Len(stores), revs)
        BY <1>1, Parts
      <4> QED
        BY <1>4, <1>7, <1>20, <4>1 DEF Entry, Store
    <3>2. log[i].rev <= stores[s0].root
      BY <1>1, <2>1, Parts DEF StoreOK
    <3> QED
      BY <2>5, <3>1, <3>2
  <2>11. \A i \in DOMAIN log : log[i].store = s0 => log[i].rev <= stores'[s0].root
    <3> SUFFICES ASSUME NEW i \in 1..Len(log), log[i].store = s0
                 PROVE  log[i].rev <= req[h].rev
      BY <1>1, <1>13, Parts
    <3>1. log[i] \in Entry(Len(stores), revs) /\ log[i].rev < req[h].rev
      BY <1>1, <2>10, Parts
    <3> QED
      BY <1>4, <1>20, <3>1 DEF Entry
  <2>12. Applied(h)' /\ req'[h].store = s0
    BY <1>16 DEF Applied
  <2>13. ASSUME NEW g \in Handlers, req'[g].pc \in Writing, req'[g].store = s0
         PROVE  Good(g)'
    <3>1. g = h
      BY <2>2, <2>3, <2>13
    <3>2. /\ req[h].swap \in {None, req[h].since}
          /\ \A u \in DOMAIN req[h].prev \ req[h].stale : req[h].prev[u] = req[h].was[u]
          /\ \A i \in DOMAIN log : Last(i, s0) => req[h].since \in {log[i].rev} \cup lost
      BY <1>5, <2>4 DEF Good
    <3>3. \A i \in DOMAIN log' : Last(i, req[h].store)' => Last(i, s0)
      BY <1>2, <1>16 DEF Last
    <3>4. /\ req'[h].swap \in {None, req'[h].since}
          /\ \A u \in DOMAIN req'[h].prev \ req'[h].stale : req'[h].prev[u] = req'[h].was[u]
          /\ \A i \in DOMAIN log' :
               Last(i, req[h].store)' => req'[h].since \in {log'[i].rev} \cup lost'
      BY <1>2, <1>16, <3>2, <3>3
    <3>5. /\ stores'[req'[h].store].root = req'[h].rev
          /\ \A i \in DOMAIN log' : log'[i].store = req'[h].store => log'[i].rev < req'[h].rev
      BY <1>2, <1>13, <1>16, <2>10
    <3>6. Good(h)'
      BY ONLY <1>16, <3>4, <3>5 DEF Good
    <3> QED
      BY <3>1, <3>6
  <2> QED
    BY <1>2, <2>8, <2>9, <2>11, <2>12, <2>13 DEF StoreOK
<1>19. /\ stores'[s0].root <= revs' /\ revs' \in Nat /\ revs <= revs'
       /\ s0 \in 1..Len(stores')
       /\ \A s \in 1..Len(stores') : s # s0 => /\ s \in 1..Len(stores)
                                               /\ stores'[s] = stores[s] /\ torn'[s] = torn[s]
  BY <1>1, <1>2, <1>4, <1>11, <1>12, <1>13 DEF Types
<1> QED
  BY <1>2, <1>5, <1>15, <1>16, <1>17, <1>18, <1>19, WorkInv

(* The log under more stores and commits. *)
LEMMA LogGrows ==
    ASSUME NEW n \in Nat, NEW n1 \in Nat, NEW v \in Nat, NEW v1 \in Nat, n <= n1, v <= v1,
           NEW l \in Seq(Entry(n, v))
    PROVE  l \in Seq(Entry(n1, v1))
<1>1. 1..n \subseteq 1..n1 /\ 1..v \subseteq 1..v1
  OBVIOUS
<1>2. Entry(n, v) \subseteq Entry(n1, v1)
  BY <1>1 DEF Entry
<1> QED
  BY <1>2

LEMMA FormatCommitInv ==
    ASSUME Inv, NEW h \in Handlers, FormatCommit(h)
    PROVE  Inv'
<1>1. Types /\ Requests /\ LockPart /\ RepoPart
  BY DEF Inv
<1>2. /\ req[h].pc = "format" /\ req[h].pc \in Working /\ req[h].pc \notin Writing
      /\ UNCHANGED <<stores, dir, cache, locks, log, unguarded>>
  BY DEF FormatCommit, Working, Writing
<1>3. ReqOK(req[h], Len(stores), Len(holder), revs)
  BY <1>1 DEF Requests
<1>4. /\ req[h].kind = "write" /\ req[h].store \in 1..Len(stores)
      /\ req[h].lock \in 1..Len(holder) /\ req[h].batch \in Batches /\ req[h].swap \in Nat
  BY <1>2, <1>3 DEF ReqOK
<1>5. PICK s0 \in 1..Len(stores), b \in Batches : s0 = req[h].store /\ b = req[h].batch
  BY <1>4
<1>6. DOMAIN b \subseteq Uris /\ DOMAIN b # {} /\ \A u \in DOMAIN b : b[u].cid \in Content
  BY BatchParts
<1>7. PICK st : st = stores[s0]
  OBVIOUS
<1>8. /\ st \in Store /\ torn[s0] \subseteq Uris /\ revs \in Nat /\ Len(stores) \in Nat
      /\ Len(holder) \in Nat
  BY <1>1, <1>7, Parts DEF Types
<1>9. CASE Abandon(h) /\ UNCHANGED revs
  BY <1>2, <1>9, AbandonInv
<1>10. CASE ~(Abandon(h) /\ UNCHANGED revs)
  <2> DEFINE old == Replaced(st.mst, b)
             R == [pc |-> "index", kind |-> "write", store |-> s0, lock |-> req[h].lock,
                   batch |-> b, swap |-> req[h].swap, todo |-> DOMAIN b,
                   rev |-> revs + 1, since |-> st.root,
                   prev |-> Prev(st.index, b),
                   was |-> [u \in DOMAIN b |-> st.mst[u]], stale |-> torn[s0],
                   mst |-> MstApplied(st.mst, b),
                   gone |-> old \ Duplicates(st.index, old, DeletedOrUpdated(b))]
  <2>1. /\ ~Refused(st, req[h]) /\ revs' = revs + 1 /\ req' = [req EXCEPT ![h] = R]
        /\ UNCHANGED <<holder, torn, lost>>
    BY <1>5, <1>7, <1>10 DEF FormatCommit
  <2>2. PICK r : r = R
    OBVIOUS
  <2>3. /\ r.pc = "index" /\ r.kind = "write" /\ r.store = s0 /\ r.lock = req[h].lock
        /\ r.batch = b /\ r.swap = req[h].swap /\ r.todo = DOMAIN b /\ r.rev = revs + 1
        /\ r.since = st.root /\ r.prev = Prev(st.index, b)
        /\ r.was = [u \in DOMAIN b |-> st.mst[u]] /\ r.stale = torn[s0]
        /\ r.mst = MstApplied(st.mst, b)
        /\ r.gone = old \ Duplicates(st.index, old, DeletedOrUpdated(b))
        /\ {"pc", "kind", "lock", "store"} \subseteq DOMAIN r
    BY <2>2
  <2>4. Only(h) /\ req'[h] = r
    BY <1>1, <2>1, <2>2, Replace
  <2>5. st.root \in Nat /\ st.mst \in [Uris -> Content] /\ st.index \in [Uris -> Content]
    BY <1>8 DEF Store, Content
  <2>6. Prev(st.index, b) \in Versions /\ [u \in DOMAIN b |-> st.mst[u]] \in Versions
    <3>1. Prev(st.index, b) \in [DOMAIN b -> Content]
      BY <1>6, <2>5 DEF Prev
    <3>2. [u \in DOMAIN b |-> st.mst[u]] \in [DOMAIN b -> Content]
      BY <1>6, <2>5
    <3> QED
      BY <1>6, <3>1, <3>2 DEF Versions
  <2>7. MstApplied(st.mst, b) \in [Uris -> Content]
    BY <1>6, <2>5 DEF MstApplied
  <2>8. old \subseteq Cids
    BY <1>6, <2>5 DEF Replaced, Content
  <2>9. r \in CommitState(Len(stores), Len(holder), revs + 1)
    <3>1. PICK n, m, v : n = Len(stores) /\ m = Len(holder) /\ v = revs + 1
      OBVIOUS
    <3>2. /\ s0 \in 1..n /\ req[h].lock \in 1..m /\ req[h].swap \in Nat
          /\ DOMAIN b \in SUBSET Uris /\ revs + 1 \in 1..v
          /\ old \ Duplicates(st.index, old, DeletedOrUpdated(b)) \in SUBSET Cids
          /\ torn[s0] \in SUBSET Uris
      BY <1>4, <1>6, <1>8, <2>8, <3>1
    <3>3. r \in CommitState(n, m, v)
      BY <2>2, <2>5, <2>6, <2>7, <3>2 DEF CommitState, Writing
    <3> QED
      BY <3>1, <3>3
  <2> HIDE DEF old, R
  <2>10. ReqOK(r, Len(stores), Len(holder), revs + 1)
    BY <2>3, <2>9 DEF ReqOK, Pcs, Writing
  <2>11. Requests'
    <3>1. /\ Len(stores') \in Nat /\ Len(holder') \in Nat /\ revs' \in Nat
          /\ Len(stores) <= Len(stores') /\ Len(holder) <= Len(holder') /\ revs <= revs'
          /\ ReqOK(req'[h], Len(stores'), Len(holder'), revs')
      BY <1>2, <1>8, <2>1, <2>4, <2>10
    <3> QED
      BY <1>1, <2>4, <3>1, OneRequest
  <2>12. LockPart'
    <3>1. Keeps(req'[h])
      BY <2>3, <2>4 DEF Keeps, Working, Writing
    <3>2. holder[req'[h].lock] = h /\ (req'[h].store \notin unguarded' => req'[h].lock = locks)
      BY <1>1, <1>2, <1>4, <1>5, <2>3, <2>4 DEF LockPart, Holding, Guarding
    <3> QED
      BY <1>1, <1>2, <2>1, <2>4, <3>1, <3>2, KeepsLocks
  <2>13. Types'
    <3>1. log \in Seq(Entry(Len(stores), revs))
      BY <1>1 DEF Types
    <3>2. revs + 1 \in Nat /\ revs <= revs + 1 /\ Len(stores) <= Len(stores)
      BY <1>8
    <3>3. log \in Seq(Entry(Len(stores), revs + 1))
      BY <1>8, <3>1, <3>2, LogGrows
    <3> QED
      BY <1>1, <1>2, <2>1, <2>4, <3>2, <3>3 DEF Types, Only
  <2>14. ASSUME s0 \notin unguarded
         PROVE  StoreOK(s0)'
    <3>1. StoreOK(s0)
      BY <1>1, <2>14, ByStore, Parts
    <3>2. \A g \in Handlers : req[g].pc \in Writing => req[g].store # s0
      BY <1>2, <1>4, <1>5, <2>14, NobodyElse
    <3>3. \A g \in Handlers : g # h => req'[g] = req[g]
      BY <2>4 DEF Only
    <3>4. Indexing(s0) = {}
      BY <3>2, IndexingParts DEF Writing
    <3>5. \A u \in Uris \ torn[s0] : st.index[u] = st.mst[u]
      BY <1>7, <3>1, <3>4 DEF StoreOK
    <3>6. \A i \in DOMAIN log : Last(i, s0) => st.root \in {log[i].rev} \cup lost
      BY <1>7, <3>1, <3>2 DEF StoreOK, Applied, Writing
    <3>7. ~Applied(h)'
      BY <2>3, <2>4 DEF Applied
    <3>8. Good(h)'
      <4>1. r.swap \in {None, r.since}
        BY <1>5, <2>1, <2>3 DEF Refused
      <4>2. \A u \in DOMAIN r.prev \ r.stale : r.prev[u] = r.was[u]
        BY <1>6, <2>3, <3>5 DEF Prev
      <4>3. \A u \in Uris \ (DOMAIN b \cup torn[s0]) : st.mst[u] \notin r.gone
        <5> SUFFICES ASSUME NEW u \in Uris, u \notin DOMAIN b, u \notin torn[s0],
                            st.mst[u] \in old
                     PROVE  st.mst[u] \in Duplicates(st.index, old, DeletedOrUpdated(b))
          BY <2>3
        <5>1. PICK w \in DOMAIN b : st.mst[w] = st.mst[u] /\ st.mst[w] # NoCid
          BY DEF old, Replaced
        <5>2. b[w].action # "create"
          BY <1>5, <2>1, <5>1 DEF Refused, MstAccepts
        <5>3. w \in DeletedOrUpdated(b) /\ u \in Uris \ DeletedOrUpdated(b)
          BY <5>2 DEF DeletedOrUpdated
        <5>4. st.index[u] = st.mst[u]
          BY <3>5
        <5> QED
          BY <5>3, <5>4 DEF Duplicates
      <4>4. r.gone \cap Added(b) = {}
        BY <2>3 DEF old, Replaced
      <4>5. st.root < r.rev
        <5>1. st.root <= revs
          BY <1>1, <1>7, Parts DEF RepoPart, Roots
        <5> QED
          BY <1>8, <2>3, <2>5, <5>1
      <4>6. /\ req'[h].swap \in {None, req'[h].since}
            /\ \A u \in DOMAIN req'[h].prev \ req'[h].stale : req'[h].prev[u] = req'[h].was[u]
            /\ \A i \in DOMAIN log' :
                 Last(i, req[h].store)' => req'[h].since \in {log'[i].rev} \cup lost'
        <5>1. \A i \in DOMAIN log' : Last(i, req[h].store)' => Last(i, s0)
          BY <1>2, <2>3, <2>4 DEF Last
        <5> QED
          BY <1>2, <2>1, <2>3, <2>4, <3>6, <4>1, <4>2, <5>1
      <4>7. /\ req'[h].since = stores'[req'[h].store].root
            /\ stores'[req'[h].store].root < req'[h].rev
            /\ req'[h].mst = MstApplied(stores'[req'[h].store].mst, req'[h].batch)
            /\ \A u \in DOMAIN req'[h].batch \ req'[h].todo :
                 stores'[req'[h].store].index[u] = req'[h].batch[u].cid
            /\ \A u \in Uris \ (DOMAIN req'[h].batch \cup torn'[req'[h].store]) :
                 stores'[req'[h].store].mst[u] \notin req'[h].gone
            /\ req'[h].gone \cap Added(req'[h].batch) = {}
        BY <1>2, <1>7, <2>1, <2>3, <2>4, <4>3, <4>4, <4>5
      <4> QED
        BY ONLY <3>7, <4>6, <4>7 DEF Good
    <3>9. \A g \in Handlers : req'[g].pc \in Writing /\ req'[g].store = s0 => Good(g)'
      BY <3>2, <3>3, <3>8
    <3>10. \A i \in DOMAIN log : Last(i, s0)' <=> Last(i, s0)
      BY <1>2 DEF Last
    <3>11. stores'[s0] = st /\ torn'[s0] = torn[s0]
      BY <1>2, <1>7, <2>1
    <3>12. /\ \A u \in Uris \ (torn[s0] \cup Indexing(s0)') : st.index[u] = st.mst[u]
           /\ \A u \in Uris \ torn[s0] : st.mst[u] \in st.blocks \cup {NoCid}
           /\ \A i \in DOMAIN log : log[i].store = s0 => log[i].rev <= st.root
      BY <1>7, <3>1, <3>5 DEF StoreOK
    <3> QED
      BY <1>2, <2>1, <3>6, <3>9, <3>10, <3>11, <3>12 DEF StoreOK
  <2>15. /\ stores'[s0].root <= revs' /\ revs' \in Nat /\ revs <= revs'
         /\ s0 \in 1..Len(stores')
         /\ \A s \in 1..Len(stores') : s # s0 => /\ s \in 1..Len(stores)
                                                 /\ stores'[s] = stores[s] /\ torn'[s] = torn[s]
    <3>1. st.root <= revs
      BY <1>1, <1>7, Parts DEF RepoPart, Roots
    <3> QED
      BY <1>2, <1>7, <1>8, <2>1, <2>5, <3>1
  <2> QED
    BY <1>2, <2>1, <2>3, <2>4, <2>11, <2>12, <2>13, <2>14, <2>15, WorkInv
<1> QED
  BY <1>9, <1>10

LEMMA SequenceCommitInv ==
    ASSUME Inv, NEW h \in Handlers, SequenceCommit(h)
    PROVE  Inv'
<1>1. Types /\ Requests /\ LockPart /\ RepoPart
  BY DEF Inv
<1>2. /\ req[h].pc = "sequence" /\ req[h].pc \in Working /\ req[h].pc \in Writing
      /\ UNCHANGED <<stores, dir, cache, locks, revs, torn, unguarded, lost>>
      /\ req' = [req EXCEPT ![h] = Idle] /\ holder' = Release(h)
  BY DEF SequenceCommit, Working, Writing
<1>3. req[h] \in CommitState(Len(stores), Len(holder), revs)
  BY <1>1, <1>2, WorkParts
<1>4. PICK e : e = [store |-> req[h].store, rev |-> req[h].rev, since |-> req[h].since,
                    swap |-> req[h].swap, prev |-> req[h].prev, was |-> req[h].was,
                    stale |-> req[h].stale]
  OBVIOUS
<1>5. /\ e \in Entry(Len(stores), revs) /\ e.store = req[h].store /\ e.rev = req[h].rev
      /\ e.since = req[h].since /\ e.swap = req[h].swap /\ e.prev = req[h].prev
      /\ e.was = req[h].was /\ e.stale = req[h].stale /\ req[h].kind = "write"
  BY <1>3, <1>4, CommitParts DEF Entry
<1>6. PICK s0 : s0 = req[h].store /\ s0 \in 1..Len(stores)
  BY <1>3, CommitParts
<1>7. PICK n : n = Len(log) /\ n \in Nat /\ DOMAIN log = 1..n
  BY <1>1, Parts
<1>8. /\ log' \in Seq(Entry(Len(stores), revs)) /\ DOMAIN log' = 1..n + 1 /\ Len(log') = n + 1
      /\ log'[n + 1] = e /\ \A i \in 1..n : log'[i] = log[i]
  <2>1. log \in Seq(Entry(Len(stores), revs)) /\ log' = Append(log, e)
    BY <1>1, <1>4 DEF Types, SequenceCommit
  <2> QED
    BY <1>5, <1>7, <2>1, AppendProperties
<1>9. Only(h) /\ req'[h] = Idle /\ req'[h].pc = "idle"
  BY <1>1, <1>2, Replace, IdleOK
<1>10. /\ Len(stores) \in Nat /\ Len(holder) \in Nat /\ revs \in Nat
       /\ \A i \in 1..n : log[i] \in Entry(Len(stores), revs)
  BY <1>1, <1>7, Parts DEF Types
<1>11. LockPart' /\ holder' \in Seq(Handlers \cup {NoHandler}) /\ Len(holder') = Len(holder)
  BY <1>1, <1>2, <1>9, FreesLocks DEF Working, Writing
<1>12. Requests'
  <2>1. /\ Len(stores') \in Nat /\ Len(holder') \in Nat /\ revs' \in Nat
        /\ Len(stores) <= Len(stores') /\ Len(holder) <= Len(holder') /\ revs <= revs'
    BY <1>2, <1>10, <1>11
  <2>2. ReqOK(req'[h], Len(stores'), Len(holder'), revs')
    BY <1>9, IdleOK
  <2> QED
    BY <1>1, <1>9, <2>1, <2>2, OneRequest
<1>13. Types'
  BY <1>1, <1>2, <1>8, <1>9, <1>11 DEF Types, Only
<1>14. /\ RootsBelow /\ \A s \in DOMAIN stores \ unguarded : StoreOK(s)
       /\ SequencedInOrder /\ CommitsChain /\ PrevIsTrue
  BY <1>1, ByStore
<1>15. s0 \notin unguarded => StoreOK(s0) /\ Good(h)
  BY <1>1, <1>2, <1>6, <1>14, Parts DEF StoreOK
<1>16. \A g \in Handlers : g # h => req'[g] = req[g]
  BY <1>9 DEF Only
<1>17. ASSUME NEW s \in DOMAIN stores \ unguarded
       PROVE  StoreOK(s)'
  <2>1. StoreOK(s)
    BY <1>14, <1>17
  <2>2. \A g \in Handlers : req'[g].pc \in Writing /\ req'[g].store = s =>
                              g # h /\ req'[g] = req[g] /\ s # s0
    <3> SUFFICES ASSUME NEW g \in Handlers, req'[g].pc \in Writing, req'[g].store = s
                 PROVE  g # h /\ req'[g] = req[g] /\ s # s0
      OBVIOUS
    <3>1. g # h /\ req'[g] = req[g]
      BY <1>9, <1>16 DEF Writing
    <3> QED
      BY <1>2, <1>5, <1>6, <1>17, <3>1, NobodyElse
  <2>3. \A u : u \in Indexing(s) => u \in Indexing(s)'
    <3> SUFFICES ASSUME NEW u, u \in Indexing(s)
                 PROVE  u \in Indexing(s)'
      OBVIOUS
    <3>1. PICK g \in Handlers : /\ req[g].pc \in {"index", "apply"} /\ req[g].store = s
                                /\ u \in Unapplied(req[g])
      BY IndexingParts
    <3>2. req'[g] = req[g]
      BY <1>2, <1>16, <3>1
    <3> QED
      BY <3>1, <3>2 DEF Indexing, Unapplied
  <2>4. \A i \in 1..n : Last(i, s)' => s # s0 /\ Last(i, s)
    <3> SUFFICES ASSUME NEW i \in 1..n, Last(i, s)'
                 PROVE  s # s0 /\ Last(i, s)
      OBVIOUS
    <3>1. log'[i].store = s /\ \A k \in i + 1 .. n + 1 : log'[k].store # s
      BY <1>8 DEF Last
    <3>2. n + 1 \in i + 1 .. n + 1 /\ \A k \in i + 1 .. n : k \in 1..n /\ k \in i + 1 .. n + 1
      BY <1>7
    <3> QED
      BY <1>5, <1>6, <1>7, <1>8, <3>1, <3>2 DEF Last
  <2>5. ASSUME NEW i \in 1..n + 1, log'[i].store = s
        PROVE  log'[i].rev <= stores[s].root
    <3>1. CASE i = n + 1
      <4>1. s = s0
        BY <1>5, <1>6, <1>8, <2>5, <3>1
      <4>2. stores[s0].root = req[h].rev
        BY <1>2, <1>6, <1>15, <1>17, <4>1 DEF Good, Applied
      <4> QED
        BY <1>5, <1>8, <1>10, <3>1, <4>1, <4>2 DEF Entry
    <3>2. CASE i \in 1..n
      BY <1>7, <1>8, <2>1, <2>5, <3>2 DEF StoreOK
    <3> QED
      BY <1>7, <3>1, <3>2
  <2>6. ASSUME NEW i \in 1..n + 1, Last(i, s)'
        PROVE  \/ stores[s].root \in {log'[i].rev} \cup lost
               \/ \E g \in Handlers : Applied(g)' /\ req'[g].store = s
    <3>1. CASE i = n + 1
      <4>1. s = s0
        BY <1>5, <1>6, <1>8, <2>6, <3>1 DEF Last
      <4>2. stores[s0].root = req[h].rev
        BY <1>2, <1>6, <1>15, <1>17, <4>1 DEF Good, Applied
      <4> QED
        BY <1>5, <1>8, <3>1, <4>1, <4>2
    <3>2. CASE i \in 1..n
      <4>1. s # s0 /\ Last(i, s)
        BY <2>4, <2>6, <3>2
      <4>2. CASE stores[s].root \in {log[i].rev} \cup lost
        BY <1>8, <3>2, <4>2
      <4>3. ASSUME NEW g \in Handlers, Applied(g), req[g].store = s
            PROVE  Applied(g)' /\ req'[g].store = s
        BY <1>6, <1>16, <4>1, <4>3 DEF Applied
      <4> QED
        BY <1>7, <2>1, <3>2, <4>1, <4>2, <4>3 DEF StoreOK
    <3> QED
      BY <1>7, <3>1, <3>2
  <2>7. ASSUME NEW g \in Handlers, req'[g].pc \in Writing, req'[g].store = s
        PROVE  Good(g)'
    <3>1. g # h /\ req'[g] = req[g] /\ s # s0
      BY <2>2, <2>7
    <3>2. Good(g)
      BY <2>1, <2>7, <3>1 DEF StoreOK
    <3>3. \A i \in DOMAIN log' : log'[i].store = s => i \in 1..n /\ log'[i] = log[i]
      BY <1>5, <1>6, <1>7, <1>8, <3>1
    <3>4. \A i \in DOMAIN log' : Last(i, s)' => i \in 1..n /\ log'[i] = log[i] /\ Last(i, s)
      <4>1. \A i \in DOMAIN log' : Last(i, s)' => log'[i].store = s
        BY DEF Last
      <4> QED
        BY <2>4, <3>3, <4>1
    <3>5. /\ \A i \in DOMAIN log' : Last(i, req[g].store)' =>
                 req'[g].since \in {log'[i].rev} \cup lost'
          /\ \A i \in DOMAIN log' : Applied(g)' /\ log'[i].store = req'[g].store =>
                 log'[i].rev < req'[g].rev
      <4>1. \A i \in DOMAIN log' : Last(i, req[g].store)' => Last(i, s)'
        BY <2>7 DEF Last
      <4>2. \A i \in 1..n : Last(i, s) => req[g].since \in {log[i].rev} \cup lost
        BY <1>7, <2>7, <3>1, <3>2 DEF Good
      <4>3. \A i \in 1..n : Applied(g) /\ log[i].store = s => log[i].rev < req[g].rev
        BY <1>7, <2>7, <3>1, <3>2 DEF Good
      <4> QED
        BY <1>2, <2>7, <3>1, <3>3, <3>4, <4>1, <4>2, <4>3 DEF Applied
    <3>6. stores' = stores /\ torn' = torn
      BY <1>2
    <3> QED
      BY <3>1, <3>2, <3>5, <3>6 DEF Good, Applied
  <2>8. /\ \A u \in Uris \ (torn'[s] \cup Indexing(s)') : stores'[s].index[u] = stores'[s].mst[u]
        /\ \A u \in Uris \ torn'[s] : stores'[s].mst[u] \in stores'[s].blocks \cup {NoCid}
    BY <1>2, <2>1, <2>3 DEF StoreOK
  <2> QED
    BY <1>2, <1>8, <2>5, <2>6, <2>7, <2>8 DEF StoreOK
<1>18. RootsBelow'
  BY <1>2, <1>14 DEF RootsBelow
<1>19. \A i \in 1..n : Guarded(i)' <=> Guarded(i)
  BY <1>2, <1>8 DEF Guarded
<1>20. Guarded(n + 1)' => s0 \notin unguarded
  BY <1>2, <1>5, <1>6, <1>8 DEF Guarded
<1>21. SequencedInOrder'
  <2> SUFFICES ASSUME NEW i \in 1..n + 1, NEW j \in 1..n + 1, i < j,
                      log'[i].store = log'[j].store, Guarded(i)'
               PROVE  log'[i].rev < log'[j].rev
    BY <1>8 DEF SequencedInOrder
  <2>1. i \in 1..n /\ Guarded(i)
    BY <1>7, <1>19
  <2>2. CASE j \in 1..n
    BY <1>7, <1>8, <1>14, <2>1, <2>2 DEF SequencedInOrder
  <2>3. CASE j = n + 1
    <3>1. log[i].store = s0 /\ s0 \notin unguarded
      BY <1>5, <1>6, <1>8, <2>1, <2>3 DEF Guarded
    <3>2. log[i].rev < req[h].rev
      BY <1>2, <1>6, <1>7, <1>15, <2>1, <3>1 DEF Good, Applied
    <3> QED
      BY <1>5, <1>8, <2>1, <2>3, <3>2
  <2> QED
    BY <1>7, <2>2, <2>3
<1>22. CommitsChain'
  <2> SUFFICES ASSUME NEW j \in 1..n + 1, Guarded(j)'
               PROVE  /\ log'[j].swap \in {None, log'[j].since}
                      /\ \A i \in 1..n + 1 :
                           /\ i < j /\ log'[i].store = log'[j].store
                           /\ \A k \in i + 1 .. j - 1 : log'[k].store # log'[j].store
                           => log'[j].since = log'[i].rev \/ log'[j].since \in lost'
    BY <1>8 DEF CommitsChain
  <2>1. CASE j \in 1..n
    <3>1. log'[j] = log[j] /\ Guarded(j)
      BY <1>8, <1>19, <2>1
    <3>2. \A i \in 1..n + 1 : i < j => i \in 1..n /\ \A k \in i + 1 .. j - 1 : k \in 1..n
      BY <1>7, <2>1
    <3>3. /\ log[j].swap \in {None, log[j].since}
          /\ \A i \in 1..n :
               /\ i < j /\ log[i].store = log[j].store
               /\ \A k \in i + 1 .. j - 1 : log[k].store # log[j].store
               => log[j].since = log[i].rev \/ log[j].since \in lost
      BY <1>7, <1>14, <2>1, <3>1 DEF CommitsChain
    <3> QED
      BY <1>2, <1>8, <3>1, <3>2, <3>3
  <2>2. CASE j = n + 1
    <3>1. Good(h) /\ log'[j] = e
      BY <1>8, <1>15, <1>20, <2>2
    <3>2. ASSUME NEW i \in 1..n + 1, i < j, log'[i].store = log'[j].store,
                 \A k \in i + 1 .. j - 1 : log'[k].store # log'[j].store
          PROVE  log'[j].since = log'[i].rev \/ log'[j].since \in lost'
      <4>1. i \in 1..n /\ log'[i] = log[i] /\ j - 1 = n
        BY <1>7, <1>8, <2>2, <3>2
      <4>2. \A k \in i + 1 .. n : k \in i + 1 .. j - 1 /\ k \in 1..n
        BY <1>7, <4>1
      <4>3. Last(i, s0)
        BY <1>5, <1>6, <1>7, <1>8, <3>1, <3>2, <4>1, <4>2 DEF Last
      <4>4. req[h].since \in {log[i].rev} \cup lost
        BY <1>6, <1>7, <3>1, <4>1, <4>3 DEF Good
      <4> QED
        BY <1>2, <1>5, <3>1, <4>1, <4>4
    <3> QED
      BY <1>5, <3>1, <3>2 DEF Good
  <2> QED
    BY <1>7, <2>1, <2>2
<1>23. PrevIsTrue'
  <2> SUFFICES ASSUME NEW i \in 1..n + 1, Guarded(i)',
                      NEW u \in DOMAIN log'[i].prev \ log'[i].stale
               PROVE  log'[i].prev[u] = log'[i].was[u]
    BY <1>8 DEF PrevIsTrue
  <2>1. CASE i \in 1..n
    BY <1>7, <1>8, <1>14, <1>19, <2>1 DEF PrevIsTrue
  <2>2. CASE i = n + 1
    BY <1>5, <1>8, <1>15, <1>20, <2>2 DEF Good
  <2> QED
    BY <1>7, <2>1, <2>2
<1>24. RepoPart'
  <2>1. \A s \in DOMAIN stores' \ unguarded' : StoreOK(s)'
    BY <1>2, <1>17
  <2> QED
    BY <1>12, <1>13, <1>18, <1>21, <1>22, <1>23, <2>1, Together
<1> QED
  BY <1>11, <1>12, <1>13, <1>24 DEF Inv

LEMMA CreateDbInv ==
    ASSUME Inv, NEW h \in Handlers, CreateDb(h)
    PROVE  Inv'
<1>1. Types /\ Requests /\ LockPart /\ RepoPart
  BY DEF Inv
<1>2. PICK r : r = [pc |-> "lock", kind |-> "create"]
  OBVIOUS
<1>3. r.pc = "lock" /\ r.kind = "create" /\ DOMAIN r = {"pc", "kind"}
  BY <1>2
<1>4. /\ req[h].pc = "create" /\ req[h].pc \notin Writing /\ ~Keeps(req[h]) /\ DidLock(h, r)
      /\ UNCHANGED <<revs, log, unguarded, lost>>
  BY <1>2 DEF CreateDb, Keeps, Working, Writing
<1>5. /\ Only(h) /\ \E l \in 1..Len(holder') : req'[h] = With(r, "lock", l)
      /\ LockPart' /\ holder' \in Seq(Handlers \cup {NoHandler})
      /\ Len(holder) <= Len(holder') /\ locks' \in 0..Len(holder')
  BY <1>1, <1>3, <1>4, DidLockParts
<1>6. PICK l \in 1..Len(holder') : req'[h] = With(r, "lock", l)
  BY <1>5
<1>7. /\ req'[h].pc = "lock" /\ req'[h].kind = "create" /\ req'[h].lock = l
      /\ DOMAIN req'[h] = {"pc", "kind", "lock"}
  BY <1>3, <1>6 DEF With
<1>8. req'[h].pc \notin Writing /\ \A n, v : ReqOK(req'[h], n, Len(holder'), v)
  BY <1>7 DEF ReqOK, Pcs, Writing
<1>9. /\ dir \in 0..Len(stores) /\ Len(stores) \in Nat /\ Len(holder) \in Nat
      /\ Len(holder') \in Nat /\ revs \in Nat
  BY <1>1, <1>5, Parts DEF Types
<1>10. CASE dir # None /\ cache' = dir /\ UNCHANGED <<stores, dir, torn>>
  <2>1. dir' \in 0..Len(stores) /\ cache' \in 0..Len(stores)
    BY <1>9, <1>10
  <2> QED
    BY <1>4, <1>5, <1>8, <1>10, <2>1, StepInv
<1>11. CASE /\ dir = None /\ stores' = Append(stores, EmptyStore) /\ torn' = Append(torn, {})
            /\ dir' = Len(stores) + 1 /\ cache' = Len(stores) + 1
  <2>1. PICK s0 : s0 = Len(stores) + 1 /\ s0 \in Nat
    BY <1>9
  <2>2. /\ EmptyStore \in Store /\ EmptyStore.root = 0
        /\ \A u \in Uris : EmptyStore.index[u] = NoCid /\ EmptyStore.mst[u] = NoCid
    BY DEF EmptyStore, Store, None
  <2>3. /\ stores' \in Seq(Store) /\ Len(stores') = s0 /\ stores'[s0] = EmptyStore
        /\ \A s \in 1..Len(stores) : stores'[s] = stores[s]
    <3>1. stores \in Seq(Store)
      BY <1>1 DEF Types
    <3> QED
      BY <1>11, <2>1, <2>2, <3>1, AppendProperties
  <2>4. /\ torn' \in Seq(SUBSET Uris) /\ Len(torn') = s0
        /\ \A s \in 1..Len(stores) : torn'[s] = torn[s]
    <3>1. torn \in Seq(SUBSET Uris) /\ Len(torn) = Len(stores)
      BY <1>1 DEF Types
    <3>2. {} \in SUBSET Uris
      OBVIOUS
    <3> QED
      BY <1>11, <2>1, <3>1, <3>2, AppendProperties
  <2>5. Requests'
    <3>1. /\ Len(stores') \in Nat /\ revs' \in Nat /\ Len(stores) <= Len(stores')
          /\ revs <= revs' /\ ReqOK(req'[h], Len(stores'), Len(holder'), revs')
      BY <1>4, <1>8, <1>9, <2>1, <2>3
    <3> QED
      BY <1>1, <1>5, <1>9, <3>1, OneRequest
  <2>6. Types'
    <3>1. log \in Seq(Entry(Len(stores), revs)) /\ Len(stores) <= s0 /\ revs <= revs
      BY <1>1, <1>9, <2>1 DEF Types
    <3>2. log \in Seq(Entry(s0, revs))
      BY <1>9, <2>1, <3>1, LogGrows
    <3>3. dir' \in 0..s0 /\ cache' \in 0..s0
      BY <1>11, <2>1
    <3>4. DOMAIN req' = Handlers
      BY <1>5 DEF Only
    <3> QED
      BY <1>4, <1>5, <1>9, <2>3, <2>4, <3>2, <3>3, <3>4 DEF Types
  <2>7. StoreOK(s0)'
    <3>1. \A i \in DOMAIN log' : log'[i].store # s0
      <4>1. \A i \in 1..Len(log) : log[i] \in Entry(Len(stores), revs)
        BY <1>1, Parts
      <4> QED
        BY <1>1, <1>4, <1>9, <2>1, <4>1, Parts DEF Entry
    <3>2. ASSUME NEW g \in Handlers, req'[g].pc \in Writing, req'[g].store = s0
          PROVE  FALSE
      <4>1. req'[g] = req[g]
        BY <1>5, <1>8, <3>2 DEF Only
      <4>2. req[g].store \in 1..Len(stores)
        BY <1>1, <3>2, <4>1, WorkParts DEF Working
      <4> QED
        BY <1>9, <2>1, <3>2, <4>1, <4>2
    <3> QED
      BY <2>2, <2>3, <3>1, <3>2 DEF StoreOK, Last
  <2>8. /\ s0 \in 1..Len(stores') /\ stores'[s0].root <= revs' /\ revs' \in Nat /\ revs <= revs'
        /\ \A s \in 1..Len(stores') : s # s0 => /\ s \in 1..Len(stores)
                                                /\ stores'[s] = stores[s] /\ torn'[s] = torn[s]
    BY <1>4, <1>9, <2>1, <2>2, <2>3, <2>4
  <2> QED
    BY <1>4, <1>5, <1>8, <2>5, <2>6, <2>7, <2>8, WorkInv
<1> QED
  BY <1>10, <1>11 DEF CreateDb

LEMMA CreateRepoInv ==
    ASSUME Inv, NEW h \in Handlers, CreateRepo(h)
    PROVE  Inv'
<1>1. Types /\ Requests /\ LockPart /\ RepoPart
  BY DEF Inv
<1>2. /\ req[h].pc = "init" /\ req[h].pc \in Working /\ req[h].pc \notin Writing
      /\ UNCHANGED <<dir, cache, locks, log, unguarded>>
  BY DEF CreateRepo, Working, Writing
<1>3. ReqOK(req[h], Len(stores), Len(holder), revs)
  BY <1>1 DEF Requests
<1>4. req[h].kind = "create" /\ "kind" \in DOMAIN req[h] /\ req[h].store \in 1..Len(stores)
  BY <1>2, <1>3 DEF ReqOK
<1>5. PICK s0 \in 1..Len(stores) : s0 = req[h].store
  BY <1>4
<1>6. /\ stores[s0] \in Store /\ revs \in Nat /\ Len(stores) \in Nat /\ Len(holder) \in Nat
  BY <1>1, Parts DEF Types
<1>7. CASE Abandon(h) /\ UNCHANGED <<stores, revs>>
  BY <1>2, <1>7, AbandonInv
<1>8. CASE /\ stores[s0].root = None /\ revs' = revs + 1
           /\ stores' = [stores EXCEPT ![s0].root = revs + 1]
           /\ req' = [req EXCEPT ![h].pc = "account"]
           /\ holder' = Release(h) /\ UNCHANGED <<torn, lost>>
  <2>1. PICK new : new = [stores[s0] EXCEPT !.root = revs + 1]
    OBVIOUS
  <2>2. /\ new \in Store /\ new.root = revs + 1 /\ new.mst = stores[s0].mst
        /\ new.index = stores[s0].index /\ new.blocks = stores[s0].blocks
    BY <1>6, <2>1 DEF Store
  <2>3. /\ stores' \in Seq(Store) /\ Len(stores') = Len(stores) /\ stores'[s0] = new
        /\ \A s \in 1..Len(stores) : s # s0 => stores'[s] = stores[s]
    <3>1. stores \in Seq(Store)
      BY <1>1 DEF Types
    <3>2. stores' = [stores EXCEPT ![s0] = new]
      BY <1>8, <2>1
    <3>3. stores' \in Seq(Store) /\ Len(stores') = Len(stores)
      BY <2>2, <3>1, <3>2, ExceptSeq
    <3> QED
      BY <1>1, <3>2, <3>3, Parts
  <2>4. /\ Only(h) /\ req'[h].pc = "account" /\ DOMAIN req'[h] = DOMAIN req[h]
        /\ \A x \in DOMAIN req[h] : x # "pc" => req'[h][x] = req[h][x]
    BY <1>1, <1>8, Moves
  <2>5. req'[h].kind = "create"
    BY <1>4, <2>4
  <2>6. /\ \A n, m, v : ReqOK(req'[h], n, m, v)
        /\ req'[h].pc \notin {"open"} \cup Working \cup Writing
    BY <1>3, <1>4, <2>4, <2>5 DEF ReqOK, Pcs, Working, Writing
  <2>7. LockPart' /\ holder' \in Seq(Handlers \cup {NoHandler}) /\ Len(holder') = Len(holder)
    BY <1>1, <1>2, <1>8, <2>4, <2>6, FreesLocks
  <2>8. Requests'
    <3>1. /\ Len(stores') \in Nat /\ Len(holder') \in Nat /\ revs' \in Nat
          /\ Len(stores) <= Len(stores') /\ Len(holder) <= Len(holder') /\ revs <= revs'
          /\ ReqOK(req'[h], Len(stores'), Len(holder'), revs')
      BY <1>6, <1>8, <2>3, <2>6, <2>7
    <3> QED
      BY <1>1, <2>4, <3>1, OneRequest
  <2>9. Types'
    <3>1. log \in Seq(Entry(Len(stores), revs)) /\ revs + 1 \in Nat /\ revs <= revs + 1
          /\ Len(stores) <= Len(stores)
      BY <1>1, <1>6 DEF Types
    <3>2. log \in Seq(Entry(Len(stores), revs + 1))
      BY <1>6, <3>1, LogGrows
    <3>3. DOMAIN req' = Handlers
      BY <2>4 DEF Only
    <3> QED
      BY <1>1, <1>2, <1>8, <2>3, <2>7, <3>1, <3>2, <3>3 DEF Types
  <2>10. ASSUME s0 \notin unguarded
         PROVE  StoreOK(s0)'
    <3>1. StoreOK(s0)
      BY <1>1, <2>10, ByStore, Parts
    <3>2. \A g \in Handlers : req[g].pc \in Writing => req[g].store # s0
      BY <1>2, <1>4, <1>5, <2>10, NobodyElse
    <3>3. \A g \in Handlers : g # h => req'[g] = req[g]
      BY <2>4 DEF Only
    <3>4. Indexing(s0) = {}
      BY <3>2, IndexingParts DEF Writing
    <3>5. \A i \in DOMAIN log : log[i].store # s0
      <4> SUFFICES ASSUME NEW i \in 1..Len(log), log[i].store = s0
                   PROVE  FALSE
        BY <1>1, Parts
      <4>1. log[i] \in Entry(Len(stores), revs)
        BY <1>1, Parts
      <4>2. log[i].rev <= stores[s0].root
        BY <1>1, <3>1, Parts DEF StoreOK
      <4> QED
        BY <1>6, <1>8, <4>1, <4>2 DEF Entry, None
    <3>6. \A g \in Handlers : req'[g].pc \in Writing => req'[g].store # s0
      BY <2>6, <3>2, <3>3
    <3>7. \A i \in DOMAIN log' : log'[i].store # s0
      BY <1>2, <3>5
    <3>8. \A u \in Uris \ torn[s0] : /\ stores[s0].index[u] = stores[s0].mst[u]
                                     /\ stores[s0].mst[u] \in stores[s0].blocks \cup {NoCid}
      BY <3>1, <3>4 DEF StoreOK
    <3> QED
      BY <1>8, <2>2, <2>3, <3>6, <3>7, <3>8 DEF StoreOK, Last
  <2>11. /\ s0 \in 1..Len(stores') /\ stores'[s0].root <= revs' /\ revs' \in Nat /\ revs <= revs'
         /\ \A s \in 1..Len(stores') : s # s0 => /\ s \in 1..Len(stores)
                                                 /\ stores'[s] = stores[s] /\ torn'[s] = torn[s]
    BY <1>6, <1>8, <2>2, <2>3
  <2> QED
    BY <1>2, <1>8, <2>4, <2>6, <2>7, <2>8, <2>9, <2>10, <2>11, WorkInv
<1> QED
  BY <1>5, <1>7, <1>8 DEF CreateRepo

-----------------------------------------------------------------------------
LEMMA InitInv == Init => Inv
<1> SUFFICES ASSUME Init
             PROVE  Inv
  OBVIOUS
<1>1. PICK s : s = [EmptyStore EXCEPT !.root = 1]
  OBVIOUS
<1>2. /\ s \in Store /\ s.root = 1
      /\ \A u \in Uris : s.index[u] = NoCid /\ s.mst[u] = NoCid
  BY <1>1 DEF EmptyStore, Store, None
<1>3. /\ stores = <<s>> /\ Len(stores) = 1 /\ stores[1] = s /\ DOMAIN stores = {1}
      /\ torn = <<{}>> /\ Len(torn) = 1 /\ log = <<>> /\ DOMAIN log = {}
      /\ holder = <<>> /\ Len(holder) = 0 /\ DOMAIN holder = {}
      /\ \A h \in Handlers : req[h] = Idle /\ req[h].pc = "idle"
  BY <1>1, IdleOK DEF Init
<1>4. Types
  <2>1. stores \in Seq(Store) /\ torn \in Seq(SUBSET Uris)
    BY <1>2, <1>3
  <2>2. log \in Seq(Entry(Len(stores), revs)) /\ holder \in Seq(Handlers \cup {NoHandler})
    BY <1>3
  <2> QED
    BY <1>3, <2>1, <2>2 DEF Init, Types, None
<1>5. Requests
  BY <1>3, IdleOK DEF Requests
<1>6. LockPart
  BY <1>3 DEF LockPart, Held, Holding, Guarding, Working, Writing
<1>7. RepoPart
  <2>1. RootsBelow /\ \A t \in DOMAIN stores \ unguarded : StoreOK(t)
    BY <1>2, <1>3 DEF RootsBelow, StoreOK, Writing, Init
  <2>2. SequencedInOrder /\ CommitsChain /\ PrevIsTrue
    BY <1>3 DEF SequencedInOrder, CommitsChain, PrevIsTrue
  <2> QED
    BY <1>4, <1>5, <2>1, <2>2, ByStore
<1> QED
  BY <1>4, <1>5, <1>6, <1>7 DEF Inv

LEMMA NextInv == Inv /\ [Next]_vars => Inv'
<1> SUFFICES ASSUME Inv, [Next]_vars
             PROVE  Inv'
  OBVIOUS
<1>1. CASE UNCHANGED vars
  BY <1>1 DEF vars, Inv, Types, Requests, LockPart, Held, Holding, Guarding, Applied, Last,
     RepoPart, IndexMatchesRepo, Indexing, RecordBlocksPresent, Roots, Chained, Writers, Good,
     SequencedInOrder, CommitsChain, PrevIsTrue, Guarded
<1>2. ASSUME NEW h \in Handlers,
             CreateRecord(h) \/ PutRecord(h) \/ DeleteRecord(h) \/ ApplyWrites(h)
      PROVE  Inv'
  <2>1. \A action : Singles(action) \in SUBSET Batches
    BY DEF Singles
  <2> QED
    BY <1>2, <2>1, StartWriteInv DEF CreateRecord, PutRecord, DeleteRecord, ApplyWrites
<1>3. ASSUME NEW h \in Handlers, StartRead(h) \/ StartCreate(h) \/ StartDelete(h)
      PROVE  Inv'
  BY <1>3, ReadsInv, CreatesInv, DeletesInv
<1>4. ASSUME NEW h \in Handlers, Step(h)
      PROVE  Inv'
  <2>1. CASE Lock(h) \/ OpenDb(h) \/ CachePut(h) \/ LoadKey(h)
    BY <2>1, LockInv, OpenDbInv, CachePutInv, LoadKeyInv
  <2>2. CASE FormatCommit(h) \/ IndexRecord(h) \/ ApplyCommit(h) \/ WriteBlobs(h)
    BY <2>2, FormatCommitInv, IndexRecordInv, ApplyCommitInv, WriteBlobsInv
  <2>3. CASE SequenceCommit(h) \/ ReadRoot(h) \/ ReadBlocks(h) \/ CreateDb(h)
    BY <2>3, SequenceCommitInv, ReadsInv, CreateDbInv
  <2>4. CASE CreateRepo(h) \/ CreateRows(h) \/ PopCache(h) \/ RemoveLock(h)
    BY <2>4, CreateRepoInv, CreatesInv, DeletesInv, RemoveLockInv
  <2>5. CASE RemoveDir(h) \/ DeleteRows(h)
    BY <2>5, RemoveDirInv, DeletesInv
  <2> QED
    BY <1>4, <2>1, <2>2, <2>3, <2>4, <2>5 DEF Step
<1>5. ASSUME NEW h \in Handlers, Fault(h)
      PROVE  Inv'
  BY <1>5, FaultInv
<1>6. CASE Evict \/ Crash
  BY <1>6, EvictInv, CrashInv
<1> QED
  BY <1>1, <1>2, <1>3, <1>4, <1>5, <1>6 DEF Next

(* Through every interleaving of writers, readers, account creations and   *)
(* deletions, failing statements and restarts, the inductive invariant     *)
(* holds.                                                                  *)
THEOREM Invariance == Spec => []Inv
<1> QED
  BY InitInv, NextInv, PTL DEF Spec

(* The store of an actor stays consistent: index and repo agree except     *)
(* where a write is under way or failed, every record has its block, and   *)
(* no request that is over holds the write lock (ActorStore::transact,     *)
(* process_writes, destroy).                                               *)
THEOREM StoreKept == Spec => []StoreConsistent
<1>1. Inv => StoreConsistent
  <2> SUFFICES ASSUME Inv
               PROVE  StoreConsistent
    OBVIOUS
  <2>1. Types /\ Requests /\ LockPart /\ RepoPart
    BY DEF Inv
  <2>2. DOMAIN stores = 1..Len(stores) /\ DOMAIN holder = 1..Len(holder)
        /\ \A l \in 1..Len(holder) : holder[l] \in Handlers \cup {NoHandler}
    BY <2>1, Parts
  <2>3. TypeOK
    <3>1. /\ stores \in Seq(Store) /\ {dir, cache} \subseteq 0..Len(stores)
          /\ locks \in 0..Len(holder)
      BY <2>1 DEF Types
    <3>2. ASSUME NEW h \in Handlers
          PROVE  /\ req[h].pc \in Pcs
                 /\ req[h].pc \in {"key", "format", "index", "apply", "blobs",
                                   "sequence", "root", "read", "init", "warm"}
                      => req[h].store \in DOMAIN stores
                 /\ req[h].pc = "lock" => req[h].lock \in DOMAIN holder
      <4>1. ReqOK(req[h], Len(stores), Len(holder), revs)
        BY <2>1 DEF Requests
      <4>2. req[h].pc \in Working => req[h].store \in DOMAIN stores
        BY <2>1, <2>2, WorkParts
      <4>3. req[h].pc \in {"root", "read"} => req[h].store \in DOMAIN stores
        BY <2>2, <4>1 DEF ReqOK
      <4>4. req[h].pc \in Pcs /\ (req[h].pc = "lock" => req[h].lock \in DOMAIN holder)
        BY <2>2, <4>1 DEF ReqOK
      <4> QED
        BY <4>2, <4>3, <4>4 DEF Working, Writing
    <3> QED
      BY <2>2, <3>1, <3>2 DEF TypeOK
  <2>4. NoLeakedLock
    BY <2>1 DEF NoLeakedLock, LockPart, Held, Keeps, Working, Writing
  <2> QED
    BY <2>1, <2>3, <2>4 DEF StoreConsistent, RepoPart
<1> QED
  BY <1>1, Invariance, PTL

(* The firehose shows one chain of commits of an actor: they are sequenced *)
(* in the order of their revisions, each follows on the one before unless  *)
(* that one was lost, and a swapCommit named the commit it replaced        *)
(* (format_commit, sequence_commit).                                       *)
THEOREM InOrder == Spec => []CommitsInOrder
<1>1. Inv => CommitsInOrder
  BY DEF Inv, RepoPart, CommitsInOrder
<1> QED
  BY <1>1, Invariance, PTL

(* The previous version of a record that a commit names is the one the     *)
(* repo had (format_commit, get_current_record_cids).                      *)
THEOREM PrevTrue == Spec => []PrevIsTrue
<1>1. Inv => PrevIsTrue
  BY DEF Inv, RepoPart
<1> QED
  BY <1>1, Invariance, PTL
=============================================================================
