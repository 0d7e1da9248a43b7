--------------------------- MODULE FirehoseProofs ---------------------------
(***************************************************************************)
(* Theorems about the firehose, for every number of handlers and           *)
(* subscribers and every size of its channels.                             *)
(***************************************************************************)
EXTENDS Firehose, FiniteSetTheorems, TLAPS

-----------------------------------------------------------------------------
(* The ULIDs of the generator have their type. *)
LEMMA NextIdsType ==
    ASSUME SequencerTypeOK
    PROVE  NextIds \subseteq Ulid
BY SequencerAssumption DEF SequencerTypeOK, NextIds, Ulid

(* The sequencer keeps its types in every step. *)
LEMMA SequencerStepType ==
    ASSUME SequencerTypeOK, SequencerStep
    PROVE  SequencerTypeOK'
<1> USE SequencerAssumption DEF SequencerTypeOK
<1>1. CASE AdjustClock
  BY <1>1 DEF AdjustClock
<1>2. ASSUME NEW w \in Writers, Format(w)
      PROVE  SequencerTypeOK'
  BY <1>2 DEF Format, WriterState, Idle
<1>3. ASSUME NEW w \in Writers, MintId(w)
      PROVE  SequencerTypeOK'
  <2>1. PICK id \in NextIds :
          /\ idgen' = id
          /\ writer' = [writer EXCEPT ![w] =
               [pc |-> "minted",
                evt |-> [id |-> id, did |-> writer[w].did,
                         sequencedAt |-> writer[w].sequencedAt]]]
    BY <1>3 DEF MintId
  <2>2. id \in Ulid
    BY NextIdsType
  <2>3. writer[w] \in [pc : {"formatted"}, did : Dids, sequencedAt : Nat]
    BY <1>3 DEF MintId, WriterState
  <2>4. writer' \in [Writers -> WriterState]
    BY <2>1, <2>2, <2>3 DEF WriterState, Event
  <2> QED
    BY <1>3, <2>1, <2>2, <2>4 DEF MintId
<1>4. ASSUME NEW w \in Writers, InsertRow(w)
      PROVE  SequencerTypeOK'
  <2>1. writer[w].evt \in Event
    BY <1>4 DEF InsertRow, WriterState
  <2>2. writer' \in [Writers -> WriterState]
    BY <1>4, <2>1 DEF InsertRow, WriterState, Idle
  <2>3. IsFiniteSet(repo_seq')
    BY <1>4, FS_AddElement DEF InsertRow
  <2> QED
    BY <1>4, <2>1, <2>2, <2>3 DEF InsertRow
<1>5. ASSUME NEW w \in Writers, InsertFails(w)
      PROVE  SequencerTypeOK'
  BY <1>5 DEF InsertFails, Fault, WriterState, Idle
<1>6. ASSUME NEW w \in Writers, EnqueueJob(w)
      PROVE  SequencerTypeOK'
  <2>1. writer[w].evt \in Event /\ seq(writer[w].evt) \in Nat
    BY <1>6 DEF EnqueueJob, WriterState, Event, Ulid, seq
  <2>2. DOMAIN jobs' \subseteq Nat /\ jobs' \in [DOMAIN jobs' -> Job]
    BY <1>6, <2>1 DEF EnqueueJob, Job
  <2>3. writer' \in [Writers -> WriterState]
    BY <1>6 DEF EnqueueJob, WriterState, Idle
  <2> QED
    BY <1>6, <2>2, <2>3 DEF EnqueueJob
<1>7. ASSUME NEW w \in Writers, EnqueueFails(w)
      PROVE  SequencerTypeOK'
  BY <1>7 DEF EnqueueFails, Fault, WriterState, Idle
<1>8. CASE FetchJob
  <2>1. PICK m \in Pending :
          worker' = [pc |-> "fetched", job |-> m, evt |-> jobs[m].evt]
    BY <1>8 DEF FetchJob
  <2>2. m \in Nat /\ jobs[m].evt \in Event
    BY <2>1 DEF Pending, Job
  <2> QED
    BY <1>8, <2>1, <2>2 DEF FetchJob, WorkerState
<1>9. CASE MarkDone
  <2>1. worker \in [pc : {"fetched", "marked"}, job : Nat, evt : Event]
    BY <1>9 DEF MarkDone, WorkerState
  <2>2. worker' \in WorkerState
    BY <1>9, <2>1 DEF MarkDone, WorkerState
  <2>3. DOMAIN jobs' = DOMAIN jobs /\ jobs' \in [DOMAIN jobs' -> Job]
    BY <1>9 DEF MarkDone, Job
  <2> QED
    BY <1>9, <2>2, <2>3 DEF MarkDone
<1>10. CASE MarkDoneFails
  BY <1>10 DEF MarkDoneFails, Fault, WorkerState
<1>11. CASE Publish
  <2>1. worker.evt \in Event
    BY <1>11 DEF Publish, WorkerState
  <2> QED
    BY <1>11, <2>1 DEF Publish, WorkerState, Idle
<1>12. ASSUME NEW d \in Dids, DeleteAllForUser(d)
       PROVE  SequencerTypeOK'
  <2>1. IsFiniteSet(repo_seq')
    BY <1>12, FS_Subset DEF DeleteAllForUser
  <2> QED
    BY <1>12, <2>1 DEF DeleteAllForUser
<1> QED
  BY <1>1, <1>2, <1>3, <1>4, <1>5, <1>6, <1>7, <1>8, <1>9, <1>10, <1>11, <1>12
     DEF SequencerStep, WriterStep, WorkerStep

-----------------------------------------------------------------------------
(* The initial connection is a connection. *)
LEMMA ClosedType == Closed \in Connection
BY DEF Closed, Connection, ConnectionPc, None

(* Replacing one connection by another keeps the type of sub. *)
LEMMA UpdateType ==
    ASSUME sub \in [Subscribers -> Connection],
           NEW s \in Subscribers, NEW r \in Connection, Update(s, r)
    PROVE  sub' \in [Subscribers -> Connection]
BY DEF Update

(* What the database calls return has its type. *)
LEMMA SeqType ==
    ASSUME NEW e \in Event
    PROVE  seq(e) \in Nat
BY DEF Event, Ulid, seq

(* The rows of a page in order are a sequence of rows of the log. *)
LEMMA OrderedType ==
    ASSUME NEW S, IsFiniteSet(S), NEW q \in Ordered(S)
    PROVE  q \in Seq(S) /\ OrderedById(q)
<1>1. Cardinality(S) \in Nat
  BY FS_CardinalityType
<1> QED
  BY <1>1 DEF Ordered

-----------------------------------------------------------------------------
(* Every step of the sequencer keeps LoggedFirst. *)
LEMMA LoggedFirstStep ==
    ASSUME SequencerTypeOK, LoggedFirst, SequencerStep
    PROVE  LoggedFirst' /\ sequenced \subseteq sequenced'
<1> USE DEF SequencerTypeOK, LoggedFirst
<1>1. CASE AdjustClock
  BY <1>1 DEF AdjustClock
<1>2. ASSUME NEW w \in Writers, Format(w)
      PROVE  LoggedFirst' /\ sequenced \subseteq sequenced'
  BY <1>2 DEF Format
<1>3. ASSUME NEW w \in Writers, MintId(w)
      PROVE  LoggedFirst' /\ sequenced \subseteq sequenced'
  BY <1>3 DEF MintId
<1>4. ASSUME NEW w \in Writers, InsertRow(w)
      PROVE  LoggedFirst' /\ sequenced \subseteq sequenced'
  BY <1>4 DEF InsertRow, Idle
<1>5. ASSUME NEW w \in Writers, InsertFails(w)
      PROVE  LoggedFirst' /\ sequenced \subseteq sequenced'
  BY <1>5 DEF InsertFails, Idle
<1>6. ASSUME NEW w \in Writers, EnqueueJob(w)
      PROVE  LoggedFirst' /\ sequenced \subseteq sequenced'
  BY <1>6 DEF EnqueueJob, Idle
<1>7. ASSUME NEW w \in Writers, EnqueueFails(w)
      PROVE  LoggedFirst' /\ sequenced \subseteq sequenced'
  BY <1>7 DEF EnqueueFails, Idle
<1>8. CASE FetchJob
  BY <1>8 DEF FetchJob, Pending
<1>9. CASE MarkDone
  <2>1. \A m \in DOMAIN jobs' : m \in DOMAIN jobs /\ jobs'[m].evt = jobs[m].evt
    BY <1>9 DEF MarkDone, Job
  <2>2. worker'.evt = worker.evt
    BY <1>9 DEF MarkDone, WorkerState
  <2> QED
    BY <1>9, <2>1, <2>2 DEF MarkDone
<1>10. CASE MarkDoneFails
  <2>1. worker'.evt = worker.evt
    BY <1>10 DEF MarkDoneFails, WorkerState
  <2> QED
    BY <1>10, <2>1 DEF MarkDoneFails
<1>11. CASE Publish
  <2>1. worker.evt \in sequenced /\ worker.evt \in Event
    BY <1>11 DEF Publish, WorkerState
  <2> QED
    BY <1>11, <2>1 DEF Publish, Idle
<1>12. ASSUME NEW d \in Dids, DeleteAllForUser(d)
       PROVE  LoggedFirst' /\ sequenced \subseteq sequenced'
  BY <1>12 DEF DeleteAllForUser
<1> QED
  BY <1>1, <1>2, <1>3, <1>4, <1>5, <1>6, <1>7, <1>8, <1>9, <1>10, <1>11, <1>12
     DEF SequencerStep, WriterStep, WorkerStep

-----------------------------------------------------------------------------
(***************************************************************************)
(* The inductive invariant.  DeliveredInOrder is not inductive: what keeps *)
(* a delivery in order is that the stages behind it (backfill, bounded     *)
(* channel, the forwarder's hand) only hold later events, and that the     *)
(* forwarder lets nothing pass that is not past all of them, which is      *)
(* what last_seen bounds.                                                  *)
(***************************************************************************)
Inv == /\ TypeOK
       /\ LoggedFirst
       /\ StreamInOrder
       /\ \A s \in Subscribers : FromLog(sub[s])

(* The connection s is replaced by one that satisfies the invariant. *)
GoodUpdate(s) ==
    \E r \in Connection : Update(s, r) /\ StreamOrder(r) /\ FromLog(r)

(* A connection that is closed or has no stream yet satisfies it. *)
LEMMA EmptyStream ==
    ASSUME NEW r \in Connection,
           r.delivered = <<>>, r.iter = <<>>, r.mpsc = <<>>, r.held = <<>>,
           r.last_seen = -1
    PROVE  StreamOrder(r) /\ FromLog(r)
BY DEF StreamOrder, FromLog, StagesInOrder, SeenUpTo, OrderedById, AllBefore,
       UpTo, Connection

LEMMA ConnectGood ==
    ASSUME Inv, NEW s \in Subscribers, Connect(s)
    PROVE  GoodUpdate(s)
<1>1. CASE Update(s, [Closed EXCEPT !.pc = "subscribe"])
  <2> DEFINE r == [Closed EXCEPT !.pc = "subscribe"]
  <2>1. r \in Connection
    BY ClosedType DEF Connection, ConnectionPc
  <2>2. /\ r.delivered = <<>> /\ r.iter = <<>> /\ r.mpsc = <<>>
        /\ r.held = <<>> /\ r.last_seen = -1
    BY DEF Closed
  <2>3. Update(s, r)
    BY <1>1
  <2> HIDE DEF r
  <2> QED
    BY <2>1, <2>2, <2>3, EmptyStream DEF GoodUpdate
<1>2. CASE \E c \in Cursors :
             Update(s, [Closed EXCEPT
                          !.pc = "curr", !.cursor = c, !.now = clock,
                          !.known = \E e \in sequenced : seq(e) = c])
  <2>1. PICK c \in Cursors :
             Update(s, [Closed EXCEPT
                          !.pc = "curr", !.cursor = c, !.now = clock,
                          !.known = \E e \in sequenced : seq(e) = c])
    BY <1>2
  <2> DEFINE k == \E e \in sequenced : seq(e) = c
             r == [Closed EXCEPT !.pc = "curr", !.cursor = c, !.now = clock,
                                 !.known = k]
  <2>2. k \in BOOLEAN
    OBVIOUS
  <2>3. c \in Int /\ clock \in Nat
    BY FirehoseAssumption, SequencerAssumption DEF Inv, TypeOK, SequencerTypeOK
  <2> HIDE DEF k
  <2>4. r \in Connection
    BY <2>2, <2>3, ClosedType DEF Connection, ConnectionPc
  <2>5. /\ r.delivered = <<>> /\ r.iter = <<>> /\ r.mpsc = <<>>
        /\ r.held = <<>> /\ r.last_seen = -1
    BY DEF Closed
  <2>6. Update(s, r)
    BY <2>1 DEF k
  <2> HIDE DEF r
  <2> QED
    BY <2>4, <2>5, <2>6, EmptyStream DEF GoodUpdate
<1> QED
  BY <1>1, <1>2 DEF Connect

LEMMA DisconnectGood ==
    ASSUME NEW s \in Subscribers, Disconnect(s)
    PROVE  GoodUpdate(s)
<1>1. StreamOrder(Closed) /\ FromLog(Closed)
  BY ClosedType, EmptyStream DEF Closed
<1> QED
  BY <1>1, ClosedType DEF Disconnect, GoodUpdate

(* Before the backfill the handler changes pc and cursor only. *)
LEMMA CursorChange ==
    ASSUME NEW C \in Connection, StreamOrder(C),
           C.pc \notin {"subscribe", "live"},
           NEW p \in ConnectionPc, NEW c \in Int
    PROVE  LET r == [C EXCEPT !.pc = p, !.cursor = c]
               t == [C EXCEPT !.pc = p]
           IN  /\ r \in Connection /\ StreamOrder(r) /\ FromLog(r)
               /\ t \in Connection /\ StreamOrder(t) /\ FromLog(t)
<1> DEFINE r == [C EXCEPT !.pc = p, !.cursor = c]
           t == [C EXCEPT !.pc = p]
<1>1. r \in Connection /\ t \in Connection
  BY DEF Connection
<1>2. /\ C.delivered = <<>> /\ C.iter = <<>> /\ C.mpsc = <<>>
      /\ C.held = <<>> /\ C.last_seen = -1
  BY DEF StreamOrder
<1>3. /\ r.delivered = <<>> /\ r.iter = <<>> /\ r.mpsc = <<>>
      /\ r.held = <<>> /\ r.last_seen = -1
  BY <1>2 DEF Connection
<1>4. /\ t.delivered = <<>> /\ t.iter = <<>> /\ t.mpsc = <<>>
      /\ t.held = <<>> /\ t.last_seen = -1
  BY <1>2 DEF Connection
<1> HIDE DEF r, t
<1>5. StreamOrder(r) /\ FromLog(r)
  BY <1>1, <1>3, EmptyStream
<1>6. StreamOrder(t) /\ FromLog(t)
  BY <1>1, <1>4, EmptyStream
<1> QED
  BY <1>1, <1>5, <1>6 DEF r, t

LEMMA CursorGood ==
    ASSUME Inv, NEW s \in Subscribers,
           CheckFuture(s) \/ CheckOutdated(s) \/ ResetCursor(s)
    PROVE  GoodUpdate(s)
<1>1. sub[s] \in Connection /\ StreamOrder(sub[s])
  BY DEF Inv, TypeOK, StreamInOrder
<1>2. sub[s].pc \notin {"subscribe", "live"}
  BY DEF CheckFuture, CheckOutdated, ResetCursor
<1>3. \/ \E p \in ConnectionPc : Update(s, [sub[s] EXCEPT !.pc = p])
      \/ \E p \in ConnectionPc, c \in Int :
           Update(s, [sub[s] EXCEPT !.pc = p, !.cursor = c])
  <2>1. CASE CheckFuture(s)
    BY <2>1 DEF CheckFuture, ConnectionPc
  <2>2. CASE CheckOutdated(s)
    BY <2>2 DEF CheckOutdated, ConnectionPc
  <2>3. CASE ResetCursor(s)
    <3>1. \A e \in repo_seq : seq(e) - 1 \in Int
      BY SeqType DEF Inv, TypeOK, SequencerTypeOK
    <3>2. "backfill" \in ConnectionPc /\ "subscribe" \in ConnectionPc
      BY DEF ConnectionPc
    <3>3. None \in Int
      BY DEF None
    <3>4. CASE \E e \in repo_seq :
                 Update(s, [sub[s] EXCEPT !.pc = "backfill",
                                          !.cursor = seq(e) - 1])
      BY <3>1, <3>2, <3>4
    <3>5. CASE Update(s, [sub[s] EXCEPT !.pc = "subscribe", !.cursor = None])
      BY <3>2, <3>3, <3>5
    <3> QED
      BY <2>3, <3>4, <3>5 DEF ResetCursor, EarliestAfter
  <2> QED
    BY <2>1, <2>2, <2>3
<1>4. CASE \E p \in ConnectionPc : Update(s, [sub[s] EXCEPT !.pc = p])
  <2>1. PICK p \in ConnectionPc : Update(s, [sub[s] EXCEPT !.pc = p])
    BY <1>4
  <2> DEFINE t == [sub[s] EXCEPT !.pc = p]
  <2>2. t \in Connection /\ StreamOrder(t) /\ FromLog(t)
    <3>1. 0 \in Int
      OBVIOUS
    <3> QED
      BY <1>1, <1>2, <3>1, CursorChange
  <2> QED
    BY <2>1, <2>2 DEF GoodUpdate
<1>5. CASE \E p \in ConnectionPc, c \in Int :
             Update(s, [sub[s] EXCEPT !.pc = p, !.cursor = c])
  <2>1. PICK p \in ConnectionPc, c \in Int :
             Update(s, [sub[s] EXCEPT !.pc = p, !.cursor = c])
    BY <1>5
  <2> QED
    BY <1>1, <1>2, <2>1, CursorChange DEF GoodUpdate
<1> QED
  BY <1>3, <1>4, <1>5

-----------------------------------------------------------------------------
(* Reading the backfill: the stream gets its first stage. *)
LEMMA FilledGood ==
    ASSUME Inv, NEW s \in Subscribers, sub[s].pc = "backfill",
           NEW q \in Seq(Event), OrderedById(q),
           \A i \in DOMAIN q : q[i] \in sequenced,
           Filled(s, q)
    PROVE  GoodUpdate(s)
<1> DEFINE n == IF q = <<>> THEN -1 ELSE seq(q[Len(q)])
           r == [sub[s] EXCEPT !.pc = "subscribe", !.iter = q, !.last_seen = n]
<1>1. sub[s] \in Connection /\ StreamOrder(sub[s])
  BY DEF Inv, TypeOK, StreamInOrder
<1>2. n \in Int
  <2>1. CASE q # <<>>
    <3>1. q[Len(q)] \in Event
      BY <2>1
    <3> QED
      BY <3>1, SeqType
  <2> QED
    BY <2>1
<1>3. UpTo(q, n)
  <2> SUFFICES ASSUME NEW i \in DOMAIN q PROVE seq(q[i]) <= n
    BY DEF UpTo
  <2>1. q # <<>> /\ Len(q) \in DOMAIN q /\ i <= Len(q)
    OBVIOUS
  <2>2. q[i] \in Event /\ q[Len(q)] \in Event
    BY <2>1
  <2>3. i = Len(q) \/ Before(q[i].id, q[Len(q)].id)
    BY <2>1 DEF OrderedById
  <2> QED
    BY <2>1, <2>2, <2>3 DEF Before, seq, Event, Ulid
<1> HIDE DEF n
<1>4. r \in Connection
  BY <1>1, <1>2 DEF Connection, ConnectionPc
<1>5. /\ r.pc = "subscribe" /\ r.iter = q /\ r.last_seen = n
      /\ r.delivered = sub[s].delivered /\ r.mpsc = sub[s].mpsc
      /\ r.held = sub[s].held
  BY <1>1 DEF Connection
<1>6. r.delivered = <<>> /\ r.mpsc = <<>> /\ r.held = <<>>
  BY <1>1, <1>5 DEF StreamOrder
<1>7. Update(s, r)
  BY DEF Filled, n
<1> HIDE DEF r
<1>8. StreamOrder(r)
  BY <1>3, <1>4, <1>5, <1>6 DEF StreamOrder, StagesInOrder, SeenUpTo,
     OrderedById, AllBefore, UpTo
<1>9. FromLog(r)
  BY <1>5, <1>6 DEF FromLog
<1> QED
  BY <1>4, <1>7, <1>8, <1>9 DEF GoodUpdate

LEMMA BackfillGood ==
    ASSUME Inv, NEW s \in Subscribers, Backfill(s) \/ BackfillFails(s)
    PROVE  GoodUpdate(s)
<1>1. CASE Backfill(s)
  <2> DEFINE S == {e \in FirstRows(repo_seq, PageSize) : seq(e) > sub[s].cursor}
  <2>1. PICK q \in Ordered(S) : Filled(s, q)
    BY <1>1 DEF Backfill
  <2>2. S \subseteq repo_seq
    BY DEF FirstRows
  <2>3. IsFiniteSet(S)
    BY <2>2, FS_Subset DEF Inv, TypeOK, SequencerTypeOK
  <2> HIDE DEF S
  <2>4. q \in Seq(S) /\ OrderedById(q)
    BY <2>3, OrderedType
  <2>5. q \in Seq(Event) /\ \A i \in DOMAIN q : q[i] \in sequenced
    BY <2>2, <2>4 DEF Inv, TypeOK, SequencerTypeOK, LoggedFirst
  <2> QED
    BY <1>1, <2>1, <2>4, <2>5, FilledGood DEF Backfill
<1>2. CASE BackfillFails(s)
  <2>1. <<>> \in Seq(Event) /\ OrderedById(<<>>)
        /\ \A i \in DOMAIN <<>> : <<>>[i] \in sequenced
    BY DEF OrderedById
  <2> QED
    BY <1>2, <2>1, FilledGood DEF BackfillFails
<1> QED
  BY <1>1, <1>2

(* Subscribing, and lagging, move the receiver only. *)
LEMMA SubscribeGood ==
    ASSUME Inv, NEW s \in Subscribers, Subscribe(s)
    PROVE  GoodUpdate(s)
<1> DEFINE l == Len(published)
           r == [sub[s] EXCEPT !.pc = "live", !.base = sub[s].last_seen,
                               !.start = l, !.pos = l]
<1>1. sub[s] \in Connection /\ StreamOrder(sub[s]) /\ FromLog(sub[s])
  BY DEF Inv, TypeOK, StreamInOrder
<1>2. l \in Nat
  BY DEF Inv, TypeOK, SequencerTypeOK
<1>3. Update(s, r)
  BY DEF Subscribe
<1> HIDE DEF l
<1>4. r \in Connection
  BY <1>1, <1>2 DEF Connection, ConnectionPc
<1>5. /\ r.pc = "live" /\ r.iter = sub[s].iter
      /\ r.last_seen = sub[s].last_seen
      /\ r.delivered = sub[s].delivered /\ r.mpsc = sub[s].mpsc
      /\ r.held = sub[s].held
  BY <1>1 DEF Connection
<1> HIDE DEF r
<1>6. StreamOrder(r)
  BY <1>1, <1>5 DEF StreamOrder, StagesInOrder, SeenUpTo
<1>7. FromLog(r)
  BY <1>1, <1>5 DEF FromLog
<1> QED
  BY <1>3, <1>4, <1>6, <1>7 DEF GoodUpdate

LEMMA LagGood ==
    ASSUME Inv, NEW s \in Subscribers, Lag(s)
    PROVE  GoodUpdate(s)
<1> DEFINE oldest == Len(published) - RingSize
           lost == sub[s].skipped \cup (sub[s].pos + 1 .. oldest)
           r == [sub[s] EXCEPT !.pos = oldest, !.skipped = lost]
<1>1. sub[s] \in Connection /\ StreamOrder(sub[s]) /\ FromLog(sub[s])
  BY DEF Inv, TypeOK, StreamInOrder
<1>2. oldest \in Nat /\ lost \in SUBSET Nat
  <2>1. sub[s].pos \in Nat /\ sub[s].skipped \in SUBSET Nat
    BY <1>1 DEF Connection
  <2>2. Len(published) \in Nat /\ RingSize \in Nat
    BY FirehoseAssumption DEF Inv, TypeOK, SequencerTypeOK
  <2>3. oldest \in Nat
    BY <2>1, <2>2 DEF Lag, Lagging
  <2> QED
    BY <2>1, <2>3
<1>3. Update(s, r)
  BY DEF Lag
<1> HIDE DEF oldest, lost
<1>4. r \in Connection
  BY <1>1, <1>2 DEF Connection, ConnectionPc
<1>5. /\ r.pc = sub[s].pc /\ r.iter = sub[s].iter
      /\ r.last_seen = sub[s].last_seen
      /\ r.delivered = sub[s].delivered /\ r.mpsc = sub[s].mpsc
      /\ r.held = sub[s].held
  BY <1>1 DEF Connection
<1> HIDE DEF r
<1>6. StreamOrder(r)
  BY <1>1, <1>5 DEF StreamOrder, StagesInOrder, SeenUpTo
<1>7. FromLog(r)
  BY <1>1, <1>5 DEF FromLog
<1> QED
  BY <1>3, <1>4, <1>6, <1>7 DEF GoodUpdate

-----------------------------------------------------------------------------
(* A stage with an event added, and a stage without its first event. *)
LEMMA AppendStage ==
    ASSUME NEW q \in Seq(Event), NEW e \in Event
    PROVE  LET m == Append(q, e)
           IN  /\ m \in Seq(Event) /\ Len(m) = Len(q) + 1 /\ m[Len(m)] = e
               /\ \A i \in DOMAIN m :
                    i = Len(m) \/ (i \in DOMAIN q /\ i < Len(m) /\ m[i] = q[i])
OBVIOUS

LEMMA TailStage ==
    ASSUME NEW q \in Seq(Event), q # <<>>
    PROVE  /\ Head(q) \in Event /\ 1 \in DOMAIN q /\ Head(q) = q[1]
           /\ Tail(q) \in Seq(Event)
           /\ \A i \in DOMAIN Tail(q) :
                i \in Nat /\ i + 1 \in DOMAIN q /\ 1 < i + 1 /\ Tail(q)[i] = q[i + 1]
OBVIOUS

(* A connection with other stages is a connection. *)
LEMMA ForwardType ==
    ASSUME NEW C \in Connection, NEW q \in Seq(Event), NEW n \in Int, NEW k \in Nat
    PROVE  [C EXCEPT !.pos = k, !.last_seen = n, !.held = q] \in Connection
BY DEF Connection

LEMMA SendType ==
    ASSUME NEW C \in Connection, NEW p \in Seq(Event), NEW q \in Seq(Event)
    PROVE  [C EXCEPT !.mpsc = p, !.held = q] \in Connection
BY DEF Connection

LEMMA DeliverBackfillType ==
    ASSUME NEW C \in Connection, NEW p \in Seq(Event), NEW q \in Seq(Event),
           NEW n \in Int
    PROVE  [C EXCEPT !.iter = p, !.last_seen = n, !.delivered = q] \in Connection
BY DEF Connection

LEMMA DeliverLiveType ==
    ASSUME NEW C \in Connection, NEW p \in Seq(Event), NEW q \in Seq(Event)
    PROVE  [C EXCEPT !.mpsc = p, !.delivered = q] \in Connection
BY DEF Connection

(* The forwarder receives an envelope: it holds it only if it is past      *)
(* everything in the stream.                                               *)
LEMMA ForwardGood ==
    ASSUME Inv, NEW s \in Subscribers, Forward(s)
    PROVE  GoodUpdate(s)
<1> DEFINE C == sub[s]
           e == published[C.pos + 1]
           n == Larger(seq(e), C.last_seen)
           h == IF seq(e) > C.last_seen THEN <<e>> ELSE <<>>
           r == [C EXCEPT !.pos = C.pos + 1, !.last_seen = n, !.held = h]
<1>1. C \in Connection /\ StreamOrder(C) /\ FromLog(C)
  BY DEF Inv, TypeOK, StreamInOrder
<1>2. C.pc = "live" /\ C.held = <<>> /\ C.last_seen \in Int /\ C.pos \in Nat
  BY <1>1 DEF Forward, Connection
<1>3. e \in Event /\ e \in sequenced
  <2>1. C.pos + 1 \in DOMAIN published
    BY <1>2 DEF Forward, Inv, TypeOK, SequencerTypeOK
  <2> QED
    BY <2>1 DEF Inv, TypeOK, SequencerTypeOK, LoggedFirst
<1>4. seq(e) \in Int /\ n \in Int /\ n >= C.last_seen /\ n >= seq(e)
  BY <1>2, <1>3, SeqType DEF Larger
<1>5. h \in Seq(Event) /\ Len(h) <= 1
  BY <1>3
<1>6. UpTo(h, n) /\ \A i \in DOMAIN h : h[i] = e /\ seq(e) > C.last_seen
  BY <1>3, <1>4 DEF UpTo
<1>7. Update(s, r)
  BY DEF Forward
<1> HIDE DEF e, n, h
<1>8. r \in Connection
  <2>1. C.pos + 1 \in Nat
    BY <1>2
  <2> QED
    BY <1>1, <1>4, <1>5, <2>1, ForwardType
<1>9. /\ r.pc = "live" /\ r.iter = C.iter /\ r.last_seen = n /\ r.held = h
      /\ r.delivered = C.delivered /\ r.mpsc = C.mpsc
  BY <1>1, <1>2 DEF Connection
<1> HIDE DEF r
<1>10. C.delivered \in Seq(Event) /\ C.iter \in Seq(Event) /\ C.mpsc \in Seq(Event)
  BY <1>1 DEF Connection
<1>11. ASSUME NEW p \in Seq(Event), UpTo(p, C.last_seen)
       PROVE  AllBefore(p, h) /\ UpTo(p, n)
  <2>1. ASSUME NEW i \in DOMAIN p
        PROVE  seq(p[i]) <= C.last_seen /\ seq(p[i]) \in Int
    BY <1>11, <2>1, SeqType DEF UpTo
  <2>2. UpTo(p, n)
    BY <1>2, <1>4, <2>1 DEF UpTo
  <2>3. AllBefore(p, h)
    BY <1>2, <1>4, <1>6, <2>1 DEF AllBefore, Before, seq
  <2> QED
    BY <2>2, <2>3
<1>12. UpTo(C.delivered, C.last_seen) /\ UpTo(C.iter, C.last_seen)
       /\ UpTo(C.mpsc, C.last_seen)
  BY <1>1 DEF StreamOrder, SeenUpTo
<1>13. SeenUpTo(r)
  BY <1>6, <1>9, <1>10, <1>11, <1>12 DEF SeenUpTo
<1>14. StagesInOrder(r)
  BY <1>1, <1>9, <1>10, <1>11, <1>12 DEF StagesInOrder, StreamOrder
<1>15. StreamOrder(r)
  BY <1>5, <1>9, <1>13, <1>14 DEF StreamOrder
<1>16. FromLog(r)
  BY <1>1, <1>3, <1>6, <1>9 DEF FromLog
<1> QED
  BY <1>7, <1>8, <1>15, <1>16 DEF GoodUpdate

(* Moving the event at the head of a stage to the end of the one ahead. *)
LEMMA SendGood ==
    ASSUME Inv, NEW s \in Subscribers, Send(s)
    PROVE  GoodUpdate(s)
<1> DEFINE C == sub[s]
           e == C.held[1]
           m == Append(C.mpsc, e)
           r == [C EXCEPT !.mpsc = m, !.held = <<>>]
<1>1. C \in Connection /\ StreamOrder(C) /\ FromLog(C)
  BY DEF Inv, TypeOK, StreamInOrder
<1>2. /\ C.pc = "live" /\ C.held # <<>> /\ C.held \in Seq(Event)
      /\ C.mpsc \in Seq(Event)
  BY <1>1 DEF Send, Connection
<1>3. 1 \in DOMAIN C.held /\ e \in Event
  BY <1>2
<1>4. Update(s, r)
  BY DEF Send
<1> HIDE DEF e
<1>5. m \in Seq(Event)
  BY <1>2, <1>3, AppendStage
<1>6. /\ Len(m) = Len(C.mpsc) + 1 /\ m[Len(m)] = e
      /\ \A i \in DOMAIN m :
           i = Len(m) \/ (i \in DOMAIN C.mpsc /\ i < Len(m) /\ m[i] = C.mpsc[i])
  BY <1>2, <1>3, AppendStage
<1> HIDE DEF m
<1>7. r \in Connection
  <2>1. <<>> \in Seq(Event)
    OBVIOUS
  <2> QED
    BY <1>1, <1>5, <2>1, SendType
<1>8. /\ r.pc = "live" /\ r.iter = C.iter /\ r.last_seen = C.last_seen
      /\ r.held = <<>> /\ r.delivered = C.delivered /\ r.mpsc = m
  BY <1>1, <1>2 DEF Connection
<1> HIDE DEF r
<1>9. \A p \in {C.delivered, C.iter, C.mpsc} :
         \A i \in DOMAIN p : Before(p[i].id, e.id)
  BY <1>1, <1>3 DEF StreamOrder, StagesInOrder, AllBefore, e
<1>10. AllBefore(C.delivered, m) /\ AllBefore(C.iter, m)
  BY <1>1, <1>6, <1>9 DEF StreamOrder, StagesInOrder, AllBefore
<1>11. OrderedById(m)
  BY <1>1, <1>2, <1>5, <1>6, <1>9 DEF StreamOrder, StagesInOrder, OrderedById
<1>12. UpTo(m, C.last_seen)
  BY <1>1, <1>3, <1>6 DEF StreamOrder, SeenUpTo, UpTo, e
<1>13. StagesInOrder(r)
  BY <1>1, <1>8, <1>10, <1>11 DEF StreamOrder, StagesInOrder, AllBefore
<1>14. SeenUpTo(r)
  BY <1>1, <1>8, <1>12 DEF StreamOrder, SeenUpTo, UpTo
<1>15. StreamOrder(r)
  BY <1>8, <1>13, <1>14 DEF StreamOrder
<1>16. FromLog(r)
  BY <1>1, <1>3, <1>6, <1>8 DEF FromLog, e
<1> QED
  BY <1>4, <1>7, <1>15, <1>16 DEF GoodUpdate

LEMMA DeliverBackfillGood ==
    ASSUME Inv, NEW s \in Subscribers, DeliverBackfill(s)
    PROVE  GoodUpdate(s)
<1> DEFINE C == sub[s]
           e == Head(C.iter)
           t == Tail(C.iter)
           d == Append(C.delivered, e)
           n == Larger(seq(e), C.last_seen)
           r == [C EXCEPT !.iter = t, !.last_seen = n, !.delivered = d]
<1>1. C \in Connection /\ StreamOrder(C) /\ FromLog(C)
  BY DEF Inv, TypeOK, StreamInOrder
<1>2. /\ C.pc = "live" /\ C.iter # <<>> /\ C.iter \in Seq(Event)
      /\ C.delivered \in Seq(Event) /\ C.last_seen \in Int
  BY <1>1 DEF DeliverBackfill, Connection
<1>3. Update(s, r)
  BY DEF DeliverBackfill
<1>4. /\ e \in Event /\ 1 \in DOMAIN C.iter /\ e = C.iter[1]
      /\ t \in Seq(Event)
      /\ \A i \in DOMAIN t :
           i \in Nat /\ i + 1 \in DOMAIN C.iter /\ 1 < i + 1 /\ t[i] = C.iter[i + 1]
  BY <1>2, TailStage
<1> HIDE DEF e, t
<1>5. /\ d \in Seq(Event) /\ Len(d) = Len(C.delivered) + 1 /\ d[Len(d)] = e
      /\ \A i \in DOMAIN d :
           i = Len(d) \/ (i \in DOMAIN C.delivered /\ i < Len(d) /\ d[i] = C.delivered[i])
  BY <1>2, <1>4, AppendStage
<1>6. n = C.last_seen
  <2>1. seq(e) <= C.last_seen /\ seq(e) \in Int
    BY <1>1, <1>4, SeqType DEF StreamOrder, SeenUpTo, UpTo
  <2> QED
    BY <1>2, <2>1 DEF Larger
<1> HIDE DEF d, n
<1>7. r \in Connection
  BY <1>1, <1>2, <1>4, <1>5, <1>6, DeliverBackfillType
<1>8. /\ r.pc = "live" /\ r.iter = t /\ r.last_seen = C.last_seen
      /\ r.held = C.held /\ r.delivered = d /\ r.mpsc = C.mpsc
  BY <1>1, <1>2, <1>6 DEF Connection
<1> HIDE DEF r
<1>9. OrderedById(t)
  <2> SUFFICES ASSUME NEW i \in DOMAIN t, NEW j \in DOMAIN t, i < j
               PROVE  Before(t[i].id, t[j].id)
    BY DEF OrderedById
  <2>1. i + 1 < j + 1 /\ i + 1 \in DOMAIN C.iter /\ j + 1 \in DOMAIN C.iter
    BY <1>4
  <2> QED
    BY <1>1, <1>4, <2>1 DEF StreamOrder, StagesInOrder, OrderedById
<1>10. \A i \in DOMAIN t : Before(e.id, t[i].id)
  BY <1>1, <1>4 DEF StreamOrder, StagesInOrder, OrderedById
<1>11. \A i \in DOMAIN C.delivered : Before(C.delivered[i].id, e.id)
  BY <1>1, <1>4 DEF StreamOrder, StagesInOrder, AllBefore
<1>12. OrderedById(d)
  <2> SUFFICES ASSUME NEW i \in DOMAIN d, NEW j \in DOMAIN d, i < j
               PROVE  Before(d[i].id, d[j].id)
    BY DEF OrderedById
  <2>1. i \in DOMAIN C.delivered /\ d[i] = C.delivered[i]
    BY <1>5
  <2>2. j = Len(d) \/ (j \in DOMAIN C.delivered /\ d[j] = C.delivered[j])
    BY <1>5
  <2>3. OrderedById(C.delivered)
    BY <1>1 DEF StreamOrder, StagesInOrder
  <2> QED
    BY <1>5, <1>11, <2>1, <2>2, <2>3 DEF OrderedById
<1>13. AllBefore(d, t) /\ AllBefore(d, C.mpsc) /\ AllBefore(d, C.held)
       /\ AllBefore(t, C.mpsc) /\ AllBefore(t, C.held)
  BY <1>1, <1>4, <1>5, <1>10 DEF StreamOrder, StagesInOrder, AllBefore
<1>14. StagesInOrder(r)
  BY <1>1, <1>8, <1>9, <1>12, <1>13 DEF StreamOrder, StagesInOrder
<1>15. SeenUpTo(r)
  BY <1>1, <1>4, <1>5, <1>8 DEF StreamOrder, SeenUpTo, UpTo
<1>16. StreamOrder(r)
  BY <1>1, <1>8, <1>14, <1>15 DEF StreamOrder
<1>17. FromLog(r)
  BY <1>1, <1>4, <1>5, <1>8 DEF FromLog
<1> QED
  BY <1>3, <1>7, <1>16, <1>17 DEF GoodUpdate

LEMMA DeliverLiveGood ==
    ASSUME Inv, NEW s \in Subscribers, DeliverLive(s)
    PROVE  GoodUpdate(s)
<1> DEFINE C == sub[s]
           e == Head(C.mpsc)
           t == Tail(C.mpsc)
           d == Append(C.delivered, e)
           r == [C EXCEPT !.mpsc = t, !.delivered = d]
<1>1. C \in Connection /\ StreamOrder(C) /\ FromLog(C)
  BY DEF Inv, TypeOK, StreamInOrder
<1>2. /\ C.pc = "live" /\ C.mpsc # <<>> /\ C.mpsc \in Seq(Event)
      /\ C.delivered \in Seq(Event) /\ C.iter = <<>>
  BY <1>1 DEF DeliverLive, Connection
<1>3. Update(s, r)
  BY DEF DeliverLive
<1>4. /\ e \in Event /\ 1 \in DOMAIN C.mpsc /\ e = C.mpsc[1]
      /\ t \in Seq(Event)
      /\ \A i \in DOMAIN t :
           i \in Nat /\ i + 1 \in DOMAIN C.mpsc /\ 1 < i + 1 /\ t[i] = C.mpsc[i + 1]
  BY <1>2, TailStage
<1> HIDE DEF e, t
<1>5. /\ d \in Seq(Event) /\ Len(d) = Len(C.delivered) + 1 /\ d[Len(d)] = e
      /\ \A i \in DOMAIN d :
           i = Len(d) \/ (i \in DOMAIN C.delivered /\ i < Len(d) /\ d[i] = C.delivered[i])
  BY <1>2, <1>4, AppendStage
<1> HIDE DEF d
<1>6. r \in Connection
  BY <1>1, <1>4, <1>5, DeliverLiveType
<1>7. /\ r.pc = "live" /\ r.iter = C.iter /\ r.last_seen = C.last_seen
      /\ r.held = C.held /\ r.delivered = d /\ r.mpsc = t
  BY <1>1, <1>2 DEF Connection
<1> HIDE DEF r
<1>8. OrderedById(t)
  <2> SUFFICES ASSUME NEW i \in DOMAIN t, NEW j \in DOMAIN t, i < j
               PROVE  Before(t[i].id, t[j].id)
    BY DEF OrderedById
  <2>1. i + 1 < j + 1 /\ i + 1 \in DOMAIN C.mpsc /\ j + 1 \in DOMAIN C.mpsc
    BY <1>4
  <2> QED
    BY <1>1, <1>4, <2>1 DEF StreamOrder, StagesInOrder, OrderedById
<1>9. \A i \in DOMAIN t : Before(e.id, t[i].id)
  BY <1>1, <1>4 DEF StreamOrder, StagesInOrder, OrderedById
<1>10. \A i \in DOMAIN C.delivered : Before(C.delivered[i].id, e.id)
  BY <1>1, <1>4 DEF StreamOrder, StagesInOrder, AllBefore
<1>11. OrderedById(d)
  <2> SUFFICES ASSUME NEW i \in DOMAIN d, NEW j \in DOMAIN d, i < j
               PROVE  Before(d[i].id, d[j].id)
    BY DEF OrderedById
  <2>1. i \in DOMAIN C.delivered /\ d[i] = C.delivered[i]
    BY <1>5
  <2>2. j = Len(d) \/ (j \in DOMAIN C.delivered /\ d[j] = C.delivered[j])
    BY <1>5
  <2>3. OrderedById(C.delivered)
    BY <1>1 DEF StreamOrder, StagesInOrder
  <2> QED
    BY <1>5, <1>10, <2>1, <2>2, <2>3 DEF OrderedById
<1>12. AllBefore(d, t) /\ AllBefore(d, C.held) /\ AllBefore(t, C.held)
  BY <1>1, <1>4, <1>5, <1>9 DEF StreamOrder, StagesInOrder, AllBefore
<1>13. AllBefore(d, C.iter) /\ AllBefore(C.iter, t) /\ AllBefore(C.iter, C.held)
       /\ OrderedById(C.iter)
  BY <1>2 DEF AllBefore, OrderedById
<1>14. StagesInOrder(r)
  BY <1>7, <1>8, <1>11, <1>12, <1>13 DEF StagesInOrder
<1>15. SeenUpTo(r)
  BY <1>1, <1>4, <1>5, <1>7 DEF StreamOrder, SeenUpTo, UpTo
<1>16. StreamOrder(r)
  BY <1>1, <1>7, <1>14, <1>15 DEF StreamOrder
<1>17. FromLog(r)
  BY <1>1, <1>4, <1>5, <1>7 DEF FromLog
<1> QED
  BY <1>3, <1>6, <1>16, <1>17 DEF GoodUpdate

-----------------------------------------------------------------------------
(* One connection moves to a good state while the sequencer's tables and   *)
(* channel stay: the invariant is kept.  A failed read counts as a fault.  *)
LEMMA GoodUpdateKeepsInv ==
    ASSUME Inv, NEW s \in Subscribers, GoodUpdate(s),
           UNCHANGED <<clock, idgen, repo_seq, sequenced, writer, jobs, worker,
                       published, formatted, restarts>>,
           faults' \in Nat
    PROVE  Inv'
<1>1. PICK r \in Connection : Update(s, r) /\ StreamOrder(r) /\ FromLog(r)
  BY DEF GoodUpdate
<1>2. sub \in [Subscribers -> Connection]
  BY DEF Inv, TypeOK
<1>3. SequencerTypeOK' /\ LoggedFirst'
  BY DEF Inv, TypeOK, SequencerTypeOK, LoggedFirst
<1>4. sub' \in [Subscribers -> Connection]
  BY <1>1, <1>2, UpdateType
<1>5. ASSUME NEW u \in Subscribers
      PROVE  StreamOrder(sub'[u]) /\ FromLog(sub'[u])
  <2>1. sub'[u] = r \/ sub'[u] = sub[u]
    BY <1>1, <1>2 DEF Update
  <2> QED
    BY <1>1, <2>1 DEF Inv, StreamInOrder
<1>6. \A u \in Subscribers : StreamOrder(sub[u])' /\ FromLog(sub[u])'
  BY <1>5 DEF StreamOrder, StagesInOrder, SeenUpTo, FromLog
<1> QED
  BY <1>3, <1>4, <1>6 DEF Inv, TypeOK, StreamInOrder

(* The faults of a step that fails are counted. *)
LEMMA FaultType ==
    ASSUME faults \in Nat, Fault \/ UNCHANGED faults
    PROVE  faults' \in Nat
BY DEF Fault

(* The initial state satisfies the invariant. *)
LEMMA InitInv == Init => Inv
<1> SUFFICES ASSUME Init PROVE Inv
  OBVIOUS
<1>1. SequencerTypeOK
  <2>1. IsFiniteSet({})
    BY FS_EmptySet
  <2> QED
    BY <2>1, SequencerAssumption
       DEF Init, SequencerInit, SequencerTypeOK, Idle, NilId, Ulid, WriterState,
           WorkerState, Job
<1>2. LoggedFirst
  BY DEF Init, SequencerInit, LoggedFirst, Idle
<1>3. sub \in [Subscribers -> Connection] /\ \A s \in Subscribers : sub[s] = Closed
  BY ClosedType DEF Init
<1>4. StreamOrder(Closed) /\ FromLog(Closed)
  BY ClosedType, EmptyStream DEF Closed
<1> QED
  BY <1>1, <1>2, <1>3, <1>4 DEF Inv, TypeOK, StreamInOrder

(* Every step keeps the invariant. *)
LEMMA NextInv == Inv /\ [Next]_vars => Inv'
<1> SUFFICES ASSUME Inv, [Next]_vars PROVE Inv'
  OBVIOUS
<1>1. CASE SequencerStep /\ UNCHANGED sub
  <2>1. SequencerTypeOK'
    BY <1>1, SequencerStepType DEF Inv, TypeOK
  <2>2. LoggedFirst' /\ sequenced \subseteq sequenced'
    BY <1>1, LoggedFirstStep DEF Inv, TypeOK
  <2>3. \A s \in Subscribers : FromLog(sub[s])'
    BY <1>1, <2>2 DEF Inv, FromLog
  <2>4. StreamInOrder'
    BY <1>1 DEF Inv, StreamInOrder, StreamOrder, StagesInOrder, SeenUpTo
  <2> QED
    BY <1>1, <2>1, <2>2, <2>3, <2>4 DEF Inv, TypeOK
<1>2. ASSUME NEW s \in Subscribers,
             Connect(s) \/ HandlerStep(s) \/ StreamStep(s) \/ Disconnect(s)
      PROVE  Inv'
  <2>1. GoodUpdate(s)
    BY <1>2, ConnectGood, CursorGood, BackfillGood, SubscribeGood, ForwardGood,
       LagGood, SendGood, DeliverBackfillGood, DeliverLiveGood, DisconnectGood
       DEF HandlerStep, StreamStep
  <2>2. UNCHANGED <<clock, idgen, repo_seq, sequenced, writer, jobs, worker,
                    published, formatted, restarts>>
        /\ (Fault \/ UNCHANGED faults)
    BY <1>2 DEF HandlerStep, StreamStep, seqVars, Connect, Disconnect, CheckFuture,
       CheckOutdated, ResetCursor, Backfill, BackfillFails, Subscribe, Forward, Lag,
       Send, DeliverBackfill, DeliverLive
  <2>3. faults' \in Nat
    BY <2>2, FaultType DEF Inv, TypeOK, SequencerTypeOK
  <2> QED
    BY <2>1, <2>2, <2>3, GoodUpdateKeepsInv
<1>3. CASE Restart
  <2>1. SequencerTypeOK'
    BY <1>3 DEF Restart, RestartSequencer, Inv, TypeOK, SequencerTypeOK, Idle,
       NilId, Ulid, WriterState, WorkerState
  <2>2. LoggedFirst'
    BY <1>3 DEF Restart, RestartSequencer, Inv, LoggedFirst, Idle
  <2>3. /\ sub' \in [Subscribers -> Connection]
        /\ \A s \in Subscribers : sub'[s] = Closed
    BY <1>3, ClosedType DEF Restart
  <2>4. /\ Closed.delivered = <<>> /\ Closed.iter = <<>> /\ Closed.mpsc = <<>>
        /\ Closed.held = <<>> /\ Closed.last_seen = -1
    BY DEF Closed
  <2>5. \A s \in Subscribers : StreamOrder(sub[s])' /\ FromLog(sub[s])'
    BY <2>3, <2>4, ClosedType DEF StreamOrder, FromLog, StagesInOrder, SeenUpTo,
       OrderedById, AllBefore, UpTo, Connection
  <2> QED
    BY <2>1, <2>2, <2>3, <2>5 DEF Inv, TypeOK, StreamInOrder
<1>4. CASE UNCHANGED vars
  BY <1>4 DEF vars, seqVars, Inv, TypeOK, SequencerTypeOK, LoggedFirst,
     StreamInOrder, StreamOrder, StagesInOrder, SeenUpTo, FromLog
<1> QED
  BY <1>1, <1>2, <1>3, <1>4 DEF Next

(* The invariant holds in every reachable state. *)
THEOREM Invariance == Spec => []Inv
BY InitInv, NextInv, PTL DEF Spec

(* Every variable keeps its type, for all sizes of the system. *)
THEOREM TypeCorrect == Spec => []TypeOK
<1>1. Inv => TypeOK
  BY DEF Inv
<1> QED
  BY <1>1, Invariance, PTL

(* No connection is ever sent an event twice or out of order, however      *)
(* often and in whatever order the worker publishes.                       *)
THEOREM InOrder == Spec => []DeliveredInOrder
<1>1. Inv => DeliveredInOrder
  BY DEF Inv, StreamInOrder, StreamOrder, StagesInOrder, DeliveredInOrder
<1> QED
  BY <1>1, Invariance, PTL

(* Nothing is queued, published or sent that is not in the log. *)
THEOREM Logged == Spec => []LoggedFirst
<1>1. Inv => LoggedFirst
  BY DEF Inv
<1> QED
  BY <1>1, Invariance, PTL

-----------------------------------------------------------------------------
(* What the abstract feed sees of the connections. *)
FeedDelivered == [s \in Subscribers |-> sub[s].delivered]

(* A step that leaves the log and what was delivered alone is a stutter. *)
LEMMA FeedStutter ==
    ASSUME UNCHANGED sequenced,
           \A s \in Subscribers : sub'[s].delivered = sub[s].delivered
    PROVE  UNCHANGED F!feedVars
BY DEF F!feedVars

(* A step that replaces the connection s and keeps the log either sends    *)
(* one later event of the log on it, closes it, or is a stutter.           *)
LEMMA ConnectionStepRefines ==
    ASSUME Inv, Inv', NEW s \in Subscribers, UNCHANGED sequenced,
           \A u \in Subscribers \ {s} : sub'[u] = sub[u],
           \/ sub'[s].delivered = sub[s].delivered
           \/ sub'[s].delivered = <<>>
           \/ \E e \in sequenced : sub'[s].delivered = Append(sub[s].delivered, e)
    PROVE  [F!Next]_F!feedVars
<1>1. sub \in [Subscribers -> Connection] /\ sub' \in [Subscribers -> Connection]
  BY DEF Inv, TypeOK
<1>2. CASE sub'[s].delivered = sub[s].delivered
  BY <1>2, FeedStutter
<1>3. CASE sub'[s].delivered = <<>>
  <2>1. FeedDelivered' = [u \in Subscribers |-> IF u \in {s} THEN <<>>
                                                ELSE FeedDelivered[u]]
    BY <1>3 DEF FeedDelivered
  <2>2. F!Close({s})
    BY <2>1 DEF F!Close, FeedDelivered
  <2> QED
    BY <2>2 DEF F!Next
<1>4. ASSUME NEW e \in sequenced, sub'[s].delivered = Append(sub[s].delivered, e)
      PROVE  [F!Next]_F!feedVars
  <2>1. sub[s].delivered \in Seq(Event) /\ e \in Event
    BY <1>1 DEF Connection, Inv, TypeOK, SequencerTypeOK
  <2> DEFINE d == sub'[s].delivered
  <2>2. /\ d \in Seq(Event) /\ Len(d) = Len(sub[s].delivered) + 1 /\ d[Len(d)] = e
        /\ \A i \in DOMAIN sub[s].delivered :
             i \in DOMAIN d /\ i < Len(d) /\ d[i] = sub[s].delivered[i]
        /\ Len(d) \in DOMAIN d
    BY <1>4, <2>1
  <2>3. OrderedById(d)
    <3>1. OrderedById(sub[s].delivered)'
      BY DEF Inv, StreamInOrder, StreamOrder, StagesInOrder
    <3> QED
      BY <3>1 DEF OrderedById
  <2>4. \A i \in DOMAIN FeedDelivered[s] : Before(FeedDelivered[s][i].id, e.id)
    BY <2>2, <2>3 DEF OrderedById, FeedDelivered
  <2>5. FeedDelivered' = [FeedDelivered EXCEPT ![s] = Append(FeedDelivered[s], e)]
    BY <1>4 DEF FeedDelivered
  <2>6. F!Deliver(s, e)
    BY <2>4, <2>5 DEF F!Deliver, F!Before, Before, FeedDelivered
  <2> QED
    BY <2>6 DEF F!Next
<1> QED
  BY <1>2, <1>3, <1>4

(* Every step of the firehose is a step of the feed or a stutter. *)
LEMMA NextRefines == Inv /\ Inv' /\ [Next]_vars => [F!Next]_F!feedVars
<1> SUFFICES ASSUME Inv, Inv', [Next]_vars PROVE [F!Next]_F!feedVars
  OBVIOUS
<1>1. CASE SequencerStep /\ UNCHANGED sub
  <2>1. \/ UNCHANGED sequenced
        \/ \E e \in Event : sequenced' = sequenced \cup {e}
    <3>1. ASSUME NEW w \in Writers, InsertRow(w)
          PROVE  \E e \in Event : sequenced' = sequenced \cup {e}
      <4>1. writer[w].evt \in Event
        BY <3>1 DEF InsertRow, Inv, TypeOK, SequencerTypeOK, WriterState
      <4> QED
        BY <3>1, <4>1 DEF InsertRow
    <3> QED
      BY <1>1, <3>1 DEF SequencerStep, WriterStep, WorkerStep, AdjustClock, Format,
         MintId, InsertFails, EnqueueJob, EnqueueFails, FetchJob, MarkDone,
         MarkDoneFails, Publish, DeleteAllForUser
  <2>2. CASE UNCHANGED sequenced
    BY <1>1, <2>2, FeedStutter
  <2>3. CASE \E e \in Event : sequenced' = sequenced \cup {e}
    <3>1. F!Sequence
      BY <1>1, <2>3 DEF F!Sequence, F!Event, F!Ulid, Event, Ulid
    <3> QED
      BY <3>1 DEF F!Next
  <2> QED
    BY <2>1, <2>2, <2>3
<1>2. ASSUME NEW s \in Subscribers,
             Connect(s) \/ HandlerStep(s) \/ StreamStep(s) \/ Disconnect(s)
      PROVE  [F!Next]_F!feedVars
  <2>1. UNCHANGED sequenced
    BY <1>2 DEF HandlerStep, StreamStep, seqVars, Connect, Disconnect, CheckFuture,
       CheckOutdated, ResetCursor, Backfill, BackfillFails, Subscribe, Forward, Lag,
       Send, DeliverBackfill, DeliverLive
  <2>2. sub \in [Subscribers -> Connection] /\ FromLog(sub[s])
    BY DEF Inv, TypeOK
  <2>3. \A u \in Subscribers \ {s} : sub'[u] = sub[u]
    BY <1>2, <2>2 DEF HandlerStep, StreamStep, Connect, Disconnect, CheckFuture,
       CheckOutdated, ResetCursor, Backfill, BackfillFails, Filled, Subscribe,
       Forward, Lag, Send, DeliverBackfill, DeliverLive, Update
  <2>4. Closed.delivered = <<>>
    BY DEF Closed
  <2>5. CASE Disconnect(s)
    <3>1. sub'[s].delivered = <<>>
      BY <2>2, <2>4, <2>5 DEF Disconnect, Update
    <3> QED
      BY <2>1, <2>3, <3>1, ConnectionStepRefines
  <2>6. CASE Connect(s)
    <3>1. sub'[s].delivered = <<>>
      <4>1. CASE Update(s, [Closed EXCEPT !.pc = "subscribe"])
        BY <2>2, <2>4, <4>1, ClosedType DEF Connection, Update
      <4>2. ASSUME NEW c \in Cursors, NEW k,
                   Update(s, [Closed EXCEPT !.pc = "curr", !.cursor = c,
                                            !.now = clock, !.known = k])
            PROVE  sub'[s].delivered = <<>>
        BY <2>2, <2>4, <4>2, ClosedType DEF Connection, Update
      <4> QED
        BY <2>6, <4>1, <4>2 DEF Connect
    <3> QED
      BY <2>1, <2>3, <3>1, ConnectionStepRefines
  <2>7. CASE HandlerStep(s) \/ Forward(s) \/ Lag(s) \/ Send(s)
    <3>1. sub'[s].delivered = sub[s].delivered
      <4> USE <2>2 DEF Connection, Update
      <4>1. CASE CheckFuture(s)
        BY <4>1 DEF CheckFuture
      <4>2. CASE CheckOutdated(s)
        BY <4>2 DEF CheckOutdated
      <4>3. CASE ResetCursor(s)
        BY <4>3 DEF ResetCursor
      <4>4. CASE Backfill(s) \/ BackfillFails(s)
        BY <4>4 DEF Backfill, BackfillFails, Filled
      <4>5. CASE Subscribe(s)
        BY <4>5 DEF Subscribe
      <4>6. CASE Forward(s)
        BY <4>6 DEF Forward
      <4>7. CASE Lag(s)
        BY <4>7 DEF Lag
      <4>8. CASE Send(s)
        BY <4>8 DEF Send
      <4> QED
        BY <2>7, <4>1, <4>2, <4>3, <4>4, <4>5, <4>6, <4>7, <4>8 DEF HandlerStep
    <3> QED
      BY <2>1, <2>3, <3>1, ConnectionStepRefines
  <2>8. CASE DeliverBackfill(s)
    <3> DEFINE e == Head(sub[s].iter)
    <3>1. e \in sequenced
      <4>1. sub[s].iter \in Seq(Event) /\ sub[s].iter # <<>>
        BY <2>2, <2>8 DEF DeliverBackfill, Connection
      <4> QED
        BY <2>2, <4>1, TailStage DEF FromLog
    <3>2. sub'[s].delivered = Append(sub[s].delivered, e)
      BY <2>2, <2>8 DEF DeliverBackfill, Connection, Update
    <3> HIDE DEF e
    <3> QED
      BY <2>1, <2>3, <3>1, <3>2, ConnectionStepRefines
  <2>9. CASE DeliverLive(s)
    <3> DEFINE e == Head(sub[s].mpsc)
    <3>1. e \in sequenced
      <4>1. sub[s].mpsc \in Seq(Event) /\ sub[s].mpsc # <<>>
        BY <2>2, <2>9 DEF DeliverLive, Connection
      <4> QED
        BY <2>2, <4>1, TailStage DEF FromLog
    <3>2. sub'[s].delivered = Append(sub[s].delivered, e)
      BY <2>2, <2>9 DEF DeliverLive, Connection, Update
    <3> HIDE DEF e
    <3> QED
      BY <2>1, <2>3, <3>1, <3>2, ConnectionStepRefines
  <2> QED
    BY <1>2, <2>5, <2>6, <2>7, <2>8, <2>9 DEF StreamStep
<1>3. CASE Restart
  <2>1. UNCHANGED sequenced /\ \A s \in Subscribers : sub'[s] = Closed
    BY <1>3 DEF Restart, RestartSequencer
  <2>2. Closed.delivered = <<>>
    BY DEF Closed
  <2>3. FeedDelivered' = [u \in Subscribers |-> IF u \in Subscribers THEN <<>>
                                                ELSE FeedDelivered[u]]
    BY <2>1, <2>2 DEF FeedDelivered
  <2>4. F!Close(Subscribers)
    BY <2>1, <2>3 DEF F!Close, FeedDelivered
  <2> QED
    BY <2>4 DEF F!Next
<1>4. CASE UNCHANGED vars
  BY <1>4, FeedStutter DEF vars, seqVars
<1> QED
  BY <1>1, <1>2, <1>3, <1>4 DEF Next

(* The firehose implements the abstract feed. *)
THEOREM FirehoseImplementsFeed == Spec => ImplementsFeed
<1>1. Init => F!Init
  BY DEF Init, SequencerInit, F!Init, Closed
<1> QED
  BY <1>1, Invariance, NextRefines, PTL DEF Spec, ImplementsFeed, F!Spec

-----------------------------------------------------------------------------
(* Ids.  Of the ids of one run of the process, none is past the last id of *)
(* the generator, and those under way differ from each other and from the  *)
(* keys of the log.                                                        *)
NotAfter(a, b) == a = b \/ Before(a, b)

KeysDiffer == \A r1, r2 \in repo_seq : r1.id = r2.id => r1 = r2

Minted(w) == writer[w].pc = "minted"

MintedDiffer ==
    restarts = 0 =>
        /\ \A r \in repo_seq : NotAfter(r.id, idgen)
        /\ \A w \in Writers : Minted(w) => /\ NotAfter(writer[w].evt.id, idgen)
                                           /\ ~KeyTaken(writer[w].evt.id)
        /\ \A v, w \in Writers :
             Minted(v) /\ Minted(w) /\ writer[v].evt.id = writer[w].evt.id => v = w

IdsDiffer == KeysDiffer /\ MintedDiffer

(***************************************************************************)
(* What the forwarder of a live connection has received, and what became   *)
(* of it.  last_seen is past what the backfill made it only if an envelope *)
(* with that seq, or a later one, has been received.                       *)
(***************************************************************************)
Heard(r) == (r.start + 1 .. r.pos) \ r.skipped

Carries(r, e) ==
    \/ \E i \in DOMAIN r.delivered : r.delivered[i] = e
    \/ \E i \in DOMAIN r.iter : r.iter[i] = e
    \/ \E i \in DOMAIN r.mpsc : r.mpsc[i] = e
    \/ \E i \in DOMAIN r.held : r.held[i] = e

Positions(r) ==
    /\ r.start <= r.pos /\ r.pos <= Len(published)
    /\ r.skipped \subseteq r.start + 1 .. r.pos

RaisedByNews(r) ==
    \/ r.last_seen <= r.base
    \/ \E k \in Heard(r) : seq(published[k]) >= r.last_seen

NewsKept(r) ==
    \A n \in Heard(r) :
        \/ seq(published[n]) <= r.base
        \/ \E k \in Heard(r) : k < n /\ seq(published[k]) >= seq(published[n])
        \/ Carries(r, published[n])

Caught(r) ==
    /\ r.pc = "live" => Positions(r) /\ RaisedByNews(r) /\ NewsKept(r)
    /\ r.pc # "live" => r.skipped = {}

(* A cursor that was known is the seq of an event that was sequenced.      *)
CursorKnown(r) ==
    r.known /\ r.pc = "curr" => \E e \in sequenced : seq(e) = r.cursor

More == IdsDiffer /\ \A s \in Subscribers : Caught(sub[s]) /\ CursorKnown(sub[s])

-----------------------------------------------------------------------------
(* The order of ids is strict and total. *)
LEMMA IdOrder ==
    ASSUME NEW a \in Ulid, NEW b \in Ulid, NEW c \in Ulid
    PROVE  /\ ~Before(a, a)
           /\ Before(a, b) /\ Before(b, c) => Before(a, c)
           /\ Before(a, b) => a # b /\ ~Before(b, a)
           /\ a = b \/ Before(a, b) \/ Before(b, a)
<1>1. a.ms \in Nat /\ a.rand \in Nat /\ b.ms \in Nat /\ b.rand \in Nat
      /\ c.ms \in Nat /\ c.rand \in Nat
  BY DEF Ulid
<1>2. a.ms = b.ms /\ a.rand = b.rand => a = b
  BY DEF Ulid
<1> QED
  BY <1>1, <1>2 DEF Before

(* The generator only returns ids past its last one. *)
LEMMA NextIdsLater ==
    ASSUME SequencerTypeOK, NEW id \in NextIds
    PROVE  id \in Ulid /\ Before(idgen, id)
<1>1. id \in Ulid
  BY NextIdsType
<1>2. idgen.ms \in Nat /\ idgen.rand \in Nat /\ clock \in Nat
  BY SequencerAssumption DEF SequencerTypeOK, Ulid
<1>3. CASE clock > idgen.ms
  BY <1>1, <1>2, <1>3 DEF NextIds, Before
<1>4. CASE ~(clock > idgen.ms) /\ idgen.rand < MaxRand
  BY <1>1, <1>2, <1>4 DEF NextIds, Before
<1>5. CASE ~(clock > idgen.ms) /\ ~(idgen.rand < MaxRand)
  BY <1>1, <1>2, <1>5 DEF NextIds, Before
<1> QED
  BY <1>1, <1>3, <1>4, <1>5

(* The types of what has an id. *)
LEMMA IdTypes ==
    ASSUME SequencerTypeOK
    PROVE  /\ idgen \in Ulid
           /\ \A r \in repo_seq : r \in Event /\ r.id \in Ulid
           /\ \A w \in Writers : writer[w].pc \in {"minted", "inserted"} =>
                                   writer[w].evt \in Event /\ writer[w].evt.id \in Ulid
<1>1. \A e \in Event : e.id \in Ulid
  BY DEF Event
<1>2. ASSUME NEW w \in Writers, writer[w].pc \in {"minted", "inserted"}
      PROVE  writer[w].evt \in Event
  BY <1>2 DEF SequencerTypeOK, WriterState
<1> QED
  BY <1>1, <1>2 DEF SequencerTypeOK

(* Fewer rows and fewer ids under way. *)
LEMMA FewerIds ==
    ASSUME IdsDiffer, repo_seq' \subseteq repo_seq, UNCHANGED <<idgen, restarts>>,
           \A w \in Writers : Minted(w)' => Minted(w) /\ writer'[w] = writer[w]
    PROVE  IdsDiffer'
<1>1. KeysDiffer'
  BY DEF IdsDiffer, KeysDiffer
<1>2. MintedDiffer'
  BY DEF IdsDiffer, MintedDiffer, KeyTaken
<1> QED
  BY <1>1, <1>2 DEF IdsDiffer

LEMMA MintIdDiffer ==
    ASSUME SequencerTypeOK, IdsDiffer, NEW w \in Writers, MintId(w)
    PROVE  IdsDiffer'
<1>1. PICK id \in NextIds :
        /\ idgen' = id
        /\ writer' = [writer EXCEPT ![w] =
             [pc |-> "minted",
              evt |-> [id |-> id, did |-> writer[w].did,
                       sequencedAt |-> writer[w].sequencedAt]]]
  BY DEF MintId
<1>2. UNCHANGED <<repo_seq, restarts>>
  BY DEF MintId
<1>3. id \in Ulid /\ Before(idgen, id) /\ idgen \in Ulid
  BY NextIdsLater, IdTypes
<1>4. /\ writer'[w].evt.id = id
      /\ \A v \in Writers \ {w} : writer'[v] = writer[v]
  BY <1>1 DEF SequencerTypeOK
<1>5. ASSUME NEW a \in Ulid, NotAfter(a, idgen) PROVE NotAfter(a, id) /\ a # id
  BY <1>3, <1>5, IdOrder DEF NotAfter
<1>6. MintedDiffer'
  <2> SUFFICES ASSUME restarts = 0 PROVE MintedDiffer'
    BY <1>2 DEF MintedDiffer
  <2>1. \A r \in repo_seq : NotAfter(r.id, id) /\ r.id # id
    BY <1>5, IdTypes DEF IdsDiffer, MintedDiffer
  <2>2. \A v \in Writers : Minted(v) => /\ NotAfter(writer[v].evt.id, id)
                                        /\ writer[v].evt.id # id
    BY <1>5, IdTypes DEF IdsDiffer, MintedDiffer, Minted
  <2>3. \A r \in repo_seq' : NotAfter(r.id, idgen')
    BY <1>1, <1>2, <2>1
  <2>4. ASSUME NEW v \in Writers, Minted(v)'
        PROVE  NotAfter(writer'[v].evt.id, idgen') /\ ~KeyTaken(writer'[v].evt.id)
    <3>1. CASE v = w
      BY <1>1, <1>4, <2>1, <3>1 DEF KeyTaken, NotAfter
    <3>2. CASE v # w
      BY <1>1, <1>4, <2>2, <2>4, <3>2 DEF Minted, IdsDiffer, MintedDiffer
    <3> QED
      BY <3>1, <3>2
  <2>5. ASSUME NEW v \in Writers, NEW u \in Writers, Minted(v)', Minted(u)',
               writer'[v].evt.id = writer'[u].evt.id
        PROVE  v = u
    <3>1. CASE v # w /\ u # w
      BY <1>4, <2>5, <3>1 DEF Minted, IdsDiffer, MintedDiffer
    <3>2. CASE v = w /\ u # w
      BY <1>4, <2>2, <2>5, <3>2 DEF Minted
    <3>3. CASE v # w /\ u = w
      BY <1>4, <2>2, <2>5, <3>3 DEF Minted
    <3> QED
      BY <3>1, <3>2, <3>3
  <2> QED
    BY <1>2, <2>3, <2>4, <2>5 DEF MintedDiffer, KeyTaken, NotAfter, Minted
<1> QED
  BY <1>2, <1>6 DEF IdsDiffer, KeysDiffer

LEMMA InsertRowDiffer ==
    ASSUME SequencerTypeOK, IdsDiffer, NEW w \in Writers, InsertRow(w)
    PROVE  IdsDiffer'
<1>1. /\ Minted(w) /\ ~KeyTaken(writer[w].evt.id)
      /\ repo_seq' = repo_seq \cup {writer[w].evt} /\ UNCHANGED <<idgen, restarts>>
  BY DEF InsertRow, Minted
<1>2. \A v \in Writers : Minted(v)' => v # w /\ Minted(v) /\ writer'[v] = writer[v]
  BY DEF InsertRow, SequencerTypeOK, Minted, Idle
<1>3. KeysDiffer'
  BY <1>1 DEF KeysDiffer, IdsDiffer, KeyTaken
<1>4. MintedDiffer'
  <2> SUFFICES ASSUME restarts = 0 PROVE MintedDiffer'
    BY <1>1 DEF MintedDiffer
  <2>1. \A r \in repo_seq' : NotAfter(r.id, idgen)
    BY <1>1 DEF IdsDiffer, MintedDiffer
  <2>2. ASSUME NEW v \in Writers, Minted(v)'
        PROVE  /\ NotAfter(writer[v].evt.id, idgen)
               /\ \A r \in repo_seq' : r.id # writer[v].evt.id
    BY <1>1, <1>2, <2>2 DEF IdsDiffer, MintedDiffer, KeyTaken
  <2>3. \A v, u \in Writers :
          Minted(v)' /\ Minted(u)' /\ writer'[v].evt.id = writer'[u].evt.id => v = u
    BY <1>2 DEF IdsDiffer, MintedDiffer
  <2> QED
    BY <1>1, <1>2, <2>1, <2>2, <2>3 DEF MintedDiffer, KeyTaken
<1> QED
  BY <1>3, <1>4 DEF IdsDiffer

(* Every step of the sequencer keeps the ids different. *)
LEMMA SequencerStepDiffer ==
    ASSUME SequencerTypeOK, IdsDiffer, SequencerStep
    PROVE  IdsDiffer'
<1>1. ASSUME NEW w \in Writers, Format(w) PROVE IdsDiffer'
  BY <1>1, FewerIds DEF Format, SequencerTypeOK, Minted
<1>2. ASSUME NEW w \in Writers,
             InsertFails(w) \/ EnqueueJob(w) \/ EnqueueFails(w)
      PROVE  IdsDiffer'
  <2>1. writer' = [writer EXCEPT ![w] = Idle] /\ UNCHANGED <<repo_seq, idgen, restarts>>
    BY <1>2 DEF InsertFails, EnqueueJob, EnqueueFails
  <2>2. \A v \in Writers : Minted(v)' => Minted(v) /\ writer'[v] = writer[v]
    BY <2>1 DEF SequencerTypeOK, Minted, Idle
  <2> QED
    BY <2>1, <2>2, FewerIds
<1>3. CASE AdjustClock \/ WorkerStep \/ \E d \in Dids : DeleteAllForUser(d)
  <2>1. repo_seq' \subseteq repo_seq /\ UNCHANGED <<idgen, restarts, writer>>
    BY <1>3 DEF AdjustClock, WorkerStep, FetchJob, MarkDone, MarkDoneFails, Publish,
       DeleteAllForUser
  <2> QED
    BY <2>1, FewerIds DEF Minted
<1> QED
  BY <1>1, <1>2, <1>3, MintIdDiffer, InsertRowDiffer DEF SequencerStep, WriterStep

-----------------------------------------------------------------------------
(* The fields of a connection. *)
LEMMA ConnectionParts ==
    ASSUME NEW r \in Connection
    PROVE  /\ r.pc \in ConnectionPc /\ r.cursor \in Int /\ r.known \in BOOLEAN
           /\ r.last_seen \in Int /\ r.base \in Int /\ r.start \in Nat /\ r.pos \in Nat
           /\ r.skipped \in SUBSET Nat /\ r.delivered \in Seq(Event)
           /\ r.iter \in Seq(Event) /\ r.mpsc \in Seq(Event) /\ r.held \in Seq(Event)
BY DEF Connection

(* A connection that does not move is not affected by what is published.   *)
LEMMA CaughtStays ==
    ASSUME Inv, NEW s \in Subscribers, sub'[s] = sub[s], Caught(sub[s]),
           Len(published') \in Nat, Len(published) <= Len(published'),
           \A i \in 1..Len(published) : published'[i] = published[i]
    PROVE  Caught(sub[s])'
<1> DEFINE r == sub[s]
<1>1. r \in Connection /\ published \in Seq(Event)
  BY DEF Inv, TypeOK, SequencerTypeOK
<1>2. r.start \in Nat /\ r.pos \in Nat /\ Len(published) \in Nat
  BY <1>1, ConnectionParts
<1>3. CASE r.pc = "live"
  <2>1. Positions(r) /\ RaisedByNews(r) /\ NewsKept(r)
    BY <1>3 DEF Caught
  <2>2. \A n \in Heard(r) : published'[n] = published[n]
    <3>1. \A n \in Heard(r) : n \in 1..Len(published)
      BY <1>2, <2>1 DEF Heard, Positions
    <3> QED
      BY <3>1
  <2>3. Heard(r)' = Heard(r)
    BY DEF Heard
  <2>4. Positions(r)'
    BY <1>2, <2>1 DEF Positions
  <2>5. RaisedByNews(r)'
    BY <2>1, <2>2, <2>3 DEF RaisedByNews
  <2>6. NewsKept(r)'
    BY <2>1, <2>2, <2>3 DEF NewsKept, Carries
  <2> QED
    BY <1>3, <2>4, <2>5, <2>6 DEF Caught
<1>4. CASE r.pc # "live"
  BY <1>4 DEF Caught
<1> QED
  BY <1>3, <1>4

(* The channel does not move, the connection does. *)
LEMMA CaughtMoves ==
    ASSUME NEW s \in Subscribers, UNCHANGED published, Caught(sub'[s])
    PROVE  Caught(sub[s])'
BY DEF Caught, Positions, RaisedByNews, NewsKept, Heard, Carries

(* Events move along the stages of a connection. *)
LEMMA StagesMove ==
    ASSUME NEW r, NEW t, Caught(r), r.pc = "live", t.pc = "live",
           t.start = r.start, t.pos = r.pos, t.skipped = r.skipped,
           t.base = r.base, t.last_seen = r.last_seen,
           \A e : Carries(r, e) => Carries(t, e)
    PROVE  Caught(t)
<1>1. Heard(t) = Heard(r)
  BY DEF Heard
<1>2. Positions(t)
  BY DEF Caught, Positions
<1>3. RaisedByNews(t)
  BY <1>1 DEF Caught, RaisedByNews
<1>4. NewsKept(t)
  BY <1>1 DEF Caught, NewsKept
<1> QED
  BY <1>2, <1>3, <1>4 DEF Caught

(* Nothing is lost when an event goes from the head of a stage to the end  *)
(* of the one ahead.                                                       *)
LEMMA AppendKeeps ==
    ASSUME NEW q \in Seq(Event), NEW e \in Event, NEW m, m = Append(q, e)
    PROVE  /\ \A i \in DOMAIN q : i \in DOMAIN m /\ m[i] = q[i]
           /\ \E i \in DOMAIN m : m[i] = e
<1>1. \A i \in DOMAIN q : i \in DOMAIN m /\ m[i] = q[i]
  OBVIOUS
<1>2. Len(m) \in DOMAIN m /\ m[Len(m)] = e
  OBVIOUS
<1> QED
  BY <1>1, <1>2

LEMMA TailKeeps ==
    ASSUME NEW q \in Seq(Event), q # <<>>
    PROVE  \A i \in DOMAIN q :
             q[i] = Head(q) \/ \E j \in DOMAIN Tail(q) : Tail(q)[j] = q[i]
<1> SUFFICES ASSUME NEW i \in DOMAIN q, i # 1
             PROVE  \E j \in DOMAIN Tail(q) : Tail(q)[j] = q[i]
  BY TailStage
<1>1. i - 1 \in DOMAIN Tail(q) /\ Tail(q)[i - 1] = q[i]
  OBVIOUS
<1> QED
  BY <1>1

LEMMA SendCaught ==
    ASSUME Inv, NEW s \in Subscribers, Caught(sub[s]), Send(s)
    PROVE  Caught(sub'[s])
<1> DEFINE r == sub[s]
           t == sub'[s]
<1>1. r \in Connection /\ StreamOrder(r) /\ r.pc = "live" /\ r.held # <<>>
  BY DEF Inv, TypeOK, StreamInOrder, Send
<1>2. /\ r.held \in Seq(Event) /\ r.mpsc \in Seq(Event) /\ Len(r.held) <= 1
  BY <1>1, ConnectionParts DEF StreamOrder
<1>3. r.held[1] \in Event /\ \A i \in DOMAIN r.held : i = 1
  BY <1>1, <1>2
<1>4. t = [r EXCEPT !.mpsc = Append(r.mpsc, r.held[1]), !.held = <<>>]
  BY DEF Send, Update, Inv, TypeOK
<1>5. /\ t.pc = "live" /\ t.start = r.start /\ t.pos = r.pos /\ t.skipped = r.skipped
      /\ t.base = r.base /\ t.last_seen = r.last_seen /\ t.delivered = r.delivered
      /\ t.iter = r.iter /\ t.mpsc = Append(r.mpsc, r.held[1])
  BY <1>1, <1>4 DEF Connection
<1> HIDE DEF r, t
<1>6. /\ \A i \in DOMAIN r.mpsc : i \in DOMAIN t.mpsc /\ t.mpsc[i] = r.mpsc[i]
      /\ \E i \in DOMAIN t.mpsc : t.mpsc[i] = r.held[1]
  BY <1>2, <1>3, <1>5, AppendKeeps
<1>7. \A e : Carries(r, e) => Carries(t, e)
  BY <1>3, <1>5, <1>6 DEF Carries
<1>8. Caught(r)
  BY DEF r
<1>9. Caught(t)
  BY <1>1, <1>5, <1>7, <1>8, StagesMove
<1> QED
  BY <1>9 DEF t

LEMMA DeliverBackfillCaught ==
    ASSUME Inv, NEW s \in Subscribers, Caught(sub[s]), DeliverBackfill(s)
    PROVE  Caught(sub'[s])
<1> DEFINE r == sub[s]
           t == sub'[s]
           e == Head(r.iter)
<1>1. r \in Connection /\ StreamOrder(r) /\ r.pc = "live" /\ r.iter # <<>>
  BY DEF Inv, TypeOK, StreamInOrder, DeliverBackfill
<1>2. r.iter \in Seq(Event) /\ r.delivered \in Seq(Event) /\ r.last_seen \in Int
  BY <1>1, ConnectionParts
<1>3. e \in Event /\ 1 \in DOMAIN r.iter /\ e = r.iter[1]
  BY <1>1, <1>2, TailStage
<1>4. seq(e) \in Int /\ seq(e) <= r.last_seen
  BY <1>1, <1>3, SeqType DEF StreamOrder, SeenUpTo, UpTo
<1>5. Larger(seq(e), r.last_seen) = r.last_seen
  BY <1>2, <1>4 DEF Larger
<1>6. t = [r EXCEPT !.iter = Tail(r.iter), !.last_seen = Larger(seq(e), r.last_seen),
                    !.delivered = Append(r.delivered, e)]
  BY DEF DeliverBackfill, Update, Inv, TypeOK
<1> HIDE DEF e
<1>7. /\ t.pc = "live" /\ t.start = r.start /\ t.pos = r.pos /\ t.skipped = r.skipped
      /\ t.base = r.base /\ t.last_seen = r.last_seen /\ t.mpsc = r.mpsc
      /\ t.held = r.held /\ t.iter = Tail(r.iter) /\ t.delivered = Append(r.delivered, e)
  BY <1>1, <1>5, <1>6 DEF Connection
<1> HIDE DEF r, t
<1>8. /\ \A i \in DOMAIN r.delivered : i \in DOMAIN t.delivered /\ t.delivered[i] = r.delivered[i]
      /\ \E i \in DOMAIN t.delivered : t.delivered[i] = e
  <2>1. t.delivered = Append(r.delivered, e) /\ r.delivered \in Seq(Event) /\ e \in Event
    BY <1>2, <1>3, <1>7
  <2> QED
    BY <2>1, AppendKeeps
<1>9. \A i \in DOMAIN r.iter : r.iter[i] = e \/ \E j \in DOMAIN t.iter : t.iter[j] = r.iter[i]
  BY <1>1, <1>2, <1>7, TailKeeps DEF e
<1>10. \A x : Carries(r, x) => Carries(t, x)
  BY <1>7, <1>8, <1>9 DEF Carries
<1>11. Caught(r)
  BY DEF r
<1>12. Caught(t)
  BY <1>1, <1>7, <1>10, <1>11, StagesMove
<1> QED
  BY <1>12 DEF t

LEMMA DeliverLiveCaught ==
    ASSUME Inv, NEW s \in Subscribers, Caught(sub[s]), DeliverLive(s)
    PROVE  Caught(sub'[s])
<1> DEFINE r == sub[s]
           t == sub'[s]
           e == Head(r.mpsc)
<1>1. r \in Connection /\ r.pc = "live" /\ r.mpsc # <<>>
  BY DEF Inv, TypeOK, DeliverLive
<1>2. r.mpsc \in Seq(Event) /\ r.delivered \in Seq(Event)
  BY <1>1, ConnectionParts
<1>3. e \in Event
  BY <1>1, <1>2, TailStage
<1>4. t = [r EXCEPT !.mpsc = Tail(r.mpsc), !.delivered = Append(r.delivered, e)]
  BY DEF DeliverLive, Update, Inv, TypeOK
<1> HIDE DEF e
<1>5. /\ t.pc = "live" /\ t.start = r.start /\ t.pos = r.pos /\ t.skipped = r.skipped
      /\ t.base = r.base /\ t.last_seen = r.last_seen /\ t.iter = r.iter
      /\ t.held = r.held /\ t.mpsc = Tail(r.mpsc) /\ t.delivered = Append(r.delivered, e)
  BY <1>1, <1>4 DEF Connection
<1> HIDE DEF r, t
<1>6. /\ \A i \in DOMAIN r.delivered : i \in DOMAIN t.delivered /\ t.delivered[i] = r.delivered[i]
      /\ \E i \in DOMAIN t.delivered : t.delivered[i] = e
  BY <1>2, <1>3, <1>5, AppendKeeps
<1>7. \A i \in DOMAIN r.mpsc : r.mpsc[i] = e \/ \E j \in DOMAIN t.mpsc : t.mpsc[j] = r.mpsc[i]
  BY <1>1, <1>2, <1>5, TailKeeps DEF e
<1>8. \A x : Carries(r, x) => Carries(t, x)
  BY <1>5, <1>6, <1>7 DEF Carries
<1>9. Caught(r)
  BY DEF r
<1>10. Caught(t)
  BY <1>1, <1>5, <1>8, <1>9, StagesMove
<1> QED
  BY <1>10 DEF t

(* The forwarder receives an envelope.  It lets go of it only if last_seen *)
(* is past it, which is the backfill's doing or that of news before it.    *)
LEMMA ForwardCaught ==
    ASSUME Inv, NEW s \in Subscribers, Caught(sub[s]), Forward(s)
    PROVE  Caught(sub'[s])
<1> DEFINE r == sub[s]
           t == sub'[s]
           p == r.pos + 1
           e == published[p]
<1>1. r \in Connection /\ r.pc = "live" /\ r.held = <<>> /\ r.pos < Len(published)
  BY DEF Inv, TypeOK, Forward
<1>2. /\ r.start \in Nat /\ r.pos \in Nat /\ r.base \in Int /\ r.last_seen \in Int
      /\ r.skipped \in SUBSET Nat /\ p \in Nat /\ Len(published) \in Nat
  BY <1>1, ConnectionParts DEF Inv, TypeOK, SequencerTypeOK
<1>3. e \in Event /\ \A n \in 1..Len(published) : published[n] \in Event
  BY <1>1, <1>2 DEF Inv, TypeOK, SequencerTypeOK
<1>4. seq(e) \in Int
  BY <1>3, SeqType
<1>5. t = [r EXCEPT !.pos = p, !.last_seen = Larger(seq(e), r.last_seen),
                    !.held = IF seq(e) > r.last_seen THEN <<e>> ELSE <<>>]
  BY DEF Forward, Update, Inv, TypeOK
<1> HIDE DEF e
<1>6. /\ t.pc = "live" /\ t.start = r.start /\ t.pos = p /\ t.skipped = r.skipped
      /\ t.base = r.base /\ t.last_seen = Larger(seq(e), r.last_seen)
      /\ t.delivered = r.delivered /\ t.iter = r.iter /\ t.mpsc = r.mpsc
      /\ t.held = IF seq(e) > r.last_seen THEN <<e>> ELSE <<>>
  BY <1>1, <1>5 DEF Connection
<1>7. Positions(r) /\ RaisedByNews(r) /\ NewsKept(r)
  BY <1>1 DEF Caught
<1> HIDE DEF r, t
<1>8. r.start <= r.pos /\ r.pos <= Len(published) /\ r.skipped \subseteq r.start + 1 .. r.pos
  BY <1>7 DEF Positions
<1>9. Heard(t) = Heard(r) \cup {p} /\ \A k \in Heard(r) : k < p /\ k \in 1..Len(published)
  BY <1>2, <1>6, <1>8 DEF Heard
<1> USE DEF e
<1>10. published[p] = e
  OBVIOUS
<1> HIDE DEF e, p
<1>11. \A k \in Heard(r) : seq(published[k]) \in Int
  BY <1>3, <1>9, SeqType
<1>12. Positions(t)
  BY <1>1, <1>2, <1>6, <1>8 DEF Positions, p
<1>13. \A x : Carries(r, x) => Carries(t, x)
  BY <1>1, <1>6 DEF Carries
<1>14. CASE seq(e) > r.last_seen
  <2>1. t.last_seen = seq(e) /\ t.held = <<e>>
    BY <1>6, <1>14 DEF Larger
  <2>2. RaisedByNews(t)
    BY <1>4, <1>9, <1>10, <2>1 DEF RaisedByNews
  <2>3. Carries(t, e)
    BY <2>1 DEF Carries
  <2>4. NewsKept(t)
    BY <1>6, <1>7, <1>9, <1>10, <1>13, <2>3 DEF NewsKept
  <2> QED
    BY <1>6, <1>12, <2>2, <2>4 DEF Caught, t
<1>15. CASE seq(e) <= r.last_seen
  <2>1. t.last_seen = r.last_seen
    BY <1>2, <1>4, <1>6, <1>15 DEF Larger
  <2>2. RaisedByNews(t)
    BY <1>6, <1>7, <1>9, <2>1 DEF RaisedByNews
  <2>3. seq(e) <= r.base \/ \E k \in Heard(r) : seq(published[k]) >= seq(e)
    <3>1. CASE r.last_seen <= r.base
      BY <1>2, <1>4, <1>15, <3>1
    <3>2. CASE \E k \in Heard(r) : seq(published[k]) >= r.last_seen
      BY <1>2, <1>4, <1>11, <1>15, <3>2
    <3> QED
      BY <1>7, <3>1, <3>2 DEF RaisedByNews
  <2>4. NewsKept(t)
    BY <1>6, <1>7, <1>9, <1>10, <1>13, <2>3 DEF NewsKept
  <2> QED
    BY <1>6, <1>12, <2>2, <2>4 DEF Caught, t
<1> QED
  BY <1>2, <1>4, <1>14, <1>15 DEF t

(* What the receiver loses by lagging it has not received. *)
LEMMA LagCaught ==
    ASSUME Inv, NEW s \in Subscribers, Caught(sub[s]), Lag(s)
    PROVE  Caught(sub'[s])
<1> DEFINE r == sub[s]
           t == sub'[s]
           o == Len(published) - RingSize
<1>1. r \in Connection /\ r.pc = "live" /\ r.pos < o
  BY DEF Inv, TypeOK, Lag, Lagging
<1>2. /\ r.start \in Nat /\ r.pos \in Nat /\ r.skipped \in SUBSET Nat
      /\ Len(published) \in Nat /\ RingSize \in Nat /\ o \in Int
  BY <1>1, ConnectionParts, FirehoseAssumption DEF Inv, TypeOK, SequencerTypeOK
<1>3. t = [r EXCEPT !.pos = o, !.skipped = r.skipped \cup (r.pos + 1 .. o)]
  BY DEF Lag, Update, Inv, TypeOK
<1>4. o <= Len(published)
  BY <1>2
<1> HIDE DEF o
<1>5. /\ t.pc = "live" /\ t.start = r.start /\ t.pos = o
      /\ t.skipped = r.skipped \cup (r.pos + 1 .. o)
      /\ t.base = r.base /\ t.last_seen = r.last_seen /\ t.delivered = r.delivered
      /\ t.iter = r.iter /\ t.mpsc = r.mpsc /\ t.held = r.held
  BY <1>1, <1>3 DEF Connection
<1>6. Positions(r) /\ RaisedByNews(r) /\ NewsKept(r)
  BY <1>1 DEF Caught
<1> HIDE DEF r, t
<1>7. r.start <= r.pos /\ r.skipped \subseteq r.start + 1 .. r.pos
  BY <1>6 DEF Positions
<1>8. Heard(t) = Heard(r)
  BY <1>1, <1>2, <1>5, <1>7 DEF Heard
<1>9. Positions(t)
  BY <1>1, <1>2, <1>4, <1>5, <1>7 DEF Positions
<1>10. RaisedByNews(t) /\ NewsKept(t)
  BY <1>5, <1>6, <1>8 DEF RaisedByNews, NewsKept, Carries
<1>11. Caught(t)
  BY <1>5, <1>9, <1>10 DEF Caught
<1> QED
  BY <1>11 DEF t

(* A new subscription has received nothing. *)
LEMMA SubscribeCaught ==
    ASSUME Inv, NEW s \in Subscribers, Caught(sub[s]), Subscribe(s)
    PROVE  Caught(sub'[s])
<1> DEFINE r == sub[s]
           t == sub'[s]
           l == Len(published)
<1>1. r \in Connection /\ r.pc = "subscribe" /\ l \in Nat
  BY DEF Inv, TypeOK, SequencerTypeOK, Subscribe
<1>2. r.skipped = {} /\ r.last_seen \in Int
  BY <1>1, ConnectionParts DEF Caught
<1>3. t = [r EXCEPT !.pc = "live", !.base = r.last_seen, !.start = l, !.pos = l]
  BY DEF Subscribe, Update, Inv, TypeOK
<1> HIDE DEF l
<1>4. /\ t.pc = "live" /\ t.start = l /\ t.pos = l /\ t.skipped = {}
      /\ t.base = t.last_seen /\ t.last_seen \in Int
  BY <1>1, <1>2, <1>3 DEF Connection
<1> HIDE DEF r, t
<1>5. Heard(t) = {}
  BY <1>1, <1>4 DEF Heard
<1>6. Positions(t)
  BY <1>1, <1>4 DEF Positions, l
<1>7. RaisedByNews(t) /\ NewsKept(t)
  BY <1>4, <1>5 DEF RaisedByNews, NewsKept
<1>8. Caught(t)
  BY <1>4, <1>6, <1>7 DEF Caught
<1> QED
  BY <1>8 DEF t

(* The handler up to the subscription, and a connection that closes. *)
LEMMA HandlerCaught ==
    ASSUME Inv, NEW s \in Subscribers, Caught(sub[s]), CursorKnown(sub[s]),
           \/ Connect(s) \/ CheckFuture(s) \/ CheckOutdated(s) \/ ResetCursor(s)
           \/ Backfill(s) \/ BackfillFails(s) \/ Disconnect(s)
    PROVE  Caught(sub'[s]) /\ CursorKnown(sub'[s])
<1>1. sub[s] \in Connection /\ sub \in [Subscribers -> Connection]
  BY DEF Inv, TypeOK
<1>2. Closed.skipped = {} /\ Closed.pc = "closed" /\ Closed.known = FALSE
  BY DEF Closed
<1>3. CASE Disconnect(s)
  <2>1. sub'[s] = Closed
    BY <1>1, <1>3 DEF Disconnect, Update
  <2> QED
    BY <1>2, <2>1 DEF Caught, CursorKnown
<1>4. CASE Connect(s)
  <2>1. CASE Update(s, [Closed EXCEPT !.pc = "subscribe"])
    <3>1. sub'[s].pc = "subscribe" /\ sub'[s].skipped = {}
      BY <1>1, <1>2, <2>1, ClosedType DEF Update, Connection
    <3> QED
      BY <3>1 DEF Caught, CursorKnown
  <2>2. ASSUME NEW c \in Cursors, NEW k, k => \E e \in sequenced : seq(e) = c,
               Update(s, [Closed EXCEPT !.pc = "curr", !.cursor = c, !.now = clock,
                                        !.known = k])
        PROVE  Caught(sub'[s]) /\ CursorKnown(sub'[s])
    <3>1. /\ sub'[s].pc = "curr" /\ sub'[s].skipped = {} /\ sub'[s].known = k
          /\ sub'[s].cursor = c
      BY <1>1, <1>2, <2>2, ClosedType DEF Update, Connection
    <3> QED
      BY <2>2, <3>1 DEF Caught, CursorKnown
  <2> QED
    BY <1>4, <2>1, <2>2 DEF Connect
<1>5. CASE CheckFuture(s) \/ CheckOutdated(s) \/ ResetCursor(s) \/ Backfill(s) \/ BackfillFails(s)
  <2>1. sub[s].pc # "live"
    BY <1>5 DEF CheckFuture, CheckOutdated, ResetCursor, Backfill, BackfillFails
  <2>2. sub[s].skipped = {}
    BY <2>1 DEF Caught
  <2>3. sub'[s].pc \notin {"live", "curr"} /\ sub'[s].skipped = sub[s].skipped
    <3> USE <1>1 DEF Connection, Update
    <3>1. CASE CheckFuture(s)
      BY <3>1 DEF CheckFuture
    <3>2. CASE CheckOutdated(s)
      BY <3>2 DEF CheckOutdated
    <3>3. CASE ResetCursor(s)
      BY <3>3 DEF ResetCursor
    <3>4. CASE Backfill(s) \/ BackfillFails(s)
      BY <3>4 DEF Backfill, BackfillFails, Filled
    <3> QED
      BY <1>5, <3>1, <3>2, <3>3, <3>4
  <2> QED
    BY <2>2, <2>3 DEF Caught, CursorKnown
<1> QED
  BY <1>3, <1>4, <1>5

(* The steps of a stream leave it live. *)
LEMMA StreamStaysLive ==
    ASSUME Inv, NEW s \in Subscribers, StreamStep(s) \/ Subscribe(s)
    PROVE  sub'[s].pc = "live"
<1> USE DEF Inv, TypeOK, Connection, Update
<1>1. CASE Forward(s)
  BY <1>1 DEF Forward
<1>2. CASE Lag(s)
  BY <1>2 DEF Lag
<1>3. CASE Send(s)
  BY <1>3 DEF Send
<1>4. CASE DeliverBackfill(s)
  BY <1>4 DEF DeliverBackfill
<1>5. CASE DeliverLive(s)
  BY <1>5 DEF DeliverLive
<1>6. CASE Subscribe(s)
  BY <1>6 DEF Subscribe
<1> QED
  BY <1>1, <1>2, <1>3, <1>4, <1>5, <1>6 DEF StreamStep

(* What the steps of the sequencer add to the channel and to the log. *)
LEMMA ChannelGrows ==
    ASSUME SequencerTypeOK, SequencerStep
    PROVE  /\ Len(published') \in Nat /\ Len(published) <= Len(published')
           /\ \A i \in 1..Len(published) : published'[i] = published[i]
           /\ sequenced \subseteq sequenced'
<1>1. published \in Seq(Event) /\ Len(published) \in Nat
  BY DEF SequencerTypeOK
<1>2. CASE Publish
  <2>1. worker.evt \in Event /\ published' = Append(published, worker.evt)
    BY <1>2 DEF Publish, SequencerTypeOK, WorkerState
  <2>2. sequenced' = sequenced
    BY <1>2 DEF Publish
  <2> QED
    BY <1>1, <2>1, <2>2
<1>3. CASE ~Publish
  <2>1. published' = published /\ sequenced \subseteq sequenced'
    BY <1>3 DEF SequencerStep, WriterStep, WorkerStep, AdjustClock, Format, MintId,
       InsertRow, InsertFails, EnqueueJob, EnqueueFails, FetchJob, MarkDone,
       MarkDoneFails, DeleteAllForUser
  <2> QED
    BY <1>1, <2>1
<1> QED
  BY <1>2, <1>3

LEMMA InitMore == Init => More
<1> SUFFICES ASSUME Init PROVE More
  OBVIOUS
<1>1. IdsDiffer
  BY DEF Init, SequencerInit, IdsDiffer, KeysDiffer, MintedDiffer, Minted, Idle
<1>2. \A s \in Subscribers : sub[s] = Closed
  BY DEF Init
<1>3. Closed.pc = "closed" /\ Closed.skipped = {}
  BY DEF Closed
<1>4. \A s \in Subscribers : Caught(sub[s]) /\ CursorKnown(sub[s])
  BY <1>2, <1>3 DEF Caught, CursorKnown
<1> QED
  BY <1>1, <1>4 DEF More

LEMMA NextMore == ASSUME Inv, More, [Next]_vars PROVE More'
<1>1. SequencerTypeOK /\ sub \in [Subscribers -> Connection]
  BY DEF Inv, TypeOK
<1>2. CASE SequencerStep /\ UNCHANGED sub
  <2>1. IdsDiffer'
    BY <1>1, <1>2, SequencerStepDiffer DEF More
  <2>2. \A s \in Subscribers : Caught(sub[s])'
    BY <1>1, <1>2, ChannelGrows, CaughtStays DEF More
  <2>3. \A s \in Subscribers : CursorKnown(sub[s])'
    BY <1>1, <1>2, ChannelGrows DEF More, CursorKnown
  <2> QED
    BY <2>1, <2>2, <2>3 DEF More
<1>3. ASSUME NEW s \in Subscribers,
             Connect(s) \/ HandlerStep(s) \/ StreamStep(s) \/ Disconnect(s)
      PROVE  More'
  <2>1. UNCHANGED <<idgen, repo_seq, sequenced, writer, published, restarts>>
    BY <1>3 DEF HandlerStep, StreamStep, seqVars, Connect, Disconnect, CheckFuture,
       CheckOutdated, ResetCursor, Backfill, BackfillFails, Subscribe, Forward, Lag,
       Send, DeliverBackfill, DeliverLive
  <2>2. \A u \in Subscribers \ {s} : sub'[u] = sub[u]
    BY <1>1, <1>3 DEF HandlerStep, StreamStep, Connect, Disconnect, CheckFuture,
       CheckOutdated, ResetCursor, Backfill, BackfillFails, Filled, Subscribe,
       Forward, Lag, Send, DeliverBackfill, DeliverLive, Update
  <2>3. IdsDiffer'
    BY <2>1, FewerIds DEF More, Minted
  <2>4. Caught(sub'[s]) /\ CursorKnown(sub'[s])
    <3>1. CASE StreamStep(s) \/ Subscribe(s)
      <4>1. Caught(sub'[s])
        BY <3>1, SubscribeCaught, ForwardCaught, LagCaught, SendCaught,
           DeliverBackfillCaught, DeliverLiveCaught DEF More, StreamStep
      <4> QED
        BY <3>1, <4>1, StreamStaysLive DEF CursorKnown
    <3>2. CASE ~(StreamStep(s) \/ Subscribe(s))
      BY <1>3, <3>2, HandlerCaught DEF More, HandlerStep
    <3> QED
      BY <3>1, <3>2
  <2>5. Caught(sub[s])' /\ CursorKnown(sub[s])'
    BY <2>1, <2>4, CaughtMoves DEF CursorKnown
  <2>6. ASSUME NEW u \in Subscribers \ {s} PROVE Caught(sub[u])' /\ CursorKnown(sub[u])'
    <3>1. Caught(sub'[u]) /\ CursorKnown(sub'[u])
      BY <2>2 DEF More
    <3> QED
      BY <2>1, <3>1, CaughtMoves DEF CursorKnown
  <2> QED
    BY <2>3, <2>5, <2>6 DEF More
<1>4. CASE Restart
  <2>1. UNCHANGED <<repo_seq>> /\ restarts' # 0 /\ \A s \in Subscribers : sub'[s] = Closed
    BY <1>1, <1>4 DEF Restart, RestartSequencer, SequencerTypeOK
  <2>2. IdsDiffer'
    BY <2>1 DEF More, IdsDiffer, KeysDiffer, MintedDiffer
  <2>3. Closed.pc = "closed" /\ Closed.skipped = {}
    BY DEF Closed
  <2>4. \A s \in Subscribers : Caught(sub[s])' /\ CursorKnown(sub[s])'
    BY <2>1, <2>3 DEF Caught, CursorKnown
  <2> QED
    BY <2>2, <2>4 DEF More
<1>5. CASE UNCHANGED vars
  <2>1. UNCHANGED <<idgen, repo_seq, sequenced, writer, published, restarts, sub>>
    BY <1>5 DEF vars, seqVars
  <2>2. IdsDiffer'
    BY <2>1, FewerIds DEF More, Minted
  <2>3. \A s \in Subscribers : Caught(sub[s])' /\ CursorKnown(sub[s])'
    BY <2>1, CaughtMoves DEF More, CursorKnown
  <2> QED
    BY <2>2, <2>3 DEF More
<1> QED
  BY <1>2, <1>3, <1>4, <1>5 DEF Next

LEMMA MoreInvariance == Spec => [](Inv /\ More)
BY InitInv, InitMore, NextInv, NextMore, PTL DEF Spec

(* Until the process restarts no INSERT into repo_seq is refused for its   *)
(* key, whatever the wall clock does and however many handlers sequence at *)
(* once: DbId::new is strictly increasing.                                 *)
THEOREM NeverCollides == Spec => []InsertNeverCollides
<1>1. Inv /\ More => InsertNeverCollides
  BY DEF Inv, TypeOK, SequencerTypeOK, More, IdsDiffer, MintedDiffer, Minted,
     InsertNeverCollides
<1> QED
  BY <1>1, MoreInvariance, PTL

(* The comparison with last_seen in Outbox::events drops only what the     *)
(* backfill or an earlier envelope was already past.                       *)
THEOREM NewsForwarded == Spec => []NewsIsForwarded
<1>1. More => NewsIsForwarded
  BY DEF More, Caught, NewsKept, Heard, Carries, NewsIsForwarded, Received, InPipe
<1> QED
  BY <1>1, MoreInvariance, PTL

-----------------------------------------------------------------------------
(* The rows of a finite log that are past e; some row has none past it. *)
Past(e) == {f \in repo_seq : Before(e.id, f.id)}

LEMMA LastRow ==
    ASSUME Inv, More, repo_seq # {}
    PROVE  \E e \in repo_seq : \A f \in repo_seq : f = e \/ Before(f.id, e.id)
<1>1. IsFiniteSet(repo_seq) /\ \A e \in repo_seq : e.id \in Ulid
  BY IdTypes DEF Inv, TypeOK, SequencerTypeOK
<1>2. /\ IsWellFoundedOn(StrictSubsetOrdering(repo_seq), FiniteSubsetsOf(repo_seq))
      /\ FiniteSubsetsOf(repo_seq) = SUBSET repo_seq
  BY <1>1, FS_StrictSubsetOrderingWellFounded, FS_FiniteSubsetsOfFinite
<1> DEFINE T == {Past(e) : e \in repo_seq}
<1>3. T \subseteq SUBSET repo_seq /\ T # {}
  BY DEF Past
<1> HIDE DEF T
<1>4. PICK x \in T : \A y \in T : ~(<<y, x>> \in StrictSubsetOrdering(repo_seq))
  BY <1>2, <1>3, WFMin
<1>5. PICK e \in repo_seq : x = Past(e)
  BY <1>4 DEF T
<1>6. ASSUME NEW f \in Past(e) PROVE FALSE
  <2>1. f \in repo_seq /\ Before(e.id, f.id)
    BY <1>6 DEF Past
  <2>2. \A g \in repo_seq : Before(f.id, g.id) => Before(e.id, g.id)
    BY <1>1, <2>1, IdOrder
  <2>3. Past(f) \subseteq Past(e) /\ f \notin Past(f)
    BY <1>1, <2>1, <2>2, IdOrder DEF Past
  <2>4. Past(f) \in T /\ Past(f) \in SUBSET repo_seq /\ Past(e) \in SUBSET repo_seq
    BY <2>1 DEF T, Past
  <2>5. <<Past(f), Past(e)>> \in StrictSubsetOrdering(repo_seq)
    BY <1>6, <2>3, <2>4 DEF StrictSubsetOrdering
  <2> QED
    BY <1>4, <1>5, <2>4, <2>5
<1>7. ASSUME NEW f \in repo_seq PROVE f = e \/ Before(f.id, e.id)
  <2>1. ~Before(e.id, f.id)
    BY <1>6 DEF Past
  <2>2. f.id = e.id \/ Before(f.id, e.id)
    BY <1>1, <2>1, IdOrder
  <2> QED
    BY <2>2 DEF More, IdsDiffer, KeysDiffer
<1> QED
  BY <1>7

(* curr() is at least the seq of every row. *)
LEMMA CurrIsLast ==
    ASSUME Inv, More, NEW e \in repo_seq
    PROVE  CurrTs \in Nat /\ seq(e) <= CurrTs
<1> DEFINE last(x) == \A f \in repo_seq : f = x \/ Before(f.id, x.id)
           top == CHOOSE x \in repo_seq : last(x)
<1>1. top \in repo_seq /\ last(top)
  BY LastRow
<1>2. CurrTs = seq(top)
  BY DEF CurrTs
<1>3. e = top \/ Before(e.id, top.id)
  BY <1>1
<1> HIDE DEF top
<1>4. e \in Event /\ top \in Event
  BY <1>1 DEF Inv, TypeOK, SequencerTypeOK
<1>5. seq(e) \in Nat /\ seq(top) \in Nat
  BY <1>4, SeqType
<1> QED
  BY <1>2, <1>3, <1>5 DEF Before, seq

(* A subscriber that comes back with the seq of an event that was          *)
(* sequenced is not told FutureCursor while no row has been deleted:       *)
(* curr() is not behind any row of the log.                                *)
THEOREM ResumeAccepted == Spec => ResumeRefusedOnlyAfterDeletion
<1> DEFINE A == \A s \in Subscribers :
                  sub[s].known /\ sub[s].pc = "curr" /\ sub'[s].pc = "refused"
                    => repo_seq # sequenced
<1>1. Inv /\ More /\ [Next]_vars => [A]_vars
  <2> SUFFICES ASSUME Inv, More, Next, NEW s \in Subscribers, sub[s].known,
                      sub[s].pc = "curr", sub'[s].pc = "refused",
                      repo_seq = sequenced
               PROVE  FALSE
    OBVIOUS
  <2>1. sub \in [Subscribers -> Connection] /\ sub[s] \in Connection
    BY DEF Inv, TypeOK
  <2>2. CheckFuture(s)
    <3>1. sub' # sub
      OBVIOUS
    <3>2. ~Restart
      BY DEF Restart, Closed
    <3>3. PICK u \in Subscribers :
            Connect(u) \/ HandlerStep(u) \/ StreamStep(u) \/ Disconnect(u)
      BY <3>1, <3>2 DEF Next
    <3>4. u = s
      BY <2>1, <3>3 DEF HandlerStep, StreamStep, Connect, Disconnect, CheckFuture,
         CheckOutdated, ResetCursor, Backfill, BackfillFails, Filled, Subscribe,
         Forward, Lag, Send, DeliverBackfill, DeliverLive, Update
    <3>5. ~Disconnect(s)
      BY <2>1 DEF Disconnect, Update, Closed
    <3> QED
      BY <3>3, <3>4, <3>5 DEF HandlerStep, StreamStep, Connect, CheckOutdated,
         ResetCursor, Backfill, BackfillFails, Subscribe, Forward, Lag, Send,
         DeliverBackfill, DeliverLive
  <2>3. sub[s].cursor > CurrTs
    BY <2>1, <2>2 DEF CheckFuture, Update, Connection
  <2>4. PICK e \in sequenced : seq(e) = sub[s].cursor
    BY DEF More, CursorKnown
  <2>5. CurrTs \in Nat /\ seq(e) <= CurrTs
    BY <2>4, CurrIsLast
  <2>6. sub[s].cursor \in Int
    BY <2>1, ConnectionParts
  <2> QED
    BY <2>3, <2>4, <2>5, <2>6
<1> QED
  BY <1>1, MoreInvariance, PTL DEF Spec, ResumeRefusedOnlyAfterDeletion
=============================================================================
