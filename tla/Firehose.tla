------------------------------ MODULE Firehose ------------------------------
(***************************************************************************)
(* com.atproto.sync.subscribeRepos: the websocket subscribers of the       *)
(* sequencer.                                                              *)
(*                                                                         *)
(* A connection validates its cursor against the event log, reads one page *)
(* of backfill, subscribes to the broadcast channel, and then streams: a   *)
(* forwarder task moves envelopes from the broadcast channel to a bounded  *)
(* mpsc channel, dropping those at or below last_seen, and the handler     *)
(* sends first the backfill and then what the forwarder delivers.  Every   *)
(* read of the database is an await during which the sequencer moves on.   *)
(***************************************************************************)
EXTENDS Sequencer

CONSTANTS
    Subscribers,  \* websocket clients
    Cursors,      \* bound: the cursors clients present
    PageSize,     \* PAGE_SIZE (500)
    RingSize,     \* capacity of the broadcast channel (1024)
    MpscSize,     \* capacity of the mpsc channel (64)
    Window        \* repo_backfill_limit_ms (24 hours)

ASSUME FirehoseAssumption ==
    /\ {PageSize, RingSize, MpscSize} \subseteq Nat \ {0}
    /\ Window \in Nat
    /\ Cursors \subseteq Nat

VARIABLE sub   \* the connection of each subscriber

vars == <<seqVars, sub>>

(* Option<i64>: no cursor.  A cursor is a seq, so never negative here. *)
None == -1

(***************************************************************************)
(* The state of a connection:                                              *)
(*   pc         where the handler is                                       *)
(*   cursor     the cursor of the query; later the outbox's                *)
(*   now        the wall clock when backfill_time was computed             *)
(*   known      history: the cursor was the seq of an event when it came   *)
(*   iter       backfill not yet sent                                      *)
(*   last_seen  the last_seen shared by the forwarder and the stream       *)
(*   base       history: last_seen when the broadcast was subscribed to    *)
(*   start      history: position in the channel when it was subscribed to *)
(*   pos        envelopes of the channel this receiver is past             *)
(*   skipped    history: positions the receiver lost by lagging            *)
(*   held       the event the forwarder is sending to the mpsc channel     *)
(*   mpsc       the mpsc channel                                           *)
(*   delivered  the events sent on the websocket, in order                 *)
(***************************************************************************)
Closed == [pc |-> "closed", cursor |-> None, now |-> 0, known |-> FALSE,
           iter |-> <<>>, last_seen |-> -1, base |-> -1, start |-> 0,
           pos |-> 0, skipped |-> {}, held |-> <<>>, mpsc |-> <<>>,
           delivered |-> <<>>]

(* The connection of s becomes r; the other connections stay. *)
Update(s, r) == sub' = [sub EXCEPT ![s] = r]

(* subscribe_repos up to on_upgrade: without a cursor there is nothing to  *)
(* validate and no backfill; with one the limit of the backfill window is  *)
(* computed now.                                                           *)
Connect(s) ==
    /\ sub[s].pc = "closed"
    /\ \/ Update(s, [Closed EXCEPT !.pc = "subscribe"])
       \/ \E c \in Cursors :
            Update(s, [Closed EXCEPT
                         !.pc = "curr", !.cursor = c, !.now = clock,
                         !.known = \E e \in sequenced : seq(e) = c])
    /\ UNCHANGED seqVars

(* Mutation of CurrTs: ORDER BY seq ASC. *)
CurrTsAscending ==
    IF repo_seq = {} THEN 0
    ELSE seq(CHOOSE e \in repo_seq :
               \A f \in repo_seq : f = e \/ Before(e.id, f.id))

(* curr(): the timestamp of the largest id, 0 for an empty log. *)
CurrTs == IF repo_seq = {} THEN 0
          ELSE seq(CHOOSE e \in repo_seq :
                     \A f \in repo_seq : f = e \/ Before(f.id, e.id))

(* A cursor beyond the log gets the FutureCursor error frame. *)
CheckFuture(s) ==
    /\ sub[s].pc = "curr"
    /\ Update(s, [sub[s] EXCEPT !.pc =
                    IF sub[s].cursor > CurrTs THEN "refused" ELSE "next"])
    /\ UNCHANGED seqVars

(* next_seq(ulid_for_ts(c)): the first row whose id is greater than the    *)
(* ULID with timestamp c and random part 0.                                *)
IsNextSeq(e, c) ==
    LET after == {f \in repo_seq : Before([ms |-> c, rand |-> 0], f.id)}
    IN  e \in after /\ \A f \in after : f = e \/ Before(e.id, f.id)

(* next_ts: when the next event was sequenced, the cursor if there is none. *)
NextTs(c) ==
    LET next == {e \in repo_seq : IsNextSeq(e, c)}
    IN  IF next = {} THEN {c} ELSE {e.sequencedAt : e \in next}

(* An outdated cursor gets the OutdatedCursor info frame and is replaced;  *)
(* when the read fails the cursor itself is taken for next_ts.             *)
CheckOutdated(s) ==
    /\ sub[s].pc = "next"
    /\ \E t \in NextTs(sub[s].cursor) \cup {sub[s].cursor} :
         /\ \/ t \in NextTs(sub[s].cursor) /\ UNCHANGED faults
            \/ t = sub[s].cursor /\ Fault
         /\ Update(s, [sub[s] EXCEPT !.pc =
                         IF t < sub[s].now - Window THEN "earliest"
                                                    ELSE "backfill"])
    /\ UNCHANGED <<clock, idgen, repo_seq, sequenced, writer, jobs, worker,
                   published, formatted, restarts>>

(* earliest_after_time(backfill_time): the row of the window with the      *)
(* smallest sequencedAt, which need not have the smallest id.  The column  *)
(* holds a text with more digits than the text it is compared with, so a   *)
(* row of the limit's own millisecond may be taken to be before it.        *)
EarliestAfter(t, missed) ==
    LET rows == {e \in repo_seq \ missed : e.sequencedAt >= t}
    IN  {e \in rows : \A f \in rows : e.sequencedAt <= f.sequencedAt}

(* The new cursor is just before that row; without one, or when the read   *)
(* fails, there is no cursor and no backfill.                              *)
ResetCursor(s) ==
    /\ sub[s].pc = "earliest"
    /\ \E missed \in SUBSET {e \in repo_seq : e.sequencedAt = sub[s].now - Window} :
         LET found == EarliestAfter(sub[s].now - Window, missed)
         IN  \/ /\ \E e \in found :
                     Update(s, [sub[s] EXCEPT !.pc = "backfill",
                                              !.cursor = seq(e) - 1])
                /\ UNCHANGED faults
             \/ /\ \/ found = {} /\ UNCHANGED faults
                   \/ Fault
                /\ Update(s, [sub[s] EXCEPT !.pc = "subscribe", !.cursor = None])
    /\ UNCHANGED <<clock, idgen, repo_seq, sequenced, writer, jobs, worker,
                   published, formatted, restarts>>

(* Outbox::get_backfill: the first page of the whole log, of which the     *)
(* events past the cursor are kept; last_seen is the seq of the last one.  *)
Filled(s, q) ==
    Update(s, [sub[s] EXCEPT
                 !.pc = "subscribe", !.iter = q,
                 !.last_seen = IF q = <<>> THEN -1 ELSE seq(q[Len(q)])])

Backfill(s) ==
    /\ sub[s].pc = "backfill"
    /\ \E q \in Ordered({e \in FirstRows(repo_seq, PageSize) :
                           seq(e) > sub[s].cursor}) :
         Filled(s, q)
    /\ UNCHANGED seqVars

(* A failing request_seq_range reads as an empty backfill. *)
BackfillFails(s) ==
    /\ sub[s].pc = "backfill"
    /\ Fault
    /\ Filled(s, <<>>)
    /\ UNCHANGED <<clock, idgen, repo_seq, sequenced, writer, jobs, worker,
                   published, formatted, restarts>>

(* Mutation of Subscribe: the receiver starts a whole channel back. *)
SubscribeBehind(s) ==
    /\ sub[s].pc = "subscribe"
    /\ Update(s, [sub[s] EXCEPT
                    !.pc = "live", !.base = sub[s].last_seen,
                    !.start = Len(published), !.pos = Len(published) - RingSize])
    /\ UNCHANGED seqVars

(* broadcast.tx.subscribe(), after the backfill has been read: the         *)
(* receiver sees what is published from here on.                           *)
Subscribe(s) ==
    /\ sub[s].pc = "subscribe"
    /\ Update(s, [sub[s] EXCEPT
                    !.pc = "live", !.base = sub[s].last_seen,
                    !.start = Len(published), !.pos = Len(published)])
    /\ UNCHANGED seqVars

-----------------------------------------------------------------------------
(* `if seq > *g { *g = seq }`. *)
Larger(a, b) == IF a > b THEN a ELSE b

(* The channel retains the last RingSize envelopes. *)
Lagging(s) == sub[s].pos < Len(published) - RingSize

(* Mutation of Forward: every envelope is sent on. *)
ForwardUnfiltered(s) ==
    /\ sub[s].pc = "live" /\ sub[s].held = <<>>
    /\ sub[s].pos < Len(published) /\ ~Lagging(s)
    /\ LET e == published[sub[s].pos + 1]
       IN  Update(s, [sub[s] EXCEPT
                        !.pos = sub[s].pos + 1,
                        !.last_seen = Larger(seq(e), sub[s].last_seen),
                        !.held = <<e>>])
    /\ UNCHANGED seqVars

(* Mutation of Forward: the event is compared with the last_seen that it   *)
(* has just raised.                                                        *)
ForwardAfterRaise(s) ==
    /\ sub[s].pc = "live" /\ sub[s].held = <<>>
    /\ sub[s].pos < Len(published) /\ ~Lagging(s)
    /\ LET e == published[sub[s].pos + 1]
           seen == Larger(seq(e), sub[s].last_seen)
       IN  Update(s, [sub[s] EXCEPT
                        !.pos = sub[s].pos + 1, !.last_seen = seen,
                        !.held = IF seq(e) > seen THEN <<e>> ELSE <<>>])
    /\ UNCHANGED seqVars

(* The forwarder receives an envelope and raises last_seen under its lock; *)
(* it goes on to send the event if it was past the old last_seen.          *)
Forward(s) ==
    /\ sub[s].pc = "live" /\ sub[s].held = <<>>
    /\ sub[s].pos < Len(published) /\ ~Lagging(s)
    /\ LET e == published[sub[s].pos + 1]
       IN  Update(s, [sub[s] EXCEPT
                        !.pos = sub[s].pos + 1,
                        !.last_seen = Larger(seq(e), sub[s].last_seen),
                        !.held = IF seq(e) > sub[s].last_seen
                                 THEN <<e>> ELSE <<>>])
    /\ UNCHANGED seqVars

(* RecvError::Lagged: the receiver moves on to the oldest envelope the     *)
(* channel retains, and the forwarder continues.                           *)
Lag(s) ==
    /\ sub[s].pc = "live" /\ sub[s].held = <<>>
    /\ Lagging(s)
    /\ LET oldest == Len(published) - RingSize
       IN  Update(s, [sub[s] EXCEPT
                        !.pos = oldest,
                        !.skipped = sub[s].skipped
                                      \cup (sub[s].pos + 1 .. oldest)])
    /\ UNCHANGED seqVars

(* Mutation of Send: one place of the channel is kept free. *)
SendReserved(s) ==
    /\ sub[s].pc = "live" /\ sub[s].held # <<>>
    /\ Len(sub[s].mpsc) < MpscSize - 1
    /\ Update(s, [sub[s] EXCEPT
                    !.mpsc = Append(sub[s].mpsc, sub[s].held[1]),
                    !.held = <<>>])
    /\ UNCHANGED seqVars

(* tx.send(evt).await: waits for room in the mpsc channel. *)
Send(s) ==
    /\ sub[s].pc = "live" /\ sub[s].held # <<>>
    /\ Len(sub[s].mpsc) < MpscSize
    /\ Update(s, [sub[s] EXCEPT
                    !.mpsc = Append(sub[s].mpsc, sub[s].held[1]),
                    !.held = <<>>])
    /\ UNCHANGED seqVars

(* OutboxStream::poll_next, then socket.send: the backfill first. *)
DeliverBackfill(s) ==
    /\ sub[s].pc = "live" /\ sub[s].iter # <<>>
    /\ LET e == Head(sub[s].iter)
       IN  Update(s, [sub[s] EXCEPT
                        !.iter = Tail(sub[s].iter),
                        !.last_seen = Larger(seq(e), sub[s].last_seen),
                        !.delivered = Append(sub[s].delivered, e)])
    /\ UNCHANGED seqVars

(* Then what the forwarder has sent to the mpsc channel. *)
DeliverLive(s) ==
    /\ sub[s].pc = "live" /\ sub[s].iter = <<>> /\ sub[s].mpsc # <<>>
    /\ Update(s, [sub[s] EXCEPT
                    !.mpsc = Tail(sub[s].mpsc),
                    !.delivered = Append(sub[s].delivered, Head(sub[s].mpsc))])
    /\ UNCHANGED seqVars

(* The handler returns: the client closes, a send fails, curr() fails      *)
(* (CurrError), or the error frame of a refused cursor has been sent.  The *)
(* forwarder of a closed connection ends at its next send.                 *)
Disconnect(s) ==
    /\ sub[s].pc # "closed"
    /\ Update(s, Closed)
    /\ UNCHANGED seqVars

(* A restart of the process closes every connection. *)
Restart ==
    /\ RestartSequencer
    /\ sub' = [s \in Subscribers |-> Closed]

-----------------------------------------------------------------------------
Init == SequencerInit /\ sub = [s \in Subscribers |-> Closed]

(* The handler up to the subscription. *)
HandlerStep(s) ==
    \/ CheckFuture(s) \/ CheckOutdated(s) \/ ResetCursor(s)
    \/ Backfill(s) \/ BackfillFails(s) \/ Subscribe(s)

(* The stream of a live connection: its forwarder and its consumer. *)
StreamStep(s) ==
    \/ Forward(s) \/ Lag(s) \/ Send(s) \/ DeliverBackfill(s) \/ DeliverLive(s)

Next ==
    \/ SequencerStep /\ UNCHANGED sub
    \/ \E s \in Subscribers :
         Connect(s) \/ HandlerStep(s) \/ StreamStep(s) \/ Disconnect(s)
    \/ Restart

Spec == Init /\ [][Next]_vars

(***************************************************************************)
(* The worker is a spawned task, the forwarder another, and the handler is *)
(* driven by the runtime: each takes its next step when it can.  Nothing   *)
(* makes a client connect or stay, a handler sequence, or the clock move.  *)
(***************************************************************************)
Fairness ==
    /\ WF_vars(WorkerStep /\ UNCHANGED sub)
    /\ \A w \in Writers : WF_vars((MintId(w) \/ InsertRow(w) \/ InsertFails(w)
                                     \/ EnqueueJob(w))
                                    /\ UNCHANGED sub)
    /\ \A s \in Subscribers :
         /\ WF_vars(HandlerStep(s))
         /\ WF_vars(Forward(s) \/ Lag(s) \/ Send(s))
         /\ WF_vars(DeliverBackfill(s) \/ DeliverLive(s))

LiveSpec == Spec /\ Fairness

-----------------------------------------------------------------------------
ConnectionPc == {"closed", "curr", "refused", "next", "earliest", "backfill",
                 "subscribe", "live"}

Connection ==
    [pc : ConnectionPc, cursor : Int, now : Nat, known : BOOLEAN,
     iter : Seq(Event), last_seen : Int, base : Int, start : Nat, pos : Nat,
     skipped : SUBSET Nat, held : Seq(Event), mpsc : Seq(Event),
     delivered : Seq(Event)]

(* The type of the state of the firehose. *)
TypeOK == SequencerTypeOK /\ sub \in [Subscribers -> Connection]

(* A connection is never sent an event twice nor an older event after a    *)
(* newer one, although the worker may publish an event again after a       *)
(* failed UPDATE, publish events out of order, and publish what the        *)
(* backfill has already read (the last_seen test of Outbox::events).       *)
DeliveredInOrder == \A s \in Subscribers : OrderedById(sub[s].delivered)

(* Every event of p is before every event of q. *)
AllBefore(p, q) ==
    \A i \in DOMAIN p, j \in DOMAIN q : Before(p[i].id, q[j].id)

(* No event of q is past seq number n. *)
UpTo(q, n) == \A i \in DOMAIN q : seq(q[i]) <= n

(* The stages of a stream, each in order and before the ones behind it,    *)
(* and none holding an event past last_seen.                               *)
StagesInOrder(r) ==
    /\ OrderedById(r.delivered) /\ OrderedById(r.iter) /\ OrderedById(r.mpsc)
    /\ AllBefore(r.delivered, r.iter)
    /\ AllBefore(r.delivered, r.mpsc)
    /\ AllBefore(r.delivered, r.held)
    /\ AllBefore(r.iter, r.mpsc)
    /\ AllBefore(r.iter, r.held)
    /\ AllBefore(r.mpsc, r.held)

SeenUpTo(r) ==
    /\ UpTo(r.delivered, r.last_seen) /\ UpTo(r.iter, r.last_seen)
    /\ UpTo(r.mpsc, r.last_seen) /\ UpTo(r.held, r.last_seen)

(* A connection has a stream only once it is live, and its backfill only   *)
(* once that is read.                                                      *)
StreamOrder(r) ==
    /\ StagesInOrder(r) /\ SeenUpTo(r)
    /\ Len(r.held) <= 1
    /\ r.pc # "live" =>
         r.delivered = <<>> /\ r.mpsc = <<>> /\ r.held = <<>>
    /\ r.pc \notin {"subscribe", "live"} =>
         r.iter = <<>> /\ r.last_seen = -1

(* The backfill, the bounded channel and the event in the forwarder's hand *)
(* never hold an event that belongs before one in a stage ahead of it, so  *)
(* the consumer may read the stages one after the other.                   *)
StreamInOrder == \A s \in Subscribers : StreamOrder(sub[s])

(* What a connection holds or was sent comes from the log. *)
FromLog(r) ==
    /\ \A i \in DOMAIN r.delivered : r.delivered[i] \in sequenced
    /\ \A i \in DOMAIN r.iter : r.iter[i] \in sequenced
    /\ \A i \in DOMAIN r.mpsc : r.mpsc[i] \in sequenced
    /\ \A i \in DOMAIN r.held : r.held[i] \in sequenced

(* What is on its way to the consumer of s or has reached it. *)
InPipe(s, e) ==
    \/ \E i \in DOMAIN sub[s].delivered : sub[s].delivered[i] = e
    \/ \E i \in DOMAIN sub[s].iter : sub[s].iter[i] = e
    \/ \E i \in DOMAIN sub[s].mpsc : sub[s].mpsc[i] = e
    \/ \E i \in DOMAIN sub[s].held : sub[s].held[i] = e

(* Positions of the broadcast channel the forwarder of s has received. *)
Received(s) == (sub[s].start + 1 .. sub[s].pos) \ sub[s].skipped

(* The test against last_seen loses nothing that is news: a received event *)
(* past the backfill and past every envelope received before it is in the  *)
(* pipe or delivered.                                                      *)
NewsIsForwarded ==
    \A s \in Subscribers : sub[s].pc = "live" =>
        \A n \in Received(s) :
            \/ seq(published[n]) <= sub[s].base
            \/ \E k \in Received(s) : k < n /\ seq(published[k]) >= seq(published[n])
            \/ InPipe(s, published[n])

(* Subscribers resume with the seq of an event they were sent.  Such a     *)
(* cursor is refused as FutureCursor only if rows have been deleted since: *)
(* curr() reads the log, and deleteAccount can remove its last rows.       *)
ResumeRefusedOnlyAfterDeletion ==
    [][\A s \in Subscribers :
         sub[s].known /\ sub[s].pc = "curr" /\ sub'[s].pc = "refused"
           => repo_seq # sequenced]_vars

(* Every step of the firehose is a step of the feed or leaves it alone. *)
F == INSTANCE Feed WITH log <- sequenced,
                        delivered <- [s \in Subscribers |-> sub[s].delivered]

ImplementsFeed == F!Spec

-----------------------------------------------------------------------------
(* Envelope n of the channel is due to the live connection s. *)
Awaited(s, n) ==
    sub[s].pc = "live" /\ n \in sub[s].start + 1 .. Len(published)

(* The connection was sent this event or a later one, or lost it. *)
Covered(s, n) ==
    \/ n \in sub[s].skipped
    \/ seq(published[n]) <= sub[s].base
    \/ \E i \in DOMAIN sub[s].delivered :
         seq(sub[s].delivered[i]) >= seq(published[n])

(* An envelope published while a connection is live is eventually covered  *)
(* by what the connection has been sent, unless the connection closes      *)
(* first: the forwarder, the bounded channel and the consumer never wait   *)
(* for each other in a circle.                                             *)
PublishedReachesSubscriber ==
    \A s \in Subscribers, n \in 1..(MaxEvents + MaxFaults) :
        []<>(Awaited(s, n) => Covered(s, n))
=============================================================================
