----------------------------- MODULE Sequencer -----------------------------
(***************************************************************************)
(* The sequencer of the PDS and its delivery worker.                       *)
(*                                                                         *)
(* Request handlers run concurrently; each clones the shared Sequencer and *)
(* calls sequence_evt, which awaits the database twice: once to insert the *)
(* repo_seq row under a locally minted ULID, and once to enqueue a job for *)
(* the worker.  A single worker task polls the job table, marks a job Done *)
(* and publishes its envelope to the broadcast channel.  The two tables    *)
(* survive a restart of the process; everything else is in memory.         *)
(***************************************************************************)
EXTENDS SeqEvents

CONSTANTS
    Writers,      \* request handlers that sequence events
    JobPool,      \* TRUE when the Sequencer has a job_pool
    MaxMs,        \* bound: the wall clock shows 1..MaxMs
    MaxRand,      \* largest random part of a ULID (2^80 - 1 in the code)
    MaxEvents,    \* bound: events ever formatted
    MaxFaults,    \* bound: transient database errors
    MaxRestarts   \* bound: restarts of the process

ASSUME SequencerAssumption ==
    /\ JobPool \in BOOLEAN
    /\ MaxMs \in Nat \ {0}
    /\ {MaxRand, MaxEvents, MaxFaults, MaxRestarts} \subseteq Nat

VARIABLES
    clock,      \* the wall clock, in milliseconds
    idgen,      \* the last ULID of the process-wide generator
    repo_seq,   \* rows of repo_seq
    sequenced,  \* history: every row ever inserted
    writer,     \* progress of each handler through sequence_evt
    jobs,       \* apalis_seq_jobs: job id (its ms) -> status and payload
    worker,     \* progress of the worker through its poll loop
    published,  \* every envelope sent on the broadcast channel, in order
    formatted,  \* number of events formatted so far
    faults,     \* number of database errors so far
    restarts    \* number of restarts so far

seqVars == <<clock, idgen, repo_seq, sequenced, writer, jobs, worker,
             published, formatted, faults, restarts>>

Idle == [pc |-> "idle"]

(* A database call that returns an error. *)
Fault == faults < MaxFaults /\ faults' = faults + 1

(* A row under a primary key that is already in the table is refused. *)
KeyTaken(id) == \E r \in repo_seq : r.id = id

-----------------------------------------------------------------------------
(* SystemTime::now(): the wall clock advances, and NTP may set it back. *)
AdjustClock ==
    /\ clock' \in (1..MaxMs) \ {clock}
    /\ UNCHANGED <<idgen, repo_seq, sequenced, writer, jobs, worker,
                   published, formatted, faults, restarts>>

(* format_seq_commit and its siblings: the event is built and stamped with *)
(* sequencedAt, before an id exists.                                       *)
Format(w) ==
    /\ writer[w] = Idle
    /\ formatted < MaxEvents
    /\ \E d \in Dids :
         writer' = [writer EXCEPT ![w] =
             [pc |-> "formatted", did |-> d, sequencedAt |-> clock]]
    /\ formatted' = formatted + 1
    /\ UNCHANGED <<clock, idgen, repo_seq, sequenced, jobs, worker,
                   published, faults, restarts>>

(* Mutation of NextIds: a ULID without the generator, fresh random bits in *)
(* whatever millisecond the clock shows.                                   *)
NextIdsFresh == [ms : {clock}, rand : 0..MaxRand]

(* The ULIDs DbId::new may return: fresh random bits in a new millisecond, *)
(* the successor of the last id when the clock shows no later one.         *)
NextIds ==
    IF clock > idgen.ms THEN [ms : {clock}, rand : 0..MaxRand]
    ELSE IF idgen.rand < MaxRand
         THEN {[ms |-> idgen.ms, rand |-> idgen.rand + 1]}
         ELSE {[ms |-> idgen.ms + 1, rand |-> 0]}

(* sequence_evt, first half: DbId::new under the generator's mutex. *)
MintId(w) ==
    /\ writer[w].pc = "formatted"
    /\ \E id \in NextIds :
         /\ idgen' = id
         /\ writer' = [writer EXCEPT ![w] =
              [pc |-> "minted",
               evt |-> [id |-> id, did |-> writer[w].did,
                        sequencedAt |-> writer[w].sequencedAt]]]
    /\ UNCHANGED <<clock, repo_seq, sequenced, jobs, worker, published,
                   formatted, faults, restarts>>

(* Mutation of InsertRow: the future of the INSERT is never awaited. *)
InsertRowUnawaited(w) ==
    /\ writer[w].pc = "minted"
    /\ ~KeyTaken(writer[w].evt.id)
    /\ writer' = [writer EXCEPT ![w].pc = "inserted"]
    /\ UNCHANGED <<clock, idgen, repo_seq, sequenced, jobs, worker, published,
                   formatted, faults, restarts>>

(* The INSERT into repo_seq.  With a job pool the handler goes on to       *)
(* enqueue the event, without one sequence_evt returns.                    *)
InsertRow(w) ==
    /\ writer[w].pc = "minted"
    /\ ~KeyTaken(writer[w].evt.id)
    /\ repo_seq' = repo_seq \cup {writer[w].evt}
    /\ sequenced' = sequenced \cup {writer[w].evt}
    /\ writer' = [writer EXCEPT ![w] =
           IF JobPool THEN [pc |-> "inserted", evt |-> writer[w].evt]
                      ELSE Idle]
    /\ UNCHANGED <<clock, idgen, jobs, worker, published, formatted, faults,
                   restarts>>

(* Mutation of InsertFails: the error is logged and the event enqueued. *)
InsertFailsSwallowed(w) ==
    /\ writer[w].pc = "minted"
    /\ \/ KeyTaken(writer[w].evt.id) /\ UNCHANGED faults
       \/ Fault
    /\ writer' = [writer EXCEPT ![w].pc = "inserted"]
    /\ UNCHANGED <<clock, idgen, repo_seq, sequenced, jobs, worker, published,
                   formatted, restarts>>

(* The INSERT fails (`?`) or the request is cancelled: the handler reports *)
(* the error and the event is gone.                                        *)
InsertFails(w) ==
    /\ writer[w].pc = "minted"
    /\ \/ KeyTaken(writer[w].evt.id) /\ UNCHANGED faults
       \/ Fault
    /\ writer' = [writer EXCEPT ![w] = Idle]
    /\ UNCHANGED <<clock, idgen, repo_seq, sequenced, jobs, worker, published,
                   formatted, restarts>>

(* enqueue_seq_event_job: INSERT OR REPLACE under the id seq-<ms>, so the  *)
(* events of one millisecond share a row.                                  *)
EnqueueJob(w) ==
    /\ writer[w].pc = "inserted"
    /\ LET e == writer[w].evt
       IN jobs' = [m \in DOMAIN jobs \cup {seq(e)} |->
                     IF m = seq(e) THEN [status |-> "Pending", evt |-> e]
                                    ELSE jobs[m]]
    /\ writer' = [writer EXCEPT ![w] = Idle]
    /\ UNCHANGED <<clock, idgen, repo_seq, sequenced, worker, published,
                   formatted, faults, restarts>>

(* An enqueue error is only logged and sequence_evt succeeds without a     *)
(* job; a request that is cancelled here leaves the same state.            *)
EnqueueFails(w) ==
    /\ writer[w].pc = "inserted"
    /\ Fault
    /\ writer' = [writer EXCEPT ![w] = Idle]
    /\ UNCHANGED <<clock, idgen, repo_seq, sequenced, jobs, worker, published,
                   formatted, restarts>>

-----------------------------------------------------------------------------
Pending == {m \in DOMAIN jobs : jobs[m].status = "Pending"}

(* Mutation of FetchJob: run_at must not be in the future. *)
FetchJobDue ==
    /\ worker = Idle
    /\ \E m \in Pending :
         /\ \A k \in Pending : m <= k
         /\ m <= clock
         /\ worker' = [pc |-> "fetched", job |-> m, evt |-> jobs[m].evt]
    /\ UNCHANGED <<clock, idgen, repo_seq, sequenced, writer, jobs, published,
                   formatted, faults, restarts>>

(* SELECT ... WHERE status = 'Pending' ORDER BY run_at ASC LIMIT 1. *)
FetchJob ==
    /\ worker = Idle
    /\ \E m \in Pending :
         /\ \A k \in Pending : m <= k
         /\ worker' = [pc |-> "fetched", job |-> m, evt |-> jobs[m].evt]
    /\ UNCHANGED <<clock, idgen, repo_seq, sequenced, writer, jobs, published,
                   formatted, faults, restarts>>

(* UPDATE ... SET status = 'Done' WHERE id = ?: by job id, whatever the    *)
(* payload of the row has become since the SELECT.                         *)
MarkDone ==
    /\ worker.pc = "fetched"
    /\ jobs' = [jobs EXCEPT ![worker.job].status = "Done"]
    /\ worker' = [worker EXCEPT !.pc = "marked"]
    /\ UNCHANGED <<clock, idgen, repo_seq, sequenced, writer, published,
                   formatted, faults, restarts>>

(* The error of the UPDATE is discarded and the job published anyway. *)
MarkDoneFails ==
    /\ worker.pc = "fetched"
    /\ Fault
    /\ worker' = [worker EXCEPT !.pc = "marked"]
    /\ UNCHANGED <<clock, idgen, repo_seq, sequenced, writer, jobs, published,
                   formatted, restarts>>

(* run_seq_event_job: broadcast the payload read by the SELECT. *)
Publish ==
    /\ worker.pc = "marked"
    /\ published' = Append(published, worker.evt)
    /\ worker' = Idle
    /\ UNCHANGED <<clock, idgen, repo_seq, sequenced, writer, jobs, formatted,
                   faults, restarts>>

-----------------------------------------------------------------------------
(* delete_all_for_user, the last step of deleteAccount. *)
DeleteAllForUser(d) ==
    /\ \E r \in repo_seq : r.did = d
    /\ repo_seq' = {r \in repo_seq : r.did # d}
    /\ UNCHANGED <<clock, idgen, sequenced, writer, jobs, worker, published,
                   formatted, faults, restarts>>

(* The process stops and starts again: handlers, worker, generator and     *)
(* broadcast channel are new, the two tables are as they were.             *)
RestartSequencer ==
    /\ restarts < MaxRestarts
    /\ restarts' = restarts + 1
    /\ writer' = [w \in Writers |-> Idle]
    /\ worker' = Idle
    /\ idgen' = NilId
    /\ published' = <<>>
    /\ UNCHANGED <<clock, repo_seq, sequenced, jobs, formatted, faults>>

SequencerInit ==
    /\ clock = 1
    /\ idgen = NilId
    /\ repo_seq = {}
    /\ sequenced = {}
    /\ writer = [w \in Writers |-> Idle]
    /\ jobs = <<>>
    /\ worker = Idle
    /\ published = <<>>
    /\ formatted = 0
    /\ faults = 0
    /\ restarts = 0

(* A step of some request handler. *)
WriterStep(w) ==
    \/ Format(w) \/ MintId(w) \/ InsertRow(w) \/ InsertFails(w)
    \/ EnqueueJob(w) \/ EnqueueFails(w)

(* A step of the delivery worker. *)
WorkerStep == FetchJob \/ MarkDone \/ MarkDoneFails \/ Publish

(* Everything that happens without a restart. *)
SequencerStep ==
    \/ AdjustClock
    \/ \E w \in Writers : WriterStep(w)
    \/ WorkerStep
    \/ \E d \in Dids : DeleteAllForUser(d)

SequencerSpec ==
    SequencerInit /\ [][SequencerStep \/ RestartSequencer]_seqVars

-----------------------------------------------------------------------------
WriterState ==
    [pc : {"idle"}]
      \cup [pc : {"formatted"}, did : Dids, sequencedAt : Nat]
      \cup [pc : {"minted", "inserted"}, evt : Event]

WorkerState ==
    [pc : {"idle"}] \cup [pc : {"fetched", "marked"}, job : Nat, evt : Event]

Job == [status : {"Pending", "Done"}, evt : Event]

(* The type of the sequencer's state. *)
SequencerTypeOK ==
    /\ clock \in 1..MaxMs
    /\ idgen \in Ulid
    /\ repo_seq \subseteq Event /\ IsFiniteSet(repo_seq)
    /\ sequenced \subseteq Event
    /\ writer \in [Writers -> WriterState]
    /\ DOMAIN jobs \subseteq Nat
    /\ jobs \in [DOMAIN jobs -> Job]
    /\ worker \in WorkerState
    /\ published \in Seq(Event)
    /\ formatted \in Nat /\ faults \in Nat /\ restarts \in Nat

(* Nothing is queued or published before its row is in the log: whatever   *)
(* a subscriber is sent could also be read back from repo_seq, until its   *)
(* account is deleted (sequence_evt inserts before it enqueues).           *)
LoggedFirst ==
    /\ repo_seq \subseteq sequenced
    /\ \A w \in Writers : writer[w].pc = "inserted" => writer[w].evt \in sequenced
    /\ \A m \in DOMAIN jobs : jobs[m].evt \in sequenced
    /\ worker.pc # "idle" => worker.evt \in sequenced
    /\ \A i \in DOMAIN published : published[i] \in sequenced

(* Within one run of the process an INSERT never meets its own key: ids    *)
(* are unique over concurrent handlers, a clock set back, and a generator  *)
(* that overflows its random part (DbId::new: "strictly increasing").      *)
InsertNeverCollides ==
    \A w \in Writers :
        writer[w].pc = "minted" /\ KeyTaken(writer[w].evt.id) => restarts > 0

(* The event with id i waits in the job table. *)
Waits(i) == \E m \in Pending : jobs[m].evt.id = i

(* The worker has read the event with id i and is still to publish it. *)
InHand(i) == worker.pc # "idle" /\ worker.evt.id = i

(* The row of i's millisecond was replaced by another event's before the   *)
(* worker read it (INSERT OR REPLACE under seq-<ms>).                      *)
Replaced(i) ==
    /\ i.ms \in DOMAIN jobs /\ jobs[i.ms].evt.id # i
    /\ ~InHand(i)

(* The worker is about to mark the row of i's millisecond Done for another *)
(* event, the one the row held when it was read.                           *)
MarkedForAnother(i) ==
    worker.pc = "fetched" /\ worker.job = i.ms /\ worker.evt.id # i

IsPublished(i) == \E n \in DOMAIN published : published[n].id = i

(* The process stopped between the mark and the broadcast. *)
LostAtRestart(i) ==
    /\ restarts > 0
    /\ i.ms \in DOMAIN jobs /\ jobs[i.ms].evt.id = i
    /\ jobs[i.ms].status = "Done" /\ ~InHand(i)

(* An event that waits in the job table is itself published, whichever     *)
(* database calls fail and in whatever order milliseconds are queued.  The *)
(* table loses an event in three ways only: another event of its           *)
(* millisecond replaces it, another event of its millisecond is the one    *)
(* for which the row is marked Done, or the process stops between the mark *)
(* and the broadcast.  An event that still waits after any of these, a     *)
(* restart included, is again due.                                         *)
PendingJobIsPublished ==
    \A i \in [ms : 1..(MaxMs + MaxEvents - 1), rand : 0..MaxRand] :
        Waits(i) ~> \/ IsPublished(i)
                    \/ Replaced(i)
                    \/ MarkedForAnother(i)
                    \/ LostAtRestart(i)
=============================================================================
