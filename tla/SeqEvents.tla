----------------------------- MODULE SeqEvents -----------------------------
(***************************************************************************)
(* The data of the firehose: ULID event ids, sequenced events, and the     *)
(* order in which the event log is read.                                   *)
(*                                                                         *)
(* A ULID is its millisecond timestamp and its 80 random bits, ordered     *)
(* first by timestamp.  On the wire, and in every comparison the outbox    *)
(* makes, an event is known only by the timestamp of its id: two events    *)
(* of one millisecond have different ids and the same seq.                 *)
(***************************************************************************)
EXTENDS Integers, FiniteSets, Sequences

CONSTANT Dids   \* accounts events are about

Ulid == [ms : Nat, rand : Nat]

(* Ulid::nil, the generator's state before its first id. *)
NilId == [ms |-> 0, rand |-> 0]

(* SQLite compares the 16-byte primary keys of repo_seq bytewise: the      *)
(* timestamp first, then the random part.                                  *)
Before(a, b) == \/ a.ms < b.ms
                \/ a.ms = b.ms /\ a.rand < b.rand

(* A row of repo_seq.  The body of the event and its type play no part in  *)
(* sequencing or delivery: an event is identified by its id.               *)
Event == [id : Ulid, did : Dids, sequencedAt : Nat]

(* typed_seq_evt: the seq of the envelope is the timestamp of the ULID. *)
seq(e) == e.id.ms

(* Rows read with ORDER BY seq ASC: the rows of S, each once, by id. *)
OrderedById(q) == \A i, j \in DOMAIN q : i < j => Before(q[i].id, q[j].id)

Ordered(S) == {q \in [1..Cardinality(S) -> S] : OrderedById(q)}

(* ORDER BY seq ASC LIMIT n: the n rows with the smallest ids. *)
FirstRows(S, n) ==
    {e \in S : Cardinality({f \in S : Before(f.id, e.id)}) < n}
=============================================================================
