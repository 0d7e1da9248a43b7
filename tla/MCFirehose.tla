----------------------------- MODULE MCFirehose -----------------------------
(* Model-checking instances of Firehose. *)
EXTENDS Firehose, TLC

Symmetry == Permutations(Writers) \cup Permutations(Dids)

(* The instance for liveness: a database call fails, or the process has    *)
(* restarted, only where no connection is open.  The job table meets every *)
(* failure and a stream every order of calm steps; the two together are    *)
(* the business of the safety instance.                                    *)
OpenOnlyWhenCalm ==
    \/ faults = 0 /\ restarts = 0
    \/ \A s \in Subscribers : sub[s].pc = "closed"

MCLiveSpec == Init /\ [][Next /\ OpenOnlyWhenCalm']_vars /\ Fairness
=============================================================================
