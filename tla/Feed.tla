-------------------------------- MODULE Feed --------------------------------
(***************************************************************************)
(* What the firehose promises a connection: it is sent events of the log,  *)
(* each at most once and in the order of their ids.  Which events of the   *)
(* log a connection is sent, and when, is left open.                       *)
(***************************************************************************)
EXTENDS SeqEvents

CONSTANT Subscribers

VARIABLES
    log,         \* every event ever sequenced
    delivered    \* the events sent on each connection, in order

feedVars == <<log, delivered>>

Init == log = {} /\ delivered = [s \in Subscribers |-> <<>>]

Sequence ==
    /\ \E e \in log' : e \in Event /\ log' = log \cup {e}
    /\ UNCHANGED delivered

(* An event of the log goes out after every event already sent. *)
Deliver(s, e) ==
    /\ \A i \in DOMAIN delivered[s] : Before(delivered[s][i].id, e.id)
    /\ delivered' = [delivered EXCEPT ![s] = Append(@, e)]
    /\ UNCHANGED log

(* Connections close: what was sent on them is forgotten. *)
Close(S) ==
    /\ delivered' = [s \in Subscribers |-> IF s \in S THEN <<>> ELSE delivered[s]]
    /\ UNCHANGED log

Next ==
    \/ Sequence
    \/ \E s \in Subscribers, e \in log : Deliver(s, e)
    \/ \E S \in SUBSET Subscribers : Close(S)

Spec == Init /\ [][Next]_feedVars
=============================================================================
