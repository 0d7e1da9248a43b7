----------------------------- MODULE MCSessions -----------------------------
(* Model-checking instances of Sessions. *)
EXTENDS Sessions

=============================================================================
