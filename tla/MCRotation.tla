---------------------------- MODULE MCRotation ----------------------------
(* Model-checking instance of Rotation. *)
EXTENDS Rotation
===========================================================================
