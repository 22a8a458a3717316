-------------------------- MODULE MCJobStatusWatch --------------------------
(* Instances of JobStatusWatch for TLC. *)
EXTENDS JobStatusWatch

CONSTANTS j1, j2, s1, s2, w1
=============================================================================
