----------------------------- MODULE MCMessagePages -----------------------------
(* Instances of MessagePages for TLC. *)
EXTENDS MessagePages, TLC

CONSTANTS m1, m2, m3, m4, p1

TwoDays == m1 :> 1 @@ m2 :> 1 @@ m3 :> 1 @@ m4 :> 2

\* Messages of the same day are interchangeable.
DaySymmetry == Permutations({m1, m2, m3})
=============================================================================
