------------------------- MODULE MCJobOrchestrator -------------------------
(* Instances of JobOrchestrator for TLC. *)
EXTENDS JobOrchestrator, TLC

CONSTANTS j1, j2, s1, s2

\* Handlers are interchangeable.
SlotSymmetry == Permutations(Slots)
=============================================================================
