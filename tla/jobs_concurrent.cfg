CONSTANTS
  j1 = j1
  j2 = j2
  s1 = s1
  s2 = s2
  Jobs = {j1, j2}
  BadEnvelope = {j2}
  BadPayload = {}
  Slots = {s1, s2}
  NoJob = NoJob
  MaxAttempts = 2
  MaxFaults = 0
  MaxCrashes = 0
  MaxLate = 1
  MaxRebinds = 1

SPECIFICATION Spec

SYMMETRY SlotSymmetry

INVARIANTS
  AckInv
  FirstAttemptStartsOnce

\* Once every request is settled nothing is left to do.
CHECK_DEADLOCK FALSE
