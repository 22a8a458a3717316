CONSTANTS
  j1 = j1
  j2 = j2
  s1 = s1
  s2 = s2
  Jobs = {j1}
  BadEnvelope = {}
  BadPayload = {}
  Slots = {s1}
  NoJob = NoJob
  MaxAttempts = 2
  MaxFaults = 1
  MaxCrashes = 1
  MaxLate = 1
  MaxRebinds = 0

SPECIFICATION FairSpec

INVARIANTS
  TypeOK
  SuccessMeansRan
  AckedIsAnnounced
  DeadLetterIsAnnounced

PROPERTIES
  EventsAgreeWithRow
  AttemptsIncrease
  KeepsPromise
  EveryRequestSettles

\* Once every request is settled nothing is left to do.
CHECK_DEADLOCK FALSE
