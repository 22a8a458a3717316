CONSTANTS
  j1 = j1
  j2 = j2
  s1 = s1
  s2 = s2
  w1 = w1
  Watchers = {w1}
  Jobs = {j1}
  BadEnvelope = {}
  BadPayload = {}
  Slots = {s1}
  NoJob = NoJob
  MaxAttempts = 2
  MaxFaults = 1
  MaxCrashes = 1
  MaxLate = 0
  MaxRebinds = 0

SPECIFICATION WatchFairSpec

INVARIANTS
  DoneMeansDecided
  ToldSuccessMeansRan

PROPERTIES
  EveryWatchEnds

\* Once every request is settled nothing is left to do.
CHECK_DEADLOCK FALSE
