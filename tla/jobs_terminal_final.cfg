CONSTANTS
  j1 = j1
  j2 = j2
  s1 = s1
  s2 = s2
  Jobs = {j1}
  BadEnvelope = {}
  BadPayload = {}
  Slots = {s1}
  NoJob = NoJob
  MaxAttempts = 2
  MaxFaults = 0
  MaxCrashes = 0
  MaxLate = 1
  MaxRebinds = 0

SPECIFICATION Spec

PROPERTIES
  TerminalEventIsFinal

\* Once every request is settled nothing is left to do.
CHECK_DEADLOCK FALSE
