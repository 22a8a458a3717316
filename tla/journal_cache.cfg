CONSTANTS
  today = today
  References = {today}
  Requests = {r1, r2}
  Keys <- EntryAndMessages
  Earlier <- SomeEarlier
  MaxWrites = 2
  MaxFaults = 1

SPECIFICATION Spec

INVARIANTS
  TypeOK
  BehindOnlyAfterTrouble

PROPERTIES
  CreatedIsFound
  CatchesUp
