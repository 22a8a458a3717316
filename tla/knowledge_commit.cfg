CONSTANTS
  m1 = m1
  m2 = m2
  m3 = m3
  m4 = m4
  r0 = r0
  r1 = r1
  r2 = r2
  Messages = {m1, m2, m3, m4}
  Journal <- TwoDays
  Tokens <- Sizes
  TokenLimit = 3
  Requests = {r0, r1, r2}
  AllJournals = AllJournals
  MaxFaults = 1

SPECIFICATION BacklogSpec

SYMMETRY RequestSymmetry

INVARIANTS
  TypeOK
  HigherIsNewer
  CommittedWasQueued
  ReplyCoversListing
  QueuedAgainOnlyAfterTrouble

PROPERTIES
  ListingIsCut

\* Once every request is answered nothing is left to do.
CHECK_DEADLOCK FALSE
