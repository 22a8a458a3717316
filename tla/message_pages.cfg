CONSTANTS
  m1 = m1
  m2 = m2
  m3 = m3
  m4 = m4
  p1 = p1
  Messages = {m1, m2, m3, m4}
  Journal <- TwoDays
  MaxFaults = 1
  Readers = {p1}
  PageLimit = 2

SPECIFICATION Spec

SYMMETRY DaySymmetry

INVARIANTS
  NewestFirstOnce
  MissedOnlyTies

\* Once every message is stored and every reader is done nothing is left to do.
CHECK_DEADLOCK FALSE
