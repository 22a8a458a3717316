SPECIFICATION Spec
CONSTANTS
  Tabs = {t1, t2}
  Schemas <- SomeSchemas
  PageSize = 1
  Openable = {1, 9}
  PatchRequests <- SomePatches
  JobDeltas <- SomeDeltas
  FirstGraph <- ThreePages
  FirstTexts <- Texts
  FirstRanking <- Ranking
  MaxFaults = 1
SYMMETRY Symmetry
INVARIANTS
  MissingPageIs404
CHECK_DEADLOCK FALSE
