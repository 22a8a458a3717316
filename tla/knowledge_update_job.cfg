CONSTANTS
  Extractions <- TwoRuns
  Scores <- SomeScores
  GraphAnswers <- SomeAnswers
  Schemas <- SomeSchemas
  InitialGraph <- InUse
  MaxTries = 2
  MaxFaults = 1

SPECIFICATION Spec

INVARIANTS
  TypeOK
  GraphKeepsItsShape
  DeltaHangsTogether
  DoneMeansStored


  

\* Every run ends, and there is a last one.
CHECK_DEADLOCK FALSE
