SPECIFICATION FairDlqSpec
CONSTANTS
  Rows = {r1}
  NoRow = NoRow
  Jobs = {j1, j2}
  MaxAttempts = 3
  BatchSize = 2
  MaxForces = 2
  MaxDlqFaults = 2
INVARIANTS
  NoRowIsStuck
  NotGivenUpEarly
PROPERTIES
  LetterSpec
  FailureSettles
