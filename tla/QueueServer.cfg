CONSTANTS
  NumCells = 4
  MaxJobs = 8
  Nodes <- ServerOnly
  NULL = NULL
SPECIFICATION Spec
INVARIANT TakesJobs
