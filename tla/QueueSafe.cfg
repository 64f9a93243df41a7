CONSTANTS
  NumCells = 4
  MaxJobs = 8
  Nodes <- SafeNodes
  NULL = NULL
SPECIFICATION Spec
INVARIANT ListOK
PROPERTY ImplementsFifo
