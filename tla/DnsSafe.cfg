CONSTANTS
  Host = {0, 1}
  Name <- Names
  Other <- Text
  MAX_NAME_LENGTH = 2
  PAYLOAD_MAX = 3
  NUL = "nul"
  Space = " "
  Garbage = Garbage
  CONTROL_COUNT = 1
  MaxReads = 2
SPECIFICATION FairSpec
INVARIANTS TypeOK RepliesInOrder RegisterTruthful KnownFound
PROPERTIES NamesKept Replied
