CONSTANTS
  Host = {1, 2, 3}
  Name <- Names
  ReadAs <- Reads
  Dir = {"d1", "d2", "d3"}
  FirstDir <- SenderDirs
  NoDir = "None"
  NUL = "nul"
  Junk = "junk"
  Byte <- Bytes
  NoFile = NoFile
  FileAt <- PlainFiles
  MAX_FILE_BUFFER = 5
  MAX_MSG_LENGTH = 2
  Commands <- AllCommands
  MaxCommands = 3
  MaxLost = 0
SPECIFICATION Spec
INVARIANT FilesWhole
