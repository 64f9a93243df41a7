CONSTANTS
  Target <- OneTarget
  Alive = {"h1"}
  Name = {"na", "nb"}
  Dir = {"d1"}
  Table <- NamingTable
  IdZero = "h0"
  CONTROL_COUNT = 2
  PingTimer = 2
  DnsTimer = 2
  Users = {{"l", "D"}}
  MaxCommands = 2
  MaxIncoming = 0
  MaxParts = 2
SPECIFICATION Spec
INVARIANT DownloadPointed
