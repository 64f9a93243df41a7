CONSTANTS
  Configs <- AllConfigs
  NoConfig = NoConfig
  HEADER = 2
  PAYLOAD_MAX = 2
  BACKLOG = 1
  Capacities = {4, 9}
  MaxSent = 3
SPECIFICATION LinksSpec
INVARIANTS LinksTypeOK PortsPaired FromPeer SlotWhenShort
PROPERTY FirstWhole
CHECK_DEADLOCK FALSE
