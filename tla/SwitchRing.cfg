CONSTANTS
  Switch <- Ring
  Leaf = {}
  Dst = {}
  NumPorts <- RingPorts
  Peer <- RingPeer
  CONTROL_COUNT = 1
  MaxData = 0
  NoPacket = NoPacket
SPECIFICATION FairSpec
INVARIANTS TypeOK ParentCloser AnnouncementsOld RouteReal
PROPERTIES Stabilizes ImplementsElection
