CONSTANTS
  Switch = {2, 3}
  Leaf = {0}
  Dst = {9}
  NumPorts <- PairPorts
  Peer <- PairPeer
  CONTROL_COUNT = 2
  MaxData = 1
  NoPacket = NoPacket
SPECIFICATION Spec
INVARIANTS LookupLeadsHome TrailKnown
