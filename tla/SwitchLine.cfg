CONSTANTS
  Switch <- LineSwitch
  Leaf <- LineLeaf
  Dst = {1, 9}
  NumPorts <- LinePorts
  Peer <- LinePeer
  CONTROL_COUNT = 1
  MaxData = 1
  NoPacket = NoPacket
SPECIFICATION FairSpec
INVARIANT AtMostOnce
PROPERTIES Stabilizes 
