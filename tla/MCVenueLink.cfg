SPECIFICATION FairSpec
CONSTANTS
  Wires = {w1, w2, w3, w4, w5}
  NoWire = NoWire
  Hosts = 1
  MaxHeals = 1
  MaxAttempts = 2
  MaxFaults = 1
  MaxReseats = 1
INVARIANTS
  OneOwner
  StreamRestored
PROPERTY
  LinkHeals
CHECK_DEADLOCK FALSE
