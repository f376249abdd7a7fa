SPECIFICATION Spec
CONSTANTS
  Senders = {s1, s2}
  Nobody = Nobody
  Never = Never
  Kinds = {"order", "frame"}
  Gap <- Gaps
  Thinks = {0, 1}
  Window = 3
  MaxOrders = 2
  MaxTime = 6
INVARIANT
  WireBurst
PROPERTY
  Throttled
CHECK_DEADLOCK FALSE
SYMMETRY Threads
