SPECIFICATION FairSpec
CONSTANTS
  Backends = {b1}
  NoBackend = NoBackend
  Tasks = {t1, t2}
  NoTask = NoTask
  MaxLinks = 2
  PairMode = "sibling"
  Calls = {"read", "stop"}
PROPERTIES CallsEndOrHang
