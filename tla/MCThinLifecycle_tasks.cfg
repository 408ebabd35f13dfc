SPECIFICATION Spec
CONSTANTS
  Backends = {b1}
  NoBackend = NoBackend
  Tasks = {t1, t2}
  NoTask = NoTask
  MaxLinks = 2
  PairMode = "scoped"
  Calls = {"start", "read", "discover", "write", "stop"}
SYMMETRY TaskSymmetry
INVARIANTS LifecycleInv TypeOK OneLinkDriver StopCheckNeverFires SessionNeedsClaim
PROPERTIES FencedReplacementIsFresh
