SPECIFICATION Spec
CONSTANTS
  Backends = {b1, b2}
  NoBackend = NoBackend
  Tasks = {t1}
  NoTask = NoTask
  MaxLinks = 2
  PairMode = "scoped"
  Calls = {"start", "read", "discover", "write", "stop"}
SYMMETRY BackendSymmetry
INVARIANTS RegistryAgrees LinkHasOneUser ReleasedLinkIsDead
PROPERTIES ImplementsLease
