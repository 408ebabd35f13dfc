SPECIFICATION Spec
CONSTANTS
  c1 = c1
  Coords = {c1}
  NoCoord = NoCoord
  z1 = z1
  z2 = z2
  ZoneTasks = {z1, z2}
  NoTask = NoTask
  Services = {}
  Readers = {}
  Happens = {"reload_retry", "unload_fails"}
SYMMETRY Symmetry
INVARIANTS CompleteMeansReleased
