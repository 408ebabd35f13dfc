SPECIFICATION Spec
CONSTANTS
  c1 = c1
  c2 = c2
  Coords = {c1, c2}
  NoCoord = NoCoord
  z1 = z1
  ZoneTasks = {z1}
  NoTask = NoTask
  Services = {}
  Readers = {"poll", "bridge"}
  Happens = {"reload_error"}
SYMMETRY Symmetry
INVARIANTS TypeOK OneLiveStartup LoadedIsLive NoForgottenOwner CompleteMeansReleased UnprovenIsRemembered EntryInv OwnerInv
