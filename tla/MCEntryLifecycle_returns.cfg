SPECIFICATION FairSpec
CONSTANTS
  c1 = c1
  Coords = {c1}
  NoCoord = NoCoord
  z1 = z1
  ZoneTasks = {z1}
  NoTask = NoTask
  Services = {}
  Readers = {"poll", "bridge"}
  Happens = {"reload_error"}
PROPERTIES HandlersReturn
