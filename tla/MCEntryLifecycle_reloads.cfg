SPECIFICATION Spec
CONSTANTS
  c1 = c1
  Coords = {c1}
  NoCoord = NoCoord
  z1 = z1
  z2 = z2
  ZoneTasks = {z1, z2}
  NoTask = NoTask
  s1 = s1
  Services = {s1}
  Readers = {"bridge"}
  Happens = {"reload_retry", "reload_error", "forward_fails", "unload_fails", "restart"}
SYMMETRY Symmetry
PROPERTIES OnlyStraysReclaim ReplacedOnlyWhenProven
