SPECIFICATION Spec
CONSTANTS
  Backends = {b1}
  NoBackend = NoBackend
  Tasks = {t1}
  NoTask = NoTask
  MaxLinks = 2
  PairMode = "none"
  Calls = {"start", "read", "discover", "write", "stop"}
PROPERTIES AnsweredOnAuthorizedSession
