SPECIFICATION Spec
CONSTANTS
  Clients = {c1, c2}
  NoClient = NoClient
  Host = c1
  Infos = {i1}
  NoInfo = NoInfo
  AckEvery = 2
  Productive = TRUE
  HasPassword = FALSE
  Autojoin = TRUE
  MaxSessions = 2
  MaxQueue = 2
  MaxFrame = 1
  MaxQuits = 1
INVARIANT ConnectIsRetried
CHECK_DEADLOCK FALSE
