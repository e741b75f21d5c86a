SPECIFICATION FairSpec
CONSTANTS
  Clients = {c1, c2}
  NoClient = NoClient
  Host = c1
  Infos = {i1}
  NoInfo = NoInfo
  AckEvery = 2
  Productive = TRUE
  HasPassword = FALSE
  Autojoin = TRUE
  MaxSessions = 1
  MaxQueue = 1
  MaxFrame = 1
  MaxQuits = 0
PROPERTY HangupNoticed
CHECK_DEADLOCK FALSE
