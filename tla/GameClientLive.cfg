SPECIFICATION FairSpec
CONSTANTS
  Clients = {c1, c2}
  NoClient = NoClient
  Host = c1
  Infos = {i1}
  NoInfo = NoInfo
  AckEvery = 2
  Productive = FALSE
  HasPassword = TRUE
  Autojoin = TRUE
  MaxSessions = 2
  MaxQueue = 1
  MaxFrame = 1
  MaxQuits = 1
PROPERTY QuitCompletes
PROPERTY SessionLossRetried
CHECK_DEADLOCK FALSE
