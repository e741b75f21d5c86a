SPECIFICATION Spec
CONSTANTS
  Clients = {c1, c2}
  NoClient = NoClient
  Host = c1
  Infos = {i1}
  NoInfo = NoInfo
  AckEvery = 2
  Productive = TRUE
  HasPassword = FALSE
  Autojoin = TRUE
  MaxSessions = 2
  MaxQueue = 2
  MaxFrame = 3
  MaxQuits = 1
INVARIANT TypeOK
INVARIANT PlayerlistFaithful
INVARIANT AckLagBounded
INVARIANT NoJoinAfterVerdict
INVARIANT AtMostOneLateJoin
INVARIANT MapDoneExplained
CHECK_DEADLOCK FALSE
