SPECIFICATION MCSpec
CONSTANTS
  Base = 3
  Commands = {0, 2}
  Payloads <- MCPayloads
  MaxRecv = 4
  MaxPackets = 3
  Clients = {c1, c2, c3}
  Nobody = Nobody
  Listener = Listener
  MaxSockets = 3
INVARIANT StreamTypeOK
INVARIANT NothingHeldBack
PROPERTY UpImplementsChannel
PROPERTY DownImplementsChannel
INVARIANT ServerTypeOK
INVARIANT ListsAgree
INVARIANT NoDoubleQuit
INVARIANT SelectFailsOnlyByBroadcast
PROPERTY ServedAgain
INVARIANT BotTypeOK
INVARIANT RetryArmed
PROPERTY CheckersDrain
PROPERTY StopComesBack
PROPERTY StopEndsThread
PROPERTY Reconnects
CHECK_DEADLOCK FALSE
