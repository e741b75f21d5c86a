SPECIFICATION FairBot
CONSTANT MaxSockets = 2
PROPERTY TriesToReconnect
CHECK_DEADLOCK FALSE
