SPECIFICATION MCSpec
CONSTANTS
  Users = {"p", "q"}
  Low <- MCLow
  MyNick = "Bot"
  MyNick2 = "Bot_"
  Absent = Absent
  Instances <- MCInstances
  p1 = p1
  p2 = p2
  Players = {p1, p2}
  MaxSaid = 2
  MaxEchoes = 1
SYMMETRY Symmetric
INVARIANT TablesAgree
INVARIANT OneToOne
INVARIANT BridgeOutlived
INVARIANT BridgeKeyNeedsOverlap
INVARIANT RelayHolds
CHECK_DEADLOCK FALSE
