SPECIFICATION MCSpec
CONSTANTS
  Classes = {"p", "q"}
  Types = {"loop"}
  Commands = {"x"}
  Events = {"chat"}
  BuiltIn <- MCBuiltIn
  sendToIRC = sendToIRC
  Script <- MCScript
  MaxFailures = 1
  MaxRounds = 1
  Companies = {"c1"}
  Spectators = "spectators"
  IdleTime = 1
  MaxTime = 5
  MaxAsks = 2
  Unset = Unset
  Requests = {"r1", "r2", "r3"}
  Threads = {"game", "irc"}
  None = None
  MaxLines = 2
  MaxLosses = 1
  Runtimes <- MCRuntimes
  Interval = 1
  MaxDepth = 10
  MaxClock = 6
  MaxSays = 3
  Missing = Missing
  Callers = {"game", "irc"}
  MaxServers = 3
  MaxHandlers = 1
  MaxSessions = 2
  MaxDoubles = 1
  MaxQuestions = 6
  MaxToggles = 1
  NoFile = NoFile
  Torn = Torn
  Hosts = {"h1", "h2", "h3"}
  Ids = {"i1", "i2", "tram"}
  GrfsOf <- MCGrfsOf
  Versions = {1, 3, 4}
  Sums = {"m1", "m2", "m3"}
  Tram = "tram"
  Unknown = "unknown"
  Saves <- MCSaves
  Batch = 8
  DefaultMap <- MCDefaultMap
  Texts <- MCTexts
  TagRev <- MCTagRev
  RevBits = 6
  MaxAnnouncements = 2
  Formats <- MCFormats
  Values <- MCValues
  Behind <- MCBehind
  MaxCut = 4
INVARIANT UnregisterWhole
INVARIANT CalledOnce
INVARIANT IdleNews
INVARIANT AnswerFindsAsker
INVARIANT WarningsHold
INVARIANT ServerKnown
INVARIANT StatsHonest
INVARIANT CountHonest
INVARIANT LoadsWhatWasSaved
INVARIANT LayersWhole
INVARIANT VersionKept
INVARIANT StructzReadsBack
CHECK_DEADLOCK FALSE
