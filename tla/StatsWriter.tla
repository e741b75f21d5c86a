---------------------------- MODULE StatsWriter ----------------------------
(***************************************************************************)
(* The statistics of plugins/webserver.py and the UDP questions they ask   *)
(* (openttd/client.py).  An answer carries a command and no id: the client *)
(* takes the next datagram of its session's socket.  Answers are lost,     *)
(* late, doubled and reordered; a question that fails ends the session.    *)
(* The cache file is read, and emptied and written again, for every entry, *)
(* and removed after every map download, if it can be.                     *)
(***************************************************************************)
EXTENDS Naturals, Sequences, SequencesExt

CONSTANTS MaxSessions, MaxDoubles, MaxQuestions, MaxToggles, NoFile, Torn

VARIABLES
  session,   \* sessions so far: the map of the session
  doing,        \* where the game thread is
  enable,    \* stats.enable, read at every use
  toggles,
  cache,      \* the cache file: NoFile, Torn, or its entries
  entry,     \* the entry updateStats is making, and the entries it has read
  questions,     \* questions so far
  net,       \* answers on their way
  buffer,    \* answers in the socket
  doubles,   \* datagrams doubled
  doubled,   \* one was, in this session
  uncleared  \* clearStats was off, or could not remove the file, when the session's map was loaded

statsVars == <<session, doing, enable, toggles, cache, entry, questions, net, buffer, doubles, doubled, uncleared>>
udpVars == <<questions, net, buffer, doubles, doubled>>

NoEntry == [obj |-> <<>>, first |-> FALSE, game |-> 0, company |-> 0]
Cached == IF cache \in {NoFile, Torn} THEN <<>> ELSE cache
Entry == [short |-> ~entry.first, map |-> session]

-----------------------------------------------------------------------------
(* UDP                                                                     *)

\* sendMsg_UDP: the server answers with the command of the question.
Ask(kind) == questions' = questions + 1 /\ net' = net \cup {[kind |-> kind, of |-> questions + 1, copy |-> 1]}

Lose == \E d \in net : net' = net \ {d} /\ UNCHANGED <<session, doing, enable, toggles, cache, entry, questions, buffer, doubles, doubled, uncleared>>
Double ==
  /\ doubles < MaxDoubles /\ doubles' = doubles + 1 /\ doubled' = TRUE
  /\ \E d \in net : net' = net \cup {[d EXCEPT !.copy = 2]}
  /\ UNCHANGED <<session, doing, enable, toggles, cache, entry, questions, buffer, uncleared>>
Arrive ==
  /\ \E d \in net : net' = net \ {d} /\ buffer' = Append(buffer, d)
  /\ UNCHANGED <<session, doing, enable, toggles, cache, entry, questions, doubles, doubled, uncleared>>

\* receiveMsg_UDP takes the next datagram, whatever it answers.
Receive(kind) == buffer # <<>> /\ Head(buffer).kind = kind /\ buffer' = Tail(buffer)
NoAnswer(kind) == IF buffer = <<>> THEN TRUE ELSE Head(buffer).kind # kind

\* Five seconds without a datagram, or one with another command: both raise, and the session ends
\* with its sockets.
EndSession ==
  /\ doing' = "closed" /\ net' = {} /\ buffer' = <<>> /\ entry' = NoEntry
  /\ UNCHANGED <<session, enable, toggles, cache, questions, doubles, doubled, uncleared>>

Fails ==
  /\ \/ doing \in {"first", "game"} /\ NoAnswer("game")
     \/ doing = "company" /\ NoAnswer("company")
  /\ EndSession

-----------------------------------------------------------------------------
(* The session: connect, getGameInfo, the map, the main loop.              *)

Connect ==
  /\ doing = "closed" /\ session < MaxSessions
  /\ session' = session + 1 /\ doing' = "first" /\ Ask("game") /\ doubled' = FALSE
  /\ UNCHANGED <<enable, toggles, cache, entry, buffer, doubles, uncleared>>

GameInfo ==
  /\ doing = "first" /\ Receive("game")
  /\ doing' = "map"
  /\ UNCHANGED <<session, enable, toggles, cache, entry, questions, net, doubles, doubled, uncleared>>

\* Mutant: clearStats leaves the file.
ClearStatsNot == UNCHANGED cache /\ uncleared' = ~enable

\* Whatever the removal raises is swallowed: a file that cannot be removed stays.
ClearStats ==
  \/ ~enable /\ UNCHANGED cache /\ uncleared' = TRUE
  \/ enable /\ cache' = NoFile /\ uncleared' = FALSE
  \/ enable /\ cache # NoFile /\ UNCHANGED cache /\ uncleared' = TRUE

MapDone ==
  /\ doing = "map" /\ doing' = "loop"
  /\ ClearStats
  /\ UNCHANGED <<session, enable, toggles, entry>> /\ UNCHANGED udpVars

\* reloadconfig finds another value.
ReloadConfig ==
  /\ toggles < MaxToggles /\ toggles' = toggles + 1 /\ enable' = ~enable
  /\ UNCHANGED <<session, doing, cache, entry, uncleared>> /\ UNCHANGED udpVars

\* The server says goodbye, or the connection is lost.
Goodbye == doing \in {"map", "loop"} /\ EndSession

\* checkupdatestats after the interval: without a file that can be read, the entry is
\* the first.
UpdateStats ==
  /\ doing = "loop" /\ enable /\ questions < MaxQuestions
  /\ doing' = "game" /\ Ask("game")
  /\ \/ cache \notin {NoFile, Torn} /\ entry' = [NoEntry EXCEPT !.obj = cache]
     \/ entry' = [NoEntry EXCEPT !.first = TRUE]
  /\ UNCHANGED <<session, enable, toggles, cache, buffer, doubles, doubled, uncleared>>

\* pickle.load raises EOFError, which is no IOError.
UpdateStatsTorn == doing = "loop" /\ enable /\ cache = Torn /\ EndSession

GetGameInfo ==
  /\ doing = "game" /\ Receive("game") /\ entry' = [entry EXCEPT !.game = Head(buffer).of]
  /\ doing' = "company" /\ questions' = questions + 1
  /\ net' = net \cup {[kind |-> "company", of |-> questions + 1, copy |-> 1]}
  /\ UNCHANGED <<session, enable, toggles, cache, doubles, doubled, uncleared>>

GetCompanyInfo ==
  /\ doing = "company" /\ Receive("company") /\ entry' = [entry EXCEPT !.company = Head(buffer).of]
  /\ doing' = "open"
  /\ UNCHANGED <<session, enable, toggles, cache, questions, net, doubles, doubled, uncleared>>

\* Opening the file to write empties it.
OpenFile ==
  /\ doing = "open" /\ doing' = "write" /\ cache' = Torn
  /\ UNCHANGED <<session, enable, toggles, entry, uncleared>> /\ UNCHANGED udpVars

WriteFile ==
  /\ doing = "write" /\ doing' = "loop"
  /\ cache' = Append(entry.obj, Entry) /\ entry' = NoEntry
  /\ UNCHANGED <<session, enable, toggles, uncleared>> /\ UNCHANGED udpVars

\* An IOError is logged: the file stays as it is by now.  When there is none, its size is asked
\* for all the same, and that raises.
WriteFails ==
  \/ /\ doing \in {"open", "write"} /\ cache # NoFile
     /\ doing' = "loop" /\ entry' = NoEntry
     /\ UNCHANGED <<session, enable, toggles, cache, uncleared>> /\ UNCHANGED udpVars
  \/ doing = "open" /\ cache = NoFile /\ EndSession

StatsInit ==
  /\ session = 0 /\ doing = "closed" /\ enable = TRUE /\ toggles = 0 /\ cache \in {NoFile, Torn}
  /\ entry = NoEntry /\ questions = 0 /\ net = {} /\ buffer = <<>> /\ doubles = 0
  /\ doubled = FALSE /\ uncleared = FALSE

StatsNext ==
  \/ Lose \/ Double \/ Arrive \/ Fails \/ Connect \/ GameInfo \/ MapDone \/ ReloadConfig \/ Goodbye
  \/ UpdateStats \/ UpdateStatsTorn \/ GetGameInfo \/ GetCompanyInfo \/ OpenFile \/ WriteFile \/ WriteFails

StatsSpec == StatsInit /\ [][StatsNext]_statsVars

\* Once the map is there the file holds one map's entries, the first of them complete and the
\* others short - unless the statistics were off when the map was loaded, or the last map's file
\* could not be removed; and an entry's two answers belong to its own questions unless a datagram
\* was doubled: losing, delaying and reordering answers never makes an entry of other questions'
\* answers (webserver.py:45, :48, :68, :70; client.py:459).
StatsHonest ==
  /\ doing \in {"loop", "game", "company", "open", "write"} /\ ~uncleared =>
       \A i \in DOMAIN Cached : Cached[i].map = session /\ (Cached[i].short <=> i > 1)
  /\ doing = "open" /\ ~doubled => entry.company = questions /\ entry.game + 1 = questions
=============================================================================
