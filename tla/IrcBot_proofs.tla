--------------------------- MODULE IrcBot_proofs ---------------------------
(***************************************************************************)
(* The reconnect timer of IrcBot, for any number of connections.  Two      *)
(* threads close one connection without a lock; the invariants say what    *)
(* each of them may still be doing to it.                                  *)
(***************************************************************************)
EXTENDS IrcBot, TLAPS

\* The checkers thread t will still queue with the disconnects it is in, and one more if it may
\* still begin one for the connection that is up.
Owed(t) == (IF proc[t] \in Disconnecting THEN 1 ELSE 0) + (IF t \in nested THEN 1 ELSE 0)
MayBegin(t) == IF connected /\ proc[t] # "clear" THEN 1 ELSE 0
Budget == pending + Owed("game") + Owed("irc") + MayBegin("game") + MayBegin("irc") <= 2 * n

\* The checkers of a pass are queued ones.
DueQueued == due <= pending

\* A connection is only made while there is none; after the first, a checker stays queued.
Connecting ==
  /\ ipc = "start" => n = 0
  /\ ipc \in {"start", "connect"} => ~connected
  /\ ipc = "connect" /\ n > 0 => pending > 0

\* The bot's own thread makes the connections: it finds no new one while it closes the old.
OwnThread ==
  /\ "irc" \notin nested
  /\ proc["irc"] \in {"quit", "bye", "close", "drop", "tell"} => ~connected

Stopping == \A t \in Threads : proc[t] = "event" => ~runCond

\* The game thread, late with the old connection, may take the socket of the new one.  Then it
\* has its checker queued or is about to, and does not begin again without a socket.
Orphan ==
  connected /\ socket = 0 /\ runCond =>
    /\ proc["game"] \notin {"check", "clear"}
    /\ proc["irc"] \in {"check", "clear"} => pending > 0 \/ proc["game"] \in {"drop", "tell"}

\* A lost connection has its checker queued, or a thread gets to it: it is past the last test of
\* the socket, or is disconnecting and the socket is still there.
Armed ==
  n > 0 /\ ~connected /\ runCond /\ ipc # "dead" =>
    \/ pending > 0
    \/ \E t \in Threads : proc[t] \in {"drop", "tell"}
    \/ socket # 0 /\ \E t \in Threads : proc[t] \in Disconnecting

Count == BotTypeOK /\ DueQueued /\ Budget
Timer == Connecting /\ OwnThread /\ Stopping /\ Orphan /\ Armed

-----------------------------------------------------------------------------
(* Types.                                                                  *)

LEMMA TypesBegin == BotInit => BotTypeOK
  <1> SUFFICES ASSUME BotInit PROVE BotTypeOK  OBVIOUS
  <1>1. proc \in [Threads -> Procs] /\ call \in [Threads -> Calls]
    BY DEF BotInit, Procs, Calls
  <1>2. 0 \in 0 .. MaxSockets  BY SocketsAssumption
  <1>3. QED  BY <1>1, <1>2 DEF BotInit, BotTypeOK, IrcPCs

LEMMA GotoTypes ==
  ASSUME BotTypeOK, NEW t \in Threads, NEW p \in Procs, Goto(t, p)
  PROVE  proc' \in [Threads -> Procs]
  BY DEF BotTypeOK, Goto

LEMMA ReturnsTypes ==
  ASSUME BotTypeOK, NEW t \in Threads, Returns(t)
  PROVE  proc' \in [Threads -> Procs] /\ nested' \in SUBSET Threads
  BY DEF BotTypeOK, Returns, Goto, Procs, Disconnecting

LEMMA RaisesTypes ==
  ASSUME BotTypeOK, NEW t \in Threads, NEW e \in BOOLEAN, Raises(t, e)
  PROVE  /\ proc' \in [Threads -> Procs] /\ nested' \in SUBSET Threads /\ ipc' \in IrcPCs
         /\ stop' \in {"no", "running", "returned", "raised"}
  BY DEF BotTypeOK, Raises, Goto, Procs, IrcPCs

LEMMA EntersTypes ==
  ASSUME BotTypeOK, NEW t \in Threads, NEW p \in Procs, NEW who \in Calls, Enters(t, p, who)
  PROVE  proc' \in [Threads -> Procs] /\ call' \in [Threads -> Calls]
  BY DEF BotTypeOK, Enters, Goto

\* A step of a method keeps the types.
LEMMA MethodTypes ==
  ASSUME BotTypeOK, NEW t \in Threads, Method(t)
  PROVE  BotTypeOK'
  <1> USE DEF conn, conds, thread
  <1>0. Procs = {"none", "conds", "event", "check", "wait", "test", "send",
                 "clear", "quit", "bye", "close", "drop", "tell"}
    BY DEF Procs, Sending, Disconnecting
  <1>1. CASE SendTest(t)
    BY <1>0, <1>1, RaisesTypes, GotoTypes DEF SendTest, BotTypeOK
  <1>2. CASE Send(t)
    BY <1>0, <1>2, RaisesTypes, GotoTypes, ReturnsTypes DEF Send, BotTypeOK
  <1>3. CASE Check(t)
    BY <1>0, <1>3, GotoTypes, ReturnsTypes DEF Check, BotTypeOK
  <1>4. CASE Clear(t)
    BY <1>0, <1>4, GotoTypes DEF Clear, BotTypeOK
  <1>5. CASE QuitTest(t)
    BY <1>0, <1>5, RaisesTypes, GotoTypes DEF QuitTest, BotTypeOK
  <1>6. CASE QuitSend(t)
    <2>1. CASE socket = 0  BY <1>6, <2>1, RaisesTypes DEF QuitSend, BotTypeOK
    <2>2. CASE socket # 0
      <3>1. nested' \in SUBSET Threads /\ proc' \in [Threads -> Procs]
        BY <1>0, <1>6, <2>2, GotoTypes DEF QuitSend, BotTypeOK
      <3>2. QED  BY <1>6, <2>2, <3>1 DEF QuitSend, BotTypeOK
    <2>3. QED  BY <2>1, <2>2
  <1>7. CASE Close(t)
    <2>1. CASE socket = 0  BY <1>7, <2>1, RaisesTypes DEF Close, BotTypeOK
    <2>2. CASE socket # 0
      <3>1. socket \in 1 .. MaxSockets  BY <2>2, SocketsAssumption DEF BotTypeOK
      <3>2. QED  BY <1>0, <1>7, <2>2, <3>1, GotoTypes DEF Close, BotTypeOK
    <2>3. QED  BY <2>1, <2>2
  <1>8. CASE Drop(t)
    BY <1>0, <1>8, GotoTypes, SocketsAssumption DEF Drop, BotTypeOK
  <1>9. CASE Tell(t)
    BY <1>9, ReturnsTypes DEF Tell, BotTypeOK
  <1>10. CASE StopConds(t)
    BY <1>0, <1>10, GotoTypes DEF StopConds, BotTypeOK
  <1>11. CASE StopEvent(t)
    BY <1>0, <1>11, GotoTypes DEF StopEvent, BotTypeOK
  <1>12. CASE StopWait(t)
    BY <1>0, <1>12, GotoTypes DEF StopWait, BotTypeOK
  <1>13. QED
    BY <1>1, <1>2, <1>3, <1>4, <1>5, <1>6, <1>7, <1>8, <1>9, <1>10, <1>11, <1>12 DEF Method

\* A step of the bot's thread outside the methods keeps the types.
LEMMA ThreadTypes ==
  ASSUME BotTypeOK, DueQueued, IrcThread, ~Method("irc")
  PROVE  BotTypeOK'
  <1> USE DEF conn, conds, At
  <1>0. /\ Procs = {"none", "conds", "event", "check", "wait", "test", "send",
                    "clear", "quit", "bye", "close", "drop", "tell"}
        /\ Threads = {"game", "irc"}
    BY DEF Procs, Sending, Disconnecting, Threads
  <1>1. CASE Start  BY <1>1 DEF Start, BotTypeOK, IrcPCs
  <1>2. CASE ConnectFails  BY <1>2, SocketsAssumption DEF ConnectFails, BotTypeOK, IrcPCs
  <1>3. CASE ConnectOK
    <2>1. n' \in 0 .. MaxSockets /\ socket' \in 0 .. MaxSockets
      BY <1>3, SocketsAssumption DEF ConnectOK, BotTypeOK
    <2>2. proc' \in [Threads -> Procs] /\ call' \in [Threads -> Calls]
      BY <1>0, <1>3, EntersTypes DEF ConnectOK, Calls
    <2>3. QED  BY <1>3, <2>1, <2>2 DEF ConnectOK, BotTypeOK, IrcPCs
  <1>4. CASE LoopTest  BY <1>4 DEF LoopTest, BotTypeOK, IrcPCs
  <1>5. CASE Collect  BY <1>5 DEF Collect, BotTypeOK, IrcPCs
  <1>6. CASE SelectSocket  BY <1>6 DEF SelectSocket, BotTypeOK, IrcPCs
  <1>7. CASE Data  BY <1>7 DEF Data, BotTypeOK, IrcPCs
  <1>8. CASE Recv
    <2>1. proc' \in [Threads -> Procs] /\ call' \in [Threads -> Calls]
      BY <1>0, <1>8, EntersTypes DEF Recv, Calls, BotTypeOK
    <2>2. QED  BY <1>8, <2>1 DEF Recv, BotTypeOK, IrcPCs
  <1>9. CASE Handle
    <2>1. proc' \in [Threads -> Procs] /\ call' \in [Threads -> Calls]
      BY <1>0, <1>9, EntersTypes DEF Handle, Calls, BotTypeOK
    <2>2. QED  BY <1>9, <2>1 DEF Handle, BotTypeOK, IrcPCs
  <1>10. CASE HandleStop
    <2>1. proc' \in [Threads -> Procs] /\ call' \in [Threads -> Calls]
      BY <1>0, <1>10, EntersTypes DEF HandleStop, Calls
    <2>2. QED  BY <1>10, <2>1 DEF HandleStop, BotTypeOK, IrcPCs
  <1>11. CASE TimeoutNone  BY <1>11 DEF TimeoutNone, BotTypeOK, IrcPCs
  <1>12. CASE TimeoutDue  BY <1>12 DEF TimeoutDue, BotTypeOK, IrcPCs
  <1>13. CASE RunChecker
    BY <1>13 DEF RunChecker, DueQueued, BotTypeOK, IrcPCs
  <1>14. CASE TimeoutDone  BY <1>14 DEF TimeoutDone, BotTypeOK, IrcPCs
  <1>15. QED
    BY <1>1, <1>2, <1>3, <1>4, <1>5, <1>6, <1>7, <1>8, <1>9, <1>10, <1>11, <1>12, <1>13, <1>14
       DEF IrcThread

-----------------------------------------------------------------------------
(* The number of checkers.                                                 *)

\* A step of t leaves the other thread where it is.
LEMMA Others ==
  ASSUME BotTypeOK, NEW t \in Threads, NEW s \in Threads \ {t}, Method(t)
  PROVE  proc'[s] = proc[s] /\ (s \in nested' <=> s \in nested)
  BY DEF BotTypeOK, Threads, Method, SendTest, Send, Check, Clear, QuitTest, QuitSend, Close, Drop,
         Tell, StopConds, StopEvent, StopWait, Raises, Returns, Goto

\* A step of t pays for what is owed more by less that is owed or may begin.
LEMMA MethodPays ==
  ASSUME BotTypeOK, NEW t \in Threads, Method(t)
  PROVE  /\ pending' + Owed(t)' + MayBegin(t)' <= pending + Owed(t) + MayBegin(t)
         /\ pending <= pending' /\ n' = n /\ due' = due
         /\ connected' => connected
  <1> USE DEF conn, conds, thread, Owed, MayBegin
  <1>0. /\ Disconnecting = {"clear", "quit", "bye", "close", "drop", "tell"}
        /\ pending \in Nat /\ n \in Nat /\ DOMAIN proc = Threads /\ connected \in BOOLEAN
    BY SocketsAssumption DEF Disconnecting, BotTypeOK
  <1>1. CASE SendTest(t)  BY <1>0, <1>1 DEF SendTest, Raises, Goto
  <1>2. CASE Send(t)  BY <1>0, <1>2 DEF Send, Raises, Returns, Goto
  <1>3. CASE Check(t)  BY <1>0, <1>3 DEF Check, Returns, Goto
  <1>4. CASE Clear(t)  BY <1>0, <1>4 DEF Clear, Goto
  <1>5. CASE QuitTest(t)  BY <1>0, <1>5 DEF QuitTest, Raises, Goto
  <1>6. CASE QuitSend(t)  BY <1>0, <1>6 DEF QuitSend, Raises, Goto
  <1>7. CASE Close(t)  BY <1>0, <1>7 DEF Close, Raises, Goto
  <1>8. CASE Drop(t)  BY <1>0, <1>8 DEF Drop, Goto
  <1>9. CASE Tell(t)  BY <1>0, <1>9 DEF Tell, Returns, Goto
  <1>10. CASE StopConds(t)  BY <1>0, <1>10 DEF StopConds, Goto
  <1>11. CASE StopEvent(t)  BY <1>0, <1>11 DEF StopEvent, Goto
  <1>12. CASE StopWait(t)  BY <1>0, <1>12 DEF StopWait, Goto
  <1>13. QED
    BY <1>1, <1>2, <1>3, <1>4, <1>5, <1>6, <1>7, <1>8, <1>9, <1>10, <1>11, <1>12 DEF Method

LEMMA MethodCounts ==
  ASSUME Count, NEW t \in Threads, Method(t)
  PROVE  Count'
  <1> USE DEF Count
  <1>1. BotTypeOK'  BY MethodTypes
  <1>2. /\ pending' + Owed(t)' + MayBegin(t)' <= pending + Owed(t) + MayBegin(t)
        /\ pending <= pending' /\ n' = n /\ due' = due /\ (connected' => connected)
    BY MethodPays
  <1>3. DueQueued'  BY <1>1, <1>2 DEF DueQueued, BotTypeOK
  <1> DEFINE s == IF t = "game" THEN "irc" ELSE "game"
  <1>4. s \in Threads \ {t}  BY DEF Threads
  <1>5. Owed(s)' = Owed(s) /\ MayBegin(s)' <= MayBegin(s)
    BY <1>2, <1>4, Others DEF Owed, MayBegin
  <1>6. /\ Owed(s) \in Nat /\ MayBegin(s) \in Nat /\ Owed(s)' \in Nat /\ MayBegin(s)' \in Nat
        /\ Owed(t) \in Nat /\ MayBegin(t) \in Nat /\ Owed(t)' \in Nat /\ MayBegin(t)' \in Nat
        /\ pending \in Nat /\ pending' \in Nat /\ n \in Nat
    BY <1>1, SocketsAssumption DEF Owed, MayBegin, BotTypeOK
  <1>7. Budget'
    <2>1. CASE t = "game"
      <3>1. pending + Owed(t) + Owed(s) + MayBegin(t) + MayBegin(s) <= 2 * n
        BY <2>1 DEF Budget
      <3>2. pending' + Owed(t)' + Owed(s)' + MayBegin(t)' + MayBegin(s)' <= 2 * n'
        <4> HIDE DEF s
        <4> QED  BY <1>2, <1>5, <1>6, <3>1
      <3>3. QED  BY <2>1, <3>2 DEF Budget
    <2>2. CASE t = "irc"
      <3>1. pending + Owed(s) + Owed(t) + MayBegin(s) + MayBegin(t) <= 2 * n
        BY <2>2 DEF Budget
      <3>2. pending' + Owed(s)' + Owed(t)' + MayBegin(s)' + MayBegin(t)' <= 2 * n'
        <4> HIDE DEF s
        <4> QED  BY <1>2, <1>5, <1>6, <3>1
      <3>3. QED  BY <2>2, <3>2 DEF Budget
    <2>3. QED  BY <2>1, <2>2 DEF Threads
  <1>8. QED  BY <1>1, <1>3, <1>7

\* The bot's thread pays with the two that a new connection allows for, or owes nothing new.
LEMMA ThreadCounts ==
  ASSUME Count, IrcThread, ~Method("irc")
  PROVE  Count'
  <1> USE DEF Count, conn, conds, At, Owed, MayBegin, Enters, Goto
  <1>0. /\ Disconnecting = {"clear", "quit", "bye", "close", "drop", "tell"}
        /\ pending \in Nat /\ n \in Nat /\ due \in Nat /\ DOMAIN proc = Threads
        /\ connected \in BOOLEAN /\ Threads = {"game", "irc"}
    BY SocketsAssumption DEF Disconnecting, BotTypeOK, Threads
  <1>1. BotTypeOK'  BY ThreadTypes
  <1>2. DueQueued' /\ Budget'
    <2> USE DEF DueQueued, Budget
    <2>1. CASE Start  BY <1>0, <2>1 DEF Start
    <2>2. CASE ConnectFails  BY <1>0, <2>2 DEF ConnectFails
    <2>3. CASE ConnectOK  BY <1>0, <2>3 DEF ConnectOK
    <2>4. CASE LoopTest  BY <1>0, <2>4 DEF LoopTest
    <2>5. CASE Collect  BY <1>0, <2>5 DEF Collect
    <2>6. CASE SelectSocket  BY <1>0, <2>6 DEF SelectSocket
    <2>7. CASE Data  BY <1>0, <2>7 DEF Data
    <2>8. CASE Recv  BY <1>0, <2>8 DEF Recv
    <2>9. CASE Handle  BY <1>0, <2>9 DEF Handle
    <2>10. CASE HandleStop  BY <1>0, <2>10 DEF HandleStop
    <2>11. CASE TimeoutNone  BY <1>0, <2>11 DEF TimeoutNone
    <2>12. CASE TimeoutDue  BY <1>0, <2>12 DEF TimeoutDue
    <2>13. CASE RunChecker  BY <1>0, <2>13 DEF RunChecker
    <2>14. CASE TimeoutDone  BY <1>0, <2>14 DEF TimeoutDone
    <2>15. QED
      BY <2>1, <2>2, <2>3, <2>4, <2>5, <2>6, <2>7, <2>8, <2>9, <2>10, <2>11, <2>12, <2>13, <2>14
         DEF IrcThread
  <1>3. QED  BY <1>1, <1>2

\* The game thread enters a method, or the connection breaks.
LEMMA GameCounts ==
  ASSUME Count, GameSay \/ GameStop \/ Break
  PROVE  Count'
  <1> USE DEF Count, conn, conds, thread
  <1>0. /\ Disconnecting = {"clear", "quit", "bye", "close", "drop", "tell"}
        /\ Procs = {"none", "conds", "event", "check", "wait", "test", "send",
                    "clear", "quit", "bye", "close", "drop", "tell"}
        /\ DOMAIN proc = Threads /\ Threads = {"game", "irc"}
    BY DEF Disconnecting, Sending, Procs, BotTypeOK, Threads
  <1>1. BotTypeOK'
    <2>1. CASE GameSay \/ GameStop
      <3>1. proc' \in [Threads -> Procs] /\ call' \in [Threads -> Calls]
        BY <1>0, <2>1, EntersTypes DEF GameSay, GameStop, Calls
      <3>2. QED  BY <2>1, <3>1 DEF GameSay, GameStop, BotTypeOK
    <2>2. CASE Break  BY <2>2 DEF Break, BotTypeOK
    <2>3. QED  BY <2>1, <2>2
  <1>2. DueQueued' /\ Budget'
    BY <1>0 DEF GameSay, GameStop, Break, Enters, Goto, DueQueued, Budget, Owed, MayBegin
  <1>3. QED  BY <1>1, <1>2

LEMMA CountBegins == BotInit => Count
  <1> SUFFICES ASSUME BotInit PROVE Count  OBVIOUS
  <1>1. Owed("game") = 0 /\ Owed("irc") = 0 /\ MayBegin("game") = 0 /\ MayBegin("irc") = 0
    BY DEF BotInit, Owed, MayBegin, Threads, Disconnecting
  <1>2. QED  BY <1>1, TypesBegin DEF BotInit, Count, DueQueued, Budget

LEMMA CountKept == Count /\ [BotNext]_botVars => Count'
  <1> SUFFICES ASSUME Count, [BotNext]_botVars PROVE Count'  OBVIOUS
  <1>1. CASE BotNext
    <2>1. CASE \E t \in Threads : Method(t)  BY <2>1, MethodCounts
    <2>2. CASE IrcThread /\ ~Method("irc")  BY <2>2, ThreadCounts
    <2>3. CASE GameSay \/ GameStop \/ Break  BY <2>3, GameCounts
    <2>4. QED  BY <1>1, <2>1, <2>2, <2>3 DEF BotNext, Threads
  <1>2. CASE UNCHANGED botVars
    BY <1>2 DEF botVars, thread, conn, conds, Count, BotTypeOK, DueQueued, Budget, Owed, MayBegin
  <1>3. QED  BY <1>1, <1>2

LEMMA Counts == BotSpec => []Count
  BY CountBegins, CountKept, PTL DEF BotSpec

\* Every variable keeps its type: the sockets are those that were made, and the numbers of
\* checkers, queued or due, never go below zero.
THEOREM Types == BotSpec => []BotTypeOK
  <1>1. Count => BotTypeOK  BY DEF Count
  <1>2. QED  BY <1>1, Counts, PTL

\* Each connection that was made leaves two checkers behind at most, whichever threads lose it
\* and however often one falls due and is queued again (ircbot.py:82, irclib.py:644).  Over many
\* connections they may add up: that the last of them goes is CheckersDrain.
CheckersPerConnection == pending <= 2 * n
THEOREM TwoCheckersPerConnection == BotSpec => []CheckersPerConnection
  <1>1. Count => CheckersPerConnection
    <2> SUFFICES ASSUME Count PROVE CheckersPerConnection  OBVIOUS
    <2>1. pending \in Nat /\ n \in Nat  BY SocketsAssumption DEF Count, BotTypeOK
    <2>2. /\ Owed("game") \in Nat /\ Owed("irc") \in Nat
          /\ MayBegin("game") \in Nat /\ MayBegin("irc") \in Nat
      BY DEF Owed, MayBegin
    <2>3. QED  BY <2>1, <2>2 DEF Count, Budget, CheckersPerConnection
  <1>2. QED  BY <1>1, Counts, PTL

-----------------------------------------------------------------------------
(* The timer.                                                              *)

\* A step of t keeps what is known of the bot's own thread.
LEMMA MethodConnecting ==
  ASSUME BotTypeOK, Connecting, OwnThread, Stopping, NEW t \in Threads, Method(t)
  PROVE  Connecting' /\ OwnThread' /\ Stopping'
  <1> USE DEF conn, conds, thread, Connecting, OwnThread, Stopping
  <1>0. /\ DOMAIN proc = Threads /\ Threads = {"game", "irc"} /\ pending \in Nat
        /\ connected \in BOOLEAN /\ runCond \in BOOLEAN
    BY DEF BotTypeOK, Threads
  <1>1. CASE SendTest(t)  BY <1>0, <1>1 DEF SendTest, Raises, Goto
  <1>2. CASE Send(t)  BY <1>0, <1>2 DEF Send, Raises, Returns, Goto
  <1>3. CASE Check(t)  BY <1>0, <1>3 DEF Check, Returns, Goto
  <1>4. CASE Clear(t)  BY <1>0, <1>4 DEF Clear, Goto
  <1>5. CASE QuitTest(t)  BY <1>0, <1>5 DEF QuitTest, Raises, Goto
  <1>6. CASE QuitSend(t)  BY <1>0, <1>6 DEF QuitSend, Raises, Goto
  <1>7. CASE Close(t)  BY <1>0, <1>7 DEF Close, Raises, Goto
  <1>8. CASE Drop(t)  BY <1>0, <1>8 DEF Drop, Goto
  <1>9. CASE Tell(t)  BY <1>0, <1>9 DEF Tell, Returns, Goto
  <1>10. CASE StopConds(t)  BY <1>0, <1>10 DEF StopConds, Goto
  <1>11. CASE StopEvent(t)  BY <1>0, <1>11 DEF StopEvent, Goto
  <1>12. CASE StopWait(t)  BY <1>0, <1>12 DEF StopWait, Goto
  <1>13. QED
    BY <1>1, <1>2, <1>3, <1>4, <1>5, <1>6, <1>7, <1>8, <1>9, <1>10, <1>11, <1>12 DEF Method

\* A step of t leaves no lost connection without a checker.
LEMMA MethodArmed ==
  ASSUME BotTypeOK, Connecting, OwnThread, Stopping, Orphan, Armed, NEW t \in Threads, Method(t)
  PROVE  Orphan' /\ Armed'
  <1> USE DEF conn, conds, thread, Orphan, Armed
  <1>0. /\ DOMAIN proc = Threads /\ Threads = {"game", "irc"} /\ pending \in Nat
        /\ connected \in BOOLEAN /\ runCond \in BOOLEAN /\ t \in {"game", "irc"}
        /\ Disconnecting = {"clear", "quit", "bye", "close", "drop", "tell"}
    BY DEF BotTypeOK, Threads, Disconnecting
  <1>1. CASE SendTest(t)  BY <1>0, <1>1 DEF SendTest, Raises, Goto
  <1>2. CASE Send(t)  BY <1>0, <1>2 DEF Send, Raises, Returns, Goto
  <1>3. CASE Check(t)  BY <1>0, <1>3 DEF Check, Returns, Goto
  <1>4. CASE Clear(t)  BY <1>0, <1>4 DEF Clear, Goto
  <1>5. CASE QuitTest(t)  BY <1>0, <1>5 DEF QuitTest, Raises, Goto
  <1>6. CASE QuitSend(t)  BY <1>0, <1>6 DEF QuitSend, Raises, Goto, OwnThread
  <1>7. CASE Close(t)  BY <1>0, <1>7 DEF Close, Raises, Goto
  <1>8. CASE Drop(t)  BY <1>0, <1>8 DEF Drop, Goto, OwnThread
  <1>9. CASE Tell(t)  BY <1>0, <1>9 DEF Tell, Returns, Goto
  <1>10. CASE StopConds(t)  BY <1>0, <1>10 DEF StopConds, Goto
  <1>11. CASE StopEvent(t)  BY <1>0, <1>11 DEF StopEvent, Goto, Stopping
  <1>12. CASE StopWait(t)  BY <1>0, <1>12 DEF StopWait, Goto
  <1>13. QED
    BY <1>1, <1>2, <1>3, <1>4, <1>5, <1>6, <1>7, <1>8, <1>9, <1>10, <1>11, <1>12 DEF Method

LEMMA ThreadTimed ==
  ASSUME Count, Timer, IrcThread, ~Method("irc")
  PROVE  Timer'
  <1> USE DEF Timer, conn, conds, At, Enters, Goto, Connecting, OwnThread, Stopping, Orphan, Armed
  <1>0. /\ Disconnecting = {"clear", "quit", "bye", "close", "drop", "tell"}
        /\ pending \in Nat /\ n \in Nat /\ due \in Nat /\ due <= pending /\ DOMAIN proc = Threads
        /\ connected \in BOOLEAN /\ runCond \in BOOLEAN /\ Threads = {"game", "irc"}
    BY SocketsAssumption DEF Disconnecting, Count, DueQueued, BotTypeOK, Threads
  <1>1. CASE Start  BY <1>0, <1>1 DEF Start
  <1>2. CASE ConnectFails  BY <1>0, <1>2 DEF ConnectFails
  <1>3. CASE ConnectOK  BY <1>0, <1>3 DEF ConnectOK
  <1>4. CASE LoopTest  BY <1>0, <1>4 DEF LoopTest
  <1>5. CASE Collect  BY <1>0, <1>5 DEF Collect
  <1>6. CASE SelectSocket  BY <1>0, <1>6 DEF SelectSocket
  <1>7. CASE Data  BY <1>0, <1>7 DEF Data
  <1>8. CASE Recv  BY <1>0, <1>8 DEF Recv
  <1>9. CASE Handle  BY <1>0, <1>9 DEF Handle
  <1>10. CASE HandleStop  BY <1>0, <1>10 DEF HandleStop
  <1>11. CASE TimeoutNone  BY <1>0, <1>11 DEF TimeoutNone
  <1>12. CASE TimeoutDue  BY <1>0, <1>12 DEF TimeoutDue
  <1>13. CASE RunChecker  BY <1>0, <1>13 DEF RunChecker
  <1>14. CASE TimeoutDone  BY <1>0, <1>14 DEF TimeoutDone
  <1>15. QED
    BY <1>1, <1>2, <1>3, <1>4, <1>5, <1>6, <1>7, <1>8, <1>9, <1>10, <1>11, <1>12, <1>13, <1>14
       DEF IrcThread

LEMMA GameTimed ==
  ASSUME Count, Timer, GameSay \/ GameStop \/ Break
  PROVE  Timer'
  <1> USE DEF Timer, conn, conds, thread, Connecting, OwnThread, Stopping, Orphan, Armed
  <1>0. /\ Disconnecting = {"clear", "quit", "bye", "close", "drop", "tell"}
        /\ DOMAIN proc = Threads /\ Threads = {"game", "irc"} /\ pending \in Nat
    BY DEF Disconnecting, Count, BotTypeOK, Threads
  <1>1. CASE GameSay  BY <1>0, <1>1 DEF GameSay, Enters, Goto
  <1>2. CASE GameStop  BY <1>0, <1>2 DEF GameStop, Enters, Goto
  <1>3. CASE Break  BY <1>0, <1>3 DEF Break
  <1>4. QED  BY <1>1, <1>2, <1>3

LEMMA TimerKept == Count /\ Timer /\ [BotNext]_botVars => Timer'
  <1> SUFFICES ASSUME Count, Timer, [BotNext]_botVars PROVE Timer'  OBVIOUS
  <1>1. CASE BotNext
    <2>1. CASE \E t \in Threads : Method(t)
      BY <2>1, MethodConnecting, MethodArmed DEF Timer, Count
    <2>2. CASE IrcThread /\ ~Method("irc")  BY <2>2, ThreadTimed
    <2>3. CASE GameSay \/ GameStop \/ Break  BY <2>3, GameTimed
    <2>4. QED  BY <1>1, <2>1, <2>2, <2>3 DEF BotNext, Threads
  <1>2. CASE UNCHANGED botVars
    BY <1>2 DEF botVars, thread, conn, conds, Timer, Connecting, OwnThread, Stopping, Orphan, Armed
  <1>3. QED  BY <1>1, <1>2

\* A bot that has lost its connection has a checker queued, unless it was stopped or a thread is
\* just disconnecting it, in whatever order the two threads met the loss (ircbot.py:82).
THEOREM RetryIsArmed == BotSpec => []RetryArmed
  <1>1. BotInit => Timer
    BY DEF BotInit, Timer, Connecting, OwnThread, Stopping, Orphan, Armed, Threads
  <1>2. Count /\ Timer => RetryArmed
    <2> SUFFICES ASSUME Count, Timer PROVE RetryArmed  OBVIOUS
    <2>1. {"drop", "tell"} \subseteq Disconnecting  BY DEF Disconnecting
    <2>2. QED  BY <2>1 DEF Timer, Armed, RetryArmed
  <1>3. QED  BY <1>1, <1>2, Counts, TimerKept, PTL DEF BotSpec
=============================================================================
