------------------------------- MODULE IrcBot -------------------------------
(***************************************************************************)
(* The IRC bot: irc_lib.py over lib/ircbot.py and lib/irclib.py.  One      *)
(* ServerConnection, used without a lock by two threads: the bot's own     *)
(* (connect, select loop, reconnect timer) and the game thread (say and    *)
(* stop).  One step per read or write of what they share.                  *)
(***************************************************************************)
EXTENDS Naturals, FiniteSets

CONSTANTS MaxSockets   \* bound: connections that are ever established
ASSUME SocketsAssumption == MaxSockets \in Nat

VARIABLES
  ipc,         \* where the bot's thread stands in process_forever()
  sel,         \* the socket object process_once() collected, 0 for none
  due,         \* checkers this process_timeout() has still to run
  proc, call,  \* per thread: the step of the method it is in, and on whose behalf
  nested,      \* the threads whose disconnect() was called by its own quit()
  connected, socket,   \* of the ServerConnection; sockets are numbered, 0 is None
  closed,      \* socket objects that have been closed
  n,           \* sockets so far
  broken,      \* the other end of the connection is gone (external)
  pending,     \* _connected_checker's in delayed_commands
  runCond, loopCond,   \* of the bot, and of ircobj
  event,       \* disconnect_event: "none", "unset" or "set"
  stop         \* history: "no", "running", "returned" or "raised"

conn  == <<connected, socket, closed, n>>
conds == <<runCond, loopCond>>
thread == <<ipc, sel, due>>
botVars == <<thread, proc, call, nested, conn, broken, pending, conds, event, stop>>

Threads == {"game", "irc"}
IrcPCs  == {"start", "connect", "loop", "collect", "select", "data", "recv", "handle",
            "timeout", "run", "ended", "dead"}
Sending       == {"test", "send"}
Disconnecting == {"clear", "quit", "bye", "close", "drop", "tell"}
Procs   == {"none", "conds", "event", "check", "wait"} \cup Sending \cup Disconnecting
Calls   == {"none", "say", "stop", "pong", "logon", "recv"}

-----------------------------------------------------------------------------
(* The methods, for a thread t that is inside one.                         *)

Goto(t, p) == proc' = [proc EXCEPT ![t] = p]

\* disconnect() is over: an outer one goes on, stop() waits for its event, any other call returns.
Returns(t) ==
  /\ Goto(t, IF t \in nested THEN "close" ELSE IF call[t] = "stop" THEN "wait" ELSE "none")
  /\ nested' = nested \ {t}

\* say() swallows every exception, _connect() only the library's own; another one kills the
\* bot's thread.
Raises(t, libraryError) ==
  /\ Goto(t, "none") /\ nested' = nested \ {t}
  /\ ipc' = IF t = "game" \/ call[t] = "say" \/ (call[t] = "logon" /\ libraryError)
            THEN ipc ELSE "dead"
  /\ stop' = IF call[t] = "stop" THEN "raised" ELSE stop

\* send_raw: the test of the socket, then the sending.
SendTest(t) ==
  /\ proc[t] = "test"
  /\ IF socket = 0 THEN Raises(t, TRUE) ELSE Goto(t, "send") /\ UNCHANGED <<ipc, nested, stop>>
  /\ UNCHANGED <<sel, due, call, conn, broken, pending, conds, event>>

Fails == broken \/ socket \in closed

Send(t) ==
  /\ proc[t] = "send"
  /\ IF socket = 0 THEN Raises(t, FALSE)
     ELSE /\ \/ socket \notin closed /\ Returns(t)
             \/ Fails /\ Goto(t, "check") /\ UNCHANGED nested
          /\ UNCHANGED <<ipc, stop>>
  /\ UNCHANGED <<sel, due, call, conn, broken, pending, conds, event>>

\* ServerConnection.disconnect.
Check(t) ==
  /\ proc[t] = "check"
  /\ IF connected THEN Goto(t, "clear") /\ UNCHANGED nested ELSE Returns(t)
  /\ UNCHANGED <<thread, call, conn, broken, pending, conds, event, stop>>

Clear(t) ==
  /\ proc[t] = "clear" /\ Goto(t, "quit")
  /\ connected' = FALSE
  /\ UNCHANGED <<thread, call, nested, socket, closed, n, broken, pending, conds, event, stop>>

QuitTest(t) ==
  /\ proc[t] = "quit"
  /\ IF socket = 0 THEN Raises(t, TRUE) ELSE Goto(t, "bye") /\ UNCHANGED <<ipc, nested, stop>>
  /\ UNCHANGED <<sel, due, call, conn, broken, pending, conds, event>>

\* A failing send calls disconnect again; it returns unless the bot has just reconnected (the
\* one inside that one always does: two reconnects are not made in the time of one quit).
QuitSend(t) ==
  /\ proc[t] = "bye"
  /\ IF socket = 0 THEN Raises(t, FALSE)
     ELSE /\ IF Fails /\ connected /\ t \notin nested
             THEN Goto(t, "clear") /\ nested' = nested \cup {t}
             ELSE Goto(t, "close") /\ UNCHANGED nested
          /\ UNCHANGED <<ipc, stop>>
  /\ UNCHANGED <<sel, due, call, conn, broken, pending, conds, event>>

\* Mutant: the socket is closed without a look at it.
CloseUnchecked(t) ==
  /\ proc[t] = "close"
  /\ closed' = closed \cup {socket} /\ Goto(t, "drop")
  /\ UNCHANGED <<thread, call, nested, connected, socket, n, broken, pending, conds, event, stop>>

Close(t) ==
  /\ proc[t] = "close"
  /\ IF socket = 0 THEN Raises(t, FALSE) /\ UNCHANGED closed
     ELSE closed' = closed \cup {socket} /\ Goto(t, "drop") /\ UNCHANGED <<ipc, nested, stop>>
  /\ UNCHANGED <<sel, due, call, connected, socket, n, broken, pending, conds, event>>

Drop(t) ==
  /\ proc[t] = "drop" /\ Goto(t, "tell")
  /\ socket' = 0
  /\ UNCHANGED <<thread, call, nested, connected, closed, n, broken, pending, conds, event, stop>>

\* Mutant: the checker is queued by the bot's own thread only.
TellQueuesOwn(t) ==
  /\ proc[t] = "tell" /\ Returns(t)
  /\ pending' = IF runCond /\ t = "irc" THEN pending + 1 ELSE pending
  /\ event' = IF event = "unset" THEN "set" ELSE event
  /\ UNCHANGED <<thread, call, conn, broken, conds, stop>>

\* _on_disconnect.
Tell(t) ==
  /\ proc[t] = "tell" /\ Returns(t)
  /\ pending' = IF runCond THEN pending + 1 ELSE pending
  /\ event' = IF event = "unset" THEN "set" ELSE event
  /\ UNCHANGED <<thread, call, conn, broken, conds, stop>>

\* Mutant: the loop's own flag is not cleared.
StopCondsKeepsLoop(t) ==
  /\ proc[t] = "conds" /\ Goto(t, "event")
  /\ runCond' = FALSE
  /\ UNCHANGED <<thread, call, nested, conn, broken, pending, loopCond, event, stop>>

\* IRCBotThread.stop.
StopConds(t) ==
  /\ proc[t] = "conds" /\ Goto(t, "event")
  /\ runCond' = FALSE /\ loopCond' = FALSE
  /\ UNCHANGED <<thread, call, nested, conn, broken, pending, event, stop>>

\* Mutant: the event is only made when there is nothing left to disconnect.
StopEventLate(t) ==
  /\ proc[t] = "event" /\ Goto(t, "check")
  /\ event' = IF connected THEN event ELSE "unset"
  /\ UNCHANGED <<thread, call, nested, conn, broken, pending, conds, stop>>

StopEvent(t) ==
  /\ proc[t] = "event" /\ Goto(t, "check")
  /\ event' = "unset"
  /\ UNCHANGED <<thread, call, nested, conn, broken, pending, conds, stop>>

StopWait(t) ==
  /\ proc[t] = "wait" /\ event = "set" /\ Goto(t, "none")
  /\ stop' = "returned"
  /\ UNCHANGED <<thread, call, nested, conn, broken, pending, conds, event>>

Method(t) ==
  \/ SendTest(t) \/ Send(t) \/ Check(t) \/ Clear(t) \/ QuitTest(t) \/ QuitSend(t)
  \/ Close(t) \/ Drop(t) \/ Tell(t) \/ StopConds(t) \/ StopEvent(t) \/ StopWait(t)

\* Thread t enters a method at p.
Enters(t, p, who) ==
  /\ proc[t] = "none" /\ Goto(t, p)
  /\ call' = [call EXCEPT ![t] = who]

-----------------------------------------------------------------------------
(* The bot's thread: process_forever.                                      *)

At(p) == ipc = p /\ proc["irc"] = "none"

\* run() makes the bot and starts it.
Start ==
  /\ At("start") /\ ipc' = "connect"
  /\ UNCHANGED <<sel, due, proc, call, nested, conn, broken, pending, conds, event, stop>>

\* _connect, in start() or in a checker, which has queued itself before; it swallows the error.
ConnectFails ==
  /\ At("connect")
  /\ ipc' = IF pending = 0 THEN "loop" ELSE "run"
  /\ socket' = 0
  /\ UNCHANGED <<sel, due, proc, call, nested, connected, closed, n, broken, pending, conds, event, stop>>

\* connect() goes on to log on.
ConnectOK ==
  /\ At("connect") /\ n < MaxSockets
  /\ ipc' = IF pending = 0 THEN "loop" ELSE "run"
  /\ n' = n + 1 /\ socket' = n + 1 /\ connected' = TRUE /\ broken' = FALSE
  /\ Enters("irc", "test", "logon")
  /\ UNCHANGED <<sel, due, nested, closed, pending, conds, event, stop>>

LoopTest ==
  /\ At("loop")
  /\ ipc' = IF loopCond THEN "collect" ELSE "ended"
  /\ UNCHANGED <<sel, due, proc, call, nested, conn, broken, pending, conds, event, stop>>

\* Without a socket process_once sleeps.
Collect ==
  /\ At("collect")
  /\ sel' = socket /\ ipc' = IF socket = 0 THEN "timeout" ELSE "select"
  /\ UNCHANGED <<due, proc, call, nested, conn, broken, pending, conds, event, stop>>

\* select raises on a closed socket object, and nothing catches it.
SelectSocket ==
  /\ At("select")
  /\ \/ sel \in closed /\ ipc' = "dead"
     \/ sel \notin closed /\ ipc' = "data"
     \/ sel \notin closed /\ ~broken /\ ipc' = "timeout"
  /\ UNCHANGED <<sel, due, proc, call, nested, conn, broken, pending, conds, event, stop>>

Data ==
  /\ At("data")
  /\ ipc' = IF sel = socket THEN "recv" ELSE "timeout"
  /\ UNCHANGED <<sel, due, proc, call, nested, conn, broken, pending, conds, event, stop>>

\* process_data: an error or the end disconnects.
Recv ==
  /\ At("recv")
  /\ \/ socket = 0 /\ ipc' = "dead" /\ UNCHANGED <<proc, call>>
     \/ socket # 0 /\ socket \notin closed /\ ~broken /\ ipc' = "handle" /\ UNCHANGED <<proc, call>>
     \/ /\ socket # 0 /\ (socket \in closed \/ broken)
        /\ ipc' = "timeout" /\ Enters("irc", "check", "recv")
  /\ UNCHANGED <<sel, due, nested, conn, broken, pending, conds, event, stop>>

\* The handlers of one line: nothing is sent, or a PONG, JOIN or NICK, or a message.
Handle ==
  /\ At("handle") /\ ipc' = "timeout"
  /\ \/ UNCHANGED <<proc, call>>
     \/ Enters("irc", "test", "pong")
     \/ stop # "returned" /\ Enters("irc", "test", "say")
  /\ UNCHANGED <<sel, due, nested, conn, broken, pending, conds, event, stop>>

\* The command unloadirc: the thread stops itself.
HandleStop ==
  /\ At("handle") /\ ipc' = "timeout"
  /\ stop = "no" /\ stop' = "running" /\ Enters("irc", "conds", "stop")
  /\ UNCHANGED <<sel, due, nested, conn, broken, pending, conds, event>>

TimeoutNone ==
  /\ At("timeout") /\ ipc' = "loop"
  /\ UNCHANGED <<sel, due, proc, call, nested, conn, broken, pending, conds, event, stop>>

\* process_timeout: the first ones in delayed_commands are due.
TimeoutDue ==
  /\ At("timeout") /\ ipc' = "run"
  /\ due' \in 1 .. pending
  /\ UNCHANGED <<sel, proc, call, nested, conn, broken, pending, conds, event, stop>>

\* Mutant: the checker queues itself before it looks at the connection.
RunCheckerAlways ==
  /\ At("run") /\ due > 0 /\ due' = due - 1
  /\ ipc' = IF connected THEN "run" ELSE "connect"
  /\ UNCHANGED <<sel, proc, call, nested, conn, broken, pending, conds, event, stop>>

\* Mutant: the checker is queued again by a disconnect only.
RunCheckerOnce ==
  /\ At("run") /\ due > 0 /\ due' = due - 1
  /\ pending' = pending - 1
  /\ ipc' = IF connected THEN "run" ELSE "connect"
  /\ UNCHANGED <<sel, proc, call, nested, conn, broken, conds, event, stop>>

\* _connected_checker: on a lost connection it queues itself again (not due in this pass)
\* and connects.
RunChecker ==
  /\ At("run") /\ due > 0 /\ due' = due - 1
  /\ pending' = IF connected THEN pending - 1 ELSE pending
  /\ ipc' = IF connected THEN "run" ELSE "connect"
  /\ UNCHANGED <<sel, proc, call, nested, conn, broken, conds, event, stop>>

TimeoutDone ==
  /\ At("run") /\ due = 0 /\ ipc' = "loop"
  /\ UNCHANGED <<sel, due, proc, call, nested, conn, broken, pending, conds, event, stop>>

-----------------------------------------------------------------------------
(* The game thread, and the network (external).                            *)

GameSay ==
  /\ ipc # "start" /\ stop # "returned" /\ Enters("game", "test", "say")
  /\ UNCHANGED <<thread, nested, conn, broken, pending, conds, event, stop>>

\* Before the bot exists stop() raises and changes nothing.
GameStop ==
  /\ ipc # "start" /\ stop = "no" /\ stop' = "running" /\ Enters("game", "conds", "stop")
  /\ UNCHANGED <<thread, nested, conn, broken, pending, conds, event>>

Break ==
  /\ connected /\ ~broken /\ broken' = TRUE
  /\ UNCHANGED <<thread, proc, call, nested, conn, pending, conds, event, stop>>

-----------------------------------------------------------------------------
BotInit ==
  /\ ipc = "start" /\ sel = 0 /\ due = 0 /\ nested = {}
  /\ proc = [t \in Threads |-> "none"] /\ call = [t \in Threads |-> "none"]
  /\ connected = FALSE /\ socket = 0 /\ closed = {} /\ n = 0 /\ broken = FALSE
  /\ pending = 0 /\ runCond = TRUE /\ loopCond = TRUE /\ event = "none" /\ stop = "no"

IrcThread ==
  \/ Method("irc") \/ Start \/ ConnectFails \/ ConnectOK \/ LoopTest \/ Collect \/ SelectSocket
  \/ Data \/ Recv \/ Handle \/ HandleStop \/ TimeoutNone
  \/ TimeoutDue \/ RunChecker \/ TimeoutDone
BotNext == IrcThread \/ Method("game") \/ GameSay \/ GameStop \/ Break
BotSpec == BotInit /\ [][BotNext]_botVars

\* Both threads run, and a checker that is queued falls due.
FairBot == BotSpec /\ WF_botVars(IrcThread) /\ WF_botVars(Method("game")) /\ SF_botVars(TimeoutDue)

-----------------------------------------------------------------------------
BotTypeOK ==
  /\ ipc \in IrcPCs /\ sel \in 0 .. MaxSockets /\ due \in Nat /\ nested \in SUBSET Threads
  /\ proc \in [Threads -> Procs] /\ call \in [Threads -> Calls]
  /\ connected \in BOOLEAN /\ socket \in 0 .. MaxSockets /\ closed \in SUBSET (1 .. MaxSockets)
  /\ n \in 0 .. MaxSockets /\ broken \in BOOLEAN /\ pending \in Nat
  /\ runCond \in BOOLEAN /\ loopCond \in BOOLEAN
  /\ event \in {"none", "unset", "set"} /\ stop \in {"no", "running", "returned", "raised"}

\* A bot that has lost its connection has a checker queued, unless it was stopped, or a
\* thread is just disconnecting it, or its own thread is connecting or dead: whichever
\* thread met the error first, and however the other one came in between.
RetryArmed ==
  n > 0 /\ ~connected /\ runCond /\ ipc \notin {"connect", "dead"}
        /\ (\A t \in Threads : proc[t] \notin Disconnecting) => pending > 0

\* Each lost connection queues one checker or two (both threads may pass the test of
\* connected), and they add up while connections are lost faster than checkers fall due.  A
\* connection that lasts sees the last of them go: none keeps itself alive for ever.
CheckersDrain ==
  []<>(pending = 0 \/ ~connected \/ ipc \in {"ended", "dead"} \/ proc["irc"] = "wait")

\* stop() comes back, or raises, if it found the bot connected.
StopComesBack == \A t \in Threads :
  call[t] = "stop" /\ proc[t] = "clear" ~> proc[t] = "none"

\* Once stop() is called, by whichever thread, the bot's thread ends, or waits for itself.
StopEndsThread == stop # "no" ~> ipc \in {"ended", "dead"} \/ proc["irc"] = "wait"

\* A lost connection is followed by an attempt to connect while the thread lives.
Reconnects == n > 0 /\ ~connected /\ runCond ~> ipc \in {"connect", "dead"} \/ ~runCond

\* What lib/ircbot.py:38 says: "The bot tries to reconnect if it is disconnected."
TriesToReconnect == n > 0 /\ ~connected /\ runCond ~> ipc = "connect" \/ ~runCond
=============================================================================
