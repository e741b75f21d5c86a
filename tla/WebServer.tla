----------------------------- MODULE WebServer -----------------------------
(***************************************************************************)
(* plugins/webserver.py: the chat commands that start and stop the web     *)
(* server, from the game thread and from the bot's thread at once, one     *)
(* step per access to the plugin's attribute; the thread that serves and   *)
(* those of its requests.  Nothing closes the listening socket but the end *)
(* of the last reference to the server's object.                           *)
(***************************************************************************)
EXTENDS Naturals, FiniteSets

CONSTANTS Callers, MaxServers, MaxHandlers

\* The game thread and the bot's thread.
ASSUME CallersAssumption == \E a, b \in Callers : Callers = {a, b}
ASSUME WebBoundsAssumption == MaxServers \in Nat /\ MaxHandlers \in Nat

Servers == 1 .. MaxServers
NoServer == 0

VARIABLES
  webserverthread, \* the server the plugin knows
  made,            \* servers made so far
  state,           \* per server: bound, starting, serving, down, ended
  request,         \* __shutdown_request
  handlers,        \* requests that are served, each in a thread of its own
  web,             \* per caller: where its command is
  stopping,        \* per caller: the server whose stop() it is in
  overlapped       \* two stop commands were at work at once

webVars == <<webserverthread, made, state, request, handlers, web, stopping, overlapped>>

Running(s) == state[s] \in {"starting", "serving", "down"}
Referenced(s) ==
  Running(s) \/ webserverthread = s \/ handlers[s] > 0 \/ \E t \in Callers : stopping[t] = s
PortBusy == \E s \in 1 .. made : Referenced(s)

Go(t, where) == web' = [web EXCEPT ![t] = where]

\* startWebserver finds no server.
StartTests(t) ==
  /\ web[t] = "idle" /\ webserverthread = NoServer
  /\ Go(t, "create")
  /\ UNCHANGED <<webserverthread, made, state, request, handlers, stopping, overlapped>>

\* The constructor binds the port, or raises.
Create(t) ==
  /\ web[t] = "create"
  /\ \/ PortBusy /\ Go(t, "idle") /\ UNCHANGED <<webserverthread, made>>
     \/ /\ ~PortBusy /\ made < MaxServers
        /\ made' = made + 1 /\ webserverthread' = made' /\ Go(t, "start")
  /\ UNCHANGED <<state, request, handlers, stopping, overlapped>>

\* It starts what the attribute holds by now; None, or a thread started before, raises.
StartThread(t) ==
  /\ web[t] = "start" /\ Go(t, "idle")
  /\ IF webserverthread # NoServer /\ state[webserverthread] = "bound"
     THEN state' = [state EXCEPT ![webserverthread] = "starting"]
     ELSE UNCHANGED state
  /\ UNCHANGED <<webserverthread, made, request, handlers, stopping, overlapped>>

InStop(t) == web[t] \in {"stop", "wait", "clear"}

\* stopWebserver finds a server.
StopTests(t) ==
  /\ web[t] = "idle" /\ webserverthread # NoServer
  /\ Go(t, "stop")
  /\ overlapped' = (overlapped \/ \E u \in Callers \ {t} : InStop(u))
  /\ UNCHANGED <<webserverthread, made, state, request, handlers, stopping>>

\* Mutant: the attribute is cleared before the server is stopped.
CallStopLate(t) ==
  /\ web[t] = "stop" /\ webserverthread # NoServer
  /\ request' = [request EXCEPT ![webserverthread] = TRUE]
  /\ stopping' = [stopping EXCEPT ![t] = webserverthread] /\ Go(t, "wait")
  /\ webserverthread' = NoServer
  /\ UNCHANGED <<made, state, handlers, overlapped>>

\* stop() and shutdown() of what the attribute holds by now.
CallStop(t) ==
  /\ web[t] = "stop"
  /\ IF webserverthread = NoServer THEN Go(t, "idle") /\ UNCHANGED <<request, stopping>>
     ELSE /\ request' = [request EXCEPT ![webserverthread] = TRUE]
          /\ stopping' = [stopping EXCEPT ![t] = webserverthread] /\ Go(t, "wait")
  /\ UNCHANGED <<webserverthread, made, state, handlers, overlapped>>

\* shutdown() returns once the loop has ended.
StopReturns(t) ==
  /\ web[t] = "wait" /\ state[stopping[t]] \in {"down", "ended"}
  /\ stopping' = [stopping EXCEPT ![t] = NoServer] /\ Go(t, "clear")
  /\ UNCHANGED <<webserverthread, made, state, request, handlers, overlapped>>

Clear(t) ==
  /\ web[t] = "clear" /\ Go(t, "idle")
  /\ webserverthread' = NoServer
  /\ UNCHANGED <<made, state, request, handlers, stopping, overlapped>>

\* run(): serve_forever looks at the request before every turn and takes it back at its end.
Run(s) ==
  /\ \/ state[s] = "starting" /\ state' = [state EXCEPT ![s] = "serving"] /\ UNCHANGED request
     \/ /\ state[s] = "serving" /\ request[s]
        /\ state' = [state EXCEPT ![s] = "down"] /\ request' = [request EXCEPT ![s] = FALSE]
     \/ state[s] = "down" /\ state' = [state EXCEPT ![s] = "ended"] /\ UNCHANGED request
  /\ UNCHANGED <<webserverthread, made, handlers, web, stopping, overlapped>>

\* A page is asked for; a handler keeps the server's object until it is done.
Handle(s) ==
  /\ \/ state[s] = "serving" /\ ~request[s] /\ handlers[s] < MaxHandlers
        /\ handlers' = [handlers EXCEPT ![s] = @ + 1]
     \/ handlers[s] > 0 /\ handlers' = [handlers EXCEPT ![s] = @ - 1]
  /\ UNCHANGED <<webserverthread, made, state, request, web, stopping, overlapped>>

WebInit ==
  /\ webserverthread = NoServer /\ made = 0 /\ state = [s \in Servers |-> "bound"]
  /\ request = [s \in Servers |-> FALSE] /\ handlers = [s \in Servers |-> 0]
  /\ web = [t \in Callers |-> "idle"] /\ stopping = [t \in Callers |-> NoServer]
  /\ overlapped = FALSE

WebNext ==
  \/ \E t \in Callers : StartTests(t) \/ Create(t) \/ StartThread(t)
       \/ StopTests(t) \/ CallStop(t) \/ StopReturns(t) \/ Clear(t)
  \/ \E s \in 1 .. made : Run(s) \/ Handle(s)

WebSpec == WebInit /\ [][WebNext]_webVars

\* A server that serves is the one the plugin knows, so that stopwebserver reaches it - unless
\* two stop commands overlapped, when one of them forgets a server the other's thread has
\* started since and the port stays taken.  Overlapped or not, a stop command is never left
\* waiting for a server that nobody starts, and no two servers run at once (webserver.py:305,
\* :306).
ServerKnown ==
  /\ \A s \in 1 .. made : state[s] \in {"starting", "serving"} => webserverthread = s \/ overlapped
  /\ \A t \in Callers : web[t] = "wait" /\ state[stopping[t]] = "bound" =>
       webserverthread = stopping[t] /\ \E u \in Callers : web[u] = "start"
  /\ \A s, u \in 1 .. made : Running(s) /\ Running(u) => s = u
=============================================================================
