------------------------------ MODULE GameClient ------------------------------
(***************************************************************************)
(* The spectator client (ottd-client.py, class SpectatorClient, over       *)
(* openttd/client.py, class Client): its reconnect loop, the join          *)
(* handshake, the map download, the main loop, and quit() called from      *)
(* another thread.  The game server is external: it is modelled by the     *)
(* packets this client reads and the answers it waits for.                 *)
(*                                                                         *)
(* The TCP stream from server to client is the FIFO s2c.  What the client  *)
(* sends is taken into account by the server at once: the delay on that    *)
(* way shows as packets that are already in s2c when the client sends.     *)
(***************************************************************************)
EXTENDS Integers, Sequences

CONSTANTS
  Clients,      \* client ids the server hands out
  NoClient,
  Host,         \* the id whose commands are privileged (isByOp: playerid == 1)
  Infos,        \* what a CLIENT_INFO packet tells: name and company
  NoInfo,
  AckEvery,     \* frames between two ACKs (74 in the code)
  Productive,   \* [main] productive: only Host's commands are obeyed
  HasPassword,  \* a server or company password was given
  Autojoin,     \* [irc] autojoin
  MaxSessions,  \* bound: connections the client opens
  MaxQueue,     \* bound: packets the server puts in s2c on its own
  MaxFrame,     \* bound: the server's frame counter
  MaxQuits      \* bound: quit and reconnect requests of other threads

ASSUME ClientsAssumption == NoClient \notin Clients
ASSUME InfosAssumption == NoInfo \notin Infos
ASSUME AckAssumption == AckEvery \in Nat \ {0}
ASSUME FlagsAssumption == Productive \in BOOLEAN /\ HasPassword \in BOOLEAN /\ Autojoin \in BOOLEAN
ASSUME BoundsAssumption ==
  MaxSessions \in Nat /\ MaxQueue \in Nat /\ MaxFrame \in Nat /\ MaxQuits \in Nat

VARIABLES
  \* the game thread
  pc,             \* where run() and joinGame() stand
  sock,           \* socket_tcp: "none", "open" (created) or "connected"
  runCond, reconnectCond,
  playerlist,     \* client id -> info, NoInfo when absent
  clientId,       \* client_id, set by WELCOME and kept over reconnects
  downloadDone, mapDoneCalled,
  frameCounter, frameServer,
  irc,            \* self.irc is not None
  \* another thread (main thread or IRC thread) inside quit()
  op,
  \* the server and the connection (external)
  srv,            \* how far the server is with this connection
  link,           \* "up", "fin" (closed by the server) or "rst" (reset)
  s2c,
  assigned,       \* the id WELCOME gave this connection
  roster,         \* what the server has told this connection of its clients
  frame, srvAck,
  \* history
  verdicts,       \* packets read that rule out another join (BANNED, SHUTDOWN, no password)
  verdictsLost,   \* of these, the ones a callback raised on before they were looked at
  lateJoins,      \* JOINs sent when reconnectCond was already false
  quitHeard,      \* a QUIT of a giving-up client reached an authorised session
  sessions, quits

conds  == <<runCond, reconnectCond>>
people == <<playerlist, clientId>>
map    == <<downloadDone, mapDoneCalled>>
frames == <<frameCounter, frameServer>>
game   == <<pc, sock, conds, people, map, frames, irc>>
server == <<srv, link, s2c, assigned, roster, frame, srvAck>>
finals == <<verdicts, verdictsLost>>
hist   == <<finals, lateJoins, quitHeard, sessions, quits>>
vars   == <<game, op, server, hist>>

Connecting == {"connect", "info", "join"}
InSession  == {"handshake", "download", "main"}
Stopping   == {"unloading", "leaving"}   \* waiting in stopIRC(), inside the main loop or behind it
PCs        == {"loop", "ended", "dead", "cleanup"} \cup Connecting \cup InSession \cup Stopping

Verdicts   == {"FULL", "BANNED", "NEED_PASSWORD", "CHECK_NEWGRFS"}
Membership == {"CLIENT_INFO", "JOIN", "QUIT", "ERROR_QUIT"}
Chats      == {"CHAT_QUIT", "CHAT_RECONNECT", "CHAT_LOADIRC", "CHAT_UNLOADIRC"}
Endings    == {"ERROR", "SHUTDOWN", "NEWGAME"}
\* OTHER stands for WAIT, MAP start and data, SYNC, COMMAND and plain chat: read, nothing kept.
Ops        == Verdicts \cup Membership \cup Chats \cup Endings \cup
              {"WELCOME", "MAP_END", "FRAME", "OTHER"}

Packet == [op : Ops, cid : Clients \cup {NoClient}, info : Infos \cup {NoInfo}, frame : Nat]
Plain(o)    == [op |-> o, cid |-> NoClient, info |-> NoInfo, frame |-> 0]
About(o, c) == [op |-> o, cid |-> c, info |-> NoInfo, frame |-> 0]
ClientInfo(c, i) == [op |-> "CLIENT_INFO", cid |-> c, info |-> i, frame |-> 0]
Frame(n)    == [op |-> "FRAME", cid |-> NoClient, info |-> NoInfo, frame |-> n]

\* What a packet says of the client it names: present with this info, or gone.
News == {"CLIENT_INFO", "QUIT", "ERROR_QUIT"}
Tells(p) == IF p.op = "CLIENT_INFO" THEN p.info ELSE NoInfo

Nobody == [c \in Clients |-> NoInfo]
NoAck  == MaxFrame + 1

\* The server rules out another join.  Every step that reads a packet counts these, whatever
\* the code makes of the packet.
Final(p) == p.op \in {"BANNED", "SHUTDOWN"} \/ (p.op = "NEED_PASSWORD" /\ ~HasPassword)
ReadsFinal(p, lost) ==
  /\ verdicts' = IF Final(p) THEN verdicts + 1 ELSE verdicts
  /\ verdictsLost' = IF Final(p) /\ lost THEN verdictsLost + 1 ELSE verdictsLost

\* PACKET_SERVER_WELCOME has been sent, the session has not been closed.
Authorised == srv \in {"welcomed", "getmap", "mapsent", "active"}
SrvStates  == {"gone", "accepted", "joining", "grfs", "checked", "asked",
               "welcomed", "getmap", "mapsent", "active"}

-----------------------------------------------------------------------------
(* Sending.  A send raises on a reset connection, may raise on one the     *)
(* server has closed, and reaches the server only while the link is up.    *)

SendRaises == CASE link = "up"  -> {FALSE}
                [] link = "fin" -> {FALSE, TRUE}
                [] link = "rst" -> {TRUE}

\* The server hears a message that takes it to `next`; s2c then holds `rest`.
Hears(next, rest) ==
  /\ srv' = IF link = "up" THEN next ELSE srv
  /\ s2c' = rest
  /\ UNCHANGED <<link, assigned, roster, frame, srvAck>>

HearsAck(n, rest) ==
  /\ srvAck' = IF link = "up" THEN n ELSE srvAck
  /\ s2c' = rest
  /\ UNCHANGED <<srv, link, assigned, roster, frame>>

\* A QUIT ends the connection; an authorised client reads its own SERVER_QUIT first.
HearsQuit(rest) ==
  /\ IF link = "up"
     THEN /\ srv' = "gone" /\ link' = "fin"
          /\ s2c' = IF Authorised THEN Append(rest, About("QUIT", assigned)) ELSE rest
          /\ roster' = IF Authorised THEN [roster EXCEPT ![assigned] = NoInfo] ELSE roster
     ELSE s2c' = rest /\ UNCHANGED <<srv, link, roster>>
  /\ UNCHANGED <<assigned, frame, srvAck>>

HeardGivingUp(givesUp) ==
  quitHeard' = (quitHeard \/ (link = "up" /\ Authorised /\ givesUp))

-----------------------------------------------------------------------------
(* run(): the reconnect loop.                                              *)

\* Mutant: while True.
LoopTestIgnoresCond ==
  /\ pc = "loop"
  /\ pc' = "connect"
  /\ UNCHANGED <<sock, conds, people, map, frames, irc, op, server, hist>>

\* while self.reconnectCond, after the second's sleep.
LoopTest ==
  /\ pc = "loop"
  /\ pc' = IF reconnectCond THEN "connect" ELSE "ended"
  /\ UNCHANGED <<sock, conds, people, map, frames, irc, op, server, hist>>

ConnectOK ==
  /\ pc = "connect" /\ sessions < MaxSessions
  /\ pc' = "info" /\ sock' = "connected"
  /\ sessions' = sessions + 1
  /\ srv' = "accepted" /\ link' = "up" /\ s2c' = <<>> /\ assigned' = NoClient
  /\ roster' = Nobody /\ srvAck' = NoAck
  /\ frame' \in {0, frame}                       \* a new map, or the one left
  /\ UNCHANGED <<conds, people, map, frames, irc, op, finals, lateJoins, quitHeard, quits>>

\* connect() raises; the call stands outside run()'s try, so the thread dies.
ConnectFails ==
  /\ pc = "connect"
  /\ pc' = "dead" /\ sock' = "open"
  /\ UNCHANGED <<conds, people, map, frames, irc, op, server, hist>>

\* getGameInfo, parse_version and get_taginfo; any of them may raise.
GameInfo ==
  /\ pc = "info"
  /\ pc' \in {"join", "cleanup"}
  /\ UNCHANGED <<sock, conds, people, map, frames, irc, op, server, hist>>

\* Mutant: the playerlist is emptied into something that is no table of clients.
CleanupUnbinds ==
  /\ pc = "cleanup"
  /\ pc' = "loop" /\ sock' = "none" /\ playerlist' = <<>>
  /\ srv' = "gone" /\ link' = "rst" /\ s2c' = <<>> /\ roster' = Nobody
  /\ UNCHANGED <<conds, clientId, map, frames, irc, op, assigned, frame, srvAck, hist>>

\* cleanup(), on the normal path and in the except clause.
Cleanup ==
  /\ pc = "cleanup"
  /\ pc' = "loop" /\ sock' = "none" /\ playerlist' = Nobody
  /\ srv' = "gone" /\ link' = "rst" /\ s2c' = <<>> /\ roster' = Nobody
  /\ UNCHANGED <<conds, clientId, map, frames, irc, op, assigned, frame, srvAck, hist>>

-----------------------------------------------------------------------------
(* joinGame(): the handshake.                                              *)

SendJoin ==
  /\ pc = "join"
  /\ \E raised \in SendRaises :
       /\ pc' = IF raised THEN "cleanup" ELSE "handshake"
       /\ runCond' = (runCond \/ ~raised)
       /\ lateJoins' = IF raised \/ reconnectCond THEN lateJoins ELSE lateJoins + 1
       /\ Hears(IF raised THEN srv ELSE "joining", s2c)
  /\ UNCHANGED <<sock, reconnectCond, people, map, frames, irc, op,
                 finals, quitHeard, sessions, quits>>

Reads(o) == s2c # <<>> /\ Head(s2c).op = o

\* Mutant: a full server is a reason to stay away.
FullGivesUp ==
  /\ pc = "handshake" /\ Reads("FULL")
  /\ pc' = "cleanup" /\ runCond' = FALSE /\ reconnectCond' = FALSE
  /\ Hears(srv, Tail(s2c))
  /\ UNCHANGED <<sock, people, map, frames, irc, op, hist>>

Full ==
  /\ pc = "handshake" /\ Reads("FULL")
  /\ pc' = "cleanup" /\ runCond' = FALSE
  /\ Hears(srv, Tail(s2c))
  /\ UNCHANGED <<sock, reconnectCond, people, map, frames, irc, op, hist>>

\* Mutant: only the session is left.
GiveUpRetries ==
  /\ pc = "handshake"
  /\ Reads("BANNED") \/ (Reads("NEED_PASSWORD") /\ ~HasPassword)
  /\ pc' = "cleanup" /\ runCond' = FALSE
  /\ ReadsFinal(Head(s2c), FALSE)
  /\ Hears(srv, Tail(s2c))
  /\ UNCHANGED <<sock, reconnectCond, people, map, frames, irc, op,
                 lateJoins, quitHeard, sessions, quits>>

\* BANNED, or a password is asked for and none was given.
GiveUp ==
  /\ pc = "handshake"
  /\ Reads("BANNED") \/ (Reads("NEED_PASSWORD") /\ ~HasPassword)
  /\ pc' = "cleanup" /\ runCond' = FALSE /\ reconnectCond' = FALSE
  /\ ReadsFinal(Head(s2c), FALSE)
  /\ Hears(srv, Tail(s2c))
  /\ UNCHANGED <<sock, people, map, frames, irc, op, lateJoins, quitHeard, sessions, quits>>

\* The branches that send a password fail on an undefined name (send, struct).
PasswordRaises ==
  /\ pc = "handshake" /\ Reads("NEED_PASSWORD") /\ HasPassword
  /\ pc' = "cleanup"
  /\ Hears(srv, Tail(s2c))
  /\ UNCHANGED <<sock, conds, people, map, frames, irc, op, hist>>

CheckNewGrfs ==
  /\ pc = "handshake" /\ Reads("CHECK_NEWGRFS")
  /\ \E raised \in SendRaises :
       /\ pc' = IF raised THEN "cleanup" ELSE pc
       /\ Hears(IF raised THEN srv ELSE "checked", Tail(s2c))
  /\ UNCHANGED <<sock, conds, people, map, frames, irc, op, hist>>

Welcome ==
  /\ pc = "handshake" /\ Reads("WELCOME")
  /\ clientId' = Head(s2c).cid
  /\ downloadDone' = FALSE /\ mapDoneCalled' = FALSE
  /\ \E raised \in SendRaises :
       /\ pc' = IF raised THEN "cleanup" ELSE "download"
       /\ Hears(IF raised THEN srv ELSE "getmap", Tail(s2c))
  /\ UNCHANGED <<sock, conds, playerlist, frames, irc, op, hist>>

\* Every other packet falls through the handshake's elifs: it is dropped.
HandshakeIgnores ==
  /\ pc = "handshake" /\ s2c # <<>>
  /\ Head(s2c).op \notin Verdicts \cup {"WELCOME"}
  /\ Hears(srv, Tail(s2c)) /\ ReadsFinal(Head(s2c), FALSE)
  /\ UNCHANGED <<game, op, lateJoins, quitHeard, sessions, quits>>

\* A receive raises: the connection was reset, or five seconds of silence (until WELCOME
\* lifts the timeout).  A connection closed by the server does not raise: receive_bytes
\* reads "" over and over, which is no step of the model.
ReceiveRaises ==
  /\ \/ pc \in InSession /\ link = "rst"
     \/ pc = "handshake" /\ link = "up" /\ s2c = <<>>
  /\ pc # "handshake" => runCond /\ ~(pc = "download" /\ downloadDone)
  /\ pc' = "cleanup"
  /\ UNCHANGED <<sock, conds, people, map, frames, irc, op, server, hist>>

-----------------------------------------------------------------------------
(* handlePacket(): what the download loop and the main loop do with every  *)
(* packet they read.                                                       *)

\* Mutant: a client that left with an error stays in the playerlist.
HandlePacketKeepsErrorQuit(p) ==
  /\ playerlist' = [c \in Clients |->
       IF c = p.cid /\ p.op \in News \ {"ERROR_QUIT"} THEN Tells(p) ELSE playerlist[c]]
  /\ runCond' = IF \/ p.op \in Endings
                   \/ p.op = "QUIT" /\ p.cid = clientId
                THEN FALSE ELSE runCond
  /\ reconnectCond' = IF p.op = "SHUTDOWN" THEN FALSE ELSE reconnectCond
  /\ ReadsFinal(p, FALSE)

\* Mutant: the own SERVER_QUIT sets a flag nobody reads, as the own ERROR_QUIT does.
HandlePacketMissesOwnQuit(p) ==
  /\ playerlist' = [c \in Clients |-> IF c = p.cid /\ p.op \in News THEN Tells(p) ELSE playerlist[c]]
  /\ runCond' = IF p.op \in Endings THEN FALSE ELSE runCond
  /\ reconnectCond' = IF p.op = "SHUTDOWN" THEN FALSE ELSE reconnectCond
  /\ ReadsFinal(p, FALSE)

HandlePacket(p) ==
  /\ playerlist' = [c \in Clients |-> IF c = p.cid /\ p.op \in News THEN Tells(p) ELSE playerlist[c]]
  /\ runCond' = IF \/ p.op \in Endings
                   \/ p.op = "QUIT" /\ p.cid = clientId
                THEN FALSE ELSE runCond
  /\ reconnectCond' = IF p.op = "SHUTDOWN" THEN FALSE ELSE reconnectCond
  /\ ReadsFinal(p, FALSE)

\* A callback raises before the packet has taken effect: of on_receive_packet on any packet,
\* or of on_server_shutdown, which is called before the two flags are cleared.
PacketCallbackRaises ==
  /\ runCond /\ s2c # <<>>
  /\ pc = "main" \/ (pc = "download" /\ ~downloadDone)
  /\ pc' = "cleanup"
  /\ Hears(srv, Tail(s2c)) /\ ReadsFinal(Head(s2c), TRUE)
  /\ UNCHANGED <<sock, conds, people, map, frames, irc, op,
                 lateJoins, quitHeard, sessions, quits>>

DownloadRecv ==
  /\ pc = "download" /\ runCond /\ ~downloadDone /\ s2c # <<>>
  /\ HandlePacket(Head(s2c))
  /\ downloadDone' = (Head(s2c).op = "MAP_END")
  /\ Hears(srv, Tail(s2c))
  /\ UNCHANGED <<pc, sock, clientId, mapDoneCalled, frames, irc, op,
                 lateJoins, quitHeard, sessions, quits>>

\* Mutant: frame_server is kept from the session before.
MapOkKeepsFrame ==
  /\ pc = "download" /\ (downloadDone \/ ~runCond)
  /\ \E raised \in SendRaises, callbackRaises \in BOOLEAN :
       /\ pc' = IF raised \/ callbackRaises THEN "cleanup" ELSE "main"
       /\ mapDoneCalled' = ~raised
       /\ frameCounter' = IF raised THEN frameCounter ELSE AckEvery - 1
       /\ frameServer' = frameServer
       /\ irc' = (irc \/ (Autojoin /\ ~raised /\ ~callbackRaises))
       /\ Hears(IF ~raised /\ srv = "mapsent" THEN "active" ELSE srv, s2c)
  /\ UNCHANGED <<sock, conds, people, downloadDone, op, hist>>

\* Mutant: the main loop sets runCond itself.
MapOkSetsRunCond ==
  /\ pc = "download" /\ (downloadDone \/ ~runCond)
  /\ \E raised \in SendRaises, callbackRaises \in BOOLEAN :
       /\ pc' = IF raised \/ callbackRaises THEN "cleanup" ELSE "main"
       /\ mapDoneCalled' = ~raised
       /\ frameCounter' = IF raised THEN frameCounter ELSE AckEvery - 1
       /\ frameServer' = IF raised THEN frameServer ELSE 0
       /\ irc' = (irc \/ (Autojoin /\ ~raised /\ ~callbackRaises))
       /\ Hears(IF ~raised /\ srv = "mapsent" THEN "active" ELSE srv, s2c)
  /\ runCond' = TRUE
  /\ UNCHANGED <<sock, reconnectCond, people, downloadDone, op, hist>>

\* The download loop is over, for whichever of its two reasons: MAP_OK, on_map_done
\* (one of whose callbacks may raise), and the IRC bot is started.
MapOk ==
  /\ pc = "download" /\ (downloadDone \/ ~runCond)
  /\ \E raised \in SendRaises, callbackRaises \in BOOLEAN :
       /\ pc' = IF raised \/ callbackRaises THEN "cleanup" ELSE "main"
       /\ mapDoneCalled' = ~raised
       /\ frameCounter' = IF raised THEN frameCounter ELSE AckEvery - 1
       /\ frameServer' = IF raised THEN frameServer ELSE 0
       /\ irc' = (irc \/ (Autojoin /\ ~raised /\ ~callbackRaises))
       /\ Hears(IF ~raised /\ srv = "mapsent" THEN "active" ELSE srv, s2c)
  /\ UNCHANGED <<sock, conds, people, downloadDone, op, hist>>

\* One turn of the main loop, for all but the chat commands; an on_mainloop callback may raise.
MainRecv ==
  /\ pc = "main" /\ runCond /\ s2c # <<>>
  /\ Head(s2c).op \notin Chats
  /\ HandlePacket(Head(s2c))
  /\ LET p    == Head(s2c)
         seen == IF p.op = "FRAME" THEN p.frame ELSE frameServer
         due  == frameCounter + (seen - frameServer) >= AckEvery
     IN /\ frameServer' = seen
        /\ \E raised \in SendRaises, callbackRaises \in BOOLEAN :
             /\ pc' = IF (due /\ raised) \/ callbackRaises THEN "cleanup" ELSE "main"
             /\ frameCounter' = IF due /\ ~raised THEN 0
                                ELSE frameCounter + (seen - frameServer)
             /\ IF due /\ ~raised THEN HearsAck(seen, Tail(s2c)) ELSE Hears(srv, Tail(s2c))
  /\ UNCHANGED <<sock, clientId, map, irc, op, lateJoins, quitHeard, sessions, quits>>

\* IngameChat and processCommand: the sender must be a known player and not the bot itself.
Obeyed(c) == c \in Clients /\ playerlist[c] # NoInfo /\ c # clientId /\ (~Productive \/ c = Host)

\* A chat packet leaves frameCounter below AckEvery (AckLagBounded): no ACK falls due here.
MainCommand ==
  /\ pc = "main" /\ runCond /\ s2c # <<>>
  /\ Head(s2c).op \in {"CHAT_LOADIRC", "CHAT_UNLOADIRC"}
  /\ LET obeyed == Obeyed(Head(s2c).cid)
         stops  == obeyed /\ irc /\ Head(s2c).op = "CHAT_UNLOADIRC"
     IN /\ irc' = (irc \/ (obeyed /\ Head(s2c).op = "CHAT_LOADIRC"))
        /\ pc' \in IF stops THEN {"unloading"} ELSE {"main", "cleanup"}
  /\ Hears(srv, Tail(s2c))
  /\ UNCHANGED <<sock, conds, people, map, frames, op, hist>>

\* The chat commands quit and reconnect: both send QUIT, quit gives up reconnecting first.
MainQuitCommand ==
  /\ pc = "main" /\ runCond /\ s2c # <<>>
  /\ Head(s2c).op \in {"CHAT_QUIT", "CHAT_RECONNECT"}
  /\ IF Obeyed(Head(s2c).cid)
     THEN /\ reconnectCond' = (reconnectCond /\ Head(s2c).op # "CHAT_QUIT")
          /\ quits' = quits + 1
          /\ \E raised \in SendRaises, callbackRaises \in BOOLEAN :
               /\ pc' = IF raised \/ callbackRaises THEN "cleanup" ELSE "main"
               /\ IF raised THEN Hears(srv, Tail(s2c)) /\ UNCHANGED quitHeard
                  ELSE /\ HearsQuit(Tail(s2c))
                       /\ HeardGivingUp(~reconnectCond \/ Head(s2c).op = "CHAT_QUIT")
     ELSE /\ pc' \in {"main", "cleanup"}
          /\ Hears(srv, Tail(s2c))
          /\ UNCHANGED <<reconnectCond, quitHeard, quits>>
  /\ UNCHANGED <<sock, runCond, people, map, frames, irc, op, finals, lateJoins, sessions>>

\* while self.runCond ends; stopIRC only when there is no reconnecting.
MainExit ==
  /\ pc = "main" /\ ~runCond
  /\ pc' = IF irc /\ ~reconnectCond THEN "leaving" ELSE "cleanup"
  /\ UNCHANGED <<sock, conds, people, map, frames, irc, op, server, hist>>

\* stopIRC returns, or raises before it forgets the bot (module IrcBot: the bot is still
\* starting).  It may also wait forever, so that no fairness is asked of this step.
StopIRC ==
  /\ pc \in Stopping
  /\ \E raised \in BOOLEAN :
       /\ irc' = (irc /\ raised)
       /\ pc' \in IF raised \/ pc = "leaving" THEN {"cleanup"} ELSE {"main", "cleanup"}
  /\ UNCHANGED <<sock, conds, people, map, frames, op, server, hist>>

-----------------------------------------------------------------------------
(* Another thread: the main thread on KeyboardInterrupt, or the IRC thread *)
(* for a command.  Its two writes interleave with the game thread.         *)

OpQuit ==
  /\ op = "idle" /\ quits < MaxQuits
  /\ op' = "quitting" /\ reconnectCond' = FALSE /\ quits' = quits + 1
  /\ UNCHANGED <<pc, sock, runCond, people, map, frames, irc, server,
                 finals, lateJoins, quitHeard, sessions>>

OpSends ==
  IF sock = "connected"
  THEN \E raised \in SendRaises :
         IF raised THEN UNCHANGED <<server, quitHeard>> ELSE HearsQuit(s2c) /\ HeardGivingUp(~reconnectCond)
  ELSE UNCHANGED <<server, quitHeard>>

OpQuitSend ==
  /\ op = "quitting" /\ op' = "idle"
  /\ OpSends
  /\ UNCHANGED <<game, finals, lateJoins, sessions, quits>>

OpReconnect ==
  /\ op = "idle" /\ quits < MaxQuits
  /\ quits' = quits + 1
  /\ OpSends
  /\ UNCHANGED <<game, op, finals, lateJoins, sessions>>

\* The command unloadirc on IRC: the IRC thread stops itself.
OpUnloadIRC ==
  /\ op = "idle" /\ irc
  /\ irc' = FALSE
  /\ UNCHANGED <<pc, sock, conds, people, map, frames, op, server, hist>>

-----------------------------------------------------------------------------
(* The server (external).                                                  *)

Room == link = "up" /\ Len(s2c) < MaxQueue

\* It sends p and goes to `next`, or closes the connection behind p.
Sends(p, next) ==
  /\ Room /\ s2c' = Append(s2c, p) /\ srv' = next
  /\ link' = IF next = "gone" THEN "fin" ELSE "up"
  /\ UNCHANGED <<game, op, srvAck, hist>>

SrvAnswersJoin ==
  /\ srv \in {"joining", "checked"}
  /\ \/ \E o \in {"FULL", "BANNED", "ERROR"} : Sends(Plain(o), "gone") /\ UNCHANGED assigned
     \/ Sends(Plain("NEED_PASSWORD"), "asked") /\ UNCHANGED assigned
     \/ srv = "joining" /\ Sends(Plain("CHECK_NEWGRFS"), "grfs") /\ UNCHANGED assigned
     \/ \E c \in Clients : Sends(About("WELCOME", c), "welcomed") /\ assigned' = c
  /\ UNCHANGED <<roster, frame>>

SrvMapEnd ==
  /\ srv = "getmap" /\ Sends(Plain("MAP_END"), "mapsent")
  /\ UNCHANGED <<assigned, roster, frame>>

SrvOther ==
  /\ Authorised /\ Sends(Plain("OTHER"), srv)
  /\ UNCHANGED <<assigned, roster, frame>>

SrvClientInfo == \E c \in Clients, i \in Infos :
  /\ Authorised /\ Sends(ClientInfo(c, i), srv)
  /\ roster' = [roster EXCEPT ![c] = i]
  /\ UNCHANGED <<assigned, frame>>

SrvClientJoins == \E c \in Clients :
  /\ Authorised /\ roster[c] # NoInfo /\ Sends(About("JOIN", c), srv)
  /\ UNCHANGED <<assigned, roster, frame>>

SrvClientLeaves == \E c \in Clients :
  /\ Authorised /\ roster[c] # NoInfo
  /\ \/ c # assigned /\ \E o \in {"QUIT", "ERROR_QUIT"} : Sends(About(o, c), srv)
     \/ c = assigned /\ Sends(About("ERROR_QUIT", c), "gone")
  /\ roster' = [roster EXCEPT ![c] = NoInfo]
  /\ UNCHANGED <<assigned, frame>>

SrvFrame ==
  /\ srv = "active"
  /\ frame' \in {frame + 1, frame + 2} /\ frame' <= MaxFrame
  /\ Sends(Frame(frame'), srv)
  /\ UNCHANGED <<assigned, roster>>

SrvChat == \E c \in Clients, o \in Chats :
  /\ srv = "active" /\ roster[c] # NoInfo /\ Sends(About(o, c), srv)
  /\ UNCHANGED <<assigned, roster, frame>>

SrvEnds == \E o \in Endings :
  /\ Authorised /\ Sends(Plain(o), "gone")
  /\ UNCHANGED <<assigned, roster, frame>>

\* The connection breaks: the server closes it, or it is reset (data on the way may be lost).
SrvBreaks ==
  /\ \/ link = "up" /\ link' \in {"fin", "rst"}
     \/ link = "fin" /\ link' = "rst"
  /\ srv' = "gone"
  /\ UNCHANGED <<game, op, s2c, assigned, roster, frame, srvAck, hist>>

-----------------------------------------------------------------------------
Init ==
  /\ pc = "loop" /\ sock = "none" /\ runCond = FALSE /\ reconnectCond = TRUE
  /\ playerlist = Nobody /\ clientId = NoClient
  /\ downloadDone = FALSE /\ mapDoneCalled = FALSE
  /\ frameCounter = 0 /\ frameServer = 0 /\ irc = FALSE /\ op = "idle"
  /\ srv = "gone" /\ link = "rst" /\ s2c = <<>> /\ assigned = NoClient
  /\ roster = Nobody /\ frame = 0 /\ srvAck = NoAck
  /\ verdicts = 0 /\ verdictsLost = 0 /\ lateJoins = 0 /\ quitHeard = FALSE /\ sessions = 0 /\ quits = 0

GameThread ==
  \/ LoopTest \/ ConnectOK \/ ConnectFails \/ GameInfo \/ SendJoin \/ Cleanup
  \/ Full \/ GiveUp \/ PasswordRaises \/ CheckNewGrfs \/ Welcome \/ HandshakeIgnores
  \/ ReceiveRaises \/ PacketCallbackRaises
  \/ DownloadRecv \/ MapOk \/ MainRecv \/ MainCommand \/ MainQuitCommand \/ MainExit
OpThread == OpQuit \/ OpQuitSend \/ OpReconnect \/ OpUnloadIRC
Server ==
  \/ SrvAnswersJoin \/ SrvMapEnd \/ SrvOther \/ SrvClientInfo \/ SrvClientJoins
  \/ SrvClientLeaves \/ SrvFrame \/ SrvChat \/ SrvEnds \/ SrvBreaks

Next == GameThread \/ StopIRC \/ OpThread \/ Server
Spec == Init /\ [][Next]_vars

\* A runnable thread is scheduled: recv returns what has arrived, a timeout fires, a sleep
\* ends.  Nothing is asked of the server, nor of the IRC bot that StopIRC waits for.
FairSpec == Spec /\ WF_vars(GameThread) /\ WF_vars(OpQuitSend)

-----------------------------------------------------------------------------
TypeOK ==
  /\ pc \in PCs /\ sock \in {"none", "open", "connected"}
  /\ runCond \in BOOLEAN /\ reconnectCond \in BOOLEAN
  /\ playerlist \in [Clients -> Infos \cup {NoInfo}] /\ clientId \in Clients \cup {NoClient}
  /\ downloadDone \in BOOLEAN /\ mapDoneCalled \in BOOLEAN
  /\ frameCounter \in Int /\ frameServer \in Nat /\ irc \in BOOLEAN
  /\ op \in {"idle", "quitting"}
  /\ srv \in SrvStates /\ link \in {"up", "fin", "rst"} /\ s2c \in Seq(Packet)
  /\ assigned \in Clients \cup {NoClient} /\ roster \in [Clients -> Infos \cup {NoInfo}]
  /\ frame \in Nat /\ srvAck \in Nat
  /\ verdicts \in Nat /\ verdictsLost \in Nat /\ lateJoins \in Nat /\ quitHeard \in BOOLEAN
  /\ sessions \in 0 .. MaxSessions /\ quits \in Nat

\* The packets under way that tell something of client c.
NewsOf(c) == {k \in 1 .. Len(s2c) : s2c[k].op \in News /\ s2c[k].cid = c}

\* From WELCOME to the end of the session, the playerlist shows a client exactly as the
\* server last described it, or not at all if the server said it left, unless a packet
\* about that client is still to be read: no entry survives a reconnect, none is lost
\* while the map is downloaded.
PlayerlistFaithful ==
  pc \in {"download", "main"} =>
    \A c \in Clients : NewsOf(c) = {} => playerlist[c] = roster[c]

\* Every frame the main loop has seen is acknowledged within AckEvery frames, the first one
\* of a session at once, whatever frame number the server (or the session before) was at.
AckLagBounded ==
  pc = "main" /\ link = "up" /\ frameServer > 0 =>
    srvAck # NoAck /\ frameServer - srvAck \in 0 .. AckEvery - 1

\* Every BANNED, SHUTDOWN, or call for a password it has not got, in whichever loop it is
\* read, keeps the client from joining again, but for those on which a callback raised before
\* the flags were cleared (ottd-client.py:285, :342-346): such a one is forgotten.
NoJoinAfterVerdict == verdicts > verdictsLost => pc \notin Connecting

\* quit() in another thread may come between run()'s test of reconnectCond and the JOIN; at
\* most that one JOIN is sent by a client that has given up.
AtMostOneLateJoin == lateJoins <= 1

\* on_map_done is called after the whole map, or in a session that is already over.
MapDoneExplained == pc = "main" /\ runCond => mapDoneCalled /\ downloadDone

\* What README.txt:87 says of on_map_done: "Called when the map download is done".
MapDoneMeansDownloaded == mapDoneCalled => downloadDone

\* What ottd-client.py:65 says of connect(): "retry to connect every 20 seconds".
ConnectIsRetried == reconnectCond => pc # "dead"

\* Once the server has heard the QUIT of a client that gives up reconnecting, the game
\* thread comes to its end, whatever was under way when it was sent, or waits for its IRC bot.
QuitCompletes == quitHeard ~> (pc = "ended" \/ pc \in Stopping)

\* A session that failed for any reason but a final verdict or a quit is followed by another
\* connection attempt.
SessionLossRetried == pc = "cleanup" ~> (pc = "connect" \/ verdicts > verdictsLost \/ quits > 0)

\* What ottd-client.py:69 says of run(): "fetch any fatal errors and try to reconnect to the
\* server", for a server that closes the connection.
HangupNoticed == (pc = "main" /\ link = "fin") ~> pc # "main"
=============================================================================
