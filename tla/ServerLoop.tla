----------------------------- MODULE ServerLoop -----------------------------
(***************************************************************************)
(* The select loop of openttd/server.py: BaseServer and its TCP client     *)
(* handlers, one thread over three lists of clients.  What a subclass      *)
(* overwrites (packetReceived, both send_data) is external: it sends       *)
(* nothing, answers its client, or broadcasts, and does not raise.  UDP    *)
(* changes none of the lists and is left out.                              *)
(***************************************************************************)
EXTENDS Naturals, SequencesExt

CONSTANTS
  Clients,    \* handlers, one for each connection ever accepted
  Nobody,
  Listener    \* server_tcp_sock, first in readsocks

ASSUME ClientsAssumption ==
  Nobody \notin Clients /\ Listener \notin Clients /\ Listener # Nobody /\ IsFiniteSet(Clients)

VARIABLES
  pc,          \* in accept(), or behind an exception that ended serve_forever()
  r, wi,       \* the ready sockets still to be read; the index of the write loop
  readsocks,   \* the clients in it, behind the listening socket
  writesocks, clients,
  open,        \* the handlers that are connected; the socket of any other is closed
  peer,        \* the other end (external): "away", "queued" (for accept), "up" or "gone"
  turn,        \* whose send_data was called last
  cut          \* a send for somebody else has closed a handler
lists == <<readsocks, writesocks, clients>>
serverVars == <<pc, r, wi, lists, open, peer, turn, cut>>

PCs == {"select", "reading", "writing", "select_failed", "remove_failed"}

\* Those whose sends fail.
Failing == {c \in ToSet(clients) \cap open : peer[c] = "gone"}

\* What a method that a subclass overwrites may do on behalf of c: every failing send closes
\* its handler.  An answer reaches c, a broadcast every client; broadcast_packet does not look
\* at what its sends have done.
Hook(c) == \E F \in SUBSET Failing :
  /\ open' = open \ F
  /\ cut' = (cut \/ ~(F \subseteq {c}))

Without(s, c) == RemoveAt(s, CHOOSE i \in 1 .. Len(s) : s[i] = c)

\* Mutant: the client stays in writesocks.
HandleClientQuitKeepsWriter(c, next) ==
  IF c \in ToSet(readsocks) /\ c \in ToSet(writesocks) /\ c \in ToSet(clients)
  THEN /\ readsocks' = Without(readsocks, c)
       /\ clients' = Without(clients, c)
       /\ pc' = next /\ UNCHANGED writesocks
  ELSE pc' = "remove_failed" /\ UNCHANGED lists

\* list.remove raises when the client is not in the list.
HandleClientQuit(c, next) ==
  IF c \in ToSet(readsocks) /\ c \in ToSet(writesocks) /\ c \in ToSet(clients)
  THEN /\ readsocks' = Without(readsocks, c)
       /\ writesocks' = Without(writesocks, c)
       /\ clients' = Without(clients, c)
       /\ pc' = next
  ELSE pc' = "remove_failed" /\ UNCHANGED lists

-----------------------------------------------------------------------------
(* accept(): select, one ready socket at a time, then one writer at a time *)

\* select raises on a closed socket.  A socket whose other end has gone is readable.  The
\* order of the ready ones is left open.
Select ==
  /\ pc = "select"
  /\ IF ToSet(readsocks) \subseteq open
     THEN \E R \in SUBSET (ToSet(readsocks) \cup {Listener}) :
            /\ \A c \in ToSet(readsocks) : peer[c] = "gone" => c \in R
            /\ Listener \in R <=> \E c \in Clients : peer[c] = "queued"
            /\ r' \in SetToSeqs(R)
            /\ pc' = "reading"
     ELSE pc' = "select_failed" /\ r' = <<>>
  /\ UNCHANGED <<wi, lists, open, peer, turn, cut>>

HandleTcpConnection ==
  /\ pc = "reading" /\ r # <<>> /\ Head(r) = Listener
  /\ \E c \in Clients :
       /\ peer[c] = "queued" /\ peer' = [peer EXCEPT ![c] = "up"]
       /\ readsocks' = Append(readsocks, c)
       /\ writesocks' = Append(writesocks, c)
       /\ clients' = Append(clients, c)
       /\ open' = open \cup {c}
  /\ r' = Tail(r)
  /\ UNCHANGED <<pc, wi, turn, cut>>

\* Mutant: a handler is only taken for gone when recv says so.
RecvDataQuitsOnEnd ==
  /\ pc = "reading" /\ r # <<>> /\ Head(r) # Listener
  /\ LET s == Head(r) IN
       \/ s \in open /\ Hook(s) /\ UNCHANGED <<pc, lists>>
       \/ /\ s \in open => peer[s] = "gone"
          /\ open' = open \ {s} /\ HandleClientQuit(s, pc) /\ UNCHANGED cut
  /\ r' = Tail(r)
  /\ UNCHANGED <<wi, peer, turn>>

\* Mutant: the loop does not move on behind a client it has removed.
RecvDataRepeats ==
  /\ pc = "reading" /\ r # <<>> /\ Head(r) # Listener
  /\ LET s == Head(r) IN
       /\ \/ s \in open /\ Hook(s)
          \/ (s \in open => peer[s] = "gone") /\ open' = open \ {s} /\ UNCHANGED cut
       /\ IF s \in open' THEN UNCHANGED <<pc, lists>> /\ r' = Tail(r)
          ELSE HandleClientQuit(s, pc) /\ r' = r
  /\ UNCHANGED <<wi, peer, turn>>

\* recv_data of the next ready handler: packets and what the subclass does with them, or an
\* error or the end; a handler that is closed then, by whichever of its calls, is removed.
RecvData ==
  /\ pc = "reading" /\ r # <<>> /\ Head(r) # Listener
  /\ LET s == Head(r) IN
       /\ \/ s \in open /\ Hook(s)
          \/ (s \in open => peer[s] = "gone") /\ open' = open \ {s} /\ UNCHANGED cut
       /\ IF s \in open' THEN UNCHANGED <<pc, lists>> ELSE HandleClientQuit(s, pc)
  /\ r' = Tail(r)
  /\ UNCHANGED <<wi, peer, turn>>

\* Mutant: the write loop starts in front of the first client.
ReadDoneFromZero ==
  /\ pc = "reading" /\ r = <<>>
  /\ pc' = "writing" /\ wi' = 0
  /\ UNCHANGED <<r, lists, open, peer, turn, cut>>

ReadDone ==
  /\ pc = "reading" /\ r = <<>>
  /\ pc' = "writing" /\ wi' = 1
  /\ UNCHANGED <<r, lists, open, peer, turn, cut>>

\* Mutant: the index moves on for the client and for its turn.
SendDataSkips ==
  /\ pc = "writing" /\ wi <= Len(writesocks)
  /\ LET s == writesocks[wi] IN
       IF s \in open
       THEN /\ Hook(s) /\ turn' = s
            /\ IF s \in open' THEN UNCHANGED <<pc, lists>> ELSE HandleClientQuit(s, pc)
       ELSE UNCHANGED <<pc, lists, open, turn, cut>>
  /\ wi' = wi + 2
  /\ UNCHANGED <<r, peer>>

\* send_data of the next handler in writesocks.  The loop runs over the list it removes
\* from: the index moves on all the same, and the client behind a removed one is passed over.
SendData ==
  /\ pc = "writing" /\ wi <= Len(writesocks)
  /\ LET s == writesocks[wi] IN
       IF s \in open
       THEN /\ Hook(s) /\ turn' = s
            /\ IF s \in open' THEN UNCHANGED <<pc, lists>> ELSE HandleClientQuit(s, pc)
       ELSE UNCHANGED <<pc, lists, open, turn, cut>>
  /\ wi' = wi + 1
  /\ UNCHANGED <<r, peer>>

\* The write loop is over; the server's own send_data.
ServerSendData ==
  /\ pc = "writing" /\ wi > Len(writesocks)
  /\ Hook(Nobody) /\ turn' = Nobody
  /\ pc' = "select"
  /\ UNCHANGED <<r, wi, lists, peer>>

-----------------------------------------------------------------------------
(* The other ends (external).                                              *)

PeerConnects == \E c \in Clients :
  /\ peer[c] = "away" /\ peer' = [peer EXCEPT ![c] = "queued"]
  /\ UNCHANGED <<pc, r, wi, lists, open, turn, cut>>

PeerLeaves == \E c \in Clients :
  /\ peer[c] = "up" /\ peer' = [peer EXCEPT ![c] = "gone"]
  /\ UNCHANGED <<pc, r, wi, lists, open, turn, cut>>

-----------------------------------------------------------------------------
ServerInit ==
  /\ pc = "select" /\ r = <<>> /\ wi = 1
  /\ readsocks = <<>> /\ writesocks = <<>> /\ clients = <<>>
  /\ open = {} /\ peer = [c \in Clients |-> "away"] /\ turn = Nobody /\ cut = FALSE

Serve == Select \/ HandleTcpConnection \/ RecvData \/ ReadDone \/ SendData \/ ServerSendData
ServerNext == Serve \/ PeerConnects \/ PeerLeaves
ServerSpec == ServerInit /\ [][ServerNext]_serverVars

\* The loop runs: select comes back after a tenth of a second at the latest.
FairServer == ServerSpec /\ WF_serverVars(Serve)

-----------------------------------------------------------------------------
ServerTypeOK ==
  /\ pc \in PCs
  /\ r \in Seq(Clients \cup {Listener}) /\ wi \in Nat \ {0}
  /\ readsocks \in Seq(Clients) /\ writesocks \in Seq(Clients) /\ clients \in Seq(Clients)
  /\ open \in SUBSET Clients
  /\ peer \in [Clients -> {"away", "queued", "up", "gone"}]
  /\ turn \in Clients \cup {Nobody} /\ cut \in BOOLEAN

NoTwice(s) == \A i, j \in 1 .. Len(s) : s[i] = s[j] => i = j

\* The three lists always hold the same clients in the same order, each of them once, and
\* every connected one, whichever of the two loops removes a client and whatever happens to
\* the rest of the list while it runs.
ListsAgree ==
  /\ readsocks = clients /\ writesocks = clients /\ NoTwice(clients)
  /\ open \subseteq ToSet(clients)

\* No client is removed twice (ValueError out of serve_forever), although a broadcast may
\* close a client that is ready in the same round, or due in the write loop.
NoDoubleQuit == pc # "remove_failed"

\* Only a send on behalf of somebody else leaves a closed handler in readsocks: a server
\* whose handlers send to their own client alone never dies in select.
SelectFailsOnlyByBroadcast == pc = "select_failed" => cut

\* A connected client comes to its turn to send, however many others quit in front of it
\* and make the write loop pass it over.
ServedAgain == \A c \in Clients :
  c \in open ~> (turn = c \/ c \notin open \/ pc = "select_failed")

\* What openttd/server.py:130 says of serve_forever(): "Main loop, loops forever".
LoopsForever == pc # "select_failed"
=============================================================================
