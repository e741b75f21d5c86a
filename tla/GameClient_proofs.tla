-------------------------- MODULE GameClient_proofs --------------------------
(***************************************************************************)
(* What is proved of GameClient, for every value of its constants.         *)
(***************************************************************************)
EXTENDS GameClient, TLAPS

USE ClientsAssumption, InfosAssumption, AckAssumption, FlagsAssumption, BoundsAssumption

LEMMA PacketFields ==
  ASSUME NEW p \in Packet
  PROVE  /\ p.op \in Ops /\ p.cid \in Clients \cup {NoClient}
         /\ p.info \in Infos \cup {NoInfo} /\ p.frame \in Nat
  BY DEF Packet

\* The packets the server builds.
LEMMA PacketTypes ==
  /\ \A o \in Ops : Plain(o) \in Packet
  /\ \A o \in Ops, c \in Clients \cup {NoClient} : About(o, c) \in Packet
  /\ \A c \in Clients, i \in Infos : ClientInfo(c, i) \in Packet
  /\ \A n \in Nat : Frame(n) \in Packet
  <1>1. {"CLIENT_INFO", "FRAME"} \subseteq Ops  BY DEF Ops, Membership
  <1>2. QED  BY <1>1 DEF Packet, Plain, About, ClientInfo, Frame

LEMMA ReadTypes ==
  ASSUME TypeOK, s2c # <<>>
  PROVE  Head(s2c) \in Packet /\ Tail(s2c) \in Seq(Packet)
  BY DEF TypeOK

\* TypeOK of the variables that hearing a message may change.
ServerTypeOK ==
  /\ srv \in SrvStates /\ link \in {"up", "fin", "rst"} /\ s2c \in Seq(Packet)
  /\ assigned \in Clients \cup {NoClient} /\ roster \in [Clients -> Infos \cup {NoInfo}]
  /\ frame \in Nat /\ srvAck \in Nat

LEMMA HearsType ==
  ASSUME ServerTypeOK, NEW next \in SrvStates, NEW rest \in Seq(Packet), Hears(next, rest)
  PROVE  ServerTypeOK'
  BY DEF ServerTypeOK, Hears

LEMMA HearsAckType ==
  ASSUME ServerTypeOK, NEW n \in Nat, NEW rest \in Seq(Packet), HearsAck(n, rest)
  PROVE  ServerTypeOK'
  BY DEF ServerTypeOK, HearsAck

LEMMA HearsQuitType ==
  ASSUME ServerTypeOK, NEW rest \in Seq(Packet), HearsQuit(rest)
  PROVE  ServerTypeOK'
  <1>1. About("QUIT", assigned) \in Packet  BY PacketTypes DEF ServerTypeOK, Ops, Membership
  <1>2. "gone" \in SrvStates  BY DEF SrvStates
  <1>3. QED  BY <1>1, <1>2, SMTT(30) DEF ServerTypeOK, HearsQuit

LEMMA SendsType ==
  ASSUME ServerTypeOK, NEW p \in Packet, NEW next \in SrvStates, Sends(p, next)
  PROVE  srv' \in SrvStates /\ link' \in {"up", "fin", "rst"} /\ s2c' \in Seq(Packet)
         /\ srvAck' \in Nat /\ UNCHANGED <<game, op, hist>>
  BY DEF ServerTypeOK, Sends, Room

LEMMA ReadsFinalType ==
  ASSUME TypeOK, NEW p, NEW lost \in BOOLEAN, ReadsFinal(p, lost)
  PROVE  verdicts' \in Nat /\ verdictsLost' \in Nat
  BY DEF ReadsFinal, TypeOK

LEMMA HandlePacketType ==
  ASSUME TypeOK, NEW p \in Packet, HandlePacket(p)
  PROVE  /\ playerlist' \in [Clients -> Infos \cup {NoInfo}]
         /\ runCond' \in BOOLEAN /\ reconnectCond' \in BOOLEAN /\ verdicts' \in Nat /\ verdictsLost' \in Nat
  <1>1. \A c \in Clients : Tells(p) \in Infos \cup {NoInfo} /\ playerlist[c] \in Infos \cup {NoInfo}
    BY PacketFields DEF Tells, TypeOK
  <1>2. playerlist' \in [Clients -> Infos \cup {NoInfo}]  BY <1>1 DEF HandlePacket
  <1>3. verdicts' \in Nat /\ verdictsLost' \in Nat  BY ReadsFinalType DEF HandlePacket
  <1>4. QED  BY <1>2, <1>3 DEF HandlePacket, TypeOK

\* The initial state is well typed, and every step keeps the types.
LEMMA TypeStep == TypeOK /\ [Next]_vars => TypeOK'
  <1> SUFFICES ASSUME TypeOK, [Next]_vars PROVE TypeOK'  OBVIOUS
  <1> USE DEF PCs, Connecting, InSession, Stopping
  <1>s. ServerTypeOK  BY DEF TypeOK, ServerTypeOK
  <1>n. Nobody \in [Clients -> Infos \cup {NoInfo}] /\ NoAck \in Nat  BY DEF Nobody, NoAck
  <1>g. {"gone", "accepted", "joining", "checked", "getmap", "active", "mapsent"} \subseteq SrvStates
    BY DEF SrvStates
  <1>1. CASE LoopTest  BY <1>1 DEF LoopTest, TypeOK, conds, people, map, frames, server, hist, finals
  <1>2. CASE ConnectOK
    BY <1>2, <1>n, <1>g DEF ConnectOK, TypeOK, conds, people, map, frames, finals
  <1>3. CASE ConnectFails  BY <1>3 DEF ConnectFails, TypeOK, conds, people, map, frames, server, hist, finals
  <1>4. CASE GameInfo  BY <1>4 DEF GameInfo, TypeOK, conds, people, map, frames, server, hist, finals
  <1>5. CASE SendJoin
    <2>1. ServerTypeOK'  BY <1>5, <1>s, <1>g, HearsType DEF SendJoin, TypeOK
    <2>2. QED  BY <1>5, <2>1 DEF SendJoin, ServerTypeOK, TypeOK, people, map, frames, finals
  <1>6. CASE Cleanup
    BY <1>6, <1>n, <1>g DEF Cleanup, TypeOK, conds, map, frames, hist, finals
  <1>7. CASE Full
    <2>1. ServerTypeOK'  BY <1>7, <1>s, ReadTypes, HearsType DEF Full, Reads, TypeOK
    <2>2. QED  BY <1>7, <2>1 DEF Full, ServerTypeOK, TypeOK, people, map, frames, hist, finals
  <1>8. CASE GiveUp
    <2>1. ServerTypeOK'  BY <1>8, <1>s, ReadTypes, HearsType DEF GiveUp, Reads, TypeOK
    <2>2. verdicts' \in Nat /\ verdictsLost' \in Nat  BY <1>8, ReadsFinalType DEF GiveUp
    <2>3. QED  BY <1>8, <2>1, <2>2 DEF GiveUp, ServerTypeOK, TypeOK, people, map, frames
  <1>9. CASE PasswordRaises
    <2>1. ServerTypeOK'  BY <1>9, <1>s, ReadTypes, HearsType DEF PasswordRaises, Reads, TypeOK
    <2>2. QED  BY <1>9, <2>1 DEF PasswordRaises, ServerTypeOK, TypeOK, conds, people, map, frames, hist, finals
  <1>10. CASE CheckNewGrfs
    <2>1. ServerTypeOK'  BY <1>10, <1>s, <1>g, ReadTypes, HearsType DEF CheckNewGrfs, Reads, TypeOK
    <2>2. QED  BY <1>10, <2>1 DEF CheckNewGrfs, ServerTypeOK, TypeOK, conds, people, map, frames, hist, finals
  <1>11. CASE Welcome
    <2>1. ServerTypeOK'  BY <1>11, <1>s, <1>g, ReadTypes, HearsType DEF Welcome, Reads, TypeOK
    <2>2. Head(s2c).cid \in Clients \cup {NoClient}  BY <1>11, ReadTypes, PacketFields DEF Welcome, Reads
    <2>3. QED  BY <1>11, <2>1, <2>2 DEF Welcome, ServerTypeOK, TypeOK, conds, frames, hist, finals
  <1>12. CASE HandshakeIgnores
    <2>1. ServerTypeOK'  BY <1>12, <1>s, ReadTypes, HearsType DEF HandshakeIgnores, TypeOK
    <2>2. verdicts' \in Nat /\ verdictsLost' \in Nat  BY <1>12, ReadsFinalType DEF HandshakeIgnores
    <2>3. QED
      BY <1>12, <2>1, <2>2 DEF HandshakeIgnores, ServerTypeOK, TypeOK, game, conds, people, map, frames
  <1>13. CASE ReceiveRaises
    BY <1>13 DEF ReceiveRaises, TypeOK, conds, people, map, frames, server, hist, finals
  <1>14. CASE PacketCallbackRaises
    <2>1. ServerTypeOK'  BY <1>14, <1>s, ReadTypes, HearsType DEF PacketCallbackRaises, TypeOK
    <2>2. verdicts' \in Nat /\ verdictsLost' \in Nat  BY <1>14, ReadsFinalType DEF PacketCallbackRaises
    <2>3. QED
      BY <1>14, <2>1, <2>2 DEF PacketCallbackRaises, ServerTypeOK, TypeOK, conds, people, map, frames
  <1>15. CASE DownloadRecv
    <2>1. ServerTypeOK'  BY <1>15, <1>s, ReadTypes, HearsType DEF DownloadRecv, TypeOK
    <2>2. /\ playerlist' \in [Clients -> Infos \cup {NoInfo}]
          /\ runCond' \in BOOLEAN /\ reconnectCond' \in BOOLEAN /\ verdicts' \in Nat /\ verdictsLost' \in Nat
      BY <1>15, ReadTypes, HandlePacketType DEF DownloadRecv
    <2>3. QED  BY <1>15, <2>1, <2>2 DEF DownloadRecv, ServerTypeOK, TypeOK, frames
  <1>16. CASE MapOk
    <2>1. ServerTypeOK'  BY <1>16, <1>s, <1>g, HearsType DEF MapOk, TypeOK
    <2>2. QED  BY <1>16, <2>1 DEF MapOk, ServerTypeOK, TypeOK, conds, people, hist, finals
  <1>17. CASE MainRecv
    <2> DEFINE seen == IF Head(s2c).op = "FRAME" THEN Head(s2c).frame ELSE frameServer
    <2>1. seen \in Nat  BY <1>17, ReadTypes, PacketFields DEF MainRecv, TypeOK
    <2>2. frameServer' = seen  BY <1>17 DEF MainRecv
    <2>3. ServerTypeOK'
      BY <1>17, <1>s, <2>1, ReadTypes, HearsType, HearsAckType DEF MainRecv, TypeOK
    <2>4. pc' \in PCs /\ frameCounter' \in Int
      BY <1>17, <2>1 DEF MainRecv, TypeOK
    <2>5. /\ playerlist' \in [Clients -> Infos \cup {NoInfo}]
          /\ runCond' \in BOOLEAN /\ reconnectCond' \in BOOLEAN /\ verdicts' \in Nat /\ verdictsLost' \in Nat
      BY <1>17, ReadTypes, HandlePacketType DEF MainRecv
    <2>6. UNCHANGED <<sock, clientId, map, irc, op, lateJoins, quitHeard, sessions, quits>>
      BY <1>17 DEF MainRecv
    <2>7. QED  BY <2>1, <2>2, <2>3, <2>4, <2>5, <2>6 DEF ServerTypeOK, TypeOK, map
  <1>18. CASE MainCommand
    <2>1. ServerTypeOK'  BY <1>18, <1>s, ReadTypes, HearsType DEF MainCommand, TypeOK
    <2>2. QED  BY <1>18, <2>1 DEF MainCommand, ServerTypeOK, TypeOK, conds, people, map, frames, hist, finals
  <1>19. CASE MainQuitCommand
    <2>1. ServerTypeOK'
      BY <1>19, <1>s, ReadTypes, HearsType, HearsQuitType DEF MainQuitCommand, TypeOK
    <2>a. quits' = quits \/ quits' = quits + 1  BY <1>19 DEF MainQuitCommand
    <2>b. quits' \in Nat  BY <2>a DEF TypeOK
    <2>c. pc' \in {"main", "cleanup"}  BY <1>19 DEF MainQuitCommand
    <2>d. reconnectCond' \in BOOLEAN  BY <1>19 DEF MainQuitCommand, TypeOK
    <2>e. quitHeard' \in BOOLEAN  BY <1>19 DEF MainQuitCommand, HeardGivingUp, TypeOK
    <2>2. quits' \in Nat /\ quitHeard' \in BOOLEAN /\ reconnectCond' \in BOOLEAN /\ pc' \in PCs
      BY <2>b, <2>c, <2>d, <2>e
    <2>3. UNCHANGED <<sock, runCond, people, map, frames, irc, op, finals, lateJoins, sessions>>
      BY <1>19 DEF MainQuitCommand
    <2>4. QED  BY <2>1, <2>2, <2>3 DEF ServerTypeOK, TypeOK, people, map, frames, finals
  <1>20. CASE MainExit
    BY <1>20 DEF MainExit, TypeOK, conds, people, map, frames, server, hist, finals
  <1>21. CASE OpQuit
    <2>a. reconnectCond' \in BOOLEAN  BY <1>21, Zenon DEF OpQuit
    <2>b. quits' \in Nat /\ op' \in {"idle", "quitting"}  BY <1>21 DEF OpQuit, TypeOK
    <2>1. quits' \in Nat /\ op' \in {"idle", "quitting"} /\ reconnectCond' \in BOOLEAN
      BY <2>a, <2>b
    <2>2. UNCHANGED <<pc, sock, runCond, people, map, frames, irc, server,
                      finals, lateJoins, quitHeard, sessions>>
      BY <1>21 DEF OpQuit
    <2>3. QED  BY <2>1, <2>2 DEF TypeOK, people, map, frames, finals, server
  <1>22. CASE OpSends /\ UNCHANGED <<game, lateJoins, finals, sessions>>
              /\ quits' \in Nat /\ op' \in {"idle", "quitting"}
    <2>1. ServerTypeOK'  BY <1>22, <1>s, HearsQuitType DEF OpSends, TypeOK, server, ServerTypeOK
    <2>2. quitHeard' \in BOOLEAN  BY <1>22 DEF OpSends, TypeOK, HeardGivingUp, Authorised
    <2>3. QED
      BY <1>22, <2>1, <2>2 DEF ServerTypeOK, TypeOK, game, conds, people, map, frames, finals
  <1>23. CASE OpQuitSend  BY <1>22, <1>23 DEF OpQuitSend, TypeOK
  <1>24. CASE OpReconnect  BY <1>22, <1>24 DEF OpReconnect, TypeOK
  <1>b. CASE StopIRC  BY <1>b DEF StopIRC, TypeOK, conds, people, map, frames, server, hist, finals
  <1>c. CASE OpUnloadIRC
    <2>1. irc' \in BOOLEAN  BY <1>c, Zenon DEF OpUnloadIRC
    <2>2. QED  BY <1>c, <2>1 DEF OpUnloadIRC, TypeOK, conds, people, map, frames, server, hist, finals
  <1>25. CASE Server
    <2>1. (\E p \in Packet, next \in SrvStates : Sends(p, next)) \/ SrvBreaks
      <3> USE <1>25 DEF Authorised, SrvStates, Ops, Verdicts, Membership, Chats, Endings, Server
      <3>1. CASE SrvAnswersJoin  BY <3>1, PacketTypes DEF SrvAnswersJoin
      <3>2. CASE SrvMapEnd  BY <3>2, PacketTypes DEF SrvMapEnd
      <3>3. CASE SrvOther  BY <3>3, PacketTypes DEF SrvOther
      <3>4. CASE SrvClientInfo  BY <3>4, PacketTypes DEF SrvClientInfo
      <3>5. CASE SrvClientJoins  BY <3>5, PacketTypes DEF SrvClientJoins
      <3>6. CASE SrvClientLeaves  BY <3>6, PacketTypes DEF SrvClientLeaves
      <3>7. CASE SrvFrame  BY <3>7, PacketTypes DEF SrvFrame, TypeOK
      <3>8. CASE SrvChat  BY <3>8, PacketTypes DEF SrvChat
      <3>9. CASE SrvEnds  BY <3>9, PacketTypes DEF SrvEnds
      <3>10. QED  BY <3>1, <3>2, <3>3, <3>4, <3>5, <3>6, <3>7, <3>8, <3>9
    <2>2. /\ srv' \in SrvStates /\ link' \in {"up", "fin", "rst"} /\ s2c' \in Seq(Packet)
          /\ srvAck' \in Nat /\ UNCHANGED <<game, op, hist>>
      BY <2>1, <1>s, <1>g, SendsType DEF SrvBreaks, ServerTypeOK
    <2>3. assigned' \in Clients \cup {NoClient} /\ roster' \in [Clients -> Infos \cup {NoInfo}]
      BY <1>25 DEF Server, SrvAnswersJoin, SrvMapEnd, SrvOther, SrvClientInfo, SrvClientJoins,
                   SrvClientLeaves, SrvFrame, SrvChat, SrvEnds, SrvBreaks, TypeOK
    <2>4. frame' \in Nat
      BY <1>25 DEF Server, SrvAnswersJoin, SrvMapEnd, SrvOther, SrvClientInfo, SrvClientJoins,
                   SrvClientLeaves, SrvFrame, SrvChat, SrvEnds, SrvBreaks, TypeOK
    <2>5. QED  BY <2>2, <2>3, <2>4 DEF TypeOK, game, conds, people, map, frames, hist, finals
  <1>26. CASE UNCHANGED vars
    BY <1>26 DEF TypeOK, vars, game, conds, people, map, frames, server, hist, finals
  <1>27. QED
    BY <1>1, <1>2, <1>3, <1>4, <1>5, <1>6, <1>7, <1>8, <1>9, <1>10, <1>11, <1>12, <1>13, <1>14,
       <1>15, <1>16, <1>17, <1>18, <1>19, <1>20, <1>21, <1>23, <1>24, <1>25, <1>26, <1>b, <1>c
    DEF Next, GameThread, OpThread

\* The variables keep their types, whatever the server sends and whenever it hangs up.
THEOREM TypeCorrect == Spec => []TypeOK
  <1>1. Init => TypeOK
    <2> SUFFICES ASSUME Init PROVE TypeOK  OBVIOUS
    <2>1. Nobody \in [Clients -> Infos \cup {NoInfo}] /\ NoAck \in Nat  BY DEF Nobody, NoAck
    <2>2. <<>> \in Seq(Packet)  OBVIOUS
    <2>3. 0 \in 0 .. MaxSessions  OBVIOUS
    <2>4. pc \in PCs /\ sock \in {"none", "open", "connected"}  BY DEF Init, PCs, Connecting, InSession, Stopping
    <2>5. srv \in SrvStates /\ link \in {"up", "fin", "rst"} /\ op \in {"idle", "quitting"}
      BY DEF Init, SrvStates
    <2>6. /\ runCond \in BOOLEAN /\ reconnectCond \in BOOLEAN /\ irc \in BOOLEAN
          /\ downloadDone \in BOOLEAN /\ mapDoneCalled \in BOOLEAN
          /\ quitHeard \in BOOLEAN
      BY Zenon DEF Init
    <2>7. frameCounter \in Int /\ {frameServer, frame, lateJoins, quits, verdicts, verdictsLost} \subseteq Nat  BY DEF Init
    <2>8. QED  BY <2>1, <2>2, <2>3, <2>4, <2>5, <2>6, <2>7 DEF Init, TypeOK
  <1>2. QED  BY <1>1, TypeStep, PTL DEF Spec

-----------------------------------------------------------------------------
(* The server's steps leave the game thread alone.                         *)

LEMMA ServerLeavesGame ==
  ASSUME Server
  PROVE  UNCHANGED <<game, op, hist>>
  BY DEF Server, Sends, SrvAnswersJoin, SrvMapEnd, SrvOther, SrvClientInfo, SrvClientJoins,
         SrvClientLeaves, SrvFrame, SrvChat, SrvEnds, SrvBreaks

-----------------------------------------------------------------------------
(* The playerlist.  Match(q, c, i, r): reading the packets q turns the     *)
(* entry i of client c into r.                                             *)

IsNews(p, c) == p.op \in News /\ p.cid = c
Silent(q, c) == \A k \in 1 .. Len(q) : ~IsNews(q[k], c)
LastTells(q, c, r) == \E k \in 1 .. Len(q) :
  /\ IsNews(q[k], c) /\ Tells(q[k]) = r
  /\ \A j \in k + 1 .. Len(q) : ~IsNews(q[j], c)
Match(q, c, i, r) == (Silent(q, c) /\ i = r) \/ LastTells(q, c, r)

LEMMA MatchRead ==
  ASSUME NEW q \in Seq(Packet), q # <<>>, NEW c, NEW i, NEW r, Match(q, c, i, r)
  PROVE  Match(Tail(q), c, IF IsNews(Head(q), c) THEN Tells(Head(q)) ELSE i, r)
  <1>1. /\ Len(Tail(q)) = Len(q) - 1 /\ Len(q) \in Nat /\ Len(q) >= 1 /\ Head(q) = q[1]
        /\ \A k \in 1 .. Len(q) - 1 : Tail(q)[k] = q[k + 1]
    OBVIOUS
  <1>2. CASE Silent(q, c) /\ i = r
    <2>1. ~IsNews(Head(q), c)  BY <1>1, <1>2 DEF Silent
    <2>2. Silent(Tail(q), c)  BY <1>1, <1>2 DEF Silent
    <2>3. QED  BY <1>2, <2>1, <2>2 DEF Match
  <1>3. CASE LastTells(q, c, r)
    <2>1. PICK k \in 1 .. Len(q) :
            /\ IsNews(q[k], c) /\ Tells(q[k]) = r
            /\ \A j \in k + 1 .. Len(q) : ~IsNews(q[j], c)
      BY <1>3 DEF LastTells
    <2>2. CASE k = 1
      <3>1. Silent(Tail(q), c)  BY <1>1, <2>1, <2>2 DEF Silent
      <3>2. IsNews(Head(q), c) /\ Tells(Head(q)) = r  BY <1>1, <2>1, <2>2
      <3>3. QED  BY <3>1, <3>2 DEF Match
    <2>3. CASE k # 1
      <3>1. k - 1 \in 1 .. Len(Tail(q)) /\ Tail(q)[k - 1] = q[k]  BY <1>1, <2>3
      <3>2. \A j \in (k - 1) + 1 .. Len(Tail(q)) : ~IsNews(Tail(q)[j], c)  BY <1>1, <2>1
      <3>3. LastTells(Tail(q), c, r)  BY <2>1, <3>1, <3>2 DEF LastTells
      <3>4. QED  BY <3>3 DEF Match
    <2>4. QED  BY <2>2, <2>3
  <1>4. QED  BY <1>2, <1>3 DEF Match

LEMMA MatchAppend ==
  ASSUME NEW q \in Seq(Packet), NEW p \in Packet, NEW c, NEW i, NEW r, Match(q, c, i, r)
  PROVE  Match(Append(q, p), c, i, IF IsNews(p, c) THEN Tells(p) ELSE r)
  <1>1. /\ Len(Append(q, p)) = Len(q) + 1 /\ Len(q) \in Nat
        /\ \A k \in 1 .. Len(q) : Append(q, p)[k] = q[k]
        /\ Append(q, p)[Len(q) + 1] = p
    OBVIOUS
  <1>2. CASE IsNews(p, c)
    <2>1. LastTells(Append(q, p), c, Tells(p))  BY <1>1, <1>2 DEF LastTells
    <2>2. QED  BY <1>2, <2>1 DEF Match
  <1>3. CASE ~IsNews(p, c) /\ Silent(q, c) /\ i = r
    <2>1. Silent(Append(q, p), c)  BY <1>1, <1>3 DEF Silent
    <2>2. QED  BY <1>3, <2>1 DEF Match
  <1>4. CASE ~IsNews(p, c) /\ LastTells(q, c, r)
    <2>1. PICK k \in 1 .. Len(q) :
            /\ IsNews(q[k], c) /\ Tells(q[k]) = r
            /\ \A j \in k + 1 .. Len(q) : ~IsNews(q[j], c)
      BY <1>4 DEF LastTells
    <2>2. \A j \in k + 1 .. Len(Append(q, p)) : ~IsNews(Append(q, p)[j], c)
      BY <1>1, <1>4, <2>1
    <2>3. LastTells(Append(q, p), c, r)  BY <1>1, <2>1, <2>2 DEF LastTells
    <2>4. QED  BY <1>4, <2>3 DEF Match
  <1>5. QED  BY <1>2, <1>3, <1>4 DEF Match

\* In the handshake nothing is told before WELCOME, and it is still to be read; nor does the
\* server shut down before.
Later == News \cup {"SHUTDOWN"}
HasWelcome(q) == \E j \in 1 .. Len(q) : q[j].op = "WELCOME"
LaterAfterWelcome(q) == \A k \in 1 .. Len(q) :
  q[k].op \in Later => \E j \in 1 .. k - 1 : q[j].op = "WELCOME"

LEMMA WelcomeRead ==
  ASSUME NEW q \in Seq(Packet), q # <<>>, Head(q).op # "WELCOME", LaterAfterWelcome(q)
  PROVE  /\ Head(q).op \notin Later /\ LaterAfterWelcome(Tail(q))
         /\ HasWelcome(q) => HasWelcome(Tail(q))
  <1>1. /\ Len(Tail(q)) = Len(q) - 1 /\ Len(q) \in Nat /\ Len(q) >= 1 /\ Head(q) = q[1]
        /\ \A k \in 1 .. Len(q) - 1 : Tail(q)[k] = q[k + 1]
    OBVIOUS
  <1>2. Head(q).op \notin Later  BY <1>1 DEF LaterAfterWelcome
  <1>3. ASSUME NEW k \in 1 .. Len(Tail(q)), Tail(q)[k].op \in Later
        PROVE  \E j \in 1 .. k - 1 : Tail(q)[j].op = "WELCOME"
    <2>1. PICK j \in 1 .. (k + 1) - 1 : q[j].op = "WELCOME"  BY <1>1, <1>3 DEF LaterAfterWelcome
    <2>2. j # 1  BY <1>1, <2>1
    <2>3. j - 1 \in 1 .. k - 1 /\ Tail(q)[j - 1] = q[j]  BY <1>1, <2>1, <2>2
    <2>4. QED  BY <2>1, <2>3
  <1>4. ASSUME HasWelcome(q) PROVE HasWelcome(Tail(q))
    <2>1. PICK j \in 1 .. Len(q) : q[j].op = "WELCOME"  BY <1>4 DEF HasWelcome
    <2>2. j # 1  BY <1>1, <2>1
    <2>3. j - 1 \in 1 .. Len(Tail(q)) /\ Tail(q)[j - 1] = q[j]  BY <1>1, <2>1, <2>2
    <2>4. QED  BY <2>1, <2>3 DEF HasWelcome
  <1>5. QED  BY <1>2, <1>3, <1>4 DEF LaterAfterWelcome

LEMMA WelcomeAppend ==
  ASSUME NEW q \in Seq(Packet), NEW p \in Packet, LaterAfterWelcome(q),
         p.op \in Later => HasWelcome(q)
  PROVE  /\ LaterAfterWelcome(Append(q, p))
         /\ HasWelcome(q) \/ p.op = "WELCOME" => HasWelcome(Append(q, p))
  <1>1. /\ Len(Append(q, p)) = Len(q) + 1 /\ Len(q) \in Nat
        /\ \A k \in 1 .. Len(q) : Append(q, p)[k] = q[k]
        /\ Append(q, p)[Len(q) + 1] = p
    OBVIOUS
  <1>2. ASSUME NEW k \in 1 .. Len(q) + 1, Append(q, p)[k].op \in Later
        PROVE  \E j \in 1 .. k - 1 : Append(q, p)[j].op = "WELCOME"
    <2>1. CASE k = Len(q) + 1  BY <1>1, <1>2, <2>1 DEF HasWelcome
    <2>2. CASE k # Len(q) + 1
      <3>1. k \in 1 .. Len(q)  BY <1>1, <2>2
      <3>2. PICK j \in 1 .. k - 1 : q[j].op = "WELCOME"  BY <1>1, <1>2, <3>1 DEF LaterAfterWelcome
      <3>3. j \in 1 .. Len(q)  BY <1>1, <3>1, <3>2
      <3>4. QED  BY <1>1, <3>2, <3>3
    <2>3. QED  BY <2>1, <2>2
  <1>3. HasWelcome(q) \/ p.op = "WELCOME" => HasWelcome(Append(q, p))  BY <1>1 DEF HasWelcome
  <1>4. QED  BY <1>1, <1>2, <1>3 DEF LaterAfterWelcome

-----------------------------------------------------------------------------
(* The map: MapDoneExplained is inductive once it speaks of unloadirc too, *)
(* which comes back to the main loop.                                      *)

MapDoneInv == pc \in {"main", "unloading"} /\ runCond => mapDoneCalled /\ downloadDone

LEMMA MapDoneStep == MapDoneInv /\ [Next]_vars => MapDoneInv'
  <1> SUFFICES ASSUME MapDoneInv, [Next]_vars, pc' \in {"main", "unloading"}, runCond'
      PROVE  mapDoneCalled' /\ downloadDone'
    BY DEF MapDoneInv
  <1> USE DEF MapDoneInv
  <1>1. CASE LoopTest \/ ConnectOK \/ ConnectFails \/ GameInfo \/ SendJoin \/ Cleanup
    BY <1>1 DEF LoopTest, ConnectOK, ConnectFails, GameInfo, SendJoin, Cleanup
  <1>2. CASE \/ Full \/ GiveUp \/ PasswordRaises \/ CheckNewGrfs \/ Welcome \/ HandshakeIgnores
             \/ ReceiveRaises \/ PacketCallbackRaises
    BY <1>2 DEF Full, GiveUp, PasswordRaises, CheckNewGrfs, Welcome, HandshakeIgnores,
                ReceiveRaises, PacketCallbackRaises, game
  <1>3. CASE DownloadRecv  BY <1>3 DEF DownloadRecv
  <1>4. CASE MapOk  BY <1>4 DEF MapOk, conds
  <1>5. CASE MainRecv
    <2>1. pc = "main" /\ runCond /\ UNCHANGED map  BY <1>5 DEF MainRecv
    <2>2. QED  BY <2>1 DEF map
  <1>6. CASE MainCommand \/ MainQuitCommand \/ MainExit
    <2>1. pc = "main" /\ UNCHANGED <<runCond, map>>
      BY <1>6 DEF MainCommand, MainQuitCommand, MainExit, conds
    <2>2. QED  BY <2>1 DEF map
  <1>b. CASE StopIRC  BY <1>b DEF StopIRC, Stopping, conds, map
  <1>7. CASE OpThread
    BY <1>7 DEF OpThread, OpQuit, OpQuitSend, OpReconnect, OpUnloadIRC, game, conds, map
  <1>8. CASE Server  BY <1>8, ServerLeavesGame DEF game, conds, map
  <1>9. CASE UNCHANGED vars  BY <1>9 DEF vars, game, conds, map
  <1>10. QED
    BY <1>1, <1>2, <1>3, <1>4, <1>5, <1>6, <1>7, <1>8, <1>9, <1>b DEF Next, GameThread

\* on_map_done without the whole map only in a session that has already been left.
THEOREM MapDone == Spec => []MapDoneExplained
  <1>1. Init => MapDoneInv  BY DEF Init, MapDoneInv
  <1>2. MapDoneInv => MapDoneExplained  BY DEF MapDoneInv, MapDoneExplained
  <1>3. QED  BY <1>1, <1>2, MapDoneStep, PTL DEF Spec

-----------------------------------------------------------------------------
(* The server, and a QUIT it hears, put at most one packet behind `rest`,  *)
(* and tell what they do to the roster.                                    *)

Extends(rest) ==
  \/ s2c' = rest /\ roster' = roster /\ (Authorised' => Authorised)
  \/ \E p \in Packet :
       /\ s2c' = Append(rest, p)
       /\ \A c \in Clients : roster'[c] = IF IsNews(p, c) THEN Tells(p) ELSE roster[c]
       /\ p.op \in Later => Authorised
       /\ Authorised' => Authorised \/ p.op = "WELCOME"

LEMMA HearsQuitExtends ==
  ASSUME TypeOK, NEW rest \in Seq(Packet), HearsQuit(rest)
  PROVE  Extends(rest) /\ srv' \in {srv, "gone"}
  <1> DEFINE q == About("QUIT", assigned)
  <1>1. q \in Packet  BY PacketTypes DEF TypeOK, Ops, Membership
  <1>2. q.op = "QUIT" /\ q.cid = assigned  BY DEF About
  <1>3. CASE link = "up" /\ Authorised
    <2>1. s2c' = Append(rest, q) /\ roster' = [roster EXCEPT ![assigned] = NoInfo] /\ srv' = "gone"
      BY <1>3 DEF HearsQuit
    <2>2. \A c \in Clients : roster'[c] = IF IsNews(q, c) THEN Tells(q) ELSE roster[c]
      BY <1>2, <2>1 DEF TypeOK, IsNews, Tells, News
    <2>3. QED  BY <1>1, <1>3, <2>1, <2>2 DEF Extends, Authorised
  <1>4. CASE ~(link = "up" /\ Authorised)
    <2>1. s2c' = rest /\ roster' = roster /\ srv' \in {srv, "gone"}  BY <1>4 DEF HearsQuit
    <2>2. QED  BY <2>1 DEF Extends, Authorised
  <1>5. QED  BY <1>3, <1>4

\* A packet that tells nothing of the members.
LEMMA SilentSend ==
  ASSUME TypeOK, NEW p \in Packet, NEW next, Sends(p, next), p.op \notin News, p.op = "SHUTDOWN" => Authorised,
         UNCHANGED roster, next \in {"gone", "asked", "grfs", srv} \/ Authorised \/ p.op = "WELCOME"
  PROVE  Extends(s2c)
  BY DEF Sends, Extends, IsNews, Authorised, Later

LEMMA ServerExtends ==
  ASSUME TypeOK, Server
  PROVE  /\ Extends(s2c)
         /\ srv \in {"accepted", "gone"} => UNCHANGED <<s2c, roster>> /\ srv' = "gone"
         /\ link = "rst" => UNCHANGED server
  <1> USE DEF Authorised, Sends, Room
  <1>o. /\ \A o \in Ops : Plain(o) \in Packet /\ Plain(o).op = o
        /\ \A o \in Ops, c \in Clients : About(o, c) \in Packet /\ About(o, c).op = o /\ About(o, c).cid = c
        /\ \A n \in Nat : Frame(n) \in Packet /\ Frame(n).op = "FRAME"
        /\ \A c \in Clients, i \in Infos : /\ ClientInfo(c, i) \in Packet
                                           /\ ClientInfo(c, i).op = "CLIENT_INFO"
                                           /\ ClientInfo(c, i).cid = c /\ ClientInfo(c, i).info = i
    BY PacketTypes DEF Plain, About, Frame, ClientInfo
  <1>p. Ops = Verdicts \cup Membership \cup Chats \cup Endings \cup {"WELCOME", "MAP_END", "FRAME", "OTHER"}
    BY DEF Ops
  <1>n. Verdicts \cap News = {} /\ Chats \cap News = {} /\ Endings \cap News = {}
    BY DEF Verdicts, Chats, Endings, News
  <1>1. CASE SrvAnswersJoin
    <2>1. UNCHANGED roster  BY <1>1 DEF SrvAnswersJoin
    <2>2. \E p \in Packet : /\ p.op \notin News \cup {"SHUTDOWN"}
                            /\ \E next \in {"gone", "asked", "grfs"} : Sends(p, next)
                               \/ (p.op = "WELCOME" /\ Sends(p, "welcomed"))
      BY <1>1, <1>o, <1>p, <1>n DEF SrvAnswersJoin, Verdicts, Endings, News
    <2>3. Extends(s2c)  BY <2>1, <2>2, SilentSend
    <2>4. QED  BY <1>1, <2>3 DEF SrvAnswersJoin
  <1>2. CASE SrvMapEnd \/ SrvOther \/ SrvFrame \/ SrvChat \/ SrvEnds
    <2>1. Authorised /\ UNCHANGED roster /\ link = "up"
      BY <1>2 DEF SrvMapEnd, SrvOther, SrvFrame, SrvChat, SrvEnds
    <2>2. frame + 1 \in Nat /\ frame + 2 \in Nat  BY DEF TypeOK
    <2>3. \E p \in Packet, next \in SrvStates : p.op \notin News /\ Sends(p, next)
      <3> USE <1>o, <1>p, <1>n DEF News, SrvStates
      <3>1. CASE SrvMapEnd \/ SrvOther  BY <3>1 DEF SrvMapEnd, SrvOther
      <3>2. CASE SrvFrame
        <4>1. frame' \in Nat /\ Sends(Frame(frame'), srv) /\ srv \in SrvStates
          BY <2>2, <3>2 DEF SrvFrame, TypeOK
        <4>2. QED  BY <4>1
      <3>3. CASE SrvChat
        <4>1. PICK c \in Clients, o \in Chats : Sends(About(o, c), srv)  BY <3>3 DEF SrvChat
        <4>2. About(o, c) \in Packet /\ About(o, c).op \notin News  OBVIOUS
        <4>3. QED  BY <4>1, <4>2 DEF TypeOK
      <3>4. CASE SrvEnds
        <4>1. PICK o \in Endings : Sends(Plain(o), "gone")  BY <3>4 DEF SrvEnds
        <4>2. Plain(o) \in Packet /\ Plain(o).op \notin News  OBVIOUS
        <4>3. QED  BY <4>1, <4>2
      <3>5. QED  BY <1>2, <3>1, <3>2, <3>3, <3>4
    <2>4. QED  BY <2>1, <2>3, SilentSend
  <1>3. CASE SrvClientInfo
    <2>1. PICK c \in Clients, i \in Infos :
            Sends(ClientInfo(c, i), srv) /\ roster' = [roster EXCEPT ![c] = i]
      BY <1>3 DEF SrvClientInfo
    <2>2. \A d \in Clients : roster'[d] = IF IsNews(ClientInfo(c, i), d)
                                          THEN Tells(ClientInfo(c, i)) ELSE roster[d]
      BY <2>1, <1>o DEF IsNews, Tells, News, TypeOK
    <2>3. Authorised /\ link = "up"  BY <1>3 DEF SrvClientInfo
    <2>4. QED  BY <1>o, <2>1, <2>2, <2>3 DEF Extends
  <1>4. CASE SrvClientJoins
    <2>1. PICK c \in Clients : Sends(About("JOIN", c), srv)  BY <1>4 DEF SrvClientJoins
    <2>2. About("JOIN", c) \in Packet /\ About("JOIN", c).op \notin News
      BY <1>o, <1>p DEF Membership, News
    <2>3. Authorised /\ UNCHANGED roster /\ link = "up"  BY <1>4 DEF SrvClientJoins
    <2>4. QED  BY <2>1, <2>2, <2>3, SilentSend
  <1>5. CASE SrvClientLeaves
    <2>1. PICK c \in Clients :
            /\ \E o \in {"QUIT", "ERROR_QUIT"}, next \in {srv, "gone"} : Sends(About(o, c), next)
            /\ roster' = [roster EXCEPT ![c] = NoInfo]
      BY <1>5 DEF SrvClientLeaves
    <2>2. PICK o \in {"QUIT", "ERROR_QUIT"}, next \in {srv, "gone"} : Sends(About(o, c), next)
      BY <2>1
    <2>3. /\ About(o, c) \in Packet /\ About(o, c).op \in News /\ About(o, c).cid = c
          /\ About(o, c).op # "CLIENT_INFO"
      BY <1>o, <1>p DEF Membership, News
    <2>4. \A d \in Clients : roster'[d] = IF IsNews(About(o, c), d) THEN Tells(About(o, c)) ELSE roster[d]
      BY <2>1, <2>3 DEF IsNews, Tells, TypeOK
    <2>5. Authorised /\ link = "up"  BY <1>5 DEF SrvClientLeaves
    <2>6. QED  BY <2>2, <2>3, <2>4, <2>5 DEF Extends
  <1>6. CASE SrvBreaks  BY <1>6 DEF SrvBreaks, Extends
  <1>7. QED  BY <1>1, <1>2, <1>3, <1>4, <1>5, <1>6 DEF Server

-----------------------------------------------------------------------------
(* PlayerlistFaithful.  The strengthening says of each stage of a session  *)
(* what is on the way: nothing before the handshake, nothing of the        *)
(* members before WELCOME, and from then on what turns the playerlist into *)
(* the server's roster.                                                    *)

Quiet == pc \in {"loop", "ended", "dead", "connect"} =>
           link = "rst" /\ s2c = <<>> /\ srv = "gone" /\ playerlist = Nobody
Fresh == pc \in {"info", "join"} =>
           /\ s2c = <<>> /\ srv \in {"accepted", "gone"}
           /\ playerlist = Nobody /\ roster = Nobody
Hand  == pc = "handshake" => LaterAfterWelcome(s2c) /\ (Authorised => HasWelcome(s2c))
Told  == pc \in InSession \cup {"unloading"} => \A c \in Clients : Match(s2c, c, playerlist[c], roster[c])
FaithInv == Quiet /\ Fresh /\ Hand /\ Told

\* Packets put behind `rest` keep what is on the way in step with the roster.
LEMMA ExtendsMatch ==
  ASSUME NEW rest \in Seq(Packet), Extends(rest), NEW c \in Clients, NEW i,
         Match(rest, c, i, roster[c])
  PROVE  Match(s2c', c, i, roster'[c])
  BY MatchAppend DEF Extends

LEMMA ExtendsWelcome ==
  ASSUME NEW rest \in Seq(Packet), Extends(rest), LaterAfterWelcome(rest),
         Authorised => HasWelcome(rest)
  PROVE  LaterAfterWelcome(s2c') /\ (Authorised' => HasWelcome(s2c'))
  BY WelcomeAppend DEF Extends

\* Other threads' sends and the server, which leave the game thread where it is.
LEMMA FaithOthers ==
  ASSUME TypeOK, FaithInv, Extends(s2c), UNCHANGED <<pc, playerlist>>,
         srv \in {"accepted", "gone"} => s2c' = s2c /\ roster' = roster /\ srv' \in {srv, "gone"},
         link = "rst" => link' = "rst"
  PROVE  FaithInv'
  <1>1. s2c \in Seq(Packet)  BY DEF TypeOK
  <1>2. Quiet'  BY DEF FaithInv, Quiet
  <1>3. Fresh'  BY DEF FaithInv, Fresh
  <1>4. Hand'  BY <1>1, ExtendsWelcome DEF FaithInv, Hand
  <1>5. Told'  BY <1>1, ExtendsMatch DEF FaithInv, Told
  <1>6. QED  BY <1>2, <1>3, <1>4, <1>5 DEF FaithInv

\* The game thread reads one packet in a session and stays in it, or leaves it.
LEMMA FaithReads ==
  ASSUME TypeOK, FaithInv, s2c # <<>>, pc \in InSession, pc' \in {"download", "main", "unloading", "cleanup"},
         Extends(Tail(s2c)),
         \A c \in Clients : playerlist'[c] = IF IsNews(Head(s2c), c) THEN Tells(Head(s2c))
                                             ELSE playerlist[c]
  PROVE  FaithInv'
  <1>1. Quiet' /\ Fresh' /\ Hand'  BY DEF Quiet, Fresh, Hand
  <1>2. ASSUME NEW c \in Clients PROVE Match(s2c', c, playerlist'[c], roster'[c])
    <2>1. Match(s2c, c, playerlist[c], roster[c])  BY DEF FaithInv, Told
    <2>2. s2c \in Seq(Packet) /\ Tail(s2c) \in Seq(Packet)  BY ReadTypes DEF TypeOK
    <2>3. Match(Tail(s2c), c, playerlist'[c], roster[c])  BY <2>1, <2>2, MatchRead
    <2>4. QED  BY <2>2, <2>3, ExtendsMatch
  <1>3. QED  BY <1>1, <1>2 DEF FaithInv, Told

LEMMA HandlePacketReads ==
  ASSUME NEW p \in Packet, HandlePacket(p)
  PROVE  \A c \in Clients : playerlist'[c] = IF IsNews(p, c) THEN Tells(p) ELSE playerlist[c]
  BY DEF HandlePacket, IsNews

LEMMA HearsExtends ==
  ASSUME NEW next, NEW rest, Hears(next, rest),
         next = srv \/ next \in {"joining", "checked"} \/ (srv = "mapsent" /\ next = "active")
  PROVE  Extends(rest)
  BY DEF Hears, Extends, Authorised

LEMMA FaithStep == TypeOK /\ FaithInv /\ [Next]_vars => FaithInv'
  <1> SUFFICES ASSUME TypeOK, FaithInv, [Next]_vars PROVE FaithInv'  OBVIOUS
  <1>s. s2c \in Seq(Packet) /\ (s2c # <<>> => Head(s2c) \in Packet /\ Tail(s2c) \in Seq(Packet))
    BY ReadTypes DEF TypeOK
  <1>d. pc' = "cleanup" => FaithInv'
    BY DEF FaithInv, Quiet, Fresh, Hand, Told, InSession
  <1>1. CASE LoopTest
    BY <1>1 DEF LoopTest, FaithInv, Quiet, Fresh, Hand, Told, InSession, people, server
  <1>2. CASE ConnectOK
    BY <1>2 DEF ConnectOK, FaithInv, Quiet, Fresh, Hand, Told, InSession, people
  <1>3. CASE ConnectFails
    BY <1>3 DEF ConnectFails, FaithInv, Quiet, Fresh, Hand, Told, InSession, people, server
  <1>4. CASE GameInfo
    BY <1>4 DEF GameInfo, FaithInv, Quiet, Fresh, Hand, Told, InSession, people, server
  <1>5. CASE SendJoin
    <2>1. SUFFICES ASSUME pc' = "handshake" PROVE FaithInv'  BY <1>5, <1>d DEF SendJoin
    <2>2. /\ s2c' = <<>> /\ roster' = Nobody /\ playerlist' = Nobody
          /\ srv' \in {"joining", "accepted", "gone"}
      BY <1>5 DEF SendJoin, Hears, FaithInv, Fresh, people
    <2>3. LaterAfterWelcome(<<>>)  BY DEF LaterAfterWelcome
    <2>4. \A c \in Clients : Match(<<>>, c, NoInfo, NoInfo)  BY DEF Match, Silent
    <2>5. QED
      BY <2>1, <2>2, <2>3, <2>4
      DEF FaithInv, Quiet, Fresh, Hand, Told, InSession, Authorised, Nobody
  <1>6. CASE Cleanup
    BY <1>6 DEF Cleanup, FaithInv, Quiet, Fresh, Hand, Told, InSession
  <1>7. CASE Full \/ GiveUp \/ PasswordRaises \/ ReceiveRaises \/ PacketCallbackRaises
    BY <1>7, <1>d DEF Full, GiveUp, PasswordRaises, ReceiveRaises, PacketCallbackRaises
  <1>8. CASE (CheckNewGrfs \/ HandshakeIgnores) /\ pc' = "handshake"
    <2>1. /\ pc = "handshake" /\ s2c # <<>> /\ Head(s2c).op # "WELCOME"
          /\ UNCHANGED playerlist
      BY <1>8 DEF CheckNewGrfs, HandshakeIgnores, Reads, game, people
    <2>2. Extends(Tail(s2c))  BY <1>8, HearsExtends DEF CheckNewGrfs, HandshakeIgnores
    <2>3. Head(s2c).op \notin News /\ LaterAfterWelcome(Tail(s2c)) /\ (Authorised => HasWelcome(Tail(s2c)))
      BY <1>s, <2>1, WelcomeRead DEF FaithInv, Hand, Later
    <2>4. Hand'  BY <1>s, <2>1, <2>2, <2>3, ExtendsWelcome DEF Hand
    <2>5. \A c \in Clients : Match(Tail(s2c), c, playerlist[c], roster[c])
      BY <1>s, <2>1, <2>3, MatchRead DEF FaithInv, Told, IsNews, InSession
    <2>6. Told'  BY <1>s, <2>1, <2>2, <2>5, ExtendsMatch DEF Told
    <2>7. QED  BY <1>8, <2>4, <2>6 DEF FaithInv, Quiet, Fresh
  <1>9. CASE Welcome /\ pc' = "download"
    <2>1. /\ pc = "handshake" /\ s2c # <<>> /\ Head(s2c).op = "WELCOME"
          /\ s2c' = Tail(s2c) /\ UNCHANGED <<playerlist, roster>>
      BY <1>9 DEF Welcome, Reads, Hears
    <2>2. \A c \in Clients : ~IsNews(Head(s2c), c)  BY <2>1 DEF IsNews, News
    <2>3. \A c \in Clients : Match(Tail(s2c), c, playerlist[c], roster[c])
      BY <1>s, <2>1, <2>2, MatchRead DEF FaithInv, Told, InSession
    <2>4. QED  BY <1>9, <2>1, <2>3 DEF FaithInv, Quiet, Fresh, Hand, Told
  <1>10. CASE DownloadRecv
    <2>1. pc = "download" /\ UNCHANGED pc /\ s2c # <<>>  BY <1>10 DEF DownloadRecv
    <2>2. Extends(Tail(s2c))  BY <1>10, HearsExtends DEF DownloadRecv
    <2>3. HandlePacket(Head(s2c))  BY <1>10 DEF DownloadRecv
    <2>4. QED  BY <1>s, <2>1, <2>2, <2>3, FaithReads, HandlePacketReads DEF InSession
  <1>11. CASE MapOk
    <2>1. pc = "download" /\ pc' \in {"main", "cleanup"} /\ UNCHANGED playerlist
      BY <1>11 DEF MapOk, people
    <2>2. s2c' = s2c /\ UNCHANGED roster  BY <1>11 DEF MapOk, Hears
    <2>3. QED  BY <2>1, <2>2 DEF FaithInv, Quiet, Fresh, Hand, Told, InSession
  <1>12. CASE MainRecv
    <2>1. pc = "main" /\ pc' \in {"main", "cleanup"} /\ s2c # <<>>  BY <1>12 DEF MainRecv
    <2>2. s2c' = Tail(s2c) /\ roster' = roster /\ srv' = srv
      BY <1>12 DEF MainRecv, Hears, HearsAck
    <2>3. Extends(Tail(s2c))  BY <2>2 DEF Extends, Authorised
    <2>4. HandlePacket(Head(s2c))  BY <1>12 DEF MainRecv
    <2>5. QED  BY <1>s, <2>1, <2>3, <2>4, FaithReads, HandlePacketReads DEF InSession
  <1>13. CASE MainCommand \/ MainQuitCommand
    <2>1. /\ pc = "main" /\ pc' \in {"main", "unloading", "cleanup"} /\ s2c # <<>> /\ UNCHANGED playerlist
          /\ Head(s2c).op \notin News
      BY <1>13 DEF MainCommand, MainQuitCommand, people, News
    <2>2. Hears(srv, Tail(s2c)) \/ HearsQuit(Tail(s2c))  BY <1>13 DEF MainCommand, MainQuitCommand
    <2>3. Extends(Tail(s2c))  BY <1>s, <2>1, <2>2, HearsExtends, HearsQuitExtends
    <2>4. QED  BY <2>1, <2>3, FaithReads DEF IsNews, InSession
  <1>14. CASE MainExit
    <2>1. pc' \in {"leaving", "cleanup"}  BY <1>14 DEF MainExit
    <2>2. QED  BY <2>1 DEF FaithInv, Quiet, Fresh, Hand, Told, InSession
  <1>b. CASE StopIRC
    <2>1. /\ pc = "leaving" \/ pc = "unloading"
          /\ pc' = "cleanup" \/ (pc = "unloading" /\ pc' = "main")
          /\ UNCHANGED <<s2c, roster, playerlist>>
      BY <1>b DEF StopIRC, Stopping, people, server
    <2>2. QED  BY <2>1 DEF FaithInv, Quiet, Fresh, Hand, Told, InSession
  <1>15. CASE OpSends /\ UNCHANGED game
    <2>1. \/ UNCHANGED server
          \/ HearsQuit(s2c)
      BY <1>15 DEF OpSends
    <2>2. /\ Extends(s2c) /\ srv' \in {srv, "gone"} /\ (link = "rst" => link' = "rst")
          /\ (srv \in {"accepted", "gone"} => s2c' = s2c /\ roster' = roster)
      <3>1. CASE UNCHANGED server  BY <3>1 DEF server, Extends, Authorised
      <3>2. CASE HearsQuit(s2c)
        BY <1>s, <3>2, HearsQuitExtends DEF HearsQuit, Authorised
      <3>3. QED  BY <2>1, <3>1, <3>2
    <2>3. QED  BY <1>15, <2>2, FaithOthers DEF game, people
  <1>16. CASE OpThread
    <2>1. CASE OpQuit
      BY <2>1 DEF OpQuit, FaithInv, Quiet, Fresh, Hand, Told, Authorised, people, server
    <2>2. CASE OpQuitSend \/ OpReconnect  BY <1>15, <2>2 DEF OpQuitSend, OpReconnect
    <2>3. CASE OpUnloadIRC
      BY <2>3 DEF OpUnloadIRC, FaithInv, Quiet, Fresh, Hand, Told, Authorised, people, server
    <2>4. QED  BY <1>16, <2>1, <2>2, <2>3 DEF OpThread
  <1>17. CASE Server
    <2>1. UNCHANGED <<pc, playerlist>>  BY <1>17, ServerLeavesGame DEF game, people
    <2>2. QED  BY <1>17, <2>1, ServerExtends, FaithOthers DEF server
  <1>18. CASE UNCHANGED vars
    BY <1>18 DEF vars, game, people, server, FaithInv, Quiet, Fresh, Hand, Told, Authorised
  <1>19. (CheckNewGrfs \/ HandshakeIgnores \/ Welcome) => pc' \in {"handshake", "cleanup", "download"}
    BY DEF CheckNewGrfs, HandshakeIgnores, Welcome, game
  <1>20. CheckNewGrfs \/ HandshakeIgnores => pc' # "download"
    BY DEF CheckNewGrfs, HandshakeIgnores, game
  <1>21. Welcome => pc' # "handshake"  BY DEF Welcome
  <1>22. QED
    BY <1>d, <1>1, <1>2, <1>3, <1>4, <1>5, <1>6, <1>7, <1>8, <1>9, <1>10, <1>11, <1>12, <1>13, <1>14,
       <1>16, <1>17, <1>18, <1>19, <1>20, <1>21, <1>b DEF Next, GameThread

\* The playerlist agrees with what the server told, up to the packets under way, over any
\* number of sessions and however joins, departures and errors follow each other.
THEOREM PlayerlistIsFaithful == Spec => []PlayerlistFaithful
  <1>1. Init => FaithInv
    BY DEF Init, FaithInv, Quiet, Fresh, Hand, Told, InSession
  <1>2. TypeOK /\ FaithInv => PlayerlistFaithful
    <2> SUFFICES ASSUME FaithInv, pc \in {"download", "main"}, NEW c \in Clients, NewsOf(c) = {}
        PROVE  playerlist[c] = roster[c]
      BY DEF PlayerlistFaithful
    <2>1. Match(s2c, c, playerlist[c], roster[c])  BY DEF FaithInv, Told, InSession
    <2>2. \A k \in 1 .. Len(s2c) : ~IsNews(s2c[k], c)  BY DEF NewsOf, IsNews
    <2>3. QED  BY <2>1, <2>2 DEF Match, LastTells
  <1>3. QED  BY <1>1, <1>2, FaithStep, TypeCorrect, PTL DEF Spec

-----------------------------------------------------------------------------
(* The handshake is stop and wait: an answer of the server to JOIN is read *)
(* alone, and none comes behind WELCOME.                                   *)

Waiting == {"accepted", "joining", "checked"}
Mapping == {"download", "main", "unloading"}
NoVerdict(q) == \A k \in 1 .. Len(q) : q[k].op \notin Verdicts
AnswerInv ==
  /\ pc = "handshake" => /\ srv \in Waiting => s2c = <<>>
                         /\ NoVerdict(s2c) \/ (Len(s2c) = 1 /\ ~Authorised)
  /\ pc \in Mapping => NoVerdict(s2c) /\ srv \notin Waiting

\* What the server, and a send of the client that is no answer of the handshake, may do: a
\* packet is put behind `rest` by a server that has been asked, or to an authorised client.
Behind(rest) ==
  \/ s2c' = rest /\ (Authorised' => Authorised) /\ (srv' \in Waiting => srv \in Waiting)
  \/ \E p \in Packet :
       /\ s2c' = Append(rest, p) /\ srv' \notin Waiting
       /\ Authorised \/ srv \in Waiting
       /\ p.op \in Verdicts => srv \in Waiting /\ ~Authorised'

LEMMA ServerBehind ==
  ASSUME TypeOK, Server
  PROVE  Behind(s2c)
  <1> USE DEF Authorised, Sends, Room, Waiting
  <1>o. /\ \A o \in Ops : Plain(o) \in Packet /\ Plain(o).op = o
        /\ \A o \in Ops, c \in Clients : About(o, c) \in Packet /\ About(o, c).op = o
        /\ \A c \in Clients, i \in Infos : ClientInfo(c, i) \in Packet /\ ClientInfo(c, i).op \notin Verdicts
        /\ \A n \in Nat : Frame(n) \in Packet /\ Frame(n).op \notin Verdicts
    BY PacketTypes DEF Plain, About, ClientInfo, Frame, Verdicts
  <1>p. /\ Verdicts \subseteq Ops /\ Membership \subseteq Ops /\ Chats \subseteq Ops /\ Endings \subseteq Ops
        /\ {"WELCOME", "MAP_END", "OTHER"} \subseteq Ops \ Verdicts
        /\ (Membership \cup Chats \cup Endings) \cap Verdicts = {}
    BY DEF Ops, Verdicts, Membership, Chats, Endings
  <1>1. CASE SrvBreaks  BY <1>1 DEF SrvBreaks, Behind
  <1>2. CASE SrvAnswersJoin
    <2>1. \E p \in Packet, next \in {"gone", "asked", "grfs", "welcomed"} :
            Sends(p, next) /\ (p.op \in Verdicts => next # "welcomed")
      <3>1. {"FULL", "BANNED", "ERROR", "NEED_PASSWORD", "CHECK_NEWGRFS"} \subseteq Ops
        BY <1>p DEF Verdicts, Endings
      <3>2. QED  BY <1>2, <1>o, <1>p, <3>1 DEF SrvAnswersJoin
    <2>2. srv \in {"joining", "checked"}  BY <1>2 DEF SrvAnswersJoin
    <2>3. QED  BY <2>1, <2>2 DEF Behind
  <1>3. CASE \/ SrvMapEnd \/ SrvOther \/ SrvClientInfo \/ SrvClientJoins
             \/ SrvClientLeaves \/ SrvFrame \/ SrvChat \/ SrvEnds
    <2>1. Authorised  BY <1>3 DEF SrvMapEnd, SrvOther, SrvClientInfo, SrvClientJoins,
                                   SrvClientLeaves, SrvFrame, SrvChat, SrvEnds
    <2>2. \E p \in Packet, next \in {srv, "mapsent", "gone"} : p.op \notin Verdicts /\ Sends(p, next)
      <3>1. CASE SrvMapEnd \/ SrvOther  BY <1>o, <1>p, <3>1 DEF SrvMapEnd, SrvOther
      <3>2. CASE SrvClientInfo  BY <1>o, <3>2 DEF SrvClientInfo
      <3>3. CASE SrvClientJoins
        <4>1. "JOIN" \in Ops \ Verdicts  BY <1>p DEF Membership
        <4>2. QED  BY <1>o, <3>3, <4>1 DEF SrvClientJoins
      <3>4. CASE SrvClientLeaves
        <4>1. {"QUIT", "ERROR_QUIT"} \subseteq Ops \ Verdicts  BY <1>p DEF Membership
        <4>2. PICK c \in Clients, o \in {"QUIT", "ERROR_QUIT"}, next \in {srv, "gone"} :
                Sends(About(o, c), next)
          BY <3>4 DEF SrvClientLeaves
        <4>3. About(o, c) \in Packet /\ About(o, c).op \notin Verdicts  BY <1>o, <4>1
        <4>4. QED  BY <4>2, <4>3
      <3>5. CASE SrvFrame
        <4>1. frame' \in Nat /\ Sends(Frame(frame'), srv)  BY <3>5 DEF SrvFrame, TypeOK
        <4>2. QED  BY <1>o, <4>1
      <3>6. CASE SrvChat
        <4>1. PICK c \in Clients, o \in Chats : Sends(About(o, c), srv)  BY <3>6 DEF SrvChat
        <4>2. About(o, c) \in Packet /\ About(o, c).op \notin Verdicts  BY <1>o, <1>p
        <4>3. QED  BY <4>1, <4>2
      <3>7. CASE SrvEnds
        <4>1. PICK o \in Endings : Sends(Plain(o), "gone")  BY <3>7 DEF SrvEnds
        <4>2. Plain(o) \in Packet /\ Plain(o).op \notin Verdicts  BY <1>o, <1>p
        <4>3. QED  BY <4>1, <4>2
      <3>8. QED  BY <1>3, <3>1, <3>2, <3>3, <3>4, <3>5, <3>6, <3>7
    <2>3. QED  BY <2>1, <2>2 DEF Behind
  <1>4. QED  BY <1>1, <1>2, <1>3 DEF Server

LEMMA HearsBehind ==
  ASSUME TypeOK, NEW rest, HearsQuit(rest) \/ Hears(srv, rest) \/ (Hears("active", rest) /\ srv = "mapsent")
  PROVE  Behind(rest)
  <1>1. About("QUIT", assigned) \in Packet /\ About("QUIT", assigned).op \notin Verdicts
    BY PacketTypes DEF About, TypeOK, Ops, Membership, Verdicts
  <1>2. CASE HearsQuit(rest)  BY <1>1, <1>2 DEF HearsQuit, Behind, Authorised, Waiting
  <1>3. CASE Hears(srv, rest) \/ (Hears("active", rest) /\ srv = "mapsent")
    BY <1>3 DEF Hears, Behind, Authorised, Waiting
  <1>4. QED  BY <1>2, <1>3

LEMMA NoVerdictEmpty ==
  NoVerdict(<< >>) /\ \A p \in Packet : Len(Append(<< >>, p)) = 1
  <1>1. NoVerdict(<<>>)  BY DEF NoVerdict
  <1>2. \A p : Len(Append(<<>>, p)) = 1  OBVIOUS
  <1>3. QED  BY <1>1, <1>2

LEMMA NoVerdictStream ==
  ASSUME NEW q \in Seq(Packet)
  PROVE  /\ q # << >> /\ NoVerdict(q) => NoVerdict(Tail(q)) /\ Head(q).op \notin Verdicts
         /\ Len(q) = 1 => Tail(q) = << >>
         /\ \A p \in Packet : NoVerdict(q) /\ p.op \notin Verdicts => NoVerdict(Append(q, p))
  <1>1. ASSUME q # <<>>, NoVerdict(q) PROVE NoVerdict(Tail(q)) /\ Head(q).op \notin Verdicts
    <2>1. /\ Len(Tail(q)) = Len(q) - 1 /\ Len(q) \in Nat /\ Len(q) >= 1 /\ Head(q) = q[1]
          /\ \A k \in 1 .. Len(q) - 1 : Tail(q)[k] = q[k + 1]
      BY <1>1
    <2>2. QED  BY <1>1, <2>1 DEF NoVerdict
  <1>2. ASSUME Len(q) = 1 PROVE Tail(q) = <<>>
    <2>1. q # <<>>  BY <1>2
    <2>2. Len(Tail(q)) = 0  BY <1>2, <2>1
    <2>3. Tail(q) \in Seq(Packet)  BY <2>1
    <2>4. \A t \in Seq(Packet) : Len(t) = 0 => t = <<>>  OBVIOUS
    <2>5. QED  BY <2>2, <2>3, <2>4
  <1>3. ASSUME NEW p \in Packet, NoVerdict(q), p.op \notin Verdicts PROVE NoVerdict(Append(q, p))
    <2>1. /\ Len(Append(q, p)) = Len(q) + 1 /\ Len(q) \in Nat
          /\ \A k \in 1 .. Len(q) : Append(q, p)[k] = q[k]
          /\ Append(q, p)[Len(q) + 1] = p
      OBVIOUS
    <2>2. QED  BY <1>3, <2>1 DEF NoVerdict
  <1>4. QED  BY <1>1, <1>2, <1>3

\* The game thread stays in the handshake or the session, reading at most one packet.
LEMMA AnswerMoves ==
  ASSUME s2c \in Seq(Packet), AnswerInv, NEW rest \in Seq(Packet), Behind(rest),
         rest = s2c \/ (s2c # <<>> /\ rest = Tail(s2c)),
         pc' = pc \/ (pc \in Mapping /\ pc' \in Mapping) \/ pc' \notin Mapping \cup {"handshake"}
  PROVE  AnswerInv'
  <1> USE DEF Mapping
  <1>1. NoVerdict(s2c) => NoVerdict(rest)  BY NoVerdictStream
  <1>2. ASSUME pc' = "handshake"
        PROVE  /\ srv' \in Waiting => s2c' = <<>>
               /\ NoVerdict(s2c') \/ (Len(s2c') = 1 /\ ~Authorised')
    <2>1. /\ srv \in Waiting => s2c = <<>>
          /\ NoVerdict(s2c) \/ (Len(s2c) = 1 /\ ~Authorised)
      BY <1>2 DEF AnswerInv
    <2>2. NoVerdict(rest) \/ (rest = s2c /\ Len(s2c) = 1 /\ ~Authorised)
      BY <1>1, <2>1, NoVerdictStream, NoVerdictEmpty
    <2>3. srv \in Waiting => rest = <<>>  BY <2>1
    <2>4. CASE s2c' = rest /\ (Authorised' => Authorised) /\ (srv' \in Waiting => srv \in Waiting)
      BY <2>2, <2>3, <2>4
    <2>5. CASE ~(s2c' = rest /\ (Authorised' => Authorised) /\ (srv' \in Waiting => srv \in Waiting))
      <3>1. PICK p \in Packet :
              /\ s2c' = Append(rest, p) /\ srv' \notin Waiting
              /\ Authorised \/ srv \in Waiting
              /\ p.op \in Verdicts => srv \in Waiting /\ ~Authorised'
        BY <2>5 DEF Behind
      <3>2. NoVerdict(rest)  BY <2>2, <2>3, <3>1, NoVerdictEmpty
      <3>3. CASE p.op \notin Verdicts  BY <3>1, <3>2, <3>3, NoVerdictStream
      <3>4. CASE p.op \in Verdicts
        <4>1. s2c' = Append(<<>>, p) /\ ~Authorised'  BY <2>3, <3>1, <3>4
        <4>2. QED  BY <3>1, <4>1, NoVerdictEmpty
      <3>5. QED  BY <3>3, <3>4
    <2>6. QED  BY <2>4, <2>5
  <1>3. ASSUME pc' \in Mapping PROVE NoVerdict(s2c') /\ srv' \notin Waiting
    <2>1. NoVerdict(s2c) /\ srv \notin Waiting  BY <1>3 DEF AnswerInv
    <2>2. NoVerdict(rest)  BY <1>1, <2>1
    <2>3. QED  BY <2>1, <2>2, NoVerdictStream DEF Behind
  <1>4. QED  BY <1>2, <1>3 DEF AnswerInv

LEMMA AnswerStep == TypeOK /\ FaithInv /\ AnswerInv /\ [Next]_vars => AnswerInv'
  <1> SUFFICES ASSUME TypeOK, FaithInv, AnswerInv, [Next]_vars PROVE AnswerInv'  OBVIOUS
  <1> USE DEF Mapping
  <1>s. s2c \in Seq(Packet) /\ (s2c # <<>> => Head(s2c) \in Packet /\ Tail(s2c) \in Seq(Packet))
    BY ReadTypes DEF TypeOK
  <1>i. UNCHANGED server => Behind(s2c)  BY DEF server, Behind, Authorised
  <1>d. pc' \notin Mapping \cup {"handshake"} => AnswerInv'  BY DEF AnswerInv
  <1>1. CASE \/ LoopTest \/ ConnectOK \/ ConnectFails \/ GameInfo \/ Cleanup \/ Full \/ GiveUp
             \/ PasswordRaises \/ ReceiveRaises \/ PacketCallbackRaises \/ MainExit
    BY <1>1, <1>d DEF LoopTest, ConnectOK, ConnectFails, GameInfo, Cleanup, Full, GiveUp,
                      PasswordRaises, ReceiveRaises, PacketCallbackRaises, MainExit
  <1>2. CASE SendJoin /\ pc' = "handshake"
    <2>1. s2c' = <<>>  BY <1>2 DEF SendJoin, Hears, FaithInv, Fresh
    <2>2. QED  BY <1>2, <2>1, NoVerdictEmpty DEF AnswerInv
  <1>3. CASE CheckNewGrfs /\ pc' = "handshake"
    <2>1. /\ pc = "handshake" /\ s2c # <<>> /\ Head(s2c).op \in Verdicts /\ s2c' = Tail(s2c)
      BY <1>3 DEF CheckNewGrfs, Reads, Hears, Verdicts
    <2>2. Len(s2c) = 1  BY <1>s, <2>1, NoVerdictStream DEF AnswerInv
    <2>3. s2c' = <<>>  BY <1>s, <2>1, <2>2, NoVerdictStream
    <2>4. QED  BY <1>3, <2>3, NoVerdictEmpty DEF AnswerInv
  <1>4. CASE Welcome /\ pc' = "download"
    <2>1. /\ pc = "handshake" /\ s2c # <<>> /\ s2c' = Tail(s2c) /\ srv' \in {srv, "getmap"}
      BY <1>4 DEF Welcome, Reads, Hears
    <2>2. srv' \notin Waiting  BY <2>1 DEF AnswerInv, Waiting
    <2>3. NoVerdict(s2c')  BY <1>s, <2>1, NoVerdictStream, NoVerdictEmpty DEF AnswerInv
    <2>4. QED  BY <1>4, <2>2, <2>3 DEF AnswerInv
  <1>5. CASE HandshakeIgnores
    <2>1. s2c # <<>> /\ pc' = pc /\ Hears(srv, Tail(s2c))  BY <1>5 DEF HandshakeIgnores, game
    <2>2. QED  BY <1>s, <2>1, HearsBehind, AnswerMoves
  <1>6. CASE DownloadRecv \/ MainCommand \/ MainQuitCommand
    <2>1. /\ s2c # <<>> /\ (Hears(srv, Tail(s2c)) \/ HearsQuit(Tail(s2c)))
          /\ pc \in Mapping /\ pc' \in Mapping \cup {"cleanup"}
      BY <1>6 DEF DownloadRecv, MainCommand, MainQuitCommand
    <2>2. Behind(Tail(s2c))  BY <1>s, <2>1, HearsBehind
    <2>3. QED  BY <1>s, <2>1, <2>2, AnswerMoves
  <1>7. CASE MapOk
    <2>1. /\ pc \in Mapping /\ pc' \in Mapping \cup {"cleanup"}
          /\ Hears(srv, s2c) \/ (Hears("active", s2c) /\ srv = "mapsent")
      BY <1>7 DEF MapOk
    <2>2. Behind(s2c)  BY <2>1, HearsBehind
    <2>3. QED  BY <1>s, <2>1, <2>2, AnswerMoves
  <1>8. CASE MainRecv
    <2>1. /\ pc \in Mapping /\ pc' \in Mapping \cup {"cleanup"} /\ s2c # <<>>
          /\ s2c' = Tail(s2c) /\ srv' = srv
      BY <1>8 DEF MainRecv, Hears, HearsAck
    <2>2. Behind(Tail(s2c))  BY <2>1 DEF Behind, Authorised
    <2>3. QED  BY <1>s, <2>1, <2>2, AnswerMoves
  <1>9. CASE StopIRC
    <2>1. UNCHANGED server /\ pc \in {"leaving", "unloading"} /\ pc' \in {"main", "cleanup"}
          /\ (pc = "leaving" => pc' = "cleanup")
      BY <1>9 DEF StopIRC, Stopping
    <2>2. QED  BY <1>s, <1>i, <2>1, AnswerMoves
  <1>10. CASE OpThread
    <2>1. UNCHANGED pc /\ (UNCHANGED server \/ HearsQuit(s2c))
      BY <1>10 DEF OpThread, OpQuit, OpQuitSend, OpReconnect, OpUnloadIRC, OpSends, game
    <2>2. Behind(s2c)  BY <1>i, <2>1, HearsBehind
    <2>3. QED  BY <1>s, <2>1, <2>2, AnswerMoves
  <1>11. CASE Server
    <2>1. UNCHANGED pc  BY <1>11, ServerLeavesGame DEF game
    <2>2. QED  BY <1>s, <1>11, <2>1, ServerBehind, AnswerMoves
  <1>12. CASE UNCHANGED vars
    <2>1. UNCHANGED <<pc, server>>  BY <1>12 DEF vars, game
    <2>2. QED  BY <1>s, <1>i, <2>1, AnswerMoves
  <1>13. /\ SendJoin \/ CheckNewGrfs => pc' \in {"handshake", "cleanup"}
         /\ Welcome => pc' \in {"download", "cleanup"}
    BY DEF SendJoin, CheckNewGrfs, Welcome
  <1>14. QED
    BY <1>d, <1>1, <1>2, <1>3, <1>4, <1>5, <1>6, <1>7, <1>8, <1>9, <1>10, <1>11, <1>12, <1>13
    DEF Next, GameThread

\* A packet that rules out another join meets code that knows it: none is dropped by the
\* handshake, and the session reads none but SHUTDOWN.
LEMMA FinalsAreKnown ==
  ASSUME TypeOK, FaithInv, AnswerInv, s2c # <<>>, Final(Head(s2c))
  PROVE  /\ pc = "handshake" => Head(s2c).op \in Verdicts \cup {"WELCOME"}
         /\ pc \in Mapping => Head(s2c).op = "SHUTDOWN"
  <1>1. s2c \in Seq(Packet)  BY DEF TypeOK
  <1>2. Head(s2c).op \in Verdicts \cup {"SHUTDOWN"}  BY DEF Final, Verdicts
  <1>3. ASSUME pc = "handshake", Head(s2c).op = "SHUTDOWN" PROVE FALSE
    <2>1. Head(s2c).op \notin Later  BY <1>1, <1>3, WelcomeRead DEF FaithInv, Hand
    <2>2. QED  BY <1>3, <2>1 DEF Later
  <1>4. ASSUME pc \in Mapping PROVE Head(s2c).op \notin Verdicts
    BY <1>1, <1>4, NoVerdictStream DEF AnswerInv
  <1>5. QED  BY <1>2, <1>3, <1>4

(* Giving up: what is proved about reconnectCond, the verdicts and         *)
(* lateJoins.                                                              *)

\* Inductive: a verdict that took effect, or a JOIN sent too late, is only met with
\* reconnectCond false, and the reconnect loop is then left at its next test.
GivenUp == ~reconnectCond /\ pc \notin Connecting
Ruled   == verdictsLost <= verdicts /\ (verdicts > verdictsLost => GivenUp)
GiveUpInv == Ruled /\ lateJoins \in {0, 1} /\ (lateJoins = 1 => GivenUp)

\* A packet is read: an effective verdict finds the client given up.
LEMMA RuledReads ==
  ASSUME TypeOK, Ruled, NEW p, NEW lost \in BOOLEAN, ReadsFinal(p, lost),
         GivenUp => GivenUp', Final(p) /\ ~lost => GivenUp'
  PROVE  Ruled'
  <1>1. verdicts \in Nat /\ verdictsLost \in Nat  BY DEF TypeOK
  <1>2. CASE ~Final(p)
    <2>1. UNCHANGED <<verdicts, verdictsLost>>  BY <1>2 DEF ReadsFinal
    <2>2. QED  BY <2>1 DEF Ruled
  <1>3. CASE Final(p) /\ lost
    <2>1. verdicts' = verdicts + 1 /\ verdictsLost' = verdictsLost + 1  BY <1>3 DEF ReadsFinal
    <2>2. verdicts' > verdictsLost' => verdicts > verdictsLost  BY <1>1, <2>1
    <2>3. verdictsLost' <= verdicts'  BY <1>1, <2>1 DEF Ruled
    <2>4. QED  BY <2>2, <2>3 DEF Ruled
  <1>4. CASE Final(p) /\ ~lost
    <2>1. verdicts' = verdicts + 1 /\ verdictsLost' = verdictsLost  BY <1>4 DEF ReadsFinal
    <2>2. verdictsLost' <= verdicts'  BY <1>1, <2>1 DEF Ruled
    <2>3. QED  BY <1>4, <2>2 DEF Ruled
  <1>5. QED  BY <1>2, <1>3, <1>4

LEMMA GiveUpStep == TypeOK /\ FaithInv /\ AnswerInv /\ GiveUpInv /\ [Next]_vars => GiveUpInv'
  <1> SUFFICES ASSUME TypeOK, FaithInv, AnswerInv, GiveUpInv, [Next]_vars PROVE GiveUpInv'  OBVIOUS
  <1> USE DEF Connecting, InSession
  <1>k. UNCHANGED <<finals, lateJoins>> /\ (GivenUp => GivenUp') => GiveUpInv'
    BY DEF GiveUpInv, Ruled, finals
  <1>r. ASSUME UNCHANGED lateJoins, GivenUp => GivenUp', Ruled' PROVE GiveUpInv'
    BY <1>r DEF GiveUpInv
  <1>1. CASE LoopTest  BY <1>k, <1>1 DEF LoopTest, GivenUp, conds, hist
  <1>2. CASE ConnectOK
    BY <1>k, <1>2 DEF ConnectOK, GivenUp, conds
  <1>3. CASE ConnectFails \/ GameInfo
    BY <1>k, <1>3 DEF ConnectFails, GameInfo, GivenUp, conds, hist
  <1>5. CASE SendJoin
    <2>1. pc' \notin Connecting /\ UNCHANGED <<reconnectCond, finals>> /\ ~GivenUp
      BY <1>5 DEF SendJoin, GivenUp
    <2>2. lateJoins = 0 /\ Ruled /\ ~(verdicts > verdictsLost)  BY <2>1 DEF GiveUpInv, Ruled
    <2>3. lateJoins' = 0 \/ (lateJoins' = 1 /\ ~reconnectCond)  BY <1>5, <2>2 DEF SendJoin
    <2>4. Ruled'  BY <2>1, <2>2 DEF Ruled, finals
    <2>5. QED  BY <2>1, <2>3, <2>4 DEF GiveUpInv, GivenUp
  <1>6. CASE Cleanup \/ PasswordRaises \/ CheckNewGrfs \/ Welcome \/ ReceiveRaises
    BY <1>k, <1>6 DEF Cleanup, PasswordRaises, CheckNewGrfs, Welcome, ReceiveRaises, GivenUp, conds, hist
  <1>7. CASE Full  BY <1>k, <1>7 DEF Full, GivenUp, hist
  <1>8. CASE GiveUp
    <2>1. GivenUp' /\ ReadsFinal(Head(s2c), FALSE) /\ UNCHANGED lateJoins  BY <1>8 DEF GiveUp, GivenUp
    <2>2. QED  BY <1>r, <2>1, RuledReads DEF GiveUpInv
  <1>12. CASE HandshakeIgnores
    <2>1. /\ UNCHANGED <<pc, reconnectCond, lateJoins>> /\ ReadsFinal(Head(s2c), FALSE)
          /\ pc = "handshake" /\ s2c # <<>> /\ Head(s2c).op \notin Verdicts \cup {"WELCOME"}
      BY <1>12 DEF HandshakeIgnores, game, conds
    <2>2. ~Final(Head(s2c))  BY <2>1, FinalsAreKnown
    <2>3. QED  BY <1>r, <2>1, <2>2, RuledReads DEF GiveUpInv, GivenUp
  <1>14. CASE PacketCallbackRaises
    <2>1. /\ UNCHANGED <<reconnectCond, lateJoins>> /\ ReadsFinal(Head(s2c), TRUE) /\ pc' = "cleanup"
      BY <1>14 DEF PacketCallbackRaises, conds
    <2>2. QED  BY <1>r, <2>1, RuledReads DEF GiveUpInv, GivenUp
  <1>15. CASE DownloadRecv \/ MainRecv
    <2>1. /\ HandlePacket(Head(s2c)) /\ UNCHANGED lateJoins /\ pc \in Mapping /\ s2c # <<>>
          /\ pc' \in Mapping \cup {"cleanup"}
      BY <1>15 DEF DownloadRecv, MainRecv, Mapping
    <2>2. /\ ReadsFinal(Head(s2c), FALSE)
          /\ reconnectCond' = IF Head(s2c).op = "SHUTDOWN" THEN FALSE ELSE reconnectCond
      BY <2>1 DEF HandlePacket
    <2>3. Final(Head(s2c)) => Head(s2c).op = "SHUTDOWN"  BY <2>1, FinalsAreKnown
    <2>4. pc' \notin Connecting  BY <2>1 DEF Mapping
    <2>5. (GivenUp => GivenUp') /\ (Final(Head(s2c)) => GivenUp')  BY <2>2, <2>3, <2>4 DEF GivenUp
    <2>6. Ruled'  BY <2>2, <2>5, RuledReads DEF GiveUpInv
    <2>7. QED  BY <1>r, <2>1, <2>5, <2>6
  <1>16. CASE MapOk \/ MainCommand \/ MainExit
    BY <1>k, <1>16 DEF MapOk, MainCommand, MainExit, GivenUp, conds, hist
  <1>19. CASE MainQuitCommand  BY <1>k, <1>19 DEF MainQuitCommand, GivenUp
  <1>21. CASE OpQuit  BY <1>k, <1>21 DEF OpQuit, GivenUp
  <1>22. CASE OpQuitSend \/ OpReconnect \/ OpUnloadIRC
    BY <1>k, <1>22 DEF OpQuitSend, OpReconnect, OpUnloadIRC, game, conds, hist, GivenUp
  <1>b. CASE StopIRC  BY <1>k, <1>b DEF StopIRC, Stopping, conds, hist, GivenUp
  <1>24. CASE Server  BY <1>k, <1>24, ServerLeavesGame DEF game, conds, hist, GivenUp
  <1>25. CASE UNCHANGED vars  BY <1>k, <1>25 DEF vars, game, conds, hist, GivenUp
  <1>26. QED
    BY <1>1, <1>2, <1>3, <1>5, <1>6, <1>7, <1>8, <1>12, <1>14, <1>15, <1>16, <1>19, <1>21, <1>22,
       <1>24, <1>25, <1>b
    DEF Next, GameThread, OpThread

\* What GiveUpStep rests on holds throughout.
LEMMA GiveUpHolds == Spec => [](TypeOK /\ FaithInv /\ AnswerInv /\ GiveUpInv)
  <1>1. Init => FaithInv /\ AnswerInv /\ GiveUpInv
    <2>1. Init => FaithInv
      BY DEF Init, FaithInv, Quiet, Fresh, Hand, Told, InSession
    <2>2. Init => AnswerInv /\ GiveUpInv
      BY DEF Init, AnswerInv, Mapping, GiveUpInv, Ruled
    <2>3. QED  BY <2>1, <2>2
  <1>2. QED  BY <1>1, TypeCorrect, FaithStep, AnswerStep, GiveUpStep, PTL DEF Spec

\* Each BANNED, SHUTDOWN or missing password that is read is the last of the connections,
\* unless a callback raises on it before the two flags are cleared: the code loses no other.
THEOREM VerdictIsFinal == Spec => []NoJoinAfterVerdict
  <1>1. GiveUpInv => NoJoinAfterVerdict  BY DEF GiveUpInv, Ruled, GivenUp, NoJoinAfterVerdict
  <1>2. QED  BY <1>1, GiveUpHolds, PTL

\* However often other threads call quit(), and whenever: one JOIN at most follows.
THEOREM OneLateJoin == Spec => []AtMostOneLateJoin
  <1>1. GiveUpInv => AtMostOneLateJoin  BY DEF GiveUpInv, AtMostOneLateJoin
  <1>2. QED  BY <1>1, GiveUpHolds, PTL

-----------------------------------------------------------------------------
(* AckLagBounded.  FRAME packets are on the way to the main loop only, in  *)
(* ascending order and ahead of what it has seen; frameCounter is the lag  *)
(* behind the last ACK, or one short of AckEvery before the first frame.   *)

NoFrames(q) == \A k \in 1 .. Len(q) : q[k].op # "FRAME"
InOrder(q, seen, last) == \A k \in 1 .. Len(q) : q[k].op = "FRAME" =>
  /\ seen < q[k].frame /\ q[k].frame <= last
  /\ \A j \in 1 .. k - 1 : q[j].op = "FRAME" => q[j].frame < q[k].frame

LEMMA FramesRead ==
  ASSUME NEW q \in Seq(Packet), q # <<>>
  PROVE  /\ NoFrames(q) => NoFrames(Tail(q))
         /\ \A seen, last \in Nat : InOrder(q, seen, last) =>
              /\ InOrder(Tail(q), IF Head(q).op = "FRAME" THEN Head(q).frame ELSE seen, last)
              /\ Head(q).op = "FRAME" => seen < Head(q).frame /\ Head(q).frame <= last
  <1>1. /\ Len(Tail(q)) = Len(q) - 1 /\ Len(q) \in Nat /\ Len(q) >= 1 /\ Head(q) = q[1]
        /\ \A k \in 1 .. Len(q) - 1 : Tail(q)[k] = q[k + 1]
    OBVIOUS
  <1>2. NoFrames(q) => NoFrames(Tail(q))  BY <1>1 DEF NoFrames
  <1>3. ASSUME NEW seen \in Nat, NEW last \in Nat, InOrder(q, seen, last)
        PROVE  /\ InOrder(Tail(q), IF Head(q).op = "FRAME" THEN Head(q).frame ELSE seen, last)
               /\ Head(q).op = "FRAME" => seen < Head(q).frame /\ Head(q).frame <= last
    <2>1. Head(q).op = "FRAME" => seen < Head(q).frame /\ Head(q).frame <= last
      BY <1>1, <1>3 DEF InOrder
    <2>2. ASSUME NEW k \in 1 .. Len(Tail(q)), Tail(q)[k].op = "FRAME"
          PROVE  /\ (IF Head(q).op = "FRAME" THEN Head(q).frame ELSE seen) < Tail(q)[k].frame
                 /\ Tail(q)[k].frame <= last
                 /\ \A j \in 1 .. k - 1 : Tail(q)[j].op = "FRAME" => Tail(q)[j].frame < Tail(q)[k].frame
      <3>1. k + 1 \in 1 .. Len(q) /\ Tail(q)[k] = q[k + 1] /\ 1 \in 1 .. (k + 1) - 1  BY <1>1
      <3>2. /\ seen < q[k + 1].frame /\ q[k + 1].frame <= last
            /\ \A j \in 1 .. (k + 1) - 1 : q[j].op = "FRAME" => q[j].frame < q[k + 1].frame
        BY <1>3, <2>2, <3>1 DEF InOrder
      <3>3. \A j \in 1 .. k - 1 : j + 1 \in 1 .. (k + 1) - 1 /\ Tail(q)[j] = q[j + 1]  BY <1>1
      <3>4. QED  BY <1>1, <3>1, <3>2, <3>3
    <2>3. QED  BY <2>1, <2>2 DEF InOrder
  <1>4. QED  BY <1>2, <1>3

LEMMA FramesLater ==
  ASSUME NEW q \in Seq(Packet), NEW seen \in Nat, NEW last \in Nat, NEW next \in Nat,
         InOrder(q, seen, last), last <= next
  PROVE  InOrder(q, seen, next)
  <1>1. \A k \in 1 .. Len(q) : q[k].frame \in Nat  BY PacketFields
  <1>2. QED  BY <1>1, SMTT(30) DEF InOrder

LEMMA FramesAppend ==
  ASSUME NEW q \in Seq(Packet), NEW p \in Packet
  PROVE  /\ NoFrames(q) /\ p.op # "FRAME" => NoFrames(Append(q, p))
         /\ \A seen, last, next \in Nat :
              InOrder(q, seen, last) /\ seen <= last /\ last <= next
                /\ (p.op = "FRAME" => last < p.frame /\ p.frame <= next)
              => InOrder(Append(q, p), seen, next)
  <1>1. /\ Len(Append(q, p)) = Len(q) + 1 /\ Len(q) \in Nat
        /\ \A k \in 1 .. Len(q) : Append(q, p)[k] = q[k]
        /\ Append(q, p)[Len(q) + 1] = p
    OBVIOUS
  <1>2. NoFrames(q) /\ p.op # "FRAME" => NoFrames(Append(q, p))  BY <1>1 DEF NoFrames
  <1>3. ASSUME NEW seen \in Nat, NEW last \in Nat, NEW next \in Nat,
               InOrder(q, seen, last), seen <= last, last <= next,
               p.op = "FRAME" => last < p.frame /\ p.frame <= next,
               NEW k \in 1 .. Len(q) + 1, Append(q, p)[k].op = "FRAME"
        PROVE  /\ seen < Append(q, p)[k].frame /\ Append(q, p)[k].frame <= next
               /\ \A j \in 1 .. k - 1 :
                    Append(q, p)[j].op = "FRAME" => Append(q, p)[j].frame < Append(q, p)[k].frame
    <2>t. p.frame \in Nat /\ \A j \in 1 .. Len(q) : q[j].frame \in Nat
      BY PacketFields
    <2>1. CASE k = Len(q) + 1
      <3>1. Append(q, p)[k] = p /\ last < p.frame /\ p.frame <= next  BY <1>1, <1>3, <2>1
      <3>2. \A j \in 1 .. Len(q) : q[j].op = "FRAME" => q[j].frame <= last  BY <1>3 DEF InOrder
      <3>3. QED  BY <1>1, <1>3, <2>1, <2>t, <3>1, <3>2
    <2>2. CASE k # Len(q) + 1
      <3>1. k \in 1 .. Len(q) /\ \A j \in 1 .. k - 1 : j \in 1 .. Len(q)  BY <1>1, <2>2
      <3>2. /\ seen < q[k].frame /\ q[k].frame <= last
            /\ \A j \in 1 .. k - 1 : q[j].op = "FRAME" => q[j].frame < q[k].frame
        BY <1>1, <1>3, <3>1 DEF InOrder
      <3>3. QED  BY <1>1, <1>3, <2>t, <3>1, <3>2
    <2>3. QED  BY <2>1, <2>2
  <1>4. QED  BY <1>1, <1>2, <1>3 DEF InOrder

InMain == pc \in {"main", "unloading"}
PastMain == pc \in {"leaving", "cleanup"}
Lag == InMain /\ link = "up" =>
  \/ frameServer = 0 /\ frameCounter = AckEvery - 1
  \/ /\ srvAck # NoAck /\ frameCounter = frameServer - srvAck
     /\ frameCounter \in 0 .. AckEvery - 1

AckInv ==
  /\ frame <= MaxFrame
  /\ ~InMain /\ ~PastMain => srv # "active" /\ NoFrames(s2c)
  /\ InMain => frameServer <= frame /\ InOrder(s2c, frameServer, frame)
  /\ Lag

\* What the others, and a send of the client, may do to the stream: at most one packet is
\* put behind `rest`, and a FRAME only by a server with an active client.
Feeds(rest) ==
  /\ UNCHANGED srvAck /\ (link' = "up" => link = "up") /\ (srv' = "active" => srv = "active")
  /\ frame' \in Nat /\ frame <= frame' /\ frame' <= MaxFrame
  /\ \/ s2c' = rest
     \/ \E p \in Packet :
          /\ s2c' = Append(rest, p)
          /\ p.op = "FRAME" => srv = "active" /\ frame < p.frame /\ p.frame <= frame'

LEMMA ServerFeeds ==
  ASSUME TypeOK, AckInv, Server
  PROVE  Feeds(s2c)
  <1> USE DEF Sends, Room, Authorised, Feeds, AckInv, TypeOK
  <1>1. CASE SrvBreaks  BY <1>1 DEF SrvBreaks
  <1>2. CASE SrvFrame
    <2>1. Frame(frame') \in Packet /\ Frame(frame').op = "FRAME" /\ Frame(frame').frame = frame'
      BY <1>2, PacketTypes DEF SrvFrame, Frame
    <2>2. QED  BY <1>2, <2>1 DEF SrvFrame
  <1>3. CASE \/ SrvAnswersJoin \/ SrvMapEnd \/ SrvOther \/ SrvClientInfo \/ SrvClientJoins
             \/ SrvClientLeaves \/ SrvChat \/ SrvEnds
    <2>1. UNCHANGED frame
      BY <1>3 DEF SrvAnswersJoin, SrvMapEnd, SrvOther, SrvClientInfo, SrvClientJoins,
                  SrvClientLeaves, SrvChat, SrvEnds
    <2>2. \E p \in Packet : p.op # "FRAME" /\ \E next \in {srv} \cup (SrvStates \ {"active"}) : Sends(p, next)
      <3>o. /\ \A o \in Ops : Plain(o) \in Packet /\ Plain(o).op = o
            /\ \A o \in Ops, c \in Clients : About(o, c) \in Packet /\ About(o, c).op = o
            /\ \A c \in Clients, i \in Infos : ClientInfo(c, i) \in Packet /\ ClientInfo(c, i).op # "FRAME"
        BY PacketTypes DEF Plain, About, ClientInfo
      <3> USE <3>o DEF Ops, SrvStates, Verdicts, Membership, Chats, Endings
      <3>1. CASE SrvAnswersJoin  BY <3>1 DEF SrvAnswersJoin
      <3>2. CASE SrvMapEnd \/ SrvOther  BY <3>2 DEF SrvMapEnd, SrvOther
      <3>3. CASE SrvClientInfo  BY <3>3 DEF SrvClientInfo
      <3>4. CASE SrvClientJoins  BY <3>4 DEF SrvClientJoins
      <3>5. CASE SrvClientLeaves
        <4>1. PICK c \in Clients, o \in {"QUIT", "ERROR_QUIT"}, next \in {srv, "gone"} :
                Sends(About(o, c), next)
          BY <3>5 DEF SrvClientLeaves
        <4>2. About(o, c) \in Packet /\ About(o, c).op # "FRAME"  OBVIOUS
        <4>3. QED  BY <4>1, <4>2
      <3>6. CASE SrvChat  BY <3>6 DEF SrvChat
      <3>7. CASE SrvEnds  BY <3>7 DEF SrvEnds
      <3>8. QED  BY <1>3, <3>1, <3>2, <3>3, <3>4, <3>5, <3>6, <3>7
    <2>3. QED  BY <2>1, <2>2
  <1>4. QED  BY <1>1, <1>2, <1>3 DEF Server

LEMMA HearsQuitFeeds ==
  ASSUME TypeOK, AckInv, NEW rest, HearsQuit(rest)
  PROVE  Feeds(rest)
  <1>1. About("QUIT", assigned) \in Packet /\ About("QUIT", assigned).op # "FRAME"
    BY PacketTypes DEF About, TypeOK, Ops, Membership
  <1>2. QED  BY <1>1 DEF HearsQuit, Feeds, AckInv, TypeOK

LEMMA HearsFeeds ==
  ASSUME TypeOK, AckInv, NEW next, NEW rest, Hears(next, rest), next # "active" \/ next = srv
  PROVE  Feeds(rest)
  BY DEF Hears, Feeds, AckInv, TypeOK

\* Every step but MapOk and MainRecv: the frames are left alone, and a packet read by a main
\* loop that goes on is no FRAME.
LEMMA AckOthers ==
  ASSUME TypeOK, AckInv, UNCHANGED frames, NEW rest, Feeds(rest),
         rest = s2c \/ (s2c # <<>> /\ rest = Tail(s2c) /\ (InMain' => Head(s2c).op # "FRAME")),
         InMain' => InMain,
         InMain \/ PastMain => InMain' \/ PastMain'
  PROVE  AckInv'
  <1>t. rest \in Seq(Packet) /\ s2c \in Seq(Packet) /\ {frame, frame', frameServer} \subseteq Nat
    <2>1. rest \in Seq(Packet) /\ s2c \in Seq(Packet)  BY ReadTypes DEF TypeOK
    <2>2. {frame, frame', frameServer} \subseteq Nat  BY DEF TypeOK, Feeds
    <2>3. QED  BY <2>1, <2>2
  <1>1. frame' <= MaxFrame  BY DEF Feeds
  <1>2. ASSUME ~InMain', ~PastMain' PROVE srv' # "active" /\ NoFrames(s2c')
    <2>1. srv # "active" /\ NoFrames(s2c)  BY <1>2 DEF AckInv
    <2>2. NoFrames(rest)  BY <1>t, <2>1, FramesRead
    <2>3. QED  BY <1>t, <2>1, <2>2, FramesAppend DEF Feeds
  <1>3. ASSUME InMain' PROVE frameServer' <= frame' /\ InOrder(s2c', frameServer', frame')
    <2>1. frameServer <= frame /\ InOrder(s2c, frameServer, frame)  BY <1>3 DEF AckInv
    <2>2. InOrder(rest, frameServer, frame)  BY <1>t, <1>3, <2>1, FramesRead
    <2>3. frameServer' = frameServer /\ frame <= frame'  BY DEF frames, Feeds
    <2>4. CASE s2c' = rest  BY <1>t, <2>1, <2>2, <2>3, <2>4, FramesLater
    <2>5. CASE s2c' # rest
      <3>1. PICK p \in Packet :
              s2c' = Append(rest, p) /\ (p.op = "FRAME" => frame < p.frame /\ p.frame <= frame')
        BY <2>5 DEF Feeds
      <3>2. InOrder(Append(rest, p), frameServer, frame')
        BY <1>t, <2>1, <2>2, <2>3, <3>1, FramesAppend
      <3>3. QED  BY <1>t, <2>1, <2>3, <3>1, <3>2
    <2>6. QED  BY <1>t, <2>1, <2>3, <2>4, <2>5
  <1>4. Lag'  BY DEF AckInv, Lag, Feeds, frames, NoAck
  <1>5. QED  BY <1>1, <1>2, <1>3, <1>4 DEF AckInv

LEMMA AckStep == TypeOK /\ AckInv /\ [Next]_vars => AckInv'
  <1> SUFFICES ASSUME TypeOK, AckInv, [Next]_vars PROVE AckInv'  OBVIOUS
  <1> USE DEF InMain, PastMain
  <1>s. s2c \in Seq(Packet) /\ (s2c # <<>> => Head(s2c) \in Packet /\ Tail(s2c) \in Seq(Packet))
    BY ReadTypes DEF TypeOK
  <1>i. UNCHANGED server => Feeds(s2c)  BY DEF server, Feeds, AckInv, TypeOK
  <1>1. CASE LoopTest \/ ConnectFails \/ GameInfo \/ ReceiveRaises \/ MainExit \/ StopIRC
    <2>1. /\ UNCHANGED <<frames, server>> /\ (InMain' => InMain)
          /\ InMain \/ PastMain => InMain' \/ PastMain'
      BY <1>1 DEF LoopTest, ConnectFails, GameInfo, ReceiveRaises, MainExit, StopIRC, Stopping, InSession
    <2>2. QED  BY <1>i, <2>1, AckOthers
  <1>2. CASE ConnectOK
    <2>1. s2c' = <<>> /\ srv' = "accepted" /\ pc' = "info" /\ frame' \in {0, frame}
      BY <1>2 DEF ConnectOK
    <2>2. frame' <= MaxFrame  BY <2>1 DEF AckInv
    <2>3. QED  BY <2>1, <2>2 DEF AckInv, Lag, NoFrames
  <1>3. CASE Cleanup
    <2>1. s2c' = <<>> /\ srv' = "gone" /\ pc' = "loop" /\ frame' = frame  BY <1>3 DEF Cleanup
    <2>2. QED  BY <2>1 DEF AckInv, Lag, NoFrames
  <1>4. CASE SendJoin
    <2>1. /\ UNCHANGED frames /\ pc = "join" /\ pc' \in {"cleanup", "handshake"}
          /\ Hears(srv, s2c) \/ Hears("joining", s2c)
      BY <1>4 DEF SendJoin
    <2>2. Feeds(s2c)  BY <2>1, HearsFeeds
    <2>3. QED  BY <2>1, <2>2, AckOthers
  <1>5. CASE Full \/ GiveUp \/ PasswordRaises \/ CheckNewGrfs \/ Welcome \/ HandshakeIgnores
    <2>1. /\ UNCHANGED frames /\ pc = "handshake" /\ ~InMain' /\ s2c # <<>>
          /\ Hears(srv, Tail(s2c)) \/ Hears("checked", Tail(s2c)) \/ Hears("getmap", Tail(s2c))
      BY <1>5 DEF Full, GiveUp, PasswordRaises, CheckNewGrfs, Welcome, HandshakeIgnores, Reads, game
    <2>2. Feeds(Tail(s2c))  BY <2>1, HearsFeeds
    <2>3. QED  BY <2>1, <2>2, AckOthers
  <1>6. CASE PacketCallbackRaises \/ DownloadRecv
    <2>1. /\ UNCHANGED frames /\ s2c # <<>> /\ Hears(srv, Tail(s2c)) /\ pc # "unloading"
          /\ pc' = "cleanup" \/ (pc = "download" /\ pc' = pc)
      BY <1>6 DEF PacketCallbackRaises, DownloadRecv
    <2>2. Feeds(Tail(s2c))  BY <2>1, HearsFeeds
    <2>3. QED  BY <2>1, <2>2, AckOthers
  <1>7. CASE MapOk
    <2>1. /\ pc = "download" /\ pc' \in {"main", "cleanup"} /\ UNCHANGED <<s2c, frame>>
          /\ pc' = "main" => frameServer' = 0 /\ frameCounter' = AckEvery - 1
      BY <1>7 DEF MapOk, Hears
    <2>2. NoFrames(s2c) /\ frame <= MaxFrame /\ frame \in Nat  BY <2>1 DEF AckInv, TypeOK
    <2>3. pc' = "main" => frameServer' <= frame' /\ InOrder(s2c', frameServer', frame')
      BY <2>1, <2>2 DEF NoFrames, InOrder
    <2>4. QED  BY <2>1, <2>2, <2>3 DEF AckInv, Lag
  <1>8. CASE MainRecv
    <2> DEFINE p    == Head(s2c)
               seen == IF p.op = "FRAME" THEN p.frame ELSE frameServer
               due  == frameCounter + (seen - frameServer) >= AckEvery
    <2>1. /\ pc = "main" /\ pc' \in {"main", "cleanup"} /\ s2c # <<>> /\ frameServer' = seen
          /\ s2c' = Tail(s2c) /\ UNCHANGED <<frame, link>>
      BY <1>8 DEF MainRecv, Hears, HearsAck
    <2>2. /\ frameServer <= frame /\ frame <= MaxFrame /\ InOrder(s2c, frameServer, frame)
          /\ frameServer \in Nat /\ frame \in Nat
      BY <2>1 DEF AckInv, TypeOK
    <2>3. /\ InOrder(Tail(s2c), seen, frame)
          /\ p.op = "FRAME" => frameServer < p.frame /\ p.frame <= frame
      BY <1>s, <2>1, <2>2, FramesRead
    <2>4. seen <= frame /\ seen \in Nat /\ frameServer <= seen
          /\ (p.op # "FRAME" => seen = frameServer)
      BY <1>s, <2>1, <2>2, <2>3, PacketFields
    <2>5. Lag'
      <3>1. SUFFICES ASSUME pc' = "main", link = "up"
            PROVE  \/ frameServer' = 0 /\ frameCounter' = AckEvery - 1
                   \/ /\ srvAck' # NoAck /\ frameCounter' = frameServer' - srvAck'
                      /\ frameCounter' \in 0 .. AckEvery - 1
        BY <2>1 DEF Lag, NoAck
      <3>2. CASE due
        <4>1. frameCounter' = 0 /\ srvAck' = seen
          BY <1>8, <3>1, <3>2 DEF MainRecv, SendRaises, HearsAck
        <4>2. QED  BY <2>1, <2>2, <2>4, <4>1 DEF NoAck
      <3>3. CASE ~due
        <4>1. frameCounter' = frameCounter + (seen - frameServer) /\ srvAck' = srvAck
          BY <1>8, <3>3 DEF MainRecv, Hears
        <4>2. CASE frameServer = 0 /\ frameCounter = AckEvery - 1
          <5>1. p.op # "FRAME"  BY <2>2, <2>3, <2>4, <3>3, <4>2
          <5>2. QED  BY <2>1, <2>4, <4>1, <4>2, <5>1
        <4>3. CASE /\ srvAck # NoAck /\ frameCounter = frameServer - srvAck
                   /\ frameCounter \in 0 .. AckEvery - 1
          BY <2>1, <2>2, <2>4, <3>3, <4>1, <4>3 DEF TypeOK
        <4>4. QED  BY <2>1, <3>1, <4>2, <4>3 DEF AckInv, Lag
      <3>4. QED  BY <3>2, <3>3
    <2>6. QED  BY <2>1, <2>2, <2>3, <2>4, <2>5 DEF AckInv
  <1>9. CASE MainCommand \/ MainQuitCommand
    <2>1. /\ UNCHANGED frames /\ pc = "main" /\ pc' \in {"main", "unloading", "cleanup"} /\ s2c # <<>>
          /\ Head(s2c).op # "FRAME"
          /\ Hears(srv, Tail(s2c)) \/ HearsQuit(Tail(s2c))
      BY <1>9 DEF MainCommand, MainQuitCommand
    <2>2. Feeds(Tail(s2c))  BY <2>1, HearsFeeds, HearsQuitFeeds
    <2>3. QED  BY <2>1, <2>2, AckOthers
  <1>10. CASE OpThread
    <2>1. UNCHANGED <<frames, pc>> /\ (UNCHANGED server \/ HearsQuit(s2c))
      BY <1>10 DEF OpThread, OpQuit, OpQuitSend, OpReconnect, OpUnloadIRC, OpSends, game
    <2>2. Feeds(s2c)  BY <1>i, <2>1, HearsQuitFeeds
    <2>3. QED  BY <2>1, <2>2, AckOthers
  <1>11. CASE Server
    <2>1. UNCHANGED <<frames, pc>>  BY <1>11, ServerLeavesGame DEF game
    <2>2. QED  BY <1>11, <2>1, ServerFeeds, AckOthers
  <1>12. CASE UNCHANGED vars
    <2>1. UNCHANGED <<frames, pc, server>>  BY <1>12 DEF vars, game
    <2>2. QED  BY <1>i, <2>1, AckOthers
  <1>13. QED
    BY <1>1, <1>2, <1>3, <1>4, <1>5, <1>6, <1>7, <1>8, <1>9, <1>10, <1>11, <1>12
    DEF Next, GameThread

\* In no session do AckEvery frames that the main loop has seen stay without an ACK.
THEOREM AckLag == Spec => []AckLagBounded
  <1>1. Init => AckInv  BY DEF Init, AckInv, Lag, NoFrames, InMain, PastMain
  <1>2. TypeOK /\ AckInv => AckLagBounded  BY DEF AckInv, Lag, AckLagBounded, TypeOK, InMain
  <1>3. QED  BY <1>1, <1>2, AckStep, TypeCorrect, PTL DEF Spec
=============================================================================
