------------------------------ MODULE MCNetwork ------------------------------
(***************************************************************************)
(* The instance for TLC of the parts that talk to sockets and share no     *)
(* state: each direction of a TCP stream, the select loop of the server,   *)
(* the IRC bot.  A behaviour is one of one part; the others stay as they   *)
(* begin, and fairness is asked of that part's steps alone.                *)
(***************************************************************************)
EXTENDS PacketStream, ServerLoop, IrcBot

VARIABLE part

networkVars == <<part, streamVars, serverVars, botVars>>

\* Bytes of three values: sizes that need both bytes of the size field, and one payload too
\* many for it.
MCPayloads == {<<>>, <<1>>, <<1, 2, 0, 1>>, <<0, 0, 0, 0, 0, 0>>}

MCInit == part \in {"up", "down", "server", "bot"} /\ StreamInit /\ ServerInit /\ BotInit

MCNext ==
  /\ part' = part
  /\ \/ part = "up" /\ StreamNext /\ UNCHANGED <<down, serverVars, botVars>>
     \/ part = "down" /\ StreamNext /\ UNCHANGED <<up, serverVars, botVars>>
     \/ part = "server" /\ ServerNext /\ UNCHANGED <<streamVars, botVars>>
     \/ part = "bot" /\ BotNext /\ UNCHANGED <<streamVars, serverVars>>

MCFair ==
  /\ WF_streamVars(part = "up" /\ UpReceiver) /\ WF_streamVars(part = "down" /\ DownReceiver)
  /\ WF_serverVars(part = "server" /\ Serve)
  /\ WF_botVars(part = "bot" /\ IrcThread) /\ WF_botVars(part = "bot" /\ Method("game"))
  /\ SF_botVars(part = "bot" /\ TimeoutDue)

MCSpec == MCInit /\ [][MCNext]_networkVars /\ MCFair
=============================================================================
