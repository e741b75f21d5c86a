------------------------------ MODULE ChatRelay ------------------------------
(***************************************************************************)
(* ottd_client_event.py: what becomes of a line of chat.  Lines said in    *)
(* the game and lines said on IRC are events that go through the           *)
(* dispatchers of their class: to the other side, to the commands of       *)
(* ottd-client.py and to the bridges plugin.  Whatever is sent to the game *)
(* comes back to the bot as a chat packet of its own.  The two servers and *)
(* the people are external; a text is either talk or one of the kinds of   *)
(* command, and an answer may itself look like a command.                  *)
(***************************************************************************)
EXTENDS Naturals, FiniteSets, Sequences

CONSTANTS
  MaxSaid,    \* bound: lines that people say
  MaxEchoes   \* bound: lines of the bot itself that the game server sends back

VARIABLES
  said,      \* history: the lines people have said, numbered
  gameIn, ircIn,   \* lines the two servers have still to deliver to the bot
  echoes,    \* lines of the bot that the game server has sent back
  out,       \* everything the bot has sent, and in reply to which line
  irc,       \* self.irc is not None
  bridged    \* the speakers in private have a bridge

chatVars == <<said, gameIn, ircIn, echoes, out, irc, bridged>>

Texts == {"talk", "ask", "tell", "announce", "unload"}
GameHows == {"public", "team", "private"}
IrcHows == {"public", "private", "action", "action_private", "notice", "server"}

\* A line: who is "people" or "bot", op whether it may be a command
\* that is kept from most: isByOp holds, or the server is not a productive one.
Lines == [n : Nat, side : {"game", "irc"}, how : GameHows \cup IrcHows, text : Texts,
          who : {"people", "bot"}, op : BOOLEAN]

\* Something sent: to everybody or the team of a side, to the one who spoke, to the partner of
\* a bridge, or to somebody named in the command.
Sends == [n : Nat, to : {"game", "irc"}, reaches : {"all", "team", "speaker", "partner", "named"},
          as : {"relay", "answer", "told", "broadcast"}]

Send(l, to, reaches, as) == [n |-> l.n, to |-> to, reaches |-> reaches, as |-> as]

IsPrivate(l) == l.how \in {"private", "action_private", "notice"}
IsAction(l) == l.how \in {"action", "action_private"}

\* The command prefix makes a command of every line of the game, but not of an action on IRC.
IsCommand(l) == l.text # "talk" /\ ~IsAction(l)

-----------------------------------------------------------------------------
(* respond: to where the command came from, in the way it came.            *)

\* IngameChat.sendToGame, also of the response made from the event.
GameReach(l) == CASE l.how = "public" -> "all" [] l.how = "team" -> "team" [] OTHER -> "speaker"
RespondInGame(l) == {Send(l, "game", GameReach(l), "answer")}

\* IRCChatResponse.sendToIRC.
RespondOnIrc(l) == {Send(l, "irc", IF IsPrivate(l) THEN "speaker" ELSE "all", "answer")}

Respond(l) == IF l.side = "game" THEN RespondInGame(l) ELSE RespondOnIrc(l)

Broadcast(l) ==
  {Send(l, "game", "all", "broadcast")} \cup (IF irc THEN {Send(l, "irc", "all", "broadcast")} ELSE {})

\* processCommand: an answer; the notice, which is answered when nobody has that name; and what
\* only an operator may do on a productive server.
Process(l, known) ==
  IF ~IsCommand(l) THEN {}
  ELSE CASE l.text = "ask" -> Respond(l)
         [] l.text = "tell" -> IF ~irc THEN {}
                               ELSE IF ~known THEN Respond(l)
                               ELSE {Send(l, IF l.side = "game" THEN "irc" ELSE "game", "named", "told")}
         [] l.text = "announce" /\ l.op -> Broadcast(l)
         [] l.text = "unload" /\ l.op /\ irc -> {Send(l, "game", "all", "broadcast")}
         [] OTHER -> {}

\* IngameChat.sendToIRC.
GameToIrc(l) ==
  IF irc /\ ~IsCommand(l) /\ l.how \in {"public", "team"} THEN {Send(l, "irc", "all", "relay")} ELSE {}

\* IRCChat.sendToGame.
IrcToGame(l) ==
  IF ~IsCommand(l) /\ ~IsPrivate(l) THEN {Send(l, "game", "all", "relay")} ELSE {}

\* ingame_tobridge and irc_tobridge.
ToBridge(l) ==
  IF IsPrivate(l) /\ l.how # "notice" /\ ~IsCommand(l) /\ bridged
  THEN {Send(l, IF l.side = "game" THEN "irc" ELSE "game", "partner", "relay")} ELSE {}

-----------------------------------------------------------------------------
(* People talk (external).                                                 *)

Say(side) ==
  /\ Cardinality(said) < MaxSaid
  /\ \E how \in IF side = "game" THEN GameHows ELSE IrcHows, text \in Texts, op \in BOOLEAN :
       LET l == [n |-> Cardinality(said) + 1, side |-> side, how |-> how, text |-> text,
                 who |-> "people", op |-> op] IN
       /\ said' = said \cup {l}
       /\ IF side = "game" THEN gameIn' = Append(gameIn, l) /\ UNCHANGED ircIn
          ELSE irc /\ ircIn' = Append(ircIn, l) /\ UNCHANGED gameIn
  /\ UNCHANGED <<echoes, out, irc, bridged>>

\* The game server sends a line of the bot back to it.
Echo ==
  /\ echoes < MaxEchoes /\ echoes' = echoes + 1
  /\ \E s \in out, text \in Texts :
       /\ s.to = "game" /\ s.reaches \in {"all", "team"}
       /\ gameIn' = Append(gameIn, [n |-> s.n, side |-> "game", how |-> IF s.reaches = "all" THEN "public" ELSE "team",
                                    text |-> text, who |-> "bot", op |-> FALSE])
  /\ UNCHANGED <<said, ircIn, out, irc, bridged>>

\* Mutant: the bot takes its own lines for those of a player.
SelfSentNever(l) == FALSE
\* CHAT: the id is the bot's own, or the server says that it was self sent.
SelfSent(l) == l.who = "bot"

\* Event.dispatch: every dispatcher of the class, and then those that plugins have added.
DispatchIngame(l, known) == GameToIrc(l) \cup Process(l, known) \cup ToBridge(l)
DispatchIrc(l, known) == Process(l, known) \cup IrcToGame(l) \cup ToBridge(l)

GameChat ==
  /\ gameIn # <<>> /\ gameIn' = Tail(gameIn)
  /\ LET l == Head(gameIn) IN
     \E known \in BOOLEAN :
       /\ out' = IF SelfSent(l) THEN out
                 ELSE out \cup DispatchIngame(l, known)
       /\ irc' = (irc /\ ~(l.text = "unload" /\ l.op /\ IsCommand(l) /\ ~SelfSent(l)))
       /\ ircIn' = IF irc' THEN ircIn ELSE <<>>
  /\ UNCHANGED <<said, echoes, bridged>>

\* on_pubmsg drops the lines of a server; there is no on_pubnotice.
IrcChat ==
  /\ ircIn # <<>>
  /\ LET l == Head(ircIn) IN \E known \in BOOLEAN :
       IF l.how = "server" THEN UNCHANGED <<out, irc>>
       ELSE /\ out' = out \cup DispatchIrc(l, known)
            /\ irc' = (irc /\ ~(l.text = "unload" /\ l.op /\ IsCommand(l)))
  /\ ircIn' = IF irc' THEN Tail(ircIn) ELSE <<>>
  /\ UNCHANGED <<said, gameIn, echoes, bridged>>

-----------------------------------------------------------------------------
ChatInit ==
  /\ said = {} /\ gameIn = <<>> /\ ircIn = <<>> /\ echoes = 0 /\ out = {}
  /\ irc = TRUE /\ bridged \in BOOLEAN

ChatNext == Say("game") \/ Say("irc") \/ Echo \/ GameChat \/ IrcChat
ChatSpec == ChatInit /\ [][ChatNext]_chatVars

-----------------------------------------------------------------------------
Spoken(s) == CHOOSE l \in said : l.n = s.n

\* Nothing goes round: talk is relayed to the side it was not said on and never returns to the
\* one it came from, and only commands of people are obeyed, although every line the bot sends
\* to the game comes back to it and may look like talk or like a command.
NoEcho ==
  \A s \in out : IF s.as = "relay" THEN s.to # Spoken(s).side /\ ~IsCommand(Spoken(s))
                 ELSE IsCommand(Spoken(s))

\* What is said in private is never heard by a whole side: only the partner of a bridge, the
\* speaker or somebody named gets it.  A broadcast says what was done, not what was said.
PrivateKept ==
  \A s \in out : IsPrivate(Spoken(s)) /\ s.as # "broadcast" => s.reaches \notin {"all", "team"}

\* What the relays owe to both sides.
RelayHolds == NoEcho /\ PrivateKept
=============================================================================
