------------------------------- MODULE Bridges -------------------------------
(***************************************************************************)
(* plugins/ircbridges.py: private chat between one user of the IRC channel *)
(* and one player of the game.  Two tables, one for each direction, are    *)
(* read and written without a lock by the game thread (commands and quits  *)
(* of players) and by the bot's thread (commands and leaving of IRC users).*)
(* One step per access to a table.  Each operation is written once, for    *)
(* the side t that starts it; the tables of IrcChannels are those the      *)
(* plugin asks who is there.  Users outside the channel, who could send    *)
(* commands in private as well, are left out.                              *)
(***************************************************************************)
EXTENDS IrcChannels

CONSTANT Players   \* ids of players other than the bot
Names == inst.names   \* their names

VARIABLES
  table,     \* bridges_irc_ingame and bridges_ingame_irc, by the side of the key
  players,   \* the client's playerlist: names by id
  pc, at,    \* per thread: the access that comes next, and its operation
  error,     \* per thread: the exception that ended it
  overlap,   \* history: an operation was begun in the middle of one of the other thread
  excused    \* history: entries whose owner went or came without the plugin being told

bridgeVars == <<table, players, pc, at, error, overlap, excused>>
bvars == <<inst, ircVars, bridgeVars>>

Sides == {"game", "irc"}
Other(t) == IF t = "game" THEN "irc" ELSE "game"
NoOp == [why |-> "none", own |-> None, peer |-> None, ids |-> {}]

-----------------------------------------------------------------------------
Between == \A t \in Sides : pc[t] = "idle"
Running(t) == IF t = "game" THEN error["game"] = "no" ELSE ~dead
Idle(t) == Running(t) /\ pc[t] = "idle"

\* Side t begins an operation, its first access being p.
Begin(t, p, op) ==
  /\ pc' = [pc EXCEPT ![t] = p] /\ at' = [at EXCEPT ![t] = op]
  /\ overlap' = (overlap \/ pc[Other(t)] # "idle")
Goto(t, p) == pc' = [pc EXCEPT ![t] = p] /\ UNCHANGED <<at, overlap>>
End(t) == pc' = [pc EXCEPT ![t] = "idle"] /\ at' = [at EXCEPT ![t] = NoOp] /\ UNCHANGED overlap

\* An exception ends the thread; nothing on the way catches it.
Raise(t, what) ==
  /\ End(t) /\ error' = [error EXCEPT ![t] = what]
  /\ dead' = (dead \/ t = "irc") /\ batch' = IF t = "irc" THEN <<>> ELSE batch
Calm == UNCHANGED <<error, dead, batch>>

Own(t) == at[t].own
Peer(t) == at[t].peer
InChannel(k) == channel # Absent /\ HasKey(channel.users, k)
Known(k) == channel # Absent /\ k \in channel.users.data
Loaded == link # "unloaded"

IrcRest == UNCHANGED <<link, real, channel, server, spoiled, cut>>

-----------------------------------------------------------------------------
(* setup_bridge, for Own(t) with Peer(t).                                  *)

SetupFree(t, own, peer) == own \notin DOMAIN table[t] /\ peer \notin DOMAIN table[Other(t)]

\* The IRC branch looks the player up, the game branch asks the bot's table; without an entry
\* for the channel that raises.
Setup(t, own, peer) ==
  LET op == [why |-> "setup", own |-> own, peer |-> peer, ids |-> DOMAIN players] IN
  IF ~Loaded \/ ~SetupFree(t, own, peer) THEN Begin(t, "idle", NoOp) /\ UNCHANGED error
  ELSE IF t = "irc" THEN Begin(t, "find", op) /\ UNCHANGED error
  ELSE IF channel = Absent THEN Begin(t, "idle", NoOp) /\ error' = [error EXCEPT !["game"] = "channel"]
  ELSE Begin(t, IF InChannel(peer) THEN "putOwn" ELSE "idle", op) /\ UNCHANGED error

Present(t, k) == IF t = "irc" THEN Known(k) ELSE k \in Range(players)
Excuse(t, gone) == excused' = excused \cup ({t} \X (gone \cap DOMAIN table[t]))

PutOwn(t) ==
  /\ Running(t) /\ pc[t] = "putOwn" /\ Goto(t, "putPeer")
  /\ table' = [table EXCEPT ![t] = With(@, Own(t), Peer(t))]
  /\ Calm /\ IrcRest /\ UNCHANGED <<players, excused>>

\* The second entry, and the answers; the one to IRC raises without a connection.
PutPeer(t) ==
  /\ Running(t) /\ pc[t] = "putPeer"
  /\ table' = [table EXCEPT ![Other(t)] = With(@, Peer(t), Own(t))]
  /\ excused' = excused \cup {e \in {<<t, Own(t)>>, <<Other(t), Peer(t)>>} : ~Present(e[1], e[2])}
  /\ IF t = "irc" /\ Gone THEN Raise(t, "link") ELSE End(t) /\ Calm
  /\ IrcRest /\ UNCHANGED players

-----------------------------------------------------------------------------
(* remove_bridge_irc_ingame and remove_bridge_ingame_irc, asked for or     *)
(* because Own(t) leaves.                                                  *)

\* Mutant: the test whether there is a bridge is missing.
RemoveUntested(t, own, why, who) ==
  Begin(t, "read", [why |-> why, own |-> own, peer |-> None, ids |-> who])

RemoveBridge(t, own, why, who) ==
  Begin(t, IF own \in DOMAIN table[t] THEN "read" ELSE IF why = "leave" THEN "left" ELSE "idle",
        [why |-> why, own |-> own, peer |-> None, ids |-> who])

\* An access of side t to a key of its own or of the other table, which raises when the other
\* thread has deleted it since.
Access(t, p, s, k, next) ==
  /\ Running(t) /\ pc[t] = p
  /\ IF k \in DOMAIN table[s] THEN next ELSE Raise(t, "key") /\ UNCHANGED <<table, excused>>
  /\ IrcRest /\ UNCHANGED players

Read(t) == Access(t, "read", t, Own(t),
  /\ pc' = [pc EXCEPT ![t] = "peer"]
  /\ at' = [at EXCEPT ![t].peer = table[t][Own(t)]]
  /\ Calm /\ UNCHANGED <<overlap, table, excused>>)

TestPeer(t) ==
  /\ Running(t) /\ pc[t] = "peer"
  /\ Goto(t, IF Peer(t) \in DOMAIN table[Other(t)] THEN "delPeer" ELSE "delOwn")
  /\ Calm /\ IrcRest /\ UNCHANGED <<table, players, excused>>

Without(f, k) == Restrict(f, DOMAIN f \ {k})

\* Mutant: the entry of the partner stays.
DelPeerKeeps(t) == Access(t, "delPeer", Other(t), Peer(t),
  /\ Goto(t, "delOwn") /\ Calm
  /\ UNCHANGED <<table, excused>>)

DelPeer(t) == Access(t, "delPeer", Other(t), Peer(t),
  /\ Goto(t, "delOwn") /\ Calm
  /\ table' = [table EXCEPT ![Other(t)] = Without(@, Peer(t))]
  /\ excused' = excused \ {<<Other(t), Peer(t)>>})

\* Mutant: only the entry of the partner is deleted.
DelOwnKeeps(t) == Access(t, "delOwn", t, Own(t),
  /\ Calm /\ UNCHANGED <<table, excused>>
  /\ IF t = "game" THEN Goto(t, "tell")
     ELSE /\ pc' = [pc EXCEPT ![t] = "find"] /\ UNCHANGED overlap
          /\ at' = [at EXCEPT ![t].ids = DOMAIN players])

DelOwn(t) == Access(t, "delOwn", t, Own(t),
  /\ Calm /\ table' = [table EXCEPT ![t] = Without(@, Own(t))] /\ excused' = excused \ {<<t, Own(t)>>}
  /\ IF t = "game" THEN Goto(t, "tell")
     ELSE /\ pc' = [pc EXCEPT ![t] = "find"] /\ UNCHANGED overlap
          /\ at' = [at EXCEPT ![t].ids = DOMAIN players])

\* The game thread asks the bot's table whether to tell the partner.
Tell ==
  /\ Running("game") /\ pc["game"] = "tell"
  /\ IF channel = Absent THEN Raise("game", "channel")
     ELSE Calm /\ IF at["game"].why = "leave" THEN Goto("game", "left") ELSE End("game")
  /\ IrcRest /\ UNCHANGED <<table, players, excused>>

\* findPlayerByNick in the bot's thread: a dictionary that grows or shrinks under the loop
\* raises, if the loop was not over before; so does the look at a player that is deleted after
\* the loop has come to it (KeyError).  What follows depends on the operation.
Find ==
  /\ Running("irc") /\ pc["irc"] = "find"
  /\ \/ DOMAIN players # at["irc"].ids /\ Raise("irc", "size")
     \/ at["irc"].ids \ DOMAIN players # {} /\ Raise("irc", "player")
     \/ /\ at["irc"].why = "setup"
        /\ IF Peer("irc") \in Range(players) THEN Goto("irc", "putOwn") ELSE End("irc")
        /\ Calm
     \/ at["irc"].why = "leave" /\ Goto("irc", "left") /\ Calm
     \/ at["irc"].why = "remove" /\ IF Gone THEN Raise("irc", "link") ELSE End("irc") /\ Calm
     \/ at["irc"].why = "text" /\ End("irc") /\ Calm
  /\ IrcRest /\ UNCHANGED <<table, players, excused>>

-----------------------------------------------------------------------------
(* ingame_tobridge and irc_tobridge: a private line.                       *)

Text(t, own) ==
  Begin(t, IF own \in DOMAIN table[t] THEN "relay" ELSE "idle",
        [why |-> "text", own |-> own, peer |-> None, ids |-> {}])

Relay(t) == Access(t, "relay", t, Own(t),
  /\ IF t = "game" THEN End(t)
     ELSE pc' = [pc EXCEPT ![t] = "find"] /\ at' = [at EXCEPT ![t].ids = DOMAIN players] /\ UNCHANGED overlap
  /\ Calm /\ UNCHANGED <<table, excused>>)

-----------------------------------------------------------------------------
(* The game thread: what the packets of the server say of the players, and *)
(* the commands in them.                                                   *)

GameOnly == Idle("game") /\ UNCHANGED <<ircVars, table>>

PlayerEnters(p) ==
  /\ GameOnly /\ p \notin DOMAIN players
  /\ \E x \in Names \ Range(players) : players' = With(players, p, x)
  /\ UNCHANGED <<pc, at, error, overlap, excused>>

\* CLIENT_INFO with another name, and ERROR_QUIT: the plugin is not told of either.
PlayerRenames(p) ==
  /\ GameOnly /\ p \in DOMAIN players
  /\ \E x \in Names \ Range(players) : players' = [players EXCEPT ![p] = x]
  /\ Excuse("game", {players[p]})
  /\ UNCHANGED <<pc, at, error, overlap>>

PlayerErrors(p) ==
  /\ GameOnly /\ p \in DOMAIN players
  /\ players' = Without(players, p) /\ Excuse("game", {players[p]})
  /\ UNCHANGED <<pc, at, error, overlap>>

\* QUIT: on_user_quit, and then the player is taken off the list.
PlayerQuits(p) ==
  /\ GameOnly /\ p \in DOMAIN players
  /\ RemoveBridge("game", players[p], "leave", {p})
  /\ UNCHANGED <<players, error, excused>>

PlayerGone ==
  /\ Running("game") /\ pc["game"] = "left"
  /\ players' = Restrict(players, DOMAIN players \ at["game"].ids)
  /\ End("game")
  /\ UNCHANGED <<ircVars, table, error, excused>>

GameCommand(p) ==
  /\ GameOnly /\ p \in DOMAIN players
  /\ LET x == players[p] IN
     \/ \E u \in Users : \E k \in MayTake[u] : Setup("game", x, k)
     \/ Loaded /\ RemoveBridge("game", x, "remove", {}) /\ UNCHANGED error
     \/ Text("game", x) /\ UNCHANGED error
  /\ UNCHANGED <<players, excused>>

\* The command unloadirc; the bot's thread still handles the lines it has.
Unload ==
  /\ Idle("game") /\ link = "up" /\ link' = "unloaded"
  /\ channel' = Absent /\ wire' = <<>> /\ sent' = "none" /\ spoiled' = {}
  /\ member' = Restrict(member, DOMAIN member \ {Me})
  /\ cut' = (cut \/ batch # <<>>)
  /\ UNCHANGED <<real, batch, dead, myNick, bridgeVars>>

-----------------------------------------------------------------------------
(* The bot's thread.                                                       *)

\* The server (external) passes a private line of a user on.
UserSays(u) ==
  /\ Room /\ Watched /\ u \in DOMAIN member /\ Names # {}
  /\ \E what \in {"setup", "remove", "text"} :
       \E x \in IF what = "setup" THEN Names ELSE {None} :
         ToBot([ev |-> "say", nick |-> member[u].nick, what |-> what, arg |-> x])
  /\ Outside /\ UNCHANGED <<member, spoiled, bridgeVars>>

IrcCommand ==
  /\ Idle("irc") /\ Handling({"say"}) /\ batch' = Tail(batch)
  /\ \/ Line.what = "setup" /\ Setup("irc", Line.nick, Line.arg)
     \/ /\ Line.what = "remove" /\ UNCHANGED error
        /\ IF Loaded THEN RemoveBridge("irc", Line.nick, "remove", {}) ELSE Begin("irc", "idle", NoOp)
     \/ Line.what = "text" /\ Text("irc", Line.nick) /\ UNCHANGED error
  /\ IrcRest /\ UNCHANGED <<dead, table, players, excused>>

\* PART and QUIT: the plugin's callback comes before the bot's own table is changed.
IrcLeaves ==
  /\ Idle("irc") /\ Handling({"part", "quit"})
  /\ RemoveBridge("irc", Line.nick, "leave", {})
  /\ UNCHANGED <<ircVars, table, players, error, excused>>

IrcLeft ==
  /\ Running("irc") /\ pc["irc"] = "left"
  /\ Leaving /\ End("irc")
  /\ UNCHANGED <<table, players, error, excused>>

\* Nobody tells the plugin of a kick or of a new nick, nor, while the bot itself is out of the
\* channel, of anything.
Unseen == IF Line.ev = "kick" /\ Line.nick = real THEN Nicks
          ELSE IF Line.ev \in {"kick", "nick"} THEN {Line.nick} ELSE {}
IrcLine ==
  /\ Idle("irc") /\ HandleLine /\ Excuse("irc", Unseen)
  /\ UNCHANGED <<table, players, pc, at, error, overlap>>

IrcNetwork ==
  /\ Idle("irc")
  /\ \/ Connect /\ Excuse("irc", DOMAIN table["irc"])
     \/ Receive /\ UNCHANGED excused
  /\ UNCHANGED <<table, players, pc, at, error, overlap>>

IrcDrop ==
  /\ link # "unloaded" /\ Drop
  /\ UNCHANGED bridgeVars

IrcServer == Server /\ UNCHANGED bridgeVars

-----------------------------------------------------------------------------
BridgesInit ==
  /\ IrcInit
  /\ table = [t \in Sides |-> [k \in {} |-> None]]
  /\ players \in [IF Late THEN Players ELSE {} -> Names] /\ IsInjective(players)
  /\ pc = [t \in Sides |-> "idle"] /\ at = [t \in Sides |-> NoOp]
  /\ error = [t \in Sides |-> "no"] /\ overlap = FALSE /\ excused = {}

Operation(t) ==
  PutOwn(t) \/ PutPeer(t) \/ Read(t) \/ TestPeer(t) \/ DelPeer(t) \/ DelOwn(t) \/ Relay(t)

GameThread ==
  \/ Operation("game") \/ Tell \/ PlayerGone
IrcThread ==
  Operation("irc") \/ Find \/ IrcLeft

GameBegins ==
  \/ Unload
  \/ \E p \in Players : \/ PlayerEnters(p) \/ PlayerRenames(p) \/ PlayerErrors(p)
                        \/ PlayerQuits(p) \/ GameCommand(p)
IrcBegins == IrcCommand \/ IrcLeaves \/ IrcLine \/ IrcNetwork
Elsewhere == IrcDrop \/ IrcServer \/ \E u \in Users : UserSays(u)

\* Bound: after the first overlap, or the end of a thread, only what has begun is finished.
Explored == ~overlap /\ ~dead /\ error["game"] = "no"

BridgesNext ==
  /\ \/ GameThread \/ IrcThread
     \/ Explored /\ (GameBegins \/ IrcBegins \/ Elsewhere)
  /\ UNCHANGED inst
BridgesSpec == BridgesInit /\ [][BridgesNext]_bvars

-----------------------------------------------------------------------------
Mirrors(f, g) == \A k \in DOMAIN f : f[k] \in DOMAIN g /\ g[f[k]] = k

\* Between operations the two tables say the same: each bridge has one user and one player,
\* and both directions lead between them; whatever was set up and removed by either side, as
\* long as no two operations of the two threads overlapped.
OneToOne ==
  Between /\ ~overlap => Mirrors(table["irc"], table["game"]) /\ Mirrors(table["game"], table["irc"])

\* A bridge does not outlive its user or its player, unless they went in a way the plugin is
\* not told of: a kick, a new nick, an error, a lost connection (one lost in the middle of a
\* batch may leave the bot a table of the past, which the plugin then asks).
BridgeOutlived ==
  Between /\ ~overlap /\ InStep /\ ~cut =>
    \A t \in Sides : \A k \in DOMAIN table[t] : Present(t, k) \/ <<t, k>> \in excused

\* A key missing in a table of the bridges ends a thread only after two operations have
\* overlapped (one missing in playerlist, or a channel missing in the bot's table, needs no
\* overlap), and the lines of the server end the bot's thread only when the connection was cut
\* in the middle of them.
BridgeKeyNeedsOverlap ==
  /\ \A t \in Sides : error[t] = "key" => overlap
  /\ dead /\ error["irc"] = "no" => cut
=============================================================================
