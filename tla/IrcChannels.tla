----------------------------- MODULE IrcChannels -----------------------------
(***************************************************************************)
(* What the bot knows of its channel: the tables of lib/ircbot.py, kept up *)
(* to date by the lines that lib/irclib.py reads from the server.  The     *)
(* server and the other users are external.  Lines are handled one by one  *)
(* by the bot's thread; the connection can be lost between any two of      *)
(* them, by a send that fails in this thread or in the game thread.        *)
(***************************************************************************)
EXTENDS Naturals, Sequences, FiniteSets, SequencesExt, FiniteSetsExt, Functions, TLC

CONSTANTS
  Users,        \* the other users of the IRC server
  Low,          \* irc_lower on the nicks in use
  MyNick, MyNick2,  \* the configured nick, and the same with "_" appended
  Absent,       \* no entry in self.channels
  Instances     \* what is looked at: see inst

Nicks == DOMAIN Low

\* An IRCDict has the names it was given (data), and each under its name in lower case (canon_keys).
Dicts == [data : SUBSET Nicks, canon : UNION {[lows -> Nicks] : lows \in SUBSET Range(Low)}]
Channels == [users : Dicts, o : Dicts, v : Dicts, modes : SUBSET {"b", "k", "l"}]

Me == "me"
None == "None"

ASSUME NicksAssumption ==
  /\ {MyNick, MyNick2} \subseteq Nicks /\ Low[MyNick] # Low[MyNick2]
  /\ Nicks \cap {None, "none", "join"} = {} /\ None \notin Range(Low)
  /\ Me \notin Users /\ Absent \notin Channels
  /\ \A i \in Instances : i.take \in [Users -> SUBSET Nicks] /\ i.letters \subseteq {"o", "v"}

VARIABLES
  inst,      \* the instance; it never changes
  link,      \* of the connection: "down", "registering", "up"
  real,      \* real_nickname
  channel,   \* the entry of self.channels for the bot's channel, or Absent
  batch,     \* lines that were received and are still to be handled
  dead,      \* an exception has ended the bot's thread
  member,    \* server: nick and modes of everyone in the channel
  myNick,    \* server: the bot's nick
  sent,      \* server: what the bot asked for, "none", "join" or the nick of a NICK
  wire,      \* server: lines sent to the bot
  spoiled,   \* history: names in lower case whose entries may be wrong
  cut        \* history: the connection was lost with lines still in the batch

server  == <<member, myNick, sent, wire>>
ircVars == <<link, real, channel, batch, dead, server, spoiled, cut>>

MayTake == inst.take      \* the nicks a user takes
Letters == inst.letters   \* the user modes in use, of "o" and "v"
MaxLines == inst.lines    \* bound: lines on their way or received
Late == inst.late         \* bound: everybody is in the channel at first and gets in only once

-----------------------------------------------------------------------------
(* IRCDict: data by the exact name, canon_keys by the name in lower case.  *)

With(f, k, v) == [x \in DOMAIN f \cup {k} |-> IF x = k THEN v ELSE f[x]]

EmptyDict == [data |-> {}, canon |-> [k \in {} |-> None]]

LowKey(k) == IF k = None THEN None ELSE Low[k]

HasKey(d, k) == LowKey(k) \in DOMAIN d.canon

DelKey(d, k) ==
  [data |-> d.data \ {d.canon[LowKey(k)]}, canon |-> Restrict(d.canon, DOMAIN d.canon \ {LowKey(k)})]

SetKey(d, k) ==
  LET rest == IF HasKey(d, k) THEN DelKey(d, k) ELSE d
  IN  [data |-> rest.data \cup {k}, canon |-> With(rest.canon, LowKey(k), k)]

\* Many names, no two of which are the same in lower case, so that their order makes no difference.
SetKeys(d, ks) ==
  LET lows == {Low[k] : k \in ks} IN
  [data  |-> (d.data \ {d.canon[l] : l \in lows \cap DOMAIN d.canon}) \cup ks,
   canon |-> [l \in DOMAIN d.canon \cup lows |-> IF l \in lows THEN CHOOSE k \in ks : Low[k] = l ELSE d.canon[l]]]

\* As remove_user and clear_mode delete: nothing happens when it is not there.
Discard(d, k) == IF HasKey(d, k) THEN DelKey(d, k) ELSE d

-----------------------------------------------------------------------------
(* Channel.                                                                *)

NewChannel == [users |-> EmptyDict, o |-> EmptyDict, v |-> EmptyDict, modes |-> {}]

AddUser(ch, k) == [ch EXCEPT !.users = SetKey(@, k)]

\* Mutant: the modes of a user who left are kept.
RemoveUserKeepsModes(ch, k) == [ch EXCEPT !.users = Discard(@, k)]
RemoveUser(ch, k) ==
  [ch EXCEPT !.users = Discard(@, k), !.o = Discard(@, k), !.v = Discard(@, k)]

\* The new name is entered first, then the old one is deleted: a change of case deletes both.
Renamed(d, before, after) == DelKey(SetKey(d, after), before)
ChangeNick(ch, before, after) ==
  LET Move(d) == IF HasKey(d, before) THEN Renamed(d, before, after) ELSE d
  IN  [ch EXCEPT !.users = Renamed(@, before, after), !.o = Move(@), !.v = Move(@)]

SetMode(ch, mode, value) ==
  IF mode \in {"o", "v"} THEN [ch EXCEPT ![mode] = SetKey(@, value)]
  ELSE [ch EXCEPT !.modes = @ \cup {mode}]

ClearMode(ch, mode, value) ==
  IF mode \in {"o", "v"} THEN [ch EXCEPT ![mode] = Discard(@, value)]
  ELSE [ch EXCEPT !.modes = @ \ {mode}]

Unary == {"b", "k", "l", "v", "o"}

\* _parse_modes: an argument goes to each mode of Unary, with either sign, until none is left.
ParseModes(chars, args) ==
  LET Step(acc, ch) ==
        LET takes == ch \in Unary /\ acc.used < Len(args) IN
        IF ch \in {"+", "-"} THEN [acc EXCEPT !.sign = ch]
        ELSE [sign |-> acc.sign, used |-> IF takes THEN acc.used + 1 ELSE acc.used,
              out |-> Append(acc.out, <<acc.sign, ch, IF takes THEN args[acc.used + 1] ELSE None>>)]
      Read[i \in 0 .. Len(chars)] ==
        IF i = 0 THEN [sign |-> "", used |-> 0, out |-> <<>>] ELSE Step(Read[i - 1], chars[i])
  IN  IF chars = <<>> \/ Head(chars) \notin {"+", "-"} THEN <<>> ELSE Read[Len(chars)].out

ApplyModes(ch, modes) ==
  LET One(c, m) == IF m[1] = "+" THEN SetMode(c, m[2], m[3]) ELSE ClearMode(c, m[2], m[3])
      Applied[i \in 0 .. Len(modes)] == IF i = 0 THEN ch ELSE One(Applied[i - 1], modes[i])
  IN  Applied[Len(modes)]

\* _on_namreply: one prefix at most is taken off.
NamReply(ch, names) ==
  LET Listed(prefix) == {e.nick : e \in {x \in names : x.prefix = prefix}}
  IN  [ch EXCEPT !.users = SetKeys(@, {e.nick : e \in names}),
                 !.o = SetKeys(@, Listed("o")), !.v = SetKeys(@, Listed("v"))]

-----------------------------------------------------------------------------
(* The server (external): what it does to the channel, and the lines it    *)
(* sends the bot when the bot is in the channel.                           *)

NickInUse(k) == \E m \in DOMAIN member : Low[member[m].nick] = Low[k]
Has(m, l) == l \in member[m].modes

Watched == Me \in DOMAIN member
ToBot(line) == wire' = IF Watched THEN Append(wire, line) ELSE wire
Room == Len(wire) + Len(batch) < MaxLines

Outside == UNCHANGED <<link, real, channel, batch, dead, myNick, sent, cut>>

UserJoins(u) ==
  /\ Room /\ u \notin DOMAIN member /\ ~Late
  /\ \E k \in MayTake[u] : /\ ~NickInUse(k) /\ Low[k] # Low[myNick]
                           /\ member' = With(member, u, [nick |-> k, modes |-> {}])
                           /\ ToBot([ev |-> "join", nick |-> k])
  /\ Outside /\ UNCHANGED spoiled

\* A part, a quit, or a kick of somebody else.
UserLeaves(u) ==
  /\ Room /\ u \in DOMAIN member
  /\ member' = Restrict(member, DOMAIN member \ {u})
  /\ \E ev \in {"part", "quit", "kick"} : ToBot([ev |-> ev, nick |-> member[u].nick])
  /\ Outside /\ UNCHANGED spoiled

UserRenames(u) ==
  /\ Room /\ u \in DOMAIN member
  /\ \E k \in MayTake[u] \ {member[u].nick} :
       LET before == member[u].nick
           caseOnly == Low[k] = Low[before] IN
       /\ (NickInUse(k) => caseOnly) /\ Low[k] # Low[myNick]
       /\ member' = [member EXCEPT ![u].nick = k]
       /\ ToBot([ev |-> "nick", nick |-> before, after |-> k])
       /\ spoiled' = IF Watched /\ (caseOnly \/ Low[before] \in spoiled)
                     THEN spoiled \cup {Low[before], Low[k]} ELSE spoiled
  /\ Outside

\* Somebody gives or takes a mode, alone or behind a change of the channel's limit, which has
\* an argument only when it is set.
UserMode(u) ==
  /\ Room /\ u \in DOMAIN member
  /\ \E l \in Letters, withLimit \in BOOLEAN :
       LET k == member[u].nick
           sign == IF Has(u, l) THEN "-" ELSE "+"
           chars == IF withLimit THEN <<sign, "l", l>> ELSE <<sign, l>>
           args == IF withLimit /\ sign = "+" THEN <<None, k>> ELSE <<k>> IN
       /\ member' = [member EXCEPT ![u].modes = IF sign = "+" THEN @ \cup {l} ELSE @ \ {l}]
       /\ ToBot([ev |-> "mode", chars |-> chars, args |-> args])
       /\ spoiled' = IF Watched /\ withLimit /\ sign = "-" THEN spoiled \cup {Low[k]} ELSE spoiled
  /\ Outside

\* The bot is removed from the channel by an operator.
KickBot ==
  /\ Room /\ Watched
  /\ member' = Restrict(member, DOMAIN member \ {Me}) /\ spoiled' = {}
  /\ ToBot([ev |-> "kick", nick |-> myNick])
  /\ Outside

\* The server gives the bot its other nick.
RenameBot ==
  /\ Room /\ Watched /\ ~Late
  /\ \E k \in {MyNick, MyNick2} \ {myNick} :
       /\ ~NickInUse(k) /\ myNick' = k
       /\ member' = [member EXCEPT ![Me].nick = k]
       /\ ToBot([ev |-> "nick", nick |-> myNick, after |-> k])
       /\ spoiled' = IF Low[myNick] \in spoiled THEN spoiled \cup {Low[k]} ELSE spoiled
  /\ UNCHANGED <<link, real, channel, batch, dead, sent, cut>>

\* NICK while registering: welcome, or the nick is in use.
ServeNick ==
  /\ link = "registering" /\ sent \in Nicks
  /\ IF NickInUse(sent)
     THEN wire' = Append(wire, [ev |-> "inuse"]) /\ UNCHANGED myNick
     ELSE wire' = Append(wire, [ev |-> "welcome", nick |-> sent]) /\ myNick' = sent
  /\ sent' = "none"
  /\ UNCHANGED <<link, real, channel, batch, dead, member, spoiled, cut>>

\* JOIN: the bot's own join, then the names with the highest prefix of each.
Prefix(m) == IF "o" \in m.modes THEN "o" ELSE IF "v" \in m.modes THEN "v" ELSE ""
BothModes(mem) == {Low[mem[m].nick] : m \in {x \in DOMAIN mem : {"o", "v"} \subseteq mem[x].modes}}

ServeJoin ==
  /\ sent = "join" /\ sent' = "none" /\ ~Late
  /\ member' = With(member, Me, [nick |-> myNick, modes |-> {}])
  /\ wire' = wire \o <<[ev |-> "join", nick |-> myNick],
                       [ev |-> "namreply",
                        names |-> {[prefix |-> Prefix(m), nick |-> m.nick] : m \in Range(member')}]>>
  \* Who holds both modes is listed as operator only, so the table of voices may miss one.
  /\ spoiled' = BothModes(member')
  /\ UNCHANGED <<link, real, channel, batch, dead, myNick, cut>>

-----------------------------------------------------------------------------
(* The bot.                                                                *)

\* connect() logs on with the configured nick.
Connect ==
  /\ link = "down" /\ ~dead /\ batch = <<>> /\ ~Late
  /\ link' = "registering" /\ real' = MyNick /\ sent' = MyNick
  /\ UNCHANGED <<channel, batch, dead, member, myNick, wire, spoiled, cut>>

\* process_data: a part of what the wire holds, split into lines.
Receive ==
  /\ ~dead /\ batch = <<>> /\ link # "down" /\ wire # <<>>
  /\ \E k \in 1 .. Len(wire) : batch' = SubSeq(wire, 1, k) /\ wire' = SubSeq(wire, k + 1, Len(wire))
  /\ UNCHANGED <<link, real, channel, dead, member, myNick, sent, spoiled, cut>>

\* A send fails or recv finds the end: disconnect() and _on_disconnect, in either thread.  The
\* lines of the batch are still handled.
Drop ==
  /\ ~dead /\ link # "down" /\ link' = "down"
  /\ channel' = Absent
  /\ wire' = <<>> /\ sent' = "none" /\ member' = Restrict(member, DOMAIN member \ {Me})
  /\ cut' = (cut \/ batch # <<>>) /\ spoiled' = {}
  /\ UNCHANGED <<real, batch, dead, myNick>>

\* A handler ends: the table is ch, the nick is r, and request goes to the server.
Done(ch, r, request) ==
  /\ channel' = ch /\ real' = r /\ batch' = Tail(batch)
  /\ sent' = IF request = "none" THEN sent ELSE request
  /\ UNCHANGED <<link, dead, member, myNick, wire, spoiled, cut>>

\* A KeyError, or a send without a connection, in a handler.
Dies ==
  /\ dead' = TRUE /\ batch' = <<>>
  /\ UNCHANGED <<link, real, channel, server, spoiled, cut>>

Line == Head(batch)
Gone == link \in {"down", "unloaded"}
Handling(evs) == ~dead /\ batch # <<>> /\ Line.ev \in evs

\* on_welcome and on_nicknameinuse send, which raises when the connection is gone.
HandleWelcome ==
  /\ Handling({"welcome"})
  /\ IF Gone THEN Dies
     ELSE /\ channel' = channel /\ real' = Line.nick /\ batch' = Tail(batch)
          /\ sent' = "join" /\ link' = "up"
          /\ UNCHANGED <<dead, member, myNick, wire, spoiled, cut>>

HandleInUse ==
  /\ Handling({"inuse"})
  /\ IF Gone THEN Dies
     ELSE Done(channel, real, MyNick2)

HandleJoin ==
  /\ Handling({"join"})
  /\ IF channel = Absent /\ Line.nick # real THEN Dies
     ELSE Done(AddUser(IF Line.nick = real THEN NewChannel ELSE channel, Line.nick), real, "none")

\* on_kick has asked to join again before _on_kick deletes the channel.
HandleKick ==
  /\ Handling({"kick"})
  /\ IF channel = Absent \/ (Line.nick = real /\ Gone) THEN Dies
     ELSE IF Line.nick = real THEN Done(Absent, real, "join")
     ELSE Done(RemoveUser(channel, Line.nick), real, "none")

HandlePart ==
  /\ Handling({"part"})
  /\ IF channel = Absent THEN Dies
     ELSE Done(IF Line.nick = real THEN Absent ELSE RemoveUser(channel, Line.nick), real, "none")

\* _on_quit and _on_nick go over the channels there are.
HandleQuit ==
  /\ Handling({"quit"})
  /\ Done(IF channel = Absent \/ ~HasKey(channel.users, Line.nick) THEN channel
          ELSE RemoveUser(channel, Line.nick), real, "none")

HandleNick ==
  /\ Handling({"nick"})
  /\ Done(IF channel = Absent \/ ~HasKey(channel.users, Line.nick) THEN channel
          ELSE ChangeNick(channel, Line.nick, Line.after),
          IF Line.nick = real THEN Line.after ELSE real, "none")

HandleMode ==
  /\ Handling({"mode"})
  /\ IF channel = Absent THEN Dies
     ELSE Done(ApplyModes(channel, ParseModes(Line.chars, Line.args)), real, "none")

HandleNamReply ==
  /\ Handling({"namreply"})
  /\ IF channel = Absent THEN Dies ELSE Done(NamReply(channel, Line.names), real, "none")

Leaving == HandlePart \/ HandleQuit
HandleLine ==
  \/ HandleWelcome \/ HandleInUse \/ HandleJoin \/ HandleKick
  \/ HandleNick \/ HandleMode \/ HandleNamReply

-----------------------------------------------------------------------------
IrcInit ==
  /\ inst \in Instances
  /\ IF Late
     THEN /\ link = "up"
          /\ member \in [Users \cup {Me} -> [nick : Nicks, modes : {{}}]]
          /\ member[Me].nick = MyNick /\ \A u \in Users : member[u].nick \in MayTake[u]
          /\ \A m, k \in DOMAIN member : Low[member[m].nick] = Low[member[k].nick] => m = k
          /\ channel = NamReply(NewChannel, {[prefix |-> "", nick |-> m.nick] : m \in Range(member)})
     ELSE link = "down" /\ channel = Absent /\ member = [m \in {} |-> None]
  /\ real = MyNick /\ batch = <<>> /\ dead = FALSE
  /\ myNick = MyNick /\ sent = "none" /\ wire = <<>> /\ spoiled = {} /\ cut = FALSE

Server ==
  \/ \E u \in Users : UserJoins(u) \/ UserLeaves(u) \/ UserRenames(u) \/ UserMode(u)
  \/ KickBot \/ RenameBot \/ ServeNick \/ ServeJoin

-----------------------------------------------------------------------------
InStep == link = "up" /\ ~dead /\ Me \in DOMAIN member /\ batch = <<>> /\ wire = <<>>

\* Once the bot has handled every line, each of its tables holds exactly the members of the
\* channel that have that mode now, under their present nick; only an entry that a change
\* of case or a taken limit has spoiled may be off.
TablesAgree ==
  InStep => \A k \in Nicks : Low[k] \notin spoiled =>
    /\ k \in channel.users.data <=> \E m \in DOMAIN member : member[m].nick = k
    /\ \A l \in Letters : k \in channel[l].data <=> \E m \in DOMAIN member : member[m].nick = k /\ Has(m, l)
=============================================================================
