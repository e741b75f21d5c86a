# openttd-python: TLA+ models, checks and proofs

openttd-python is a spectator client for OpenTTD servers ("the bot"), with a plugin
system and an IRC bridge, together with a small library for OpenTTD's protocols: packet
framing, a select based TCP server, readers for savegames, NewGRFs and version strings.
It is Python 2 code. What is hard in it is first of all *who runs when*: the game
thread, the main thread and the IRC thread use the same objects without locks, a
connection ends in many ways at many points, lists are changed while they are walked, and
answers carry no mark of their question. Then there are the formats, whose boundary cases
few tests reach: savegames, version numbers, packed payloads.

This directory models those parts in TLA+ and checks them with TLC on small instances. Every
safety invariant and action property that a run finds to hold is proved with TLAPS too, for every
value of the constants; what is only model-checked is what needs fairness (end of section 4).

## 1. Inventory

| component (source) | state | operations | talks to | hard part |
|---|---|---|---|---|
| Spectator client (`ottd-client.py`) | `runCond`, `reconnectCond`, `playerlist`, `client_id`, `frame_server`, `irc`, position in `run`/`joinGame` | run, joinGame, handlePacket, processCommand, quit, startIRC/stopIRC, cleanup | server (TCP), plugins (callbacks), IRC thread (`irc.say`, `irc.stop`), main thread (`quit`) | reconnecting, quit from other threads, a session ending at any point |
| Base client (`openttd/client.py`) | `socket_tcp`, `socket_udp`, `running` | connect, disconnect, sendMsg, receiveMsg_TCP, UDP queries | sockets | short reads, the end of a connection |
| Packet framing (`openttd/networking.py`, `packet.py`) | `recvd` | createPacketHeader, stringReceived, sendData | base client, TCP server | packets cut anywhere, boundary sizes |
| TCP server (`openttd/server.py`) | `readsocks`, `writesocks`, `clients`, each handler's `connected` | accept, handle_tcp_connection, recv_data, send_data, broadcast_packet, handle_client_quit | handlers of a subclass | lists changed while walked; failing sends |
| IRC bot (`irc_lib.py`, `lib/ircbot.py`, `lib/irclib.py`) | `connected`, `socket`, `delayed_commands`, `runCond` (of bot and of ircobj), `disconnect_event` | connect, disconnect, send_raw, process_once, _connected_checker, say, stop | game thread (say, stop), IRC server, client (callbacks) | two threads without a lock, reconnect timer, stop |
| IRC channel tables (`lib/ircbot.py`) | `channels`: users, operators, voices | _on_join, _on_nick, ... | bot thread writes, game thread reads | case-insensitive names |
| Chat events (`ottd_client_event.py`) | `dispatchTo` of each class | dispatch to game, IRC, log, command processor | client, bot, plugins | which thread an event runs in |
| Plugin registry (`plugins/__init__.py`, `pluginclass.py`) | callbacks, commands, dispatchers | load, register, unregister, unregisterEveryThing | client | tables shared by all plugins; loading while the client walks a list |
| Bridges (`plugins/ircbridges.py`) | `bridges_irc_ingame`, `bridges_ingame_irc` | setup, remove, leave, relay | client, bot | two threads, two tables, no lock |
| Rcon, playerinfo, timewarning (`plugins/`) | `lastevent`; `companyLastAction`, `companyIdling`; `server_start`, `last_timewarning` | commands and callbacks | client, bot | answers without ids; what outlives a session; the clock |
| Web server, statistics (`plugins/webserver.py`) | `webserverthread`; the cache file | start, stop, update, clear | client, standard library | two threads that start and stop; a file that is read and rewritten for each entry |
| Server statistics (`ottd-serverstats.py`, `grfdb.py`) | the list of servers, the NewGRF data base | query, name, count | UDP | a thread per server on shared tables |
| Savegame (`openttd/savegame.py`) | data, offset, chunks, map arrays | load, handle, save | files | variable lengths, versions of the layout |
| Version (`openttd/version.py`), struct helpers (`openttd/structz.py`) | the text and the number of a revision; values and bytes | parse, print, number; pack, unpack | client, packets | first class that takes a text; strings without an end |
| Dates, GRF reader, content client, configuration, other tools | none that lasts | parse, query, print | files, UDP | not modelled (section 6) |

What makes each of them correct:

* *client*: the playerlist is what the server said; ACKs are in time; a final verdict that is
  not lost to a raising callback, or a quit, is final; any other failure leads to a new
  connection; `on_map_done` means what it says.
* *framing*: each packet arrives once, whole, in order and eventually.
* *server*: the three lists stay the same; nothing kills the loop; nobody is starved.
* *IRC bot*: a lost connection is tried again, by timers that go away once a connection lasts;
  stop ends the thread and returns.
* *IRC side*: the bot's tables say what the server said; the two tables of the bridges say the
  same and bridge nobody who has left; nothing said in private becomes public, nothing echoes.
* *plugins*: what the client holds of a plugin can be taken back, by that plugin, and only its own; a
  callback is neither left out nor called twice; an answer goes to its asker; news alternate; a server that
  listens can be stopped; the statistics are those of one map.
* *formats*: what was saved, announced or packed is what is read, joined with or unpacked; what
  was cut is noticed.

The hazards are listed line by line in `PROJECT.json`, with the properties that cover each.

## 2. Modules

| module | models | checked by |
|---|---|---|
| `GameClient` | the game thread of the spectator client, `quit()`/reconnect by another thread, the server as far as the client sees it | runs `GameClient`, `GameClientLive`, `GameClientMapDone`, `GameClientRetry`, `GameClientHangup` |
| `GameClient_proofs` | theorems about `GameClient` | tlapm |
| `PacketChannel` | abstract: a channel of packets | as properties of `PacketStream` |
| `PacketStream` | both receivers and both senders over byte streams | run `Network` (through `MCNetwork`) |
| `PacketStream_proofs` | `PacketStream` implements `PacketChannel` twice | tlapm |
| `ServerLoop` | `BaseServer.accept` and its three lists | runs `Network`, `ServerLoopForever` |
| `ServerLoop_proofs` | the safety invariants of `ServerLoop` | tlapm |
| `IrcBot` | one `ServerConnection` under the bot's thread and the game thread | runs `Network`, `IrcBotReconnect` |
| `IrcBot_proofs` | the safety invariants of `IrcBot` | tlapm |
| `IrcChannels` | the bot's tables of its channel, with server and users | run `IrcSide` (through `MCIrcSide`) |
| `Bridges` | the bridges plugin under both threads; extends `IrcChannels` | run `IrcSide` |
| `ChatRelay` | what becomes of a line of chat | run `IrcSide` |
| `IrcChannels_proofs` | lemmas: the handlers of the bot follow the lines of the server | tlapm |
| `IrcSide_proofs` | the invariants of `IrcChannels`, `Bridges` and `ChatRelay` | tlapm |
| `Plugins` | the registry and a round of callbacks | runs `Library` (through `MCLibrary`), `LibraryUndo` |
| `PlayerInfo` | who is idling | run `Library` |
| `Rcon` | rcon requests and who gets the answers | run `Library` |
| `TimeWarning` | the time left and its warnings | run `Library` |
| `WebServer` | starting and stopping the web server | run `Library` |
| `StatsWriter` | the statistics, their file and the UDP questions | run `Library` |
| `ServerStats` | `ottd-serverstats.py` and the NewGRF data base | run `Library` |
| `Plugins_proofs` | the invariants of `Plugins`, `PlayerInfo`, `TimeWarning`, `Rcon`, `WebServer`, `StatsWriter` and `ServerStats` | tlapm |
| `Savegame` | loading, handling and writing a savegame | run `Library` |
| `VersionNumbers` | revisions from the announcement to the map request | runs `Library`, `LibraryRelease` |
| `Structz` | packing and unpacking by a format | run `Library` |
| `Formats_proofs` | the invariants of `Savegame`, `Structz` and `VersionNumbers` | tlapm |

### GameClient

`pc` says where the game thread stands: `loop` (the test of `run()`), `connect`, `info`
(UDP queries), `join`, `handshake`, `download`, `main`, `unloading`/`leaving` (waiting in
`stopIRC`), `cleanup`, `ended`, `dead` (an exception out of `run()`). One action is one
turn of the loop the code is in, from a packet read to the next read, with everything
the handler does; where the code may raise (a send, a callback, `getGameInfo`), the action
has that outcome, and `pc` goes to `cleanup`, as the `except` clause does. The socket is
`sock` on the client's side and `link` on the wire: `up`, `fin` (closed by the server), `rst`.
`s2c` is the stream from the server, a FIFO of packets. What the client sends changes the
server's side at once (`Hears...`): packets the server sent before it heard are those
already in `s2c`. The server (`Srv...`) is external; it answers a JOIN in each way the
client knows, describes its clients (`roster` is what it has told), advances frames,
relays chat commands, ends the session, or breaks the connection at any time. `OpQuit` and
`OpQuitSend` are the two statements of `quit()` in another thread.

Packets that leave no trace in the client's state (WAIT, MAP data, SYNC, COMMAND, plain
chat) are one kind, `OTHER`. Names, companies and chat texts are model values. Of chat, the
commands that change the client's own state are kept: quit, reconnect, loadirc, unloadirc,
with the code's test of who may give them.

`verdicts` counts the packets that rule out another join, in every step that reads one and
whatever the code makes of it; `verdictsLost` counts those among them on which a callback raised
before `runCond` and `reconnectCond` were cleared.

### PacketStream

A direction is the sequence of all bytes ever written; a receiver is a pair of offsets into
it (`low`/`high` for `recvd`, `from`/`got`/`want` for `receiveMsg_TCP`). This makes "which
bytes are in the buffer" exact without copying sequences around. `recv` returns any number
of bytes up to what is there, what was asked for and, at the server, 4096.

### ServerLoop

One `Serve` action per iteration of the two `for` loops. The write loop's index is explicit,
since the loop removes from the list it walks. What a subclass overwrites (`packetReceived`,
`send_data` of server and handler) is `Hook`: any set of clients whose other end is gone may
fail and close, and `cut` remembers when one was closed by a call for somebody else. The order
of `select`'s ready list is left open.

### IrcBot

One action per access of the shared fields (`connected`, `socket`, `delayed_commands`,
`disconnect_event`), for each of the two threads: `proc[t]` is the statement of `send_raw`,
`disconnect` or `stop` that thread `t` is at, `call[t]` on whose behalf it runs (which
decides who catches an exception). `ipc` is the position of the bot's own loop.

### IrcChannels

The tables of one channel (`users`, `o`, `v`), each the `data` and `canon_keys` of an `IRCDict`, so
that a change of case does what it does in the code. The server and the users are external: the
server keeps who is in the channel with which modes (`member`) and sends lines (`wire`); the bot
receives some of them at a time (`batch`) and handles one per step. `Drop` is a send that fails
in either thread: the tables are emptied while the rest of the batch is still to be handled.
`spoiled` remembers the names whose entries a change of case, a listing with one prefix where
a user has two modes, or the argument of a mode that went to another may have put in the wrong.

### Bridges

`table` holds both dictionaries, by the side of the key; each operation is written once for the
side that starts it. `pc` and `at` say which access comes next: a test, a read, a write and a
deletion are steps of their own. Commands, quits of players and leaving of users begin
operations; the lines come through `IrcChannels`, which the plugin asks who is there. `excused`
remembers the entries whose owner went or came in a way the plugin is not told of. A player may have the name
of a user.

### ChatRelay

A line has a side, a way it was said and a kind of text; each dispatcher is the set of what
it sends, with the side and the circle it reaches. What goes to the game comes back to the bot as a
line of its own, with any text, as an answer may look like a command.

### Plugins, Rcon, PlayerInfo, TimeWarning, WebServer

`Plugins` has the tables of the class (`own`) and those of the client and of the events;
`InitStep` is one registration of an `init` that another thread runs, while `CallNext` walks a list by
index, as `doCallback` does; `undone` remembers that unregistering all of one plugin took something of
another. In `Rcon` the two directions of the session are queues; a request is
under way from `RconCommand` on, and `crossed` remembers who asked while whose answer was
pending. `PlayerInfo` and `TimeWarning` have a clock that may be set back once. The write
of a new start, which stands outside the `try`, may fail at each reading of the file; `failed` remembers
what ended a question. `WebServer` has one step
per access to `webserverthread`, for two callers; a server is `bound` when made, and keeps its port
until nothing refers to it.

### StatsWriter, ServerStats

`StatsWriter` follows the game thread from the connection to the update of the statistics. A question is
numbered; an answer carries its number only for the properties, since the code compares nothing but the
kind. Datagrams are lost, doubled, and arrive in any order. Opening the file to write empties it (`Torn`)
before it is written. Removing the last map's file may fail, which the code passes over (`uncleared`), and a
file that cannot be read is taken for one that is not there. `ServerStats` has one thread per server of the
list; each step is one question, or one NewGRF looked up in the shared table.

### Savegame, VersionNumbers, Structz

Computations on data, as steps. A savegame is real bytes, made from chunks by the layout the reader
follows (`Bytes`), with some missing at the end; `raw` and `offset` are `dp.data` and
`dp.offset`, and each step reads one item. `VersionNumbers` parses texts, sequences of digits, marks
and words, with the classes in the code's order, and follows the revision to the JOIN and to the number
that goes with the request for the map. `Structz` packs and unpacks piece by piece, a piece being
the fields between two strings.

### MCNetwork, MCIrcSide, MCLibrary

The parts above share no state with each other, so one run holds several: `part` says of which a behaviour
is, the other variables stay as they begin. In `MCNetwork` fairness is asked of the steps of that part
alone. In `MCIrcSide` the bridges and tables come in three instances (`inst`): tables with nicks that differ
in case and a user who takes the bot's nick; both modes; and bridges between two users and two players,
where everybody is there at first (`late`).

## 3. Runs

| run | bounds | shows |
|---|---|---|
| `GameClient` | 2 clients, 2 sessions, queue of 2, frames to 3, `AckEvery` 2, 1 quit (11.2 million states, about a minute and a half) | 6 invariants |
| `GameClientLive` | the same with queue 1, frame 1, not productive, password given | 2 liveness properties |
| `Network` | streams: bytes of 3 values, payloads of 0, 1, 4 and 6 bytes, recv of 4, 3 packets each way; server: 3 clients, each connecting once; IRC bot: 3 connections, one stop | 8 invariants, 2 refinements, 5 liveness properties |
| `IrcSide` | 2 users, 5 nicks of which two differ in case, 2 lines on their way; or 2 users, 2 players, 2 names, one of them a user's too; or 2 lines said and 1 echo | 5 invariants |
| `Library` | 10 parts, see below | 12 invariants |
| 7 violation runs | see section 5 | disagreements of code and documents |

Why the bounds are enough. *GameClient*: a second session is needed for everything that
could survive a reconnect; two clients, for "me" and "somebody else"; two packets in the
stream, for a packet behind the one that ends the session and for news about a client that
is still under way; three frames with `AckEvery` 2, for an ACK that falls due, is sent and
falls due again, and for a frame counter that starts in the middle. `GameClient` and
`GameClientLive` together take both values of `Productive` and `HasPassword`.
*Network*, the streams: base 3 makes a packet of seven or nine bytes use both bytes of the size
field, while the one payload of six does not fit, so that the sender's error path is
taken; a recv of 4 cuts the longest packet and can return parts of two. The server: with
three clients the removed one can be in front of, at and behind the index of either loop.
The IRC bot: the third connection is one that is made while traces of the first are still
about. *IrcSide*: two lines are one that is still coming when the connection is lost and one being handled; two
names and two users are a bridge and a second one that competes for either end. The bridges are
explored up to the first overlap of two operations or the end of a thread, and what has begun
is finished: behind that, no property claims anything. *Library*: two plugin classes, one failing
`init`, one round of callbacks; one company, a clock to 5 and set back once; three rcon requests of two
threads and one lost session; times running of -1, 0 and 2; three web servers; two sessions, one
doubled datagram, six questions, one switch of the option; three servers that share NewGRF ids and
sums; pairs of chunks with items of up to 300 bytes, cut at five places, and maps of four versions (`Batch` is 8
instead of 4096, the map without a size chunk 2x4 instead of 256x256, so that a batch ends inside and
behind a small map); two sessions with texts of every class and with texts that
only look like one (a revision has 6 bits instead of 19); formats of up to four pieces, cut by up to 4 bytes.
In `GameClient` and `IrcBot` the bound on connections disables the successful
connect only; the failing one stays possible. Deadlock is not checked: every one of these
systems may come to rest (the client has ended, the bot has ended, nobody connects), and
what must not come to rest is stated as a liveness property.

Every property has a mutant: an operator beside the original, marked "Mutant", with a
plausible mistake in it, for which TLC finds that property violated.

### What the properties of the new parts say, and what they leave out

Several hold with an exception, which is part of the finding:

* `TablesAgree`: but for a change of case only (`ircbot.py:356` deletes what it has just entered), for
  a user listed with one prefix who has two modes, and for a mode taken together with the channel's limit
  (`-lo nick`: the limit takes the argument, since it has one only when it is set).
* `NoJoinAfterVerdict`: but for a SHUTDOWN on which a callback raises before the flags are cleared
  (on_receive_packet, `ottd-client.py:285`, or on_server_shutdown, `342-346`): the client
  forgets it and joins again.
* `CheckersDrain`: timers are queued for each lost connection, one or two, and add up while connections are
  lost faster than timers fall due; the property says that a connection that lasts sees the last of them go.
* `OneToOne`, `BridgeKeyNeedsOverlap`: until operations of both threads overlap. One overlap is enough for a
  half bridge, or a `KeyError` in the bridges' tables that ends a thread. A `KeyError` or `RuntimeError` of
  `playerlist`, which the game thread changes while `findPlayerByNick` walks it (`ottd-client.py:353-357`),
  and a `KeyError` of the bot's channels need no overlap; `error` keeps them apart.
* `BridgeOutlived`: but for those who go in a way the plugin is not told of: kicks, new nicks, errors.
* `CalledOnce`: an unregistration during a round may cost others their call, one each; an `init` that
  raises leaves its callbacks behind, so that the plugin, loaded again, is called twice.
* `AnswerFindsAsker`: of two requests that overlap, the later asker may get both answers.
* `UnregisterWhole`: this is about single registrations. Whose they are is another question: the tables are
  the class's, and unregistering everything of one plugin takes the others' too (section 5).
* `IdleNews`, `WarningsHold`: while the clock is not set back; and a time running of 0 makes
  `timeLeft` fail (`timewarning.py:35`), as does a file of the start that cannot be written
  (`timewarning.py:85-87`), for any time running.
* `ServerKnown`: that the attribute names the server holds until two stop commands overlap, when one of them
  forgets a server that was started meanwhile, and the port stays taken. That no two servers run at once and
  that no stop waits for a server nobody starts holds also then.
* `StatsHonest`: the map of entries, if the option was on when the map was loaded and the last map's file
  could be removed (`webserver.py:70-74` passes over a failure, and the new map's entries go behind the
  old ones); the questions of entries, if no datagram was doubled.
* `CountHonest`: a server whose second answer did not come is counted as one without NewGRFs.
* `LoadsWhatWasSaved`: but for elements of sparse arrays so long that their length takes two bytes, of which
  the code counts one (`savegame.py:387`).
* `VersionKept`: within a base, a beta or candidate is lower only than a version whose tag is known and
  later; that it need not be lower than its release, against the docstring, is `ReleaseIsGreater`
  (section 5). Leading zeros, a trailing dash or a zero subbuild are not printed again.
* `StructzReadsBack`: a text whose zero byte was cut off is not noticed (`structz.py:75`); a field with a
  count cannot be packed in front of a string (`structz.py:144`), nor, behind one, a piece with more values
  than characters, like `20B`.

### Fairness

* `GameClient`: weak fairness of the game thread as a whole (a runnable thread is scheduled,
  `recv` returns what has arrived, a timeout or sleep ends) and of the second half of a
  `quit()` that has begun. None for the server, none for `StopIRC`, whose wait may last for
  ever, none for choosing the good outcome of a step that may raise.
* `Network`, the streams: weak fairness of each receiver. A receiver with bytes in front of it reads.
* `Network`, the server: weak fairness of `accept` as a whole: `select` returns after 0.1 seconds.
* `Network` and `IrcBotReconnect`, the IRC bot: weak fairness of both threads, and strong fairness of
  `TimeoutDue`: time passes, so a checker that is queued and looked at again and again falls due. Weak
  fairness would not do, since the loop leaves and re-enters the place where the timer is looked at.

## 4. Proofs

`GameClient_proofs` (assumptions: those on the constants in `GameClient`, all finite-state
bounds are arbitrary naturals):

* `TypeCorrect`: `TypeOK` is inductive.
* `VerdictIsFinal`, `OneLateJoin`: from `GiveUpInv`. A verdict is read only in a session, so
  the thread is then outside `Connecting`, and it can enter it only through `LoopTest`, which
  tests `reconnectCond`. What has to be shown is that each verdict that is read, and is not
  counted as lost, has cleared it (`Ruled`): the download and the main loop look at SHUTDOWN only,
  so `AnswerInv` says that BANNED and NEED_PASSWORD, the server's answers to a JOIN, are not in
  the stream there. The one JOIN too many is a thread that was past this test; once it
  has sent it, it is itself outside `Connecting` with `reconnectCond` false.
* `MapDone`: `runCond` is set by `SendJoin` only, so a true `runCond` in the main loop is the
  same one the download loop was left with.
* `PlayerlistIsFaithful`: from `FaithInv`. `PlayerlistFaithful` is not inductive: it says
  nothing while news is under way. The strengthening says that for each client the *last*
  news in the stream about it equals `roster`, that an empty table stands against a server
  that has told nothing before WELCOME, and that WELCOME is in front of all news, so that
  the handshake, which drops what it does not know, drops no news.
* `AckLag`: from `AckInv`. The frames in the stream are ascending and above `frameServer`, at
  most two apart; `frameCounter` is the distance to the last ACK while one was sent, and
  `AckEvery - 1` in front of the first frame, so that this one is acknowledged at once.

`PacketStream_proofs`: `Inv` says where each packet lies in the bytes of its direction
(`Framed`), that what is received is a beginning of what was sent (`Beginning`) and that a
receiver stands at the offset behind its last packet. `UpRefines` and `DownRefines` map each
step to a step or a stutter of `PacketChannel`, for every byte base, payload set and recv size.

`ServerLoop_proofs`: four invariants of the two loops for any finite number of clients. That
the lists agree is not inductive alone: a client that `recv_data` finds closed must still be in
the lists to be removed. `ReadyListed` says so (what is left of the ready list holds nobody
twice, and only clients that are listed); it survives a removal, which takes out the one client
that has just left the ready list. `ClosedByOthers` says why `select` can fail: without a send
for somebody else every listed handler is connected, each closed one being removed in the step
that closes it.

`IrcBot_proofs`: `TwoCheckersPerConnection` says at most `2 * n` checkers for `n` connections, so that each
leaves two behind at most. This is no bound for a bot that runs for long; that the timers go is
`CheckersDrain`, a liveness property and only model-checked. `Budget` makes the first inductive: what is
queued, what each thread still owes (it has cleared `connected` and not yet told), and what it may still
begin, together stay within `2 * n`. `RetryArmed` needs to know that a lost connection is in somebody's
hands as long as no checker is queued (`Armed`), and that the game thread, late with an old connection, may
take the socket of the new one away but then has queued or is about to queue the checker of its own
(`Orphan`).

`IrcChannels_proofs` and `IrcSide_proofs`, for any users, players, names and lines of the server. The
assumptions are those of `IrcChannels`: the configured nick and the one with "_" differ for the server, the
bot is none of the other users, and the marks for "nothing" are no names.

* `TablesOneToOne`, `NoKeyErrorAlone`: `Stage` says how the two tables of the bridges are in front of each
  access: whole, or with one entry of a pair missing (`Half`); which keys are there; and that what
  `setup_bridge` is about to enter is free. It is said of the thread that runs while the other one rests, which
  is all there is without an overlap. Four lemmas on pairs of tables say that each write and each deletion
  leads from one stage to the next.
* `TablesAlwaysAgree`: `TablesAgree` says nothing while a line is on its way, so `IrcInv` says what the
  lines are worth. A *view* is what somebody should know of the channel (`Views`: in it or not, the bot's
  nick, the nicks, who has which mode, what is spoiled). The bot's tables hold one view (`Agrees`), the
  server's members are another (`View`), and the lines in the batch and on the wire lead from the first to
  the second, one `Follows` each (`Leads`, in `InSession`). A step of the server appends a line and moves
  the end; a handler takes one off and moves the beginning; `recv` only moves the border between wire and
  batch. That a handler does to the tables what `Follows` says of the view is one lemma per line
  (`JoinFollows`, `LeaveFollows`, `NickFollows`, `ModeFollows`, `NamesFollow`), over the two dictionaries of
  an `IRCDict` (`Good`: they agree). A view is `Sound` if no two nicks are the same in lower case, which is
  what the server sees to and what keeps `canon_keys` one to one. Before the session (`Registering`) and
  without a connection (`Offline`) there are at most the answer to a NICK, or lines that were cut off; after
  a cut the old lines may lead from anything.
* `BridgeKeysNeedOverlap`: the first half is `KeyFound` again. For the second, `SideInv` adds to `IrcInv`
  that the bot's thread has ended only by an exception of the plugin or after a cut: a line of a session
  always finds the channel it is about (`Follows` needs a view that is in it).
* `BridgesOutliveNobody`: from `OutlivedInv`. Each key of a table is there, excused, or the one that was entered
  last and whose partner comes next (`Kept`); in front of its last access a removal or a leaving has no entry of
  its own left, and who leaves is still the first line of the batch, or the one player under the id
  (`Ordered`, `Goes`): that is why taking him off the list afterwards leaves no bridge behind. What the tables
  themselves look like meanwhile is `Stage` again. `LineKnows` and
  `LeavingKnows` say whom the bot still knows after a line; the names a line takes away unseen are excused by
  the step itself.
* `RelayAlwaysHolds` for any number of lines. The property looks up the line of people behind each thing
  sent, so the invariant says that lines have numbers of their own (`Numbered`), that what a server has
  still to deliver is a line of people or one of the bot's own in the game (`Delivered`), and that each
  thing sent was due to such a line (`AllDue`). The bot's lines come back with any text; that none of them
  is obeyed is the case the proof is about.

`Plugins_proofs`, arguments on seven modules that share nothing:

* `NewsAlwaysAlternate`: who is in the list has been quiet for longer than the idle time (`Quiet`), so that a
  command always says "back" for him; and the walks that failed are no more than the companies the walk
  under way began with (`FewRaised`). The companies are assumed finite: there are fifteen.
* `WarningsAlwaysHold`: until the clock is set back nothing lies ahead of it, neither the start nor the last
  warning (`Forward`); behind the first depth the file is read as new (`ReadAnew`), so that unless a write fails
  the answer is the time running.
* `AnswersFindAskers`: a pending request was noted last, or was crossed by the one that was
  (`PendingCrossed`); it stays pending until its last line, since it is under way in one place only (`Apart`).
* `ServerIsKnown`: a server that is started or serves is the one in the attribute, unless two stops have
  overlapped (`ServesKnown`, from `StopsAlone`). Overlapped or not, a server is made only while no other has
  the port, so that no two run at once (`OneRuns`), and a stop never waits for a server that was made and
  not started, unless its starter is on the way (`WaitsForKnown`). That there are two callers is an
  assumption of the second: with three, one may start and two stop in a way that leaves one waiting.
* `UnregisterAlwaysWhole`, `AlwaysCalledOnce`: from `PluginInv`, for any classes and any scripts of
  registrations in which an `init` registers a type of callback at most once, as all of the repository's do.
  The class's tables and the client's hold the same (`TablesMirror`) because both lists hold a method at
  most once (`ListsDistinct`), so that removing it takes out the same place; the lists of events begin with
  the game's own, which no plugin owns. A list holds no method twice because an instance under way is in no
  list it has not come to (`MakingFresh`). `RoundGoes` follows the walk: whom it has called stands in front
  of its index, and whom it has passed without a call (`Missed`) was moved there by a removal, one each.
* `StatsAlwaysHonest`: what was read from the file is one map's, unless the last map's file could not be
  removed, and empty exactly when the entry was noted as the first (`OneMap`); without a doubled datagram at
  most one answer is under way, to the last question (`OneAnswer`), because a question that fails ends the
  session and its sockets.
* `CountAlwaysHonest`: from `ToolInv`. The threads share the table of names, which holds only true ones or
  none (`TableTrue`), whoever adds to it; what a thread has still to ask for and what it has listed
  together are the NewGRFs its server told (`ThreadTrue`, `Accounted`); and the sum counts the threads that
  have ended (`CountTrue`). The ids of one server's list are assumed to differ, and the sums not to be
  the mark for a name that is not known.

`Formats_proofs`, for any savegames, formats, values and texts. An induction over data is one over the
numbers: a set of numbers that is not empty has a least one (`LeastNumber`), and what holds at 0 and goes from
each number to the next holds up to any (`UpTo`). A function that the model defines by itself is shown to
exist before its equation is used (`FlattenExists`, `Recursion`).

* `LoadsAlwaysWhatWasSaved`: what a writer leaves is a concatenation, so first comes where each part of it
  lies (`Places`). A length of any of its four forms is read as it was written. `LoadInv` says where the
  parser stands: in front of the n-th chunk, behind its id, or in front of its j-th item, with what it has
  found so far (`AtId`, `AtRiff`, `AtItem`); each step leads from one to another, or fails where bytes are
  missing. Of what was cut, an id or an item is never read as another one: what is read beyond the end
  raises, and a short slice is the last thing that is read. The case that the property excepts is excepted in
  the proof too (`LongSparse`).
* `LayersAlwaysWhole`: `HandleInv` follows the chunks that were handled: the size of the map is the file's
  as soon as its chunk was (`MapSize`), and each layer holds an entry for each tile. That the file has its
  map's size in front of its layers is an assumption on saves (`MapChunkAt`), as is that old layers of
  owners end at a whole batch. `WriteInv` is about the way back.
* `AlwaysReadsBack`: `StructzInv` has the packed bytes as a concatenation of slots, one per piece and one per
  string, so that both directions are at the same slot (`SlotStarts`). A string ends at the first zero
  byte, which is the one behind it, since there is none in its text.
* `VersionsAlwaysKept`: from `SessionInv`, by which each request was made of a text, the class that took it
  and a list of tags. That a text is printed as it was read (`PrintedAgain`) comes down to `PrintsAgain`: a
  numeral without zeros in front is the `"%d"` of its `int`. The texts between the marks, glued together
  again, are the text (`SplitGlues`), and a zero in front of a part is one in front of a number of the whole
  (`ZeroIn`). For the numbers, `OrAdds` says that `|` adds what lies below a power of two to a multiple of
  it; so a number is a sum (`NewgrfNumberIs`), and of two the heavier version wins whatever the revisions
  are. The assumptions: a text is a sequence of strings, and the revision of a tag is positive and fits into
  its bits.

Writing the proofs changed the models where they were wrong or could not be reasoned about:

* `Process` of `ChatRelay` was a CASE whose guards overlap, which TLC reads in the order they are written and
  the logic does not; it is now one decision.
* `unknown` of `ServerStats` is the set of NewGRFs to ask for, as the code's dictionary is, and no list.
* In `IrcChannels` the invariant did not hold, or could not be stated, in these places: a change of the
  bot's own nick carries a spoiled name over to the new one; the handlers that send (welcome, nick in use,
  kick of the bot) raise without a connection, and with one unloaded by the game thread too; `_on_quit`
  tests `has_user` before it deletes; everybody who is in the channel at first has a nick of his own; the
  entries that `Bridges` excuses are kept by side, so that players and users may share names; and the modes
  and the names of a line are folds over functions and sets, where recursive operators would have kept the
  module from the prover.
* In `Savegame` a length takes up to four bytes and the top bits of a plain chunk's length go with its type; the
  invariant on the layers is about all of them and their sizes.
* `StructzReadsBack` excepted too little: a last piece with more values than characters cannot be packed either.
* `VersionNumbers` has `int`, `split` and `|` as recursive functions, and its property compares the tags
  of two requests of one version instead of their stages.

Only model-checked: everything under fairness (`QuitCompletes`, `SessionLossRetried`, `ServedAgain`, the four
of `IrcBot`, and the fairness half of the two refinements), since the prover has no liveness or ENABLED.

## 5. Where code and documents disagree

| run | document | code |
|---|---|---|
| `GameClientMapDone` | `README.txt:87`: on_map_done is called when the map download is done | `ottd-client.py:426-466`: also when the session ended during the download |
| `GameClientRetry` | `ottd-client.py:65`: "retry to connect every 20 seconds" | `ottd-client.py:66`: connect() raises, outside the try, and the thread dies |
| `GameClientHangup` | `ottd-client.py:69`: fatal errors lead to a reconnect | `openttd/client.py:452-458`: a closed connection is read for ever |
| `ServerLoopForever` | `openttd/server.py:130`: "Main loop, loops forever" | `openttd/server.py:189-196`, `138`: a broadcast leaves closed handlers to select |
| `IrcBotReconnect` | `lib/ircbot.py:38`: the bot tries to reconnect | `lib/irclib.py:213`, `482`, `783`: an exception ends its thread |
| `LibraryUndo` | `plugins/pluginclass.py:162`: unregisters everything registered by the plugin; `:4`: the callbacks are those registered by the plugin | `plugins/pluginclass.py:11-13`, `66-73`: one set of tables for all plugins, so the others' callbacks and commands go too, and (`159`) the plugin's own dispatchers stay |
| `LibraryRelease` | `openttd/version.py:50-55`: bit 19 is 0 but for releases, so betas are always lower than their release | `openttd/version.py:94-96`: betas and candidates inherit the release bit; with the release's tag unknown, or earlier, they are not lower |

## 6. What is abstracted or left out

* A closed connection (`fin`) that is read is no step in `GameClient`: the code spins. The
  properties of the liveness run hold with that spinning thread; `HangupNoticed` shows it.
* `StopIRC` may wait for ever. `IrcBot` shows when: `stop()` on a bot that is not connected
  returns from `disconnect` at once and waits for an event nobody sets. No document claims
  otherwise, so no run states it; `StopComesBack` is restricted to a connected bot.
* Frame numbers do not wrap (uint32, more than four years of game time at 33 frames a second).
* Short writes (`send` returning less than asked) and malformed size fields are not modelled.
* `IrcBot` leaves out: two stops at the same time, a `disconnect` nested more than once in
  itself, and a stop before the bot object exists (it raises and changes nothing). The model
  contains the case where a due checker reconnects while the game thread is inside
  `disconnect` and then loses the new socket to that thread's `self.socket = None`; such a bot
  counts as connected, and none of the stated properties is about it.
* UDP: one step in `GameClient`, none in `ServerLoop`; the questions themselves are in `StatsWriter` and
  `ServerStats`.
* `IrcChannels` has one channel, and of the modes those that name a user; limits, keys, CTCP and DCC, and the
  splitting of lines into prefix, command and arguments are left out. Users who are not in the channel but send
  private commands are left out of `Bridges`.
* In `Plugins` one registration is one step; two threads inside the registration of one plugin at once are
  left out.
* `StatsWriter` and `WebServer` leave out what a page shows; `Savegame` the fields of the VIEW, DATE, GLOG
  and CHTS chunks, which are fixed numbers read in a row.
* Not modelled: the content client (one request, then answers until a second of silence), configuration and
  logging, the constant tables, the vendored JSON library and the generated pages, the reading of GRF files
  (`newgrf.py`, `grfcodec.py`: sequential parsing over libraries that are not in the repository), dates
  (sums of the standard library's dates), `calcsize`, which nothing calls, and the older copies
  `struct_zerostrings.py` and `sstruct.py`.

## 7. Plan

1. Done: client, framing, server and IRC connection, with their theorems.
2. Done: `IrcChannels`, `Bridges` and `ChatRelay` on the IRC side, with their theorems.
3. Done: the registry and the plugins, with their theorems.
4. Done: savegames, versions, packed values; the statistics of servers, with their theorems.
5. Left: the splitting of content id lists.
