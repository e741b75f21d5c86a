------------------------------- MODULE Plugins -------------------------------
(***************************************************************************)
(* The plugin registry: plugins/__init__.py constructs the classes of the  *)
(* plugins, plugins/pluginclass.py keeps what they register, the client    *)
(* calls it.  The three tables of pluginclass are class attributes, one    *)
(* for all plugins.  A load command in the bot's thread registers while    *)
(* the game thread walks a list of callbacks, one step per call.  Each     *)
(* registration is one step: two threads that register at once are left    *)
(* out.                                                                    *)
(***************************************************************************)
EXTENDS Naturals, Sequences, SequencesExt

CONSTANTS
  Classes,     \* classes of the plugins
  Types,       \* kinds of callbacks
  Commands,    \* names of chat commands
  Events,      \* event classes
  BuiltIn,     \* an event class's own dispatchers, the names of its methods
  Script,      \* per class: the registrations of its init
  MaxFailures, \* bound on the inits that raise
  MaxRounds    \* bound on the rounds of callbacks

Nobody == [class |-> "none", nr |-> 0]
Methods == [class : Classes, nr : Nat]

\* No init registers two callbacks of one type.
ScriptAssumption ==
  /\ "none" \notin Classes /\ "none" \notin Types
  /\ BuiltIn \in Seq(ToSet(BuiltIn)) /\ ToSet(BuiltIn) \cap Methods = {}
  /\ \A c \in Classes :
       /\ DOMAIN Script[c] \subseteq Nat
       /\ \A i \in DOMAIN Script[c] :
            \/ Script[c][i].kind = "callback" /\ Script[c][i].key \in Types
            \/ Script[c][i].kind = "command" /\ Script[c][i].key \in Commands
            \/ Script[c][i].kind = "event" /\ Script[c][i].key \in Events
       /\ \A i, j \in DOMAIN Script[c] :
            /\ Script[c][i].kind = "callback" /\ Script[c][j].kind = "callback"
            /\ Script[c][i].key = Script[c][j].key
            => i = j
ASSUME ScriptAssumption

VARIABLES
  instances,   \* classes with an instance: client.plugins['instances']
  nr,          \* instances made so far, per class: a method is the instance it is bound to
  own,         \* Plugin.callbacks, Plugin.commands and Plugin.dispatchers
  client,      \* the client's callbacks and commands
  dispatchTo,  \* per event class
  making,      \* the instance whose init is running, and how far it is
  round,       \* doCallback at work: the type, the index, the calls, what it began with
  rounds,      \* rounds so far
  undone       \* unregisterEveryThing has undone what another plugin had registered

pluginVars == <<instances, nr, own, client, dispatchTo, making, round, rounds, undone>>

NotMaking == [who |-> Nobody, at |-> 0]
NoRound == [type |-> "none", at |-> 0, calls |-> <<>>, began |-> <<>>, removed |-> 0]

Removed(type, n) == IF round.type = type THEN [round EXCEPT !.removed = @ + n] ELSE round

-----------------------------------------------------------------------------
(* pluginclass.py                                                          *)

RegisterCallback(type, method) ==
  /\ client' = [client EXCEPT !.callback[type] = Append(@, method)]
  /\ own' = [own EXCEPT !.callback[type] = Append(@, method)]
  /\ UNCHANGED dispatchTo

\* A command that exists keeps its owner.
RegisterChatCommand(command, method) ==
  IF client.command[command] # Nobody THEN UNCHANGED <<client, own, dispatchTo>>
  ELSE /\ client' = [client EXCEPT !.command[command] = method]
       /\ own' = [own EXCEPT !.command[command] = method]
       /\ UNCHANGED dispatchTo

RegisterEventDispatcher(event, method) ==
  IF Contains(dispatchTo[event], method) THEN UNCHANGED <<client, own, dispatchTo>>
  ELSE /\ dispatchTo' = [dispatchTo EXCEPT ![event] = Append(@, method)]
       /\ own' = [own EXCEPT !.event[event] = Append(@, method)]
       /\ UNCHANGED client

Register(call, method) ==
  \/ call.kind = "callback" /\ RegisterCallback(call.key, method)
  \/ call.kind = "command" /\ RegisterChatCommand(call.key, method)
  \/ call.kind = "event" /\ RegisterEventDispatcher(call.key, method)

\* Mutant: a walk that is under way starts again.
UnregisterRestarts(type, method) ==
  /\ client' = [client EXCEPT !.callback[type] = RemoveFirst(@, method)]
  /\ own' = [own EXCEPT !.callback[type] = RemoveFirst(@, method)]
  /\ round' = IF round.type = type THEN [round EXCEPT !.removed = @ + 1, !.at = 1] ELSE round

UnregisterCallback(type, method) ==
  /\ client' = [client EXCEPT !.callback[type] = RemoveFirst(@, method)]
  /\ own' = [own EXCEPT !.callback[type] = RemoveFirst(@, method)]
  /\ round' = Removed(type, 1)

UnregisterChatCommand(command) ==
  /\ own.command[command] # Nobody
  /\ client' = [client EXCEPT !.command[command] = Nobody]
  /\ own' = [own EXCEPT !.command[command] = Nobody]

UnregisterEventDispatcher(event, method) ==
  /\ Contains(own.event[event], method)
  /\ dispatchTo' = [dispatchTo EXCEPT ![event] = RemoveFirst(@, method)]
  /\ own' = [own EXCEPT !.event[event] = RemoveFirst(@, method)]

\* The methods a plugin may call on itself once it is made.
Unregister ==
  /\ instances # {} /\ UNCHANGED <<instances, nr, making, rounds, undone>>
  /\ \/ /\ \E type \in Types : \E i \in DOMAIN own.callback[type] :
             UnregisterCallback(type, own.callback[type][i])
        /\ UNCHANGED dispatchTo
     \/ /\ \E command \in Commands : UnregisterChatCommand(command)
        /\ UNCHANGED <<dispatchTo, round>>
     \/ /\ \E event \in Events : \E i \in DOMAIN own.event[event] :
             UnregisterEventDispatcher(event, own.event[event][i])
        /\ UNCHANGED <<client, round>>

\* What the tables hold of other plugins than this one.
OfOthers(c) ==
  \/ \E type \in Types : \E m \in ToSet(own.callback[type]) : m.class # c
  \/ \E command \in Commands : own.command[command] # Nobody /\ own.command[command].class # c

\* Mutant: the tables are emptied, and nothing is taken from the client.
UnregisterTables(c) ==
  /\ c \in instances
  /\ own' = [own EXCEPT !.callback = [type \in Types |-> <<>>], !.command = [x \in Commands |-> Nobody]]
  /\ UNCHANGED <<instances, nr, client, dispatchTo, making, round, rounds, undone>>

\* Every plugin's callbacks and commands go, whichever asks; the event dispatchers stay, since
\* the last line calls a name that is not defined as soon as there is one.
UnregisterEveryThing(c) ==
  /\ c \in instances
  /\ client' = [callback |-> [type \in Types |-> <<>>], command |-> [x \in Commands |-> Nobody]]
  /\ own' = [own EXCEPT !.callback = client'.callback, !.command = client'.command]
  /\ undone' = (undone \/ OfOthers(c))
  /\ round' = IF round.type \in Types THEN Removed(round.type, Len(own.callback[round.type])) ELSE round
  /\ UNCHANGED <<instances, nr, dispatchTo, making, rounds>>

-----------------------------------------------------------------------------
(* plugins/__init__.py                                                     *)

\* load_plugin imports the module, initialize_plugins makes the classes that have no instance
\* yet; load_plugins at the start does so for every file.
LoadPlugin(c) ==
  /\ making = NotMaking /\ c \notin instances
  /\ nr' = [nr EXCEPT ![c] = @ + 1]
  /\ making' = [who |-> [class |-> c, nr |-> nr'[c]], at |-> 1]
  /\ UNCHANGED <<instances, own, client, dispatchTo, round, rounds, undone>>

\* One call of init; after the last the instance is entered.
InitStep ==
  /\ making # NotMaking
  /\ IF making.at \in DOMAIN Script[making.who.class]
     THEN /\ Register(Script[making.who.class][making.at], making.who)
          /\ making' = [making EXCEPT !.at = @ + 1]
          /\ UNCHANGED instances
     ELSE /\ instances' = instances \cup {making.who.class} /\ making' = NotMaking
          /\ UNCHANGED <<own, client, dispatchTo>>
  /\ UNCHANGED <<nr, round, rounds, undone>>

\* init raises (a bad option, a file that cannot be written): what it has registered stays.
InitRaises ==
  /\ making # NotMaking /\ nr[making.who.class] <= MaxFailures
  /\ making' = NotMaking
  /\ UNCHANGED <<instances, nr, own, client, dispatchTo, round, rounds, undone>>

-----------------------------------------------------------------------------
(* SpectatorClient.doCallback walks the list itself, by index.             *)

BeginRound(type) ==
  /\ round = NoRound /\ rounds < MaxRounds /\ client.callback[type] # <<>>
  /\ round' = [type |-> type, at |-> 1, calls |-> <<>>, began |-> client.callback[type], removed |-> 0]
  /\ rounds' = rounds + 1
  /\ UNCHANGED <<instances, nr, own, client, dispatchTo, making, undone>>

AtEnd == round.type \in Types /\ round.at > Len(client.callback[round.type])

CallNext ==
  /\ round.type \in Types /\ ~AtEnd
  /\ round' = [round EXCEPT !.calls = Append(@, client.callback[round.type][round.at]), !.at = @ + 1]
  /\ UNCHANGED <<instances, nr, own, client, dispatchTo, making, rounds, undone>>

\* At the end of the list, or because a callback raised.
EndRound ==
  /\ round.type \in Types
  /\ round' = NoRound
  /\ UNCHANGED <<instances, nr, own, client, dispatchTo, making, rounds, undone>>

PluginsInit ==
  /\ instances = {} /\ nr = [c \in Classes |-> 0]
  /\ client = [callback |-> [type \in Types |-> <<>>], command |-> [c \in Commands |-> Nobody]]
  /\ own = [callback |-> [type \in Types |-> <<>>], command |-> [c \in Commands |-> Nobody],
            event |-> [event \in Events |-> <<>>]]
  /\ dispatchTo = [event \in Events |-> BuiltIn]
  /\ making = NotMaking /\ round = NoRound /\ rounds = 0 /\ undone = FALSE

PluginsNext ==
  \/ \E c \in Classes : LoadPlugin(c) \/ UnregisterEveryThing(c)
  \/ InitStep \/ InitRaises \/ Unregister
  \/ \E type \in Types : BeginRound(type)
  \/ CallNext \/ EndRound

PluginsSpec == PluginsInit /\ [][PluginsNext]_pluginVars

-----------------------------------------------------------------------------
(* Properties                                                              *)

\* What the client and the events still hold of any plugin, one whose init raised included, the
\* class's tables know: an unregister call that finds its method with the client never fails
\* half way, and nothing is left that no call could take back (pluginclass.py:60, :102, :146).
UnregisterWhole ==
  /\ \A type \in Types : ToSet(client.callback[type]) \subseteq ToSet(own.callback[type])
  /\ \A command \in Commands :
       client.command[command] # Nobody => own.command[command] = client.command[command]
  /\ \A event \in Events : ToSet(dispatchTo[event]) \subseteq ToSet(BuiltIn) \cup ToSet(own.event[event])

\* unregisterEveryThing undoes what its plugin has registered, and nothing of another's
\* (pluginclass.py:4, :162).
UndoesOnlyItsOwn == ~undone

\* A round of callbacks calls nobody twice, and leaves out only as many of those it began with
\* as were unregistered while it ran: registering under way, or by the bot's thread, costs
\* nobody a call (ottd-client.py:140).
RoundCallsAll ==
  /\ IsInjective(round.calls)
  /\ AtEnd => Cardinality({m \in ToSet(round.began) :
                             /\ Contains(client.callback[round.type], m)
                             /\ ~Contains(round.calls, m)}) <= round.removed

\* More inits of c were begun than have ended well or are running.
Failed(c) == nr[c] > (IF c \in instances THEN 1 ELSE 0) + (IF making.who.class = c THEN 1 ELSE 0)

\* A callback reaches a plugin twice only when an init of it has raised half way and the plugin
\* was loaded again (plugins/__init__.py:45).
TwiceOnlyAfterFailure ==
  \A type \in Types : \A i, j \in DOMAIN client.callback[type] :
    LET m == client.callback[type][i]  k == client.callback[type][j] IN
    m.class = k.class /\ i # j => m.nr # k.nr /\ Failed(m.class)

\* Two threads on one list, and inits that fail: nobody is left out or called twice for it.
CalledOnce == RoundCallsAll /\ TwiceOnlyAfterFailure
=============================================================================
