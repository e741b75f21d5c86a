----------------------------- MODULE PlayerInfo -----------------------------
(***************************************************************************)
(* plugins/playerinfo.py: who is idling.  The game thread notes the time   *)
(* of every company's commands and announces who idles and who is back;    *)
(* the bot's thread walks the same dictionary to answer idleinfo.  The     *)
(* tables outlive companies and maps.                                      *)
(***************************************************************************)
EXTENDS Naturals, Sequences, FiniteSets

CONSTANTS Companies, Spectators, IdleTime, MaxTime, MaxAsks, Unset

PlayerInfoAssumption ==
  /\ IdleTime \in Nat /\ MaxTime \in Nat /\ Unset \notin Nat
  /\ IsFiniteSet(Companies) /\ Spectators \notin Companies
ASSUME PlayerInfoAssumption

VARIABLES
  now,      \* time.time()
  setBack,  \* the clock was set back
  last,     \* companyLastAction; Unset: not in the dictionary
  idling,   \* companyIdling
  said,     \* the announcements per company
  asking,   \* idleInfo at work: the companies still to come, the size it began with
  asks,     \* bounds the questions
  raised    \* the questions that ended in a RuntimeError

infoVars == <<now, setBack, last, idling, said, asking, asks, raised>>

NotAsking == [left |-> {}, size |-> 0]
Known == {c \in DOMAIN last : last[c] # Unset}
Say(c, what) == [said EXCEPT ![c] = Append(@, what)]

\* Mutant: the time of the action is noted before it is compared.
CommandNotedFirst(c) ==
  /\ last' = [last EXCEPT ![c] = now]
  /\ idling' = idling \ {c}
  /\ said' = IF c \in idling /\ now - last'[c] > IdleTime THEN Say(c, "back") ELSE said
  /\ UNCHANGED <<now, setBack, asking, asks, raised>>

\* commandReceived; a new company starts with a command of the spectators, so that nothing is
\* noted for it until it acts, and what its predecessor left stays.
Command(c) ==
  /\ idling' = idling \ {c}
  /\ said' = IF c \in idling /\ now > last[c] /\ now - last[c] > IdleTime THEN Say(c, "back") ELSE said
  /\ last' = [last EXCEPT ![c] = now]
  /\ UNCHANGED <<now, setBack, asking, asks, raised>>

\* checkForIdlingClients, from on_mainloop.
CheckForIdling ==
  LET new == {c \in (Known \ {Spectators}) \ idling : now > last[c] /\ now - last[c] > IdleTime} IN
  /\ IdleTime > 0 /\ new # {}
  /\ idling' = idling \cup new
  /\ said' = [c \in DOMAIN said |-> IF c \in new THEN Append(said[c], "idle") ELSE said[c]]
  /\ UNCHANGED <<now, setBack, last, asking, asks, raised>>

BeginIdleInfo ==
  /\ asking = NotAsking /\ asks < MaxAsks /\ Known # {}
  /\ asking' = [left |-> Known, size |-> Cardinality(Known)] /\ asks' = asks + 1
  /\ UNCHANGED <<now, setBack, last, idling, said, raised>>

\* The next step of the walk: it raises when the dictionary has grown.
IdleInfo ==
  /\ asking # NotAsking
  /\ IF Cardinality(Known) # asking.size
     THEN asking' = NotAsking /\ raised' = raised + 1
     ELSE /\ \/ asking.left = {} /\ asking' = NotAsking
             \/ \E c \in asking.left : asking' = [asking EXCEPT !.left = @ \ {c}]
          /\ UNCHANGED raised
  /\ UNCHANGED <<now, setBack, last, idling, said, asks>>

Tick ==
  /\ now < MaxTime /\ now' = now + 1
  /\ UNCHANGED <<setBack, last, idling, said, asking, asks, raised>>

SetBack ==
  /\ ~setBack /\ now > 0 /\ now' \in 0 .. now - 1 /\ setBack' = TRUE
  /\ UNCHANGED <<last, idling, said, asking, asks, raised>>

InfoInit ==
  /\ now = 0 /\ setBack = FALSE /\ idling = {} /\ asking = NotAsking /\ asks = 0 /\ raised = 0
  /\ last = [c \in Companies \cup {Spectators} |-> Unset]
  /\ said = [c \in Companies \cup {Spectators} |-> <<>>]

InfoNext ==
  \/ \E c \in Companies \cup {Spectators} : Command(c)
  \/ CheckForIdling \/ BeginIdleInfo \/ IdleInfo \/ Tick \/ SetBack

InfoSpec == InfoInit /\ [][InfoNext]_infoVars

-----------------------------------------------------------------------------
(* Properties                                                              *)

\* "is now idling" and "is back" alternate for every company, and the list holds those whose
\* last news is that they idle, whatever becomes of the companies and the maps - unless the
\* clock was set back (playerinfo.py:50, :95).
NewsAlternate ==
  \A c \in DOMAIN said :
    /\ \A i \in DOMAIN said[c] : said[c][i] = IF i % 2 = 1 THEN "idle" ELSE "back"
    /\ c \in idling <=> Len(said[c]) % 2 = 1

\* The news alternate; and a company makes idleinfo fail in the bot's thread at most once, by
\* the first command it is seen with (playerinfo.py:78).
IdleNews == (setBack \/ NewsAlternate) /\ raised <= Cardinality(Known)
=============================================================================
