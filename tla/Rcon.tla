-------------------------------- MODULE Rcon --------------------------------
(***************************************************************************)
(* plugins/rcon.py: chat commands from the game thread and from the bot's  *)
(* thread become requests on one connection; the answers carry no id and   *)
(* go to the event that was noted last.                                    *)
(***************************************************************************)
EXTENDS Naturals, Sequences

CONSTANTS
  Requests,  \* the rcon commands asked
  Threads,   \* the game thread and the bot's
  None,
  MaxLines,  \* lines of an answer
  MaxLosses  \* bound on the sessions lost

ASSUME RconAssumption == None \notin Requests /\ MaxLines \in Nat /\ MaxLosses \in Nat

VARIABLES
  asked,     \* requests begun
  lastevent, \* RconPlugin.lastevent
  sending,   \* per thread: the request noted and not sent yet
  up, down,  \* the session: requests to the server, lines of answers from it
  losses,
  pending,   \* requests that may still get lines
  crossed,   \* <<a, b>>: b was asked while a was pending
  given      \* <<a, b>>: a line of the answer to a was given to b

rconVars == <<asked, lastevent, sending, up, down, losses, pending, crossed, given>>

\* Mutant: whoever asked first is kept.
NoteFirst(e) == lastevent' = IF lastevent = None THEN e ELSE lastevent

Note(e) == lastevent' = e

\* A request that passes the tests for the operator and the arguments.
RconCommand(t, e) ==
  /\ e \notin asked /\ sending[t] = None
  /\ asked' = asked \cup {e} /\ Note(e)
  /\ sending' = [sending EXCEPT ![t] = e]
  /\ pending' = pending \cup {e}
  /\ crossed' = crossed \cup pending \X {e}
  /\ UNCHANGED <<up, down, losses, given>>

SendRcon(t) ==
  /\ sending[t] # None
  /\ up' = Append(up, sending[t])
  /\ sending' = [sending EXCEPT ![t] = None]
  /\ UNCHANGED <<asked, lastevent, down, losses, pending, crossed, given>>

\* The server answers in order, with any number of lines.
Answer ==
  /\ up # <<>> /\ up' = Tail(up)
  /\ \E n \in 0 .. MaxLines :
       /\ down' = down \o [i \in 1 .. n |-> [of |-> up[1], more |-> i < n]]
       /\ pending' = IF n = 0 THEN pending \ {up[1]} ELSE pending
  /\ UNCHANGED <<asked, lastevent, sending, losses, crossed, given>>

OnPacket ==
  /\ down # <<>>
  /\ given' = IF lastevent = None THEN given ELSE given \cup {<<down[1].of, lastevent>>}
  /\ pending' = IF down[1].more THEN pending ELSE pending \ {down[1].of}
  /\ down' = Tail(down)
  /\ UNCHANGED <<asked, lastevent, sending, up, losses, crossed>>

\* The session ends: what was on its way is gone; the event stays noted.
LoseSession ==
  /\ losses < MaxLosses /\ losses' = losses + 1
  /\ up' = <<>> /\ down' = <<>>
  /\ pending' = {e \in pending : \E t \in Threads : sending[t] = e}
  /\ UNCHANGED <<asked, lastevent, sending, crossed, given>>

\* A send without a connection raises: the request is not made.
SendFails(t) ==
  /\ sending[t] # None /\ losses > 0
  /\ pending' = pending \ {sending[t]}
  /\ sending' = [sending EXCEPT ![t] = None]
  /\ UNCHANGED <<asked, lastevent, up, down, losses, crossed, given>>

RconInit ==
  /\ asked = {} /\ lastevent = None /\ sending = [t \in Threads |-> None]
  /\ up = <<>> /\ down = <<>> /\ losses = 0 /\ pending = {} /\ crossed = {} /\ given = {}

RconNext ==
  \/ \E t \in Threads : (\E e \in Requests : RconCommand(t, e)) \/ SendRcon(t) \/ SendFails(t)
  \/ Answer \/ OnPacket \/ LoseSession

RconSpec == RconInit /\ [][RconNext]_rconVars

\* A line goes to the one who asked, or to one who asked while that request was pending: requests
\* that never overlap are never mixed up, not even when sessions are lost between them and leave
\* the event noted (rcon.py:27, :33).
AnswerFindsAsker == \A pair \in given : pair[1] = pair[2] \/ pair \in crossed
=============================================================================
