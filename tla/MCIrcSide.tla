------------------------------ MODULE MCIrcSide ------------------------------
(***************************************************************************)
(* The instance of the IRC side for TLC.  A behaviour is one of the bot's  *)
(* tables and the bridges (in one of three instances) or one of the relay  *)
(* of chat, which shares no state with them.                               *)
(***************************************************************************)
EXTENDS Bridges, ChatRelay

CONSTANTS p1, p2

VARIABLE part

MCLow == [a |-> "a", A |-> "a", b |-> "b", Bot |-> "bot", Bot_ |-> "bot_"]

\* The tables: nicks that differ in case and a user who takes the bot's nick; or both modes.
Tables == [take |-> [p |-> {"a", "A"}, q |-> {"Bot"}], letters |-> {"o"}, lines |-> 2,
           names |-> {}, late |-> FALSE]
Modes == [Tables EXCEPT !.take = [p |-> {"a", "A"}, q |-> {}], !.letters = {"o", "v"}]
\* The bridges: two users and two players, one of whom has the name of a user.
Pairs == [take |-> [p |-> {"a"}, q |-> {"b"}], letters |-> {}, lines |-> 1,
          names |-> {"a", "n"}, late |-> TRUE]
MCInstances == {Tables, Modes, Pairs}

allVars == <<part, bvars, chatVars>>

MCInit ==
  /\ BridgesInit /\ ChatInit
  /\ part \in {"bridges", "relay"}
  /\ part = "bridges" => bridged = FALSE
  /\ part = "relay" => Late

MCNext ==
  \/ part = "bridges" /\ BridgesNext /\ UNCHANGED <<part, chatVars>>
  \/ part = "relay" /\ ChatNext /\ UNCHANGED <<part, bvars>>

MCSpec == MCInit /\ [][MCNext]_allVars

Symmetric == Permutations({p1, p2})
=============================================================================
