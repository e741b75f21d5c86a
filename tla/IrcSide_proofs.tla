---------------------------- MODULE IrcSide_proofs ----------------------------
(***************************************************************************)
(* The IRC side, for any number of users, players, names and lines.        *)
(* Bridges: the two tables say the same as long as the operations of the   *)
(* two threads do not overlap, and then no access to them fails; no bridge *)
(* outlives its user or its player.  The bot: its tables are those of the  *)
(* channel whenever no line is left (the handlers are in                   *)
(* IrcChannels_proofs).  ChatRelay: what is owed to both sides.            *)
(***************************************************************************)
EXTENDS Bridges, ChatRelay, IrcChannels_proofs, FiniteSetTheorems

Record(op) == [why |-> op.why, own |-> op.own, peer |-> op.peer, ids |-> op.ids]

Shapes ==
  /\ table = [t \in Sides |-> table[t]] /\ pc = [t \in Sides |-> pc[t]]
  /\ at = [t \in Sides |-> Record(at[t])] /\ error = [t \in Sides |-> error[t]]
  /\ overlap \in BOOLEAN

Whole(f, g) == Mirrors(f, g) /\ Mirrors(g, f)

\* The entry of own for peer is there and the one of peer is not: after the first of two writes,
\* or after the first of two deletions.
Half(f, g, own, peer) ==
  /\ own \in DOMAIN f /\ f[own] = peer /\ peer \notin DOMAIN g
  /\ Mirrors(g, f)
  /\ \A k \in DOMAIN f \ {own} : f[k] \in DOMAIN g /\ g[f[k]] = k

\* The tables, of the side that runs op and of the other one, in front of the access p.
Stage(f, g, p, op) ==
  /\ p \notin {"putPeer", "delOwn"} => Whole(f, g)
  /\ p = "putOwn" \/ (p = "find" /\ op.why = "setup") => op.own \notin DOMAIN f /\ op.peer \notin DOMAIN g
  /\ p \in {"read", "relay"} => op.own \in DOMAIN f
  /\ p \in {"peer", "delPeer"} => op.own \in DOMAIN f /\ f[op.own] = op.peer
  /\ p \in {"putPeer", "delOwn"} => Half(f, g, op.own, op.peer)
  /\ p \in {"read", "peer", "delPeer", "delOwn", "relay"} => op.why # "setup"

\* One side at most is inside an operation, and the tables are where it has left them.
Tables ==
  ~overlap =>
    /\ \E t \in Sides : pc[t] = "idle"
    /\ \A t \in Sides : pc[Other(t)] = "idle" => Stage(table[t], table[Other(t)], pc[t], at[t])

KeyFound == \A t \in Sides : error[t] = "key" => overlap

BridgesInv == Shapes /\ Tables /\ KeyFound

-----------------------------------------------------------------------------
(* The tables, one access after the other.                                 *)

LEMMA OtherSide == \A t \in Sides : Other(t) \in Sides /\ Other(t) # t /\ Other(Other(t)) = t
  BY DEF Sides, Other

LEMMA PutFirst ==
  ASSUME NEW f, NEW g, NEW a, NEW b, Whole(f, g), a \notin DOMAIN f, b \notin DOMAIN g
  PROVE  Half(With(f, a, b), g, a, b)
  <1> DEFINE h == With(f, a, b)
  <1>1. DOMAIN h = {a} \cup DOMAIN f /\ h[a] = b /\ \A k \in DOMAIN f : h[k] = f[k]
    BY DEF With
  <1> HIDE DEF h
  <1>2. Half(h, g, a, b)
    BY <1>1 DEF Half, Whole, Mirrors
  <1> QED
    BY <1>2 DEF h

LEMMA PutSecond ==
  ASSUME NEW f, NEW g, NEW a, NEW b, Half(f, g, a, b)
  PROVE  Whole(f, With(g, b, a))
  <1> DEFINE h == With(g, b, a)
  <1>1. DOMAIN h = {b} \cup DOMAIN g /\ h[b] = a /\ \A k \in DOMAIN g : h[k] = g[k]
    BY DEF Half, With
  <1> HIDE DEF h
  <1>2. Whole(f, h)
    BY <1>1 DEF Half, Whole, Mirrors
  <1> QED
    BY <1>2 DEF h

LEMMA DeleteFirst ==
  ASSUME NEW f, NEW g, NEW a, Whole(f, g), a \in DOMAIN f
  PROVE  Half(f, Without(g, f[a]), a, f[a])
  <1> DEFINE h == Without(g, f[a])
  <1>1. DOMAIN h = DOMAIN g \ {f[a]} /\ \A k \in DOMAIN h : h[k] = g[k]
    BY DEF Without, Restrict
  <1> HIDE DEF h
  <1>2. Half(f, h, a, f[a])
    BY <1>1 DEF Half, Whole, Mirrors
  <1> QED
    BY <1>2 DEF h

LEMMA DeleteSecond ==
  ASSUME NEW f, NEW g, NEW a, NEW b, Half(f, g, a, b)
  PROVE  Whole(Without(f, a), g)
  <1> DEFINE h == Without(f, a)
  <1>1. DOMAIN h = DOMAIN f \ {a} /\ \A k \in DOMAIN h : h[k] = f[k]
    BY DEF Without, Restrict
  <1> HIDE DEF h
  <1>2. Whole(h, g)
    BY <1>1 DEF Half, Whole, Mirrors
  <1> QED
    BY <1>2 DEF h

-----------------------------------------------------------------------------
(* Steps of a thread.                                                      *)

\* Only the thread that runs while the other one rests has to account for the tables.
LEMMA ThreadSteps ==
  ASSUME Shapes, NEW t \in Sides, pc' = [pc EXCEPT ![t] = pc'[t]], at' = [at EXCEPT ![t] = at'[t]],
         ~overlap' => pc[Other(t)] = "idle" /\ Stage(table'[t], table'[Other(t)], pc'[t], at'[t])
  PROVE  Tables'
  <1> USE OtherSide
  <1> SUFFICES ASSUME ~overlap' PROVE Tables'
    BY DEF Tables
  <1>1. pc'[Other(t)] = "idle"
    BY DEF Shapes
  <1>2. ASSUME NEW u \in Sides, pc'[Other(u)] = "idle"
        PROVE  Stage(table'[u], table'[Other(u)], pc'[u], at'[u])
    <2>1. CASE u = t
      BY <2>1
    <2>2. CASE u # t
      <3>1. u = Other(t) /\ Other(u) = t
        BY <2>2 DEF Sides, Other
      <3>2. Whole(table'[t], table'[u])
        BY <1>2, <3>1 DEF Stage
      <3> QED
        BY <1>1, <3>1, <3>2 DEF Stage, Whole
    <2> QED
      BY <2>1, <2>2
  <1> QED
    BY <1>1, <1>2 DEF Tables

LEMMA BridgesBegin == BridgesInit => BridgesInv
  <1> SUFFICES ASSUME BridgesInit PROVE BridgesInv
    OBVIOUS
  <1> USE OtherSide
  <1>1. /\ table = [t \in Sides |-> [k \in {} |-> None]] /\ pc = [t \in Sides |-> "idle"]
        /\ at = [t \in Sides |-> NoOp] /\ error = [t \in Sides |-> "no"] /\ overlap = FALSE
    BY DEF BridgesInit
  <1>2. Shapes
    BY <1>1 DEF Shapes, Record, NoOp
  <1>3. \A t \in Sides : DOMAIN table[t] = {} /\ pc[t] = "idle"
    BY <1>1
  <1>4. Tables
    BY <1>3 DEF Tables, Stage, Whole, Mirrors, Sides
  <1>5. KeyFound
    BY <1>1 DEF KeyFound
  <1> QED
    BY <1>2, <1>4, <1>5 DEF BridgesInv

\* What an access of t finds, while no operations have overlapped.
LEMMA Found ==
  ASSUME BridgesInv, NEW t \in Sides, ~overlap, pc[t] # "idle" \/ pc[Other(t)] = "idle"
  PROVE  pc[Other(t)] = "idle" /\ Stage(table[t], table[Other(t)], pc[t], at[t])
  <1>1. \E u \in Sides : pc[u] = "idle"
    BY DEF BridgesInv, Tables
  <1>2. pc[Other(t)] = "idle"
    BY <1>1 DEF Sides, Other
  <1> QED
    BY <1>2 DEF BridgesInv, Tables

\* Steps that leave the two threads and the tables alone.
LEMMA UntouchedKeeps ==
  ASSUME BridgesInv, UNCHANGED <<table, pc, at, error, overlap>>
  PROVE  BridgesInv'
  BY DEF BridgesInv, Shapes, Tables, KeyFound, Record

\* What a step of t is to show.
Accounts(t) ==
  /\ pc' = [pc EXCEPT ![t] = pc'[t]] /\ at' = [at EXCEPT ![t] = at'[t]] /\ at'[t] = Record(at'[t])
  /\ table' = [s \in Sides |-> table'[s]]
  /\ overlap' \in BOOLEAN /\ (overlap => overlap')
  /\ error' = [error EXCEPT ![t] = error'[t]] /\ (error'[t] = "key" => overlap')
  /\ ~overlap' => pc[Other(t)] = "idle" /\ Stage(table'[t], table'[Other(t)], pc'[t], at'[t])

LEMMA AccountsKeeps ==
  ASSUME BridgesInv, NEW t \in Sides, Accounts(t)
  PROVE  BridgesInv'
  <1> USE DEF BridgesInv
  <1>1. Shapes'
    BY DEF Accounts, Shapes, Record
  <1>2. Tables'
    BY ThreadSteps DEF Accounts
  <1>3. KeyFound'
    BY DEF Accounts, KeyFound, Shapes
  <1> QED
    BY <1>1, <1>2, <1>3

\* The parts of Accounts that say nothing of the tables.
LEMMA GotoAccounts ==
  ASSUME BridgesInv, NEW t \in Sides, NEW p, Goto(t, p), UNCHANGED error
  PROVE  /\ pc' = [pc EXCEPT ![t] = pc'[t]] /\ at' = [at EXCEPT ![t] = at'[t]] /\ at'[t] = Record(at'[t])
         /\ pc'[t] = p /\ at'[t] = at[t] /\ overlap' = overlap /\ overlap \in BOOLEAN
         /\ error' = [error EXCEPT ![t] = error'[t]] /\ (error'[t] = "key" => overlap')
  BY DEF BridgesInv, Shapes, KeyFound, Goto, Record

LEMMA EndAccounts ==
  ASSUME BridgesInv, NEW t \in Sides, End(t), UNCHANGED error
  PROVE  /\ pc' = [pc EXCEPT ![t] = pc'[t]] /\ at' = [at EXCEPT ![t] = at'[t]] /\ at'[t] = Record(at'[t])
         /\ pc'[t] = "idle" /\ overlap' = overlap /\ overlap \in BOOLEAN
         /\ error' = [error EXCEPT ![t] = error'[t]] /\ (error'[t] = "key" => overlap')
  BY DEF BridgesInv, Shapes, KeyFound, End, Record, NoOp

LEMMA RaiseAccounts ==
  ASSUME BridgesInv, NEW t \in Sides, NEW what, Raise(t, what)
  PROVE  /\ pc' = [pc EXCEPT ![t] = pc'[t]] /\ at' = [at EXCEPT ![t] = at'[t]] /\ at'[t] = Record(at'[t])
         /\ pc'[t] = "idle" /\ overlap' = overlap /\ overlap \in BOOLEAN
         /\ error' = [error EXCEPT ![t] = error'[t]] /\ error'[t] = what
  BY DEF BridgesInv, Shapes, Raise, End, Record, NoOp

\* A step that leaves the tables as they are, or that ends in front of p.
LEMMA IdleStage ==
  ASSUME NEW f, NEW g, NEW op, Whole(f, g), NEW p \in {"idle", "left", "tell"}
  PROVE  Stage(f, g, p, op)
  BY DEF Stage

LEMMA PutOwnKeeps ==
  ASSUME BridgesInv, NEW t \in Sides, PutOwn(t)
  PROVE  BridgesInv'
  <1> USE OtherSide
  <1>1. /\ pc[t] = "putOwn" /\ Goto(t, "putPeer") /\ UNCHANGED error
        /\ table' = [table EXCEPT ![t] = With(table[t], at[t].own, at[t].peer)]
    BY DEF PutOwn, Calm, Own, Peer
  <1>2. /\ table'[t] = With(table[t], at[t].own, at[t].peer) /\ table'[Other(t)] = table[Other(t)]
        /\ table' = [s \in Sides |-> table'[s]]
    BY <1>1 DEF BridgesInv, Shapes
  <1>3. ASSUME ~overlap
        PROVE  pc[Other(t)] = "idle" /\ Stage(table'[t], table'[Other(t)], "putPeer", at[t])
    <2>1. pc[Other(t)] = "idle" /\ Stage(table[t], table[Other(t)], "putOwn", at[t])
      BY <1>1, <1>3, Found
    <2>2. Half(With(table[t], at[t].own, at[t].peer), table[Other(t)], at[t].own, at[t].peer)
      BY <2>1, PutFirst DEF Stage
    <2> QED
      BY <1>2, <2>1, <2>2 DEF Stage
  <1>4. Accounts(t)
    BY <1>1, <1>2, <1>3, GotoAccounts DEF Accounts
  <1> QED
    BY <1>4, AccountsKeeps

LEMMA PutPeerKeeps ==
  ASSUME BridgesInv, NEW t \in Sides, PutPeer(t)
  PROVE  BridgesInv'
  <1> USE OtherSide
  <1>1. /\ pc[t] = "putPeer" /\ (Raise(t, "link") \/ (End(t) /\ UNCHANGED error))
        /\ table' = [table EXCEPT ![Other(t)] = With(table[Other(t)], at[t].peer, at[t].own)]
    BY DEF PutPeer, Calm, Own, Peer
  <1>2. /\ table'[t] = table[t] /\ table'[Other(t)] = With(table[Other(t)], at[t].peer, at[t].own)
        /\ table' = [s \in Sides |-> table'[s]]
    BY <1>1 DEF BridgesInv, Shapes
  <1>3. ASSUME ~overlap, NEW op
        PROVE  pc[Other(t)] = "idle" /\ Stage(table'[t], table'[Other(t)], "idle", op)
    <2>1. pc[Other(t)] = "idle" /\ Stage(table[t], table[Other(t)], "putPeer", at[t])
      BY <1>1, <1>3, Found
    <2>2. Whole(table[t], With(table[Other(t)], at[t].peer, at[t].own))
      BY <2>1, PutSecond DEF Stage
    <2> QED
      BY <1>2, <2>1, <2>2, IdleStage
  <1>4. CASE Raise(t, "link")
    <2>1. Accounts(t)
      BY <1>2, <1>3, <1>4, RaiseAccounts DEF Accounts
    <2> QED
      BY <2>1, AccountsKeeps
  <1>5. CASE End(t) /\ UNCHANGED error
    <2>1. Accounts(t)
      BY <1>2, <1>3, <1>5, EndAccounts DEF Accounts
    <2> QED
      BY <2>1, AccountsKeeps
  <1> QED
    BY <1>1, <1>4, <1>5

\* The other thread has deleted the key.
LEMMA KeyRaisesKeeps ==
  ASSUME BridgesInv, NEW t \in Sides, Raise(t, "key"), UNCHANGED table, overlap
  PROVE  BridgesInv'
  <1>1. table' = [s \in Sides |-> table'[s]]
    BY DEF BridgesInv, Shapes
  <1>2. Accounts(t)
    BY <1>1, RaiseAccounts DEF Accounts
  <1> QED
    BY <1>2, AccountsKeeps

\* A step that only goes on: the stage in front of p is to be shown.
LEMMA GoesOnKeeps ==
  ASSUME BridgesInv, NEW t \in Sides, NEW p, Goto(t, p), UNCHANGED <<table, error>>,
         ~overlap => pc[Other(t)] = "idle" /\ Stage(table[t], table[Other(t)], p, at[t])
  PROVE  BridgesInv'
  <1>1. table' = [s \in Sides |-> table'[s]] /\ table'[t] = table[t] /\ table'[Other(t)] = table[Other(t)]
    BY DEF BridgesInv, Shapes
  <1>2. Accounts(t)
    BY <1>1, GotoAccounts DEF Accounts
  <1> QED
    BY <1>2, AccountsKeeps

\* An operation that ends, well or not, when the tables are whole.
LEMMA EndsKeeps ==
  ASSUME BridgesInv, NEW t \in Sides, NEW what, what # "key", UNCHANGED table,
         Raise(t, what) \/ (End(t) /\ UNCHANGED error),
         ~overlap => pc[Other(t)] = "idle" /\ Whole(table[t], table[Other(t)])
  PROVE  BridgesInv'
  <1>1. table' = [s \in Sides |-> table'[s]] /\ table'[t] = table[t] /\ table'[Other(t)] = table[Other(t)]
    BY DEF BridgesInv, Shapes
  <1>2. ~overlap => pc[Other(t)] = "idle" /\ Stage(table'[t], table'[Other(t)], "idle", at'[t])
    BY <1>1, IdleStage
  <1>3. CASE Raise(t, what)
    <2>1. Accounts(t)
      BY <1>1, <1>2, <1>3, RaiseAccounts DEF Accounts
    <2> QED
      BY <2>1, AccountsKeeps
  <1>4. CASE End(t) /\ UNCHANGED error
    <2>1. Accounts(t)
      BY <1>1, <1>2, <1>4, EndAccounts DEF Accounts
    <2> QED
      BY <2>1, AccountsKeeps
  <1> QED
    BY <1>3, <1>4

LEMMA ReadKeeps ==
  ASSUME BridgesInv, NEW t \in Sides, Read(t)
  PROVE  BridgesInv'
  <1> USE OtherSide
  <1>1. pc[t] = "read"
    BY DEF Read, Access
  <1>2. CASE at[t].own \in DOMAIN table[t]
    <2>1. /\ pc' = [pc EXCEPT ![t] = "peer"] /\ at' = [at EXCEPT ![t].peer = table[t][at[t].own]]
          /\ UNCHANGED <<error, overlap, table>>
      BY <1>2 DEF Read, Access, Own, Calm
    <2>2. /\ at'[t] = [why |-> at[t].why, own |-> at[t].own, peer |-> table[t][at[t].own], ids |-> at[t].ids]
          /\ at' = [at EXCEPT ![t] = at'[t]] /\ at'[t] = Record(at'[t])
      BY <2>1 DEF BridgesInv, Shapes, Record
    <2>3. /\ pc' = [pc EXCEPT ![t] = pc'[t]] /\ pc'[t] = "peer"
          /\ table' = [s \in Sides |-> table'[s]]
          /\ overlap' \in BOOLEAN /\ (overlap => overlap')
          /\ error' = [error EXCEPT ![t] = error'[t]] /\ (error'[t] = "key" => overlap')
      BY <2>1 DEF BridgesInv, Shapes, KeyFound
    <2>4. ASSUME ~overlap
          PROVE  pc[Other(t)] = "idle" /\ Stage(table[t], table[Other(t)], "peer", at'[t])
      <3>1. pc[Other(t)] = "idle" /\ Stage(table[t], table[Other(t)], "read", at[t])
        BY <1>1, <2>4, Found
      <3> QED
        BY <1>2, <2>2, <3>1 DEF Stage
    <2>5. Accounts(t)
      BY <2>1, <2>2, <2>3, <2>4 DEF Accounts
    <2> QED
      BY <2>5, AccountsKeeps
  <1>3. CASE at[t].own \notin DOMAIN table[t]
    <2>1. Raise(t, "key") /\ UNCHANGED table
      BY <1>3 DEF Read, Access, Own
    <2>2. ASSUME ~overlap PROVE FALSE
      BY <1>1, <1>3, <2>2, Found DEF Stage
    <2> QED
      BY <2>1, <2>2, KeyRaisesKeeps
  <1> QED
    BY <1>2, <1>3

LEMMA TestPeerKeeps ==
  ASSUME BridgesInv, NEW t \in Sides, TestPeer(t)
  PROVE  BridgesInv'
  <1> USE OtherSide
  <1>1. /\ pc[t] = "peer" /\ UNCHANGED <<table, error>>
        /\ Goto(t, IF at[t].peer \in DOMAIN table[Other(t)] THEN "delPeer" ELSE "delOwn")
    BY DEF TestPeer, Peer, Calm
  <1>2. ASSUME ~overlap
        PROVE  /\ pc[Other(t)] = "idle" /\ at[t].peer \in DOMAIN table[Other(t)]
               /\ Stage(table[t], table[Other(t)], "delPeer", at[t])
    <2>1. pc[Other(t)] = "idle" /\ Stage(table[t], table[Other(t)], "peer", at[t])
      BY <1>1, <1>2, Found
    <2> QED
      BY <2>1 DEF Stage, Whole, Mirrors
  <1>3. CASE at[t].peer \in DOMAIN table[Other(t)]
    BY <1>1, <1>2, <1>3, GoesOnKeeps
  <1>4. CASE at[t].peer \notin DOMAIN table[Other(t)]
    BY <1>1, <1>2, <1>4, GoesOnKeeps
  <1> QED
    BY <1>3, <1>4

LEMMA DeletesPeer ==
  ASSUME BridgesInv, NEW t \in Sides, DelPeer(t)
  PROVE  BridgesInv'
  <1> USE OtherSide
  <1>1. pc[t] = "delPeer"
    BY DEF DelPeer, Access
  <1>2. ASSUME ~overlap
        PROVE  /\ pc[Other(t)] = "idle" /\ at[t].peer \in DOMAIN table[Other(t)]
               /\ Half(table[t], Without(table[Other(t)], at[t].peer), at[t].own, at[t].peer)
               /\ at[t].why # "setup"
    <2>1. pc[Other(t)] = "idle" /\ Stage(table[t], table[Other(t)], "delPeer", at[t])
      BY <1>1, <1>2, Found
    <2>2. /\ Whole(table[t], table[Other(t)]) /\ at[t].why # "setup"
          /\ at[t].own \in DOMAIN table[t] /\ table[t][at[t].own] = at[t].peer
      BY <2>1 DEF Stage
    <2>3. Half(table[t], Without(table[Other(t)], table[t][at[t].own]), at[t].own, table[t][at[t].own])
      BY <2>2, DeleteFirst
    <2> QED
      BY <2>1, <2>2, <2>3 DEF Whole, Mirrors
  <1>3. CASE at[t].peer \in DOMAIN table[Other(t)]
    <2>1. /\ Goto(t, "delOwn") /\ UNCHANGED error
          /\ table' = [table EXCEPT ![Other(t)] = Without(table[Other(t)], at[t].peer)]
      BY <1>3 DEF DelPeer, Access, Peer, Calm
    <2>2. /\ table'[t] = table[t] /\ table'[Other(t)] = Without(table[Other(t)], at[t].peer)
          /\ table' = [s \in Sides |-> table'[s]]
      BY <2>1 DEF BridgesInv, Shapes
    <2>3. ~overlap => pc[Other(t)] = "idle" /\ Stage(table'[t], table'[Other(t)], "delOwn", at[t])
      BY <1>2, <2>2 DEF Stage
    <2>4. Accounts(t)
      BY <2>1, <2>2, <2>3, GotoAccounts DEF Accounts
    <2> QED
      BY <2>4, AccountsKeeps
  <1>4. CASE at[t].peer \notin DOMAIN table[Other(t)]
    <2>1. Raise(t, "key") /\ UNCHANGED table
      BY <1>4 DEF DelPeer, Access, Peer
    <2>2. overlap \in BOOLEAN
      BY DEF BridgesInv, Shapes
    <2> QED
      BY <1>2, <1>4, <2>1, <2>2, KeyRaisesKeeps
  <1> QED
    BY <1>3, <1>4

LEMMA DeletesOwn ==
  ASSUME BridgesInv, NEW t \in Sides, DelOwn(t)
  PROVE  BridgesInv'
  <1> USE OtherSide
  <1>1. pc[t] = "delOwn"
    BY DEF DelOwn, Access
  <1>2. ASSUME ~overlap
        PROVE  /\ pc[Other(t)] = "idle" /\ at[t].own \in DOMAIN table[t] /\ at[t].why # "setup"
               /\ Whole(Without(table[t], at[t].own), table[Other(t)])
    <2>1. pc[Other(t)] = "idle" /\ Stage(table[t], table[Other(t)], "delOwn", at[t])
      BY <1>1, <1>2, Found
    <2>2. Half(table[t], table[Other(t)], at[t].own, at[t].peer) /\ at[t].why # "setup"
      BY <2>1 DEF Stage
    <2>3. Whole(Without(table[t], at[t].own), table[Other(t)])
      BY <2>2, DeleteSecond
    <2> QED
      BY <2>1, <2>2, <2>3 DEF Half
  <1>3. CASE at[t].own \in DOMAIN table[t]
    <2>1. /\ UNCHANGED error /\ table' = [table EXCEPT ![t] = Without(table[t], at[t].own)]
          /\ \/ Goto(t, "tell")
             \/ pc' = [pc EXCEPT ![t] = "find"] /\ at' = [at EXCEPT ![t].ids = DOMAIN players]
                  /\ UNCHANGED overlap
      BY <1>3 DEF DelOwn, Access, Own, Calm
    <2>2. /\ table'[t] = Without(table[t], at[t].own) /\ table'[Other(t)] = table[Other(t)]
          /\ table' = [s \in Sides |-> table'[s]]
      BY <2>1 DEF BridgesInv, Shapes
    <2>3. CASE Goto(t, "tell")
      <3>1. ~overlap => pc[Other(t)] = "idle" /\ Stage(table'[t], table'[Other(t)], "tell", at[t])
        BY <1>2, <2>2, IdleStage
      <3>2. Accounts(t)
        BY <2>1, <2>2, <2>3, <3>1, GotoAccounts DEF Accounts
      <3> QED
        BY <3>2, AccountsKeeps
    <2>4. CASE pc' = [pc EXCEPT ![t] = "find"] /\ at' = [at EXCEPT ![t].ids = DOMAIN players]
                 /\ UNCHANGED overlap
      <3>1. /\ at'[t] = [why |-> at[t].why, own |-> at[t].own, peer |-> at[t].peer, ids |-> DOMAIN players]
            /\ at' = [at EXCEPT ![t] = at'[t]] /\ at'[t] = Record(at'[t])
        BY <2>4 DEF BridgesInv, Shapes, Record
      <3>2. /\ pc' = [pc EXCEPT ![t] = pc'[t]] /\ pc'[t] = "find"
            /\ overlap' \in BOOLEAN /\ (overlap => overlap')
            /\ error' = [error EXCEPT ![t] = error'[t]] /\ (error'[t] = "key" => overlap')
        BY <2>1, <2>4 DEF BridgesInv, Shapes, KeyFound
      <3>3. ~overlap => pc[Other(t)] = "idle" /\ Stage(table'[t], table'[Other(t)], "find", at'[t])
        BY <1>2, <2>2, <3>1 DEF Stage
      <3>4. Accounts(t)
        BY <2>2, <2>4, <3>1, <3>2, <3>3 DEF Accounts
      <3> QED
        BY <3>4, AccountsKeeps
    <2> QED
      BY <2>1, <2>3, <2>4
  <1>4. CASE at[t].own \notin DOMAIN table[t]
    <2>1. Raise(t, "key") /\ UNCHANGED table
      BY <1>4 DEF DelOwn, Access, Own
    <2>2. overlap \in BOOLEAN
      BY DEF BridgesInv, Shapes
    <2> QED
      BY <1>2, <1>4, <2>1, <2>2, KeyRaisesKeeps
  <1> QED
    BY <1>3, <1>4

LEMMA RelayKeeps ==
  ASSUME BridgesInv, NEW t \in Sides, Relay(t)
  PROVE  BridgesInv'
  <1> USE OtherSide
  <1>1. pc[t] = "relay"
    BY DEF Relay, Access
  <1>2. ASSUME ~overlap
        PROVE  /\ pc[Other(t)] = "idle" /\ at[t].own \in DOMAIN table[t] /\ at[t].why # "setup"
               /\ Whole(table[t], table[Other(t)])
    BY <1>1, <1>2, Found DEF Stage
  <1>3. overlap \in BOOLEAN
    BY DEF BridgesInv, Shapes
  <1>4. CASE at[t].own \in DOMAIN table[t]
    <2>1. /\ UNCHANGED <<error, table>>
          /\ \/ End(t)
             \/ pc' = [pc EXCEPT ![t] = "find"] /\ at' = [at EXCEPT ![t].ids = DOMAIN players]
                  /\ UNCHANGED overlap
      BY <1>4 DEF Relay, Access, Own, Calm
    <2>2. CASE End(t)
      BY <1>2, <2>1, <2>2, EndsKeeps, "link" # "key"
    <2>3. CASE pc' = [pc EXCEPT ![t] = "find"] /\ at' = [at EXCEPT ![t].ids = DOMAIN players]
                 /\ UNCHANGED overlap
      <3>1. /\ at'[t] = [why |-> at[t].why, own |-> at[t].own, peer |-> at[t].peer, ids |-> DOMAIN players]
            /\ at' = [at EXCEPT ![t] = at'[t]] /\ at'[t] = Record(at'[t])
        BY <2>3 DEF BridgesInv, Shapes, Record
      <3>2. /\ pc' = [pc EXCEPT ![t] = pc'[t]] /\ pc'[t] = "find"
            /\ table' = [s \in Sides |-> table'[s]]
            /\ overlap' \in BOOLEAN /\ (overlap => overlap')
            /\ error' = [error EXCEPT ![t] = error'[t]] /\ (error'[t] = "key" => overlap')
        BY <2>1, <2>3 DEF BridgesInv, Shapes, KeyFound
      <3>3. ~overlap => pc[Other(t)] = "idle" /\ Stage(table[t], table[Other(t)], "find", at'[t])
        BY <1>2, <3>1 DEF Stage
      <3>4. Accounts(t)
        BY <2>1, <2>3, <3>1, <3>2, <3>3 DEF Accounts
      <3> QED
        BY <3>4, AccountsKeeps
    <2> QED
      BY <2>1, <2>2, <2>3
  <1>5. CASE at[t].own \notin DOMAIN table[t]
    <2>1. Raise(t, "key") /\ UNCHANGED table
      BY <1>5 DEF Relay, Access, Own
    <2> QED
      BY <1>2, <1>3, <1>5, <2>1, KeyRaisesKeeps
  <1> QED
    BY <1>4, <1>5

LEMMA TellKeeps ==
  ASSUME BridgesInv, Tell
  PROVE  BridgesInv'
  <1> USE OtherSide
  <1> DEFINE t == "game"
  <1>1. t \in Sides /\ pc[t] = "tell" /\ UNCHANGED table
    BY DEF Tell, Sides
  <1>2. ~overlap => pc[Other(t)] = "idle" /\ Whole(table[t], table[Other(t)])
    BY <1>1, Found DEF Stage
  <1>3. Raise(t, "channel") \/ (UNCHANGED error /\ (Goto(t, "left") \/ End(t)))
    BY DEF Tell, Calm
  <1>4. CASE UNCHANGED error /\ Goto(t, "left")
    BY <1>1, <1>2, <1>4, IdleStage, GoesOnKeeps
  <1>5. CASE Raise(t, "channel") \/ (UNCHANGED error /\ End(t))
    BY <1>1, <1>2, <1>5, EndsKeeps, "channel" # "key"
  <1> QED
    BY <1>3, <1>4, <1>5

LEMMA FindKeeps ==
  ASSUME BridgesInv, Find
  PROVE  BridgesInv'
  <1> USE OtherSide
  <1> DEFINE t == "irc"
  <1>1. t \in Sides /\ pc[t] = "find" /\ UNCHANGED table
    BY DEF Find, Sides
  <1>2. ~overlap => pc[Other(t)] = "idle" /\ Stage(table[t], table[Other(t)], "find", at[t])
    BY <1>1, Found
  <1>3. \/ Raise(t, "size") \/ Raise(t, "player") \/ Raise(t, "link") \/ (End(t) /\ UNCHANGED error)
        \/ (at[t].why = "setup" /\ Goto(t, "putOwn") /\ UNCHANGED error)
        \/ (Goto(t, "left") /\ UNCHANGED error)
    <2>1. CASE \/ DOMAIN players # at["irc"].ids /\ Raise("irc", "size")
               \/ at["irc"].ids \ DOMAIN players # {} /\ Raise("irc", "player")
      BY <2>1
    <2>2. CASE /\ at["irc"].why = "setup" /\ Calm
               /\ IF Peer("irc") \in Range(players) THEN Goto("irc", "putOwn") ELSE End("irc")
      BY <2>2 DEF Calm
    <2>3. CASE at["irc"].why = "leave" /\ Goto("irc", "left") /\ Calm
      BY <2>3 DEF Calm
    <2>4. CASE IF link \in {"down", "unloaded"} THEN Raise("irc", "link") ELSE End("irc") /\ Calm
      BY <2>4 DEF Calm
    <2>5. CASE End("irc") /\ Calm
      BY <2>5 DEF Calm
    <2> QED
      BY <2>1, <2>2, <2>3, <2>4, <2>5, Zenon DEF Find
  <1>4. CASE at[t].why = "setup" /\ Goto(t, "putOwn") /\ UNCHANGED error
    <2>1. ~overlap => Stage(table[t], table[Other(t)], "putOwn", at[t])
      BY <1>2, <1>4 DEF Stage
    <2> QED
      BY <1>1, <1>2, <1>4, <2>1, GoesOnKeeps
  <1>5. ~overlap => Whole(table[t], table[Other(t)])
    BY <1>2 DEF Stage
  <1>6. CASE Goto(t, "left") /\ UNCHANGED error
    BY <1>1, <1>2, <1>5, <1>6, IdleStage, GoesOnKeeps
  <1>7. CASE Raise(t, "size") \/ Raise(t, "player")
    BY <1>1, <1>2, <1>5, <1>7, EndsKeeps, "size" # "key", "player" # "key"
  <1>8. CASE Raise(t, "link") \/ (End(t) /\ UNCHANGED error)
    BY <1>1, <1>2, <1>5, <1>8, EndsKeeps, "link" # "key"
  <1> QED
    BY <1>3, <1>4, <1>6, <1>7, <1>8

LEMMA LeftKeeps ==
  ASSUME BridgesInv, NEW t \in Sides, pc[t] = "left", End(t), UNCHANGED <<table, error>>
  PROVE  BridgesInv'
  <1>1. ~overlap => pc[Other(t)] = "idle" /\ Whole(table[t], table[Other(t)])
    BY Found, OtherSide DEF Stage
  <1> QED
    BY <1>1, EndsKeeps, "link" # "key"

-----------------------------------------------------------------------------
(* Operations begun.                                                       *)

LEMMA BeginsKeeps ==
  ASSUME BridgesInv, NEW t \in Sides, pc[t] = "idle", UNCHANGED table,
         pc' = [pc EXCEPT ![t] = pc'[t]], at' = [at EXCEPT ![t] = at'[t]], at'[t] = Record(at'[t]),
         overlap' = (overlap \/ pc[Other(t)] # "idle"),
         error' = [error EXCEPT ![t] = error'[t]], error'[t] = error[t] \/ error'[t] # "key",
         Whole(table[t], table[Other(t)]) => Stage(table[t], table[Other(t)], pc'[t], at'[t])
  PROVE  BridgesInv'
  <1> USE OtherSide
  <1>1. table' = [s \in Sides |-> table'[s]] /\ table'[t] = table[t] /\ table'[Other(t)] = table[Other(t)]
    BY DEF BridgesInv, Shapes
  <1>2. overlap' \in BOOLEAN /\ (overlap => overlap') /\ (error'[t] = "key" => overlap')
    BY DEF BridgesInv, Shapes, KeyFound
  <1>3. ASSUME ~overlap'
        PROVE  pc[Other(t)] = "idle" /\ Stage(table[t], table[Other(t)], pc'[t], at'[t])
    <2>1. ~overlap /\ pc[Other(t)] = "idle"
      BY <1>3
    <2>2. Stage(table[t], table[Other(t)], "idle", at[t])
      BY <2>1, Found
    <2> QED
      BY <2>1, <2>2 DEF Stage
  <1>4. Accounts(t)
    BY <1>1, <1>2, <1>3 DEF Accounts
  <1> QED
    BY <1>4, AccountsKeeps

LEMMA RemoveKeeps ==
  ASSUME BridgesInv, NEW t \in Sides, NEW own, NEW why \in {"leave", "remove"}, NEW who,
         pc[t] = "idle", RemoveBridge(t, own, why, who), UNCHANGED <<table, error>>
  PROVE  BridgesInv'
  <1>1. /\ pc' = [pc EXCEPT ![t] = pc'[t]] /\ at' = [at EXCEPT ![t] = at'[t]] /\ at'[t] = Record(at'[t])
        /\ pc'[t] = IF own \in DOMAIN table[t] THEN "read" ELSE IF why = "leave" THEN "left" ELSE "idle"
        /\ at'[t].own = own /\ at'[t].why = why
        /\ overlap' = (overlap \/ pc[Other(t)] # "idle")
        /\ error' = [error EXCEPT ![t] = error'[t]] /\ error'[t] = error[t]
    BY DEF RemoveBridge, Begin, BridgesInv, Shapes, Record
  <1>2. Whole(table[t], table[Other(t)]) => Stage(table[t], table[Other(t)], pc'[t], at'[t])
    BY <1>1 DEF Stage
  <1> QED
    BY <1>1, <1>2, BeginsKeeps

LEMMA TextKeeps ==
  ASSUME BridgesInv, NEW t \in Sides, NEW own,
         pc[t] = "idle", Text(t, own), UNCHANGED <<table, error>>
  PROVE  BridgesInv'
  <1>1. /\ pc' = [pc EXCEPT ![t] = pc'[t]] /\ at' = [at EXCEPT ![t] = at'[t]] /\ at'[t] = Record(at'[t])
        /\ pc'[t] = IF own \in DOMAIN table[t] THEN "relay" ELSE "idle"
        /\ at'[t].own = own /\ at'[t].why = "text"
        /\ overlap' = (overlap \/ pc[Other(t)] # "idle")
        /\ error' = [error EXCEPT ![t] = error'[t]] /\ error'[t] = error[t]
    BY DEF Text, Begin, BridgesInv, Shapes, Record
  <1>2. Whole(table[t], table[Other(t)]) => Stage(table[t], table[Other(t)], pc'[t], at'[t])
    BY <1>1 DEF Stage
  <1> QED
    BY <1>1, <1>2, BeginsKeeps

LEMMA NothingKeeps ==
  ASSUME BridgesInv, NEW t \in Sides, pc[t] = "idle", Begin(t, "idle", NoOp), UNCHANGED table,
         error' = error \/ error' = [error EXCEPT ![t] = "channel"]
  PROVE  BridgesInv'
  <1>1. /\ pc' = [pc EXCEPT ![t] = pc'[t]] /\ at' = [at EXCEPT ![t] = at'[t]] /\ at'[t] = Record(at'[t])
        /\ pc'[t] = "idle" /\ overlap' = (overlap \/ pc[Other(t)] # "idle")
    BY DEF Begin, BridgesInv, Shapes, Record, NoOp
  <1>2. error' = [error EXCEPT ![t] = error'[t]] /\ (error'[t] = error[t] \/ error'[t] # "key")
    BY DEF BridgesInv, Shapes
  <1>3. Whole(table[t], table[Other(t)]) => Stage(table[t], table[Other(t)], pc'[t], at'[t])
    BY <1>1, IdleStage
  <1> QED
    BY <1>1, <1>2, <1>3, BeginsKeeps

LEMMA SetupKeeps ==
  ASSUME BridgesInv, NEW t \in Sides, NEW own, NEW peer,
         pc[t] = "idle", Setup(t, own, peer), UNCHANGED table
  PROVE  BridgesInv'
  <1> DEFINE op == [why |-> "setup", own |-> own, peer |-> peer, ids |-> DOMAIN players]
  <1>1. \/ Begin(t, "idle", NoOp) /\ UNCHANGED error
        \/ t = "game" /\ Begin(t, "idle", NoOp) /\ error' = [error EXCEPT !["game"] = "channel"]
        \/ /\ SetupFree(t, own, peer) /\ UNCHANGED error
           /\ Begin(t, "find", op) \/ Begin(t, "putOwn", op) \/ Begin(t, "idle", op)
    BY DEF Setup, Sides
  <1>2. CASE Begin(t, "idle", NoOp) /\ UNCHANGED error
    BY <1>2, NothingKeeps
  <1>3. CASE t = "game" /\ Begin(t, "idle", NoOp) /\ error' = [error EXCEPT !["game"] = "channel"]
    BY <1>3, NothingKeeps
  <1>4. CASE /\ SetupFree(t, own, peer) /\ UNCHANGED error
             /\ Begin(t, "find", op) \/ Begin(t, "putOwn", op) \/ Begin(t, "idle", op)
    <2>1. /\ pc' = [pc EXCEPT ![t] = pc'[t]] /\ pc'[t] \in {"find", "putOwn", "idle"}
          /\ overlap' = (overlap \/ pc[Other(t)] # "idle")
          /\ error' = [error EXCEPT ![t] = error'[t]] /\ error'[t] = error[t]
      BY <1>4 DEF Begin, BridgesInv, Shapes
    <2>2. /\ at' = [at EXCEPT ![t] = at'[t]] /\ at'[t] = Record(at'[t])
          /\ at'[t].own = own /\ at'[t].peer = peer
      BY <1>4 DEF Begin, BridgesInv, Shapes, Record
    <2>3. Whole(table[t], table[Other(t)]) => Stage(table[t], table[Other(t)], pc'[t], at'[t])
      BY <1>4, <2>1, <2>2 DEF Stage, SetupFree
    <2> QED
      BY <2>1, <2>2, <2>3, BeginsKeeps
  <1> QED
    BY <1>1, <1>2, <1>3, <1>4

LEMMA GameCommandKeeps ==
  ASSUME BridgesInv, NEW p \in Players, GameCommand(p)
  PROVE  BridgesInv'
  <1>1. "game" \in Sides /\ pc["game"] = "idle" /\ UNCHANGED table
    BY DEF Sides, GameCommand, GameOnly, Idle
  <1>2. \/ \E k : Setup("game", players[p], k)
        \/ RemoveBridge("game", players[p], "remove", {}) /\ UNCHANGED error
        \/ Text("game", players[p]) /\ UNCHANGED error
    BY DEF GameCommand
  <1> QED
    BY <1>1, <1>2, SetupKeeps, RemoveKeeps, TextKeeps

LEMMA IrcCommandKeeps ==
  ASSUME BridgesInv, IrcCommand
  PROVE  BridgesInv'
  <1>1. "irc" \in Sides /\ pc["irc"] = "idle" /\ UNCHANGED table
    BY DEF Sides, IrcCommand, Idle
  <1>2. \/ Setup("irc", Line.nick, Line.arg)
        \/ RemoveBridge("irc", Line.nick, "remove", {}) /\ UNCHANGED error
        \/ Begin("irc", "idle", NoOp) /\ UNCHANGED error
        \/ Text("irc", Line.nick) /\ UNCHANGED error
    BY DEF IrcCommand
  <1> QED
    BY <1>1, <1>2, SetupKeeps, RemoveKeeps, TextKeeps, NothingKeeps

-----------------------------------------------------------------------------

LEMMA OperationKeeps ==
  ASSUME BridgesInv, NEW t \in Sides, Operation(t)
  PROVE  BridgesInv'
  BY PutOwnKeeps, PutPeerKeeps, ReadKeeps, TestPeerKeeps, DeletesPeer, DeletesOwn, RelayKeeps DEF Operation

LEMMA BridgesKeep == BridgesInv /\ [BridgesNext]_bvars => BridgesInv'
  <1> SUFFICES ASSUME BridgesInv, [BridgesNext]_bvars PROVE BridgesInv'
    OBVIOUS
  <1>1. CASE GameThread
    <2>1. "game" \in Sides
      BY DEF Sides
    <2>2. CASE PlayerGone
      BY <2>1, <2>2, LeftKeeps DEF PlayerGone
    <2> QED
      BY <1>1, <2>1, <2>2, OperationKeeps, TellKeeps DEF GameThread
  <1>2. CASE IrcThread
    <2>1. "irc" \in Sides
      BY DEF Sides
    <2>2. CASE IrcLeft
      BY <2>1, <2>2, LeftKeeps DEF IrcLeft
    <2> QED
      BY <1>2, <2>1, <2>2, OperationKeeps, FindKeeps DEF IrcThread
  <1>3. CASE Unload
    BY <1>3, UntouchedKeeps DEF Unload, bridgeVars
  <1>4. ASSUME NEW p \in Players, PlayerEnters(p) \/ PlayerRenames(p) \/ PlayerErrors(p)
        PROVE  BridgesInv'
    BY <1>4, UntouchedKeeps DEF PlayerEnters, PlayerRenames, PlayerErrors, GameOnly
  <1>5. ASSUME NEW p \in Players, PlayerQuits(p)
        PROVE  BridgesInv'
    BY <1>5, RemoveKeeps DEF PlayerQuits, GameOnly, Idle, Sides
  <1>6. CASE IrcLeaves
    BY <1>6, RemoveKeeps DEF IrcLeaves, Idle, Sides
  <1>7. CASE IrcLine \/ IrcNetwork
    BY <1>7, UntouchedKeeps DEF IrcLine, IrcNetwork
  <1>8. CASE Elsewhere
    BY <1>8, UntouchedKeeps DEF Elsewhere, IrcDrop, IrcServer, UserSays, bridgeVars
  <1>9. CASE UNCHANGED bvars
    BY <1>9, UntouchedKeeps DEF bvars, bridgeVars
  <1> QED
    BY <1>1, <1>2, <1>3, <1>4, <1>5, <1>6, <1>7, <1>8, <1>9, GameCommandKeeps, IrcCommandKeeps
    DEF BridgesNext, GameBegins, IrcBegins

\* Whatever was set up, removed and left by both threads, the two tables agree between the
\* operations, as long as none have overlapped (ircbridges.py:36-98).
THEOREM TablesOneToOne == BridgesSpec => []OneToOne
  <1>1. BridgesInv => OneToOne
    BY DEF BridgesInv, Tables, OneToOne, Between, Sides, Other, Stage, Whole
  <1> QED
    BY BridgesBegin, BridgesKeep, <1>1, PTL DEF BridgesSpec

\* A KeyError of an access to the tables ends a thread only after an overlap.
THEOREM NoKeyErrorAlone == BridgesSpec => []KeyFound
  <1>1. BridgesInv => KeyFound
    BY DEF BridgesInv
  <1> QED
    BY BridgesBegin, BridgesKeep, <1>1, PTL DEF BridgesSpec

-----------------------------------------------------------------------------
(* The tables of the bot, whatever the plugin does.                        *)

SideInv ==
  /\ dead \in BOOLEAN
  /\ ~dead => IrcInv
  /\ dead /\ error["irc"] = "no" => cut

\* Steps of the server.
LEMMA ServerStepKeeps ==
  ASSUME IrcInv, ~dead, UNCHANGED inst, Server
  PROVE  IrcInv' /\ UNCHANGED <<dead, cut>>
  <1>1. UNCHANGED <<dead, cut>>
    BY DEF Server, UserJoins, UserLeaves, UserRenames, UserMode, KickBot, RenameBot, ServeNick, ServeJoin,
           Outside
  <1>2. IrcInv'
    BY UserJoinsKeeps, UserLeavesKeeps, UserRenamesKeeps, UserModeKeeps, KickBotKeeps, RenameBotKeeps,
       ServeNickKeeps, ServeJoinKeeps DEF Server
  <1> QED
    BY <1>1, <1>2

LEMMA HandlersKeep ==
  ASSUME IrcInv, UNCHANGED inst, HandleLine \/ Leaving
  PROVE  Keeps
  BY HandleWelcomeKeeps, HandleInUseKeeps, HandleJoinKeeps, HandleKickKeeps, HandleNickKeeps, HandleModeKeeps,
     HandleNamReplyKeeps, HandlePartKeeps, HandleQuitKeeps DEF HandleLine, Leaving

LEMMA UserSaysKeeps ==
  ASSUME IrcInv, ~dead, UNCHANGED inst, NEW u \in Users, UserSays(u)
  PROVE  IrcInv' /\ UNCHANGED <<dead, cut>>
  <1>1. PICK what, x : ToBot([ev |-> "say", nick |-> member[u].nick, what |-> what, arg |-> x])
    BY DEF UserSays
  <1>2. /\ Watched /\ u \in DOMAIN member
        /\ UNCHANGED <<link, real, channel, batch, dead, myNick, sent, cut, member, spoiled>>
    BY DEF UserSays, Outside
  <1> DEFINE l == [ev |-> "say", nick |-> member[u].nick, what |-> what, arg |-> x]
  <1>3. l.ev = "say" /\ l.nick = member[u].nick /\ ToBot(l)
    BY <1>1
  <1> HIDE DEF l
  <1>4. View' = View /\ View.in /\ member[u].nick \in View.nicks
    BY <1>2 DEF View, ViewOf
  <1>5. Follows(View, l, View')
    BY <1>3, <1>4 DEF Follows
  <1>6. Peopled(member', myNick') /\ myNick' \in Nicks /\ spoiled' \subseteq Range(Low)
          /\ (Watched' <=> Watched)
    BY <1>2 DEF IrcInv, IrcTypes, Watched
  <1> QED
    BY <1>2, <1>3, <1>5, <1>6, ServerKeeps

\* A private line leaves the tables of the bot as they are.
LEMMA CommandKeeps ==
  ASSUME IrcInv, UNCHANGED inst, Handling({"say"}), batch' = Tail(batch), IrcRest, UNCHANGED dead
  PROVE  IrcInv'
  <1>1. ~dead /\ batch # <<>> /\ Line.ev = "say"
    BY DEF Handling
  <1>2. Gone \/ link = "up"
    BY <1>1, InTouch
  <1>3. Done(channel, real, "none")
    BY DEF Done, IrcRest, server
  <1>4. \A p, q : Fits(channel, real, p) /\ Follows(p, Line, q) => Fits(channel, real, q)
    BY <1>1 DEF Follows
  <1> QED
    BY <1>1, <1>2, <1>3, <1>4, LineKeeps

LEMMA ResultKeeps ==
  ASSUME SideInv, UNCHANGED <<inst, ircVars>>, error'["irc"] = error["irc"]
  PROVE  SideInv'
  <1>1. UNCHANGED <<link, real, channel, batch, dead, member, myNick, sent, wire, spoiled, cut>>
    BY DEF ircVars, server
  <1>2. IrcInv => IrcInv'
    <2>1. ASSUME AreLines PROVE AreLines'
      BY <1>1, <2>1 DEF AreLines
    <2>2. ASSUME InSession PROVE InSession'
      <3>1. PICK P : Leads(P, Pending) /\ Starts(P[0]) /\ Ends(P[Len(Pending)])
        BY <2>2 DEF InSession
      <3>2. PICK n : n = Len(Pending)
        OBVIOUS
      <3>3. Pending' = Pending
        BY <1>1 DEF Pending
      <3>4. Starts(P[0])'
        BY <1>1, <3>1 DEF Starts
      <3>5. Ends(P[n])'
        BY <1>1, <3>1, <3>2 DEF Ends, View, Watched
      <3> QED
        BY <3>1, <3>2, <3>3, <3>4, <3>5 DEF InSession
    <2> QED
      BY <1>1, <2>1, <2>2
      DEF IrcInv, IrcTypes, SessionInv, Gone, Offline, Registering, Connected, Watched, Pending
  <1> QED
    BY <1>1, <1>2 DEF SideInv

LEMMA RaiseSide ==
  ASSUME SideInv, Shapes, UNCHANGED inst, NEW t \in Sides, NEW what, what # "no", Raise(t, what), IrcRest,
         Running(t)
  PROVE  SideInv'
  <1>1. CASE t = "game"
    <2>1. UNCHANGED ircVars /\ error'["irc"] = error["irc"]
      BY <1>1 DEF Raise, IrcRest, ircVars, Shapes, Sides, SideInv
    <2> QED
      BY <2>1, ResultKeeps
  <1>2. CASE t = "irc"
    <2>1. dead' = TRUE /\ error'["irc"] = what
      BY <1>2 DEF Raise, Shapes, Sides
    <2> QED
      BY <2>1 DEF SideInv
  <1> QED
    BY <1>1, <1>2 DEF Sides

LEMMA AccessSide ==
  ASSUME SideInv, Shapes, UNCHANGED inst, NEW t \in Sides, Operation(t)
  PROVE  SideInv'
  <1>1. Running(t) /\ IrcRest /\ ((\E what : what # "no" /\ Raise(t, what)) \/ Calm)
    <2>1. "key" # "no" /\ "link" # "no"
      OBVIOUS
    <2> QED
      BY <2>1 DEF Operation, PutOwn, PutPeer, Read, TestPeer, DelPeer, DelOwn, Relay, Access
  <1>2. CASE Calm
    BY <1>1, <1>2, ResultKeeps DEF Calm, IrcRest, ircVars
  <1> QED
    BY <1>1, <1>2, RaiseSide

LEMMA SideKeeps ==
  ASSUME SideInv, Shapes, BridgesNext
  PROVE  SideInv'
  <1>1. UNCHANGED inst /\ "game" \in Sides /\ "irc" \in Sides
    BY DEF BridgesNext, Sides
  <1>2. CASE GameThread
    <2>1. CASE Tell
      <3>1. Running("game") /\ IrcRest /\ (Raise("game", "channel") \/ Calm)
        BY <2>1 DEF Tell
      <3>2. CASE Calm
        BY <1>1, <3>1, <3>2, ResultKeeps DEF Calm, IrcRest, ircVars
      <3> QED
        BY <1>1, <3>1, <3>2, RaiseSide, "channel" # "no"
    <2>2. CASE PlayerGone
      BY <1>1, <2>2, ResultKeeps DEF PlayerGone
    <2> QED
      BY <1>1, <1>2, <2>1, <2>2, AccessSide DEF GameThread
  <1>3. CASE IrcThread
    <2>1. CASE Find
      <3>1. Running("irc") /\ IrcRest
            /\ (Raise("irc", "size") \/ Raise("irc", "player") \/ Raise("irc", "link") \/ Calm)
        <4>1. Running("irc") /\ IrcRest
          BY <2>1 DEF Find
        <4> QED
          BY <2>1, <4>1, Zenon DEF Find
      <3>2. CASE Calm
        BY <1>1, <3>1, <3>2, ResultKeeps DEF Calm, IrcRest, ircVars
      <3> QED
        BY <1>1, <3>1, <3>2, RaiseSide, "size" # "no", "player" # "no", "link" # "no"
    <2>2. CASE IrcLeft
      <3>1. Keeps /\ UNCHANGED error
        BY <1>1, <2>2, HandlersKeep DEF IrcLeft, SideInv, Running
      <3> QED
        BY <3>1 DEF SideInv, Keeps, IrcInv, IrcTypes
    <2> QED
      BY <1>1, <1>3, <2>1, <2>2, AccessSide DEF IrcThread
  <1>4. CASE Explored /\ GameBegins
    <2>1. IrcInv /\ ~dead
      BY <1>4 DEF SideInv, Explored
    <2>2. CASE Unload
      <3>1. IrcInv'
        BY <1>1, <2>1, <2>2, LostKeeps DEF Unload
      <3> QED
        BY <2>1, <2>2, <3>1 DEF SideInv, Unload
    <2>3. ASSUME NEW p \in Players, PlayerEnters(p) \/ PlayerRenames(p) \/ PlayerErrors(p) \/ PlayerQuits(p)
          PROVE  SideInv'
      BY <1>1, <2>3, ResultKeeps DEF PlayerEnters, PlayerRenames, PlayerErrors, PlayerQuits, GameOnly
    <2>4. ASSUME NEW p \in Players, GameCommand(p) PROVE SideInv'
      <3>1. UNCHANGED ircVars
        BY <2>4 DEF GameCommand, GameOnly
      <3>2. error'["irc"] = error["irc"]
        <4>1. UNCHANGED error \/ error' = [error EXCEPT !["game"] = "channel"]
          BY <2>4 DEF GameCommand, Setup
        <4> QED
          BY <4>1 DEF Shapes, Sides
      <3> QED
        BY <1>1, <3>1, <3>2, ResultKeeps
    <2> QED
      BY <1>4, <2>2, <2>3, <2>4 DEF GameBegins
  <1>5. CASE Explored /\ IrcBegins
    <2>1. IrcInv /\ ~dead
      BY <1>5 DEF SideInv, Explored
    <2>2. CASE IrcCommand
      <3>1. IrcInv'
        BY <1>1, <2>1, <2>2, CommandKeeps DEF IrcCommand
      <3> QED
        BY <2>1, <2>2, <3>1 DEF SideInv, IrcCommand
    <2>3. CASE IrcLeaves
      BY <1>1, <2>3, ResultKeeps DEF IrcLeaves
    <2>4. CASE IrcLine
      <3>1. Keeps /\ UNCHANGED error
        BY <1>1, <2>1, <2>4, HandlersKeep DEF IrcLine
      <3> QED
        BY <3>1 DEF SideInv, Keeps, IrcInv, IrcTypes
    <2>5. CASE IrcNetwork
      <3>1. IrcInv' /\ UNCHANGED <<dead, cut>>
        BY <1>1, <2>1, <2>5, ConnectKeeps, ReceiveKeeps DEF IrcNetwork
      <3> QED
        BY <2>1, <3>1 DEF SideInv
    <2> QED
      BY <1>5, <2>2, <2>3, <2>4, <2>5 DEF IrcBegins
  <1>6. CASE Explored /\ Elsewhere
    <2>1. IrcInv /\ ~dead
      BY <1>6 DEF SideInv, Explored
    <2>2. CASE IrcDrop
      <3>1. IrcInv' /\ UNCHANGED dead
        BY <1>1, <2>1, <2>2, LostKeeps DEF IrcDrop, Drop
      <3> QED
        BY <2>1, <3>1 DEF SideInv
    <2>3. CASE IrcServer
      <3>1. IrcInv' /\ UNCHANGED <<dead, cut>>
        BY <1>1, <2>1, <2>3, ServerStepKeeps DEF IrcServer
      <3> QED
        BY <2>1, <3>1 DEF SideInv
    <2>4. ASSUME NEW u \in Users, UserSays(u) PROVE SideInv'
      <3>1. IrcInv' /\ UNCHANGED <<dead, cut>>
        BY <1>1, <2>1, <2>4, UserSaysKeeps
      <3> QED
        BY <2>1, <3>1 DEF SideInv
    <2> QED
      BY <1>6, <2>2, <2>3, <2>4 DEF Elsewhere
  <1> QED
    BY <1>2, <1>3, <1>4, <1>5, <1>6 DEF BridgesNext

LEMMA SideBegins == BridgesInit => SideInv
  BY IrcInvBegins DEF BridgesInit, SideInv, IrcInv, IrcTypes

LEMMA SideStep == SideInv /\ BridgesInv /\ [BridgesNext]_bvars => SideInv'
  <1> SUFFICES ASSUME SideInv, BridgesInv, [BridgesNext]_bvars PROVE SideInv'
    OBVIOUS
  <1>1. CASE UNCHANGED bvars
    BY <1>1, ResultKeeps DEF bvars, bridgeVars
  <1> QED
    BY <1>1, SideKeeps DEF BridgesInv

\* Whatever lines the server sends, in whatever portions they arrive and wherever the connection
\* is lost and made again, the tables of the bot are those of the channel when no line is left
\* (ircbot.py:160-343 and 400-438).
THEOREM TablesAlwaysAgree == BridgesSpec => []TablesAgree
  <1>1. SideInv => TablesAgree
    BY IrcInvTables DEF SideInv, TablesAgree, InStep
  <1> QED
    BY BridgesBegin, BridgesKeep, SideBegins, SideStep, <1>1, PTL DEF BridgesSpec

\* A key missing in a table of the bridges ends a thread only after an overlap of two operations
\* (the lookups in playerlist and of the channel may fail without one), and the lines of the
\* server end the bot's thread only after a cut (ircbridges.py:36-98, ircbot.py:160-260).
THEOREM BridgeKeysNeedOverlap == BridgesSpec => []BridgeKeyNeedsOverlap
  <1>1. BridgesInv /\ SideInv => BridgeKeyNeedsOverlap
    BY DEF BridgesInv, KeyFound, SideInv, BridgeKeyNeedsOverlap
  <1> QED
    BY BridgesBegin, BridgesKeep, SideBegins, SideStep, <1>1, PTL DEF BridgesSpec

-----------------------------------------------------------------------------
(* Whom the bot still knows.                                               *)

\* A line that is handled while nothing was cut is one of a session.
LEMMA NothingCut ==
  ASSUME IrcInv, ~dead, ~cut, batch # <<>>
  PROVE  /\ ~Gone
         /\ Line.ev \notin {"inuse", "welcome"} =>
              \E p, q : /\ Sound(p) /\ Sound(q) /\ Fits(channel, real, p) /\ Follows(p, Line, q)
                        /\ p.in => Agrees(channel, p) /\ channel # Absent
                        /\ ~p.in => channel = Absent
                        /\ p.real = real
  <1>1. ~Gone
    BY Meets
  <1>2. ASSUME Line.ev \notin {"inuse", "welcome"}
        PROVE  \E p, q : /\ Sound(p) /\ Sound(q) /\ Fits(channel, real, p) /\ Follows(p, Line, q)
                         /\ p.in => Agrees(channel, p) /\ channel # Absent
                         /\ ~p.in => channel = Absent
                         /\ p.real = real
    <2>1. link = "up"
      BY <1>1, <1>2, InTouch
    <2>2. PICK p, q : Sound(p) /\ Sound(q) /\ Fits(channel, real, p) /\ Follows(p, Line, q)
      BY <2>1, Meets
    <2> QED
      BY <2>2, AgreesIs DEF Fits
  <1> QED
    BY <1>1, <1>2

\* Who was known is known afterwards, or is one of gone.
StillKnown(gone) == \A k : Known(k) => Known(k)' \/ k \in gone

LEMMA LineKnows ==
  ASSUME IrcInv, ~cut, HandleLine, ~dead'
  PROVE  ~Gone /\ StillKnown(Unseen)
  <1>1. /\ ~dead /\ batch # <<>>
        /\ Line.ev \in {"welcome", "inuse", "join", "kick", "nick", "mode", "namreply"}
    BY DEF HandleLine, Handling, HandleWelcome, HandleInUse, HandleJoin, HandleKick, HandleNick, HandleMode,
           HandleNamReply
  <1>2. ~Gone
    BY <1>1, NothingCut
  <1> SUFFICES StillKnown(Unseen)
    BY <1>2
  <1>3. ~Dies
    BY DEF Dies
  <1>4. CASE channel' = channel
    BY <1>4 DEF StillKnown, Known
  <1>5. CASE HandleWelcome \/ HandleInUse
    BY <1>2, <1>4, <1>5 DEF HandleWelcome, HandleInUse, Done
  <1>6. ASSUME Line.ev \notin {"inuse", "welcome"}
        PROVE  \E p, q : /\ Sound(p) /\ Sound(q) /\ Fits(channel, real, p) /\ Follows(p, Line, q)
                         /\ p.in => Agrees(channel, p) /\ channel # Absent
                         /\ ~p.in => channel = Absent
                         /\ p.real = real
    BY <1>1, <1>6, NothingCut
  <1>7. CASE HandleJoin
    <2>1. Line.ev = "join" /\ channel' = AddUser(IF Line.nick = real THEN NewChannel ELSE channel, Line.nick)
      BY <1>3, <1>7 DEF HandleJoin, Handling, Done
    <2>2. PICK p, q : /\ Sound(p) /\ Follows(p, Line, q)
                      /\ p.in => Agrees(channel, p) /\ channel # Absent
                      /\ ~p.in => channel = Absent
                      /\ p.real = real
      BY <1>6, <2>1
    <2>3. CASE ~p.in
      BY <2>2, <2>3 DEF StillKnown, Known
    <2>4. CASE p.in
      <3>1. Line.nick \in Nicks /\ Fresh(Line.nick, p.nicks) /\ Agrees(channel, p)
        BY <2>1, <2>2, <2>4 DEF Follows
      <3>2. Line.nick # real
        BY <2>2, <2>4, <3>1 DEF Sound, Fresh
      <3>3. \A n \in channel.users.data : n \in AddUser(channel, Line.nick).users.data
        BY <2>2, <3>1, JoinUsers
      <3>4. AddUser(channel, Line.nick) # Absent
        <4>1. \E r : Agrees(AddUser(channel, Line.nick), r)
          BY <2>2, <3>1, JoinFollows
        <4> QED
          BY <4>1, AgreesIs
      <3> QED
        BY <2>1, <3>2, <3>3, <3>4 DEF StillKnown, Known
    <2> QED
      BY <2>3, <2>4
  <1>8. CASE HandleKick
    <2>1. Line.ev = "kick" /\ channel' = IF Line.nick = real THEN Absent ELSE RemoveUser(channel, Line.nick)
      BY <1>3, <1>8 DEF HandleKick, Handling, Done
    <2>2. PICK p, q : /\ Sound(p) /\ Follows(p, Line, q)
                      /\ p.in => Agrees(channel, p) /\ channel # Absent
                      /\ p.real = real
      BY <1>6, <2>1
    <2>3. p.in /\ Agrees(channel, p)
      BY <2>1, <2>2 DEF Follows
    <2>4. CASE Line.nick = real
      <3>1. \A k : Known(k) => k \in Nicks
        BY <2>2, <2>3, SoundIs DEF Known, Agrees
      <3> QED
        BY <2>1, <2>4, <3>1 DEF StillKnown, Unseen
    <2>5. CASE Line.nick # real
      <3>1. Line.nick \in p.nicks
        BY <2>1, <2>2, <2>5 DEF Follows
      <3>2. \A n \in channel.users.data : n = Line.nick \/ n \in RemoveUser(channel, Line.nick).users.data
        BY <2>2, <2>3, <3>1, RemoveUsers
      <3>3. RemoveUser(channel, Line.nick) # Absent
        BY <2>2, <2>3, <3>1, RemoveUsers
      <3> QED
        BY <2>1, <2>5, <3>2, <3>3 DEF StillKnown, Known, Unseen
    <2> QED
      BY <2>4, <2>5
  <1>9. CASE HandleNick
    <2>1. Line.ev = "nick" /\ channel' = IF channel = Absent \/ ~HasKey(channel.users, Line.nick) THEN channel
                                         ELSE ChangeNick(channel, Line.nick, Line.after)
      BY <1>9 DEF HandleNick, Handling, Done
    <2>2. PICK p, q : Sound(p) /\ Follows(p, Line, q) /\ (p.in => Agrees(channel, p) /\ channel # Absent)
      BY <1>6, <2>1
    <2>3. p.in /\ Agrees(channel, p) /\ FollowsNick(p, Line.nick, Line.after, q)
      BY <2>1, <2>2 DEF Follows
    <2>4. CASE HasKey(channel.users, Line.nick)
      <3>1. \A n \in channel.users.data : n = Line.nick \/ n \in ChangeNick(channel, Line.nick, Line.after).users.data
        BY <2>2, <2>3, <2>4, NickUsers
      <3>2. ChangeNick(channel, Line.nick, Line.after) # Absent
        <4>1. Agrees(IF ~HasKey(channel.users, Line.nick) THEN channel
                     ELSE ChangeNick(channel, Line.nick, Line.after), q)
          BY <2>2, <2>3, NickFollows
        <4> QED
          BY <2>4, <4>1, AgreesIs
      <3> QED
        BY <2>1, <2>2, <2>3, <2>4, <3>1, <3>2 DEF StillKnown, Known, Unseen
    <2>5. CASE ~HasKey(channel.users, Line.nick)
      BY <1>4, <2>1, <2>5
    <2> QED
      BY <2>4, <2>5
  <1>10. CASE HandleMode
    <2>1. Line.ev = "mode" /\ channel' = ApplyModes(channel, ParseModes(Line.chars, Line.args))
      BY <1>3, <1>10 DEF HandleMode, Handling, Done
    <2>2. PICK p, q : Sound(p) /\ Follows(p, Line, q) /\ (p.in => Agrees(channel, p) /\ channel # Absent)
      BY <1>6, <2>1
    <2>3. p.in /\ Agrees(channel, p) /\ FollowsMode(p, Line, q)
      BY <2>1, <2>2 DEF Follows
    <2>4. channel'.users = channel.users
      BY <2>1, <2>2, <2>3, ModeUsers
    <2>5. channel' # Absent
      BY <2>1, <2>2, <2>3, ModeFollows, AgreesIs
    <2> QED
      BY <2>4, <2>5 DEF StillKnown, Known
  <1>11. CASE HandleNamReply
    <2>1. Line.ev = "namreply" /\ channel' = NamReply(channel, Line.names)
      BY <1>3, <1>11 DEF HandleNamReply, Handling, Done
    <2>2. PICK p, q : Sound(p) /\ Sound(q) /\ Follows(p, Line, q) /\ (p.in => Agrees(channel, p) /\ channel # Absent)
      BY <1>6, <2>1
    <2>3. p.in /\ Agrees(channel, p) /\ FollowsNames(p, Line.names, q)
      BY <2>1, <2>2 DEF Follows
    <2>4. channel.users.data \subseteq channel'.users.data /\ Agrees(channel', q)
      BY <2>1, <2>2, <2>3, NamesFollow
    <2>5. channel' # Absent
      BY <2>4, AgreesIs
    <2> QED
      BY <2>4, <2>5 DEF StillKnown, Known
  <1> QED
    BY <1>2, <1>5, <1>7, <1>8, <1>9, <1>10, <1>11 DEF HandleLine

LEMMA LeavingKnows ==
  ASSUME IrcInv, ~cut, Leaving, ~dead'
  PROVE  ~Gone /\ StillKnown({Line.nick})
  <1>1. ~dead /\ batch # <<>> /\ Line.ev \in {"part", "quit"}
    BY DEF Leaving, Handling, HandlePart, HandleQuit
  <1>2. ~Gone
    BY <1>1, NothingCut
  <1> SUFFICES StillKnown({Line.nick})
    BY <1>2
  <1>3. PICK p, q : Sound(p) /\ Sound(q) /\ Fits(channel, real, p) /\ Follows(p, Line, q)
    BY <1>1, NothingCut
  <1>4. p.in /\ Line.nick \in p.nicks /\ Line.nick # real /\ channel # Absent /\ Agrees(channel, p)
    BY <1>1, <1>3, OthersLeave DEF Fits
  <1>5. channel' = channel \/ channel' = RemoveUser(channel, Line.nick)
    BY <1>4 DEF Leaving, HandlePart, HandleQuit, Dies, Done
  <1>6. \A n \in channel.users.data : n = Line.nick \/ n \in RemoveUser(channel, Line.nick).users.data
    BY <1>3, <1>4, RemoveUsers
  <1>7. RemoveUser(channel, Line.nick) # Absent
    BY <1>3, <1>4, RemoveUsers
  <1> QED
    BY <1>2, <1>4, <1>5, <1>6, <1>7 DEF StillKnown, Known

-----------------------------------------------------------------------------
(* Who has a bridge, as long as nothing has overlapped and nothing was cut. *)

Alive == ~overlap /\ ~cut /\ ~dead

There(t, k) == IF t = "irc" THEN Gone \/ Known(k) ELSE k \in Range(players)

\* Every key of a table is there, excused, or one that was entered just now.
Kept(t) ==
  \A k \in DOMAIN table[t] :
    There(t, k) \/ <<t, k>> \in excused \/ (pc[t] = "putPeer" /\ k = at[t].own)

\* Who leaves, and stays in the bot's table or in the list of players until the end of the operation.
Goes(t) ==
  IF t = "irc" THEN batch # <<>> /\ Line.ev \in {"part", "quit"} /\ Line.nick = at[t].own
  ELSE \A p \in at[t].ids \cap DOMAIN players : players[p] = at[t].own

\* The operation of a side.
Ordered(t) ==
  /\ pc[t] = "relay" => at[t].why = "text"
  /\ pc[t] \in {"left", "tell"} \/ (pc[t] = "find" /\ at[t].why \in {"leave", "remove"}) =>
       at[t].own \notin DOMAIN table[t]
  /\ pc[t] = "left" => at[t].why = "leave"
  /\ pc[t] # "idle" /\ at[t].why = "leave" => Goes(t)

OutlivedInv == Alive => \A t \in Sides : Kept(t) /\ Ordered(t)

LEMMA KeptOn ==
  ASSUME UNCHANGED inst, NEW t \in Sides, Kept(t), table'[t] = table[t],
         \A k \in DOMAIN table[t] : There(t, k) \/ <<t, k>> \in excused => There(t, k)' \/ <<t, k>> \in excused',
         pc[t] = "putPeer" => pc'[t] = "putPeer" /\ at'[t].own = at[t].own
  PROVE  Kept(t)'
  BY DEF Kept

LEMMA OrderedOn ==
  ASSUME UNCHANGED inst, NEW t \in Sides, Ordered(t), pc'[t] = pc[t], at'[t] = at[t], table'[t] = table[t],
         pc[t] = "idle" \/ UNCHANGED <<batch, players>>
  PROVE  Ordered(t)'
  BY DEF Ordered, Goes, Line

LEMMA OrderedIdle == ASSUME NEW t \in Sides, pc'[t] = "idle" PROVE Ordered(t)'
  BY DEF Ordered

LEMMA OutlivedBegins == BridgesInit => OutlivedInv
  <1> SUFFICES ASSUME BridgesInit PROVE OutlivedInv
    OBVIOUS
  <1>1. /\ table = [t \in Sides |-> [k \in {} |-> None]] /\ pc = [t \in Sides |-> "idle"]
    BY DEF BridgesInit
  <1>2. \A t \in Sides : Kept(t) /\ Ordered(t)
    BY <1>1 DEF Kept, Ordered
  <1> QED
    BY <1>2 DEF OutlivedInv

-----------------------------------------------------------------------------
(* Inside an operation.                                                    *)

\* A step of t, which finds the other side at rest.
LEMMA InsideKeeps ==
  ASSUME OutlivedInv, UNCHANGED <<inst, players>>, NEW t \in Sides, Shapes,
         pc' = [pc EXCEPT ![t] = pc'[t]],
         Alive' => pc[Other(t)] = "idle" /\ Kept(t)' /\ Kept(Other(t))' /\ Ordered(t)'
  PROVE  OutlivedInv'
  <1>1. ASSUME Alive', NEW s \in Sides PROVE Kept(s)' /\ Ordered(s)'
    <2>1. CASE s = t
      BY <1>1, <2>1
    <2>2. CASE s # t
      <3>1. s = Other(t)
        BY <2>2 DEF Sides, Other
      <3>2. pc'[s] = "idle"
        BY <1>1, <2>2, <3>1 DEF Shapes
      <3> QED
        BY <1>1, <3>1, <3>2, OrderedIdle
    <2> QED
      BY <2>1, <2>2
  <1> QED
    BY <1>1 DEF OutlivedInv

\* While only t acts, its own table and the other one stay what they were unless it changes them.
LEMMA StillThere ==
  ASSUME UNCHANGED <<inst, link, channel, players>>, NEW t \in Sides
  PROVE  \A k : There(t, k)' = There(t, k)
  BY DEF There, Gone, Known

LEMMA PutOwnOutlives ==
  ASSUME OutlivedInv, BridgesInv, UNCHANGED inst, NEW t \in Sides, PutOwn(t)
  PROVE  OutlivedInv'
  <1> USE OtherSide
  <1>1. /\ pc[t] = "putOwn" /\ pc' = [pc EXCEPT ![t] = "putPeer"]
        /\ UNCHANGED <<at, overlap, players, excused, link, channel, batch, cut, dead>>
        /\ table' = [table EXCEPT ![t] = With(table[t], at[t].own, at[t].peer)]
    BY DEF PutOwn, Calm, Own, Peer, Goto, IrcRest
  <1>2. /\ DOMAIN table'[t] = DOMAIN table[t] \cup {at[t].own} /\ table'[Other(t)] = table[Other(t)]
        /\ pc'[t] = "putPeer" /\ pc'[Other(t)] = pc[Other(t)] /\ pc' = [pc EXCEPT ![t] = pc'[t]]
    BY <1>1 DEF BridgesInv, Shapes, With
  <1>3. ASSUME Alive'
        PROVE  pc[Other(t)] = "idle" /\ Kept(t)' /\ Kept(Other(t))' /\ Ordered(t)'
    <2>1. Alive
      BY <1>1, <1>3 DEF Alive
    <2>2. pc[Other(t)] = "idle"
      BY <1>1, <2>1, Found DEF Alive
    <2>3. Kept(t) /\ Ordered(t) /\ Kept(Other(t))
      BY <2>1 DEF OutlivedInv
    <2>4. Kept(t)'
      BY <1>1, <1>2, <2>3, StillThere DEF Kept, Ordered
    <2>5. Kept(Other(t))'
      BY <1>1, <1>2, <2>2, <2>3, StillThere, KeptOn
    <2>6. Ordered(t)'
      BY <1>1, <1>2, <2>3, StillThere DEF Ordered, Goes, Line
    <2> QED
      BY <2>2, <2>4, <2>5, <2>6
  <1> QED
    BY <1>1, <1>2, <1>3, InsideKeeps DEF BridgesInv

LEMMA PutPeerOutlives ==
  ASSUME OutlivedInv, BridgesInv, UNCHANGED inst, NEW t \in Sides, PutPeer(t)
  PROVE  OutlivedInv'
  <1> USE OtherSide
  <1>1. /\ pc[t] = "putPeer" /\ pc' = [pc EXCEPT ![t] = "idle"]
        /\ UNCHANGED <<overlap, players, link, channel, cut>>
        /\ excused' = excused \cup {e \in {<<t, at[t].own>>, <<Other(t), at[t].peer>>} : ~Present(e[1], e[2])}
        /\ table' = [table EXCEPT ![Other(t)] = With(table[Other(t)], at[t].peer, at[t].own)]
        /\ ~dead' => ~dead
    BY DEF PutPeer, Calm, Own, Peer, End, IrcRest, Raise
  <1>2. /\ table'[t] = table[t] /\ DOMAIN table'[Other(t)] = DOMAIN table[Other(t)] \cup {at[t].peer}
        /\ pc'[t] = "idle" /\ pc'[Other(t)] = pc[Other(t)] /\ pc' = [pc EXCEPT ![t] = pc'[t]]
    BY <1>1 DEF BridgesInv, Shapes, With
  <1>3. ASSUME Alive'
        PROVE  pc[Other(t)] = "idle" /\ Kept(t)' /\ Kept(Other(t))' /\ Ordered(t)'
    <2>1. Alive
      BY <1>1, <1>3 DEF Alive
    <2>2. pc[Other(t)] = "idle"
      BY <1>1, <2>1, Found DEF Alive
    <2>3. Kept(t) /\ Ordered(t) /\ Kept(Other(t))
      BY <2>1 DEF OutlivedInv
    <2>4. There(t, at[t].own) \/ <<t, at[t].own>> \in excused'
      BY <1>1 DEF Present, There
    <2>5. There(Other(t), at[t].peer) \/ <<Other(t), at[t].peer>> \in excused'
      BY <1>1 DEF Present, There
    <2>6. excused \subseteq excused'
      BY <1>1
    <2>7. Kept(t)'
      BY <1>1, <1>2, <2>3, <2>4, <2>6, StillThere DEF Kept
    <2>8. Kept(Other(t))'
      BY <1>1, <1>2, <2>2, <2>3, <2>5, <2>6, StillThere DEF Kept
    <2> QED
      BY <1>2, <2>2, <2>7, <2>8, OrderedIdle
  <1> QED
    BY <1>1, <1>2, <1>3, InsideKeeps DEF BridgesInv

\* A step of t that changes no table finds the other side at rest, and leaves whom it has there.
LEMMA AtRest ==
  ASSUME OutlivedInv, BridgesInv, UNCHANGED <<inst, table, players, excused, overlap, link, channel, cut>>,
         NEW t \in Sides, pc[t] \notin {"idle", "putPeer"}, pc' = [pc EXCEPT ![t] = pc'[t]],
         ~dead' => ~dead, Alive'
  PROVE  /\ Alive /\ Kept(t) /\ Ordered(t) /\ Stage(table[t], table[Other(t)], pc[t], at[t])
         /\ pc[Other(t)] = "idle" /\ Kept(t)' /\ Kept(Other(t))'
  <1> USE OtherSide
  <1>1. Alive
    BY DEF Alive
  <1>2. pc[Other(t)] = "idle" /\ Stage(table[t], table[Other(t)], pc[t], at[t])
    BY <1>1, Found DEF Alive
  <1>3. Kept(t) /\ Ordered(t) /\ Kept(Other(t))
    BY <1>1 DEF OutlivedInv
  <1>4. Kept(t)'
    BY <1>3, StillThere, KeptOn
  <1>5. Kept(Other(t))'
    BY <1>2, <1>3, StillThere, KeptOn
  <1> QED
    BY <1>1, <1>2, <1>3, <1>4, <1>5

\* An operation ends, well or not, and changes no table.
LEMMA EndsOutlives ==
  ASSUME OutlivedInv, BridgesInv, UNCHANGED <<inst, table, players, excused>>, IrcRest,
         NEW t \in Sides, pc[t] \notin {"idle", "putPeer"},
         End(t), ~dead' => ~dead
  PROVE  OutlivedInv'
  <1>1. /\ pc' = [pc EXCEPT ![t] = pc'[t]] /\ pc'[t] = "idle"
        /\ UNCHANGED <<overlap, link, channel, cut>> /\ Shapes
    BY DEF End, IrcRest, BridgesInv, Shapes
  <1>2. Alive' => pc[Other(t)] = "idle" /\ Kept(t)' /\ Kept(Other(t))' /\ Ordered(t)'
    BY <1>1, AtRest, OrderedIdle
  <1> QED
    BY <1>1, <1>2, InsideKeeps

LEMMA RaisesOutlives ==
  ASSUME OutlivedInv, BridgesInv, UNCHANGED <<inst, table, players, excused>>, IrcRest,
         NEW t \in Sides, pc[t] \notin {"idle", "putPeer"}, NEW what, Raise(t, what)
  PROVE  OutlivedInv'
  BY EndsOutlives DEF Raise

\* An operation goes on, and changes no table.
LEMMA GoesOnOutlives ==
  ASSUME OutlivedInv, BridgesInv, UNCHANGED <<inst, table, players, excused>>, IrcRest, Calm,
         NEW t \in Sides, pc[t] \notin {"idle", "putPeer"}, NEW p \in {"delPeer", "delOwn", "left", "putOwn"},
         Goto(t, p),
         Alive /\ Ordered(t) /\ p = "left" =>
           at[t].own \notin DOMAIN table[t] /\ at[t].why = "leave"
  PROVE  OutlivedInv'
  <1> USE OtherSide
  <1>1. /\ pc' = [pc EXCEPT ![t] = pc'[t]] /\ pc'[t] = p
        /\ UNCHANGED <<at, overlap, link, channel, cut, dead, batch>> /\ Shapes
    BY DEF Goto, IrcRest, Calm, BridgesInv, Shapes
  <1>2. ASSUME Alive'
        PROVE  pc[Other(t)] = "idle" /\ Kept(t)' /\ Kept(Other(t))' /\ Ordered(t)'
    <2>1. Alive /\ Ordered(t) /\ pc[Other(t)] = "idle" /\ Kept(t)' /\ Kept(Other(t))'
      BY <1>1, <1>2, AtRest
    <2>2. Ordered(t)'
      BY <1>1, <2>1, StillThere DEF Ordered, Goes, Line
    <2> QED
      BY <2>1, <2>2
  <1> QED
    BY <1>1, <1>2, InsideKeeps

LEMMA ReadOutlives ==
  ASSUME OutlivedInv, BridgesInv, UNCHANGED inst, NEW t \in Sides, Read(t)
  PROVE  OutlivedInv'
  <1> USE OtherSide
  <1>1. pc[t] = "read" /\ IrcRest /\ UNCHANGED players
    BY DEF Read, Access
  <1>2. CASE at[t].own \notin DOMAIN table[t]
    <2>1. Raise(t, "key") /\ UNCHANGED <<table, excused>>
      BY <1>2 DEF Read, Access, Own
    <2> QED
      BY <1>1, <2>1, RaisesOutlives
  <1>3. CASE at[t].own \in DOMAIN table[t]
    <2>1. /\ pc' = [pc EXCEPT ![t] = "peer"] /\ at' = [at EXCEPT ![t].peer = table[t][at[t].own]]
          /\ UNCHANGED <<overlap, table, excused, dead, batch, link, channel, cut>>
      BY <1>1, <1>3 DEF Read, Access, Own, Calm, IrcRest
    <2>2. /\ at'[t].why = at[t].why /\ at'[t].own = at[t].own /\ at'[t].ids = at[t].ids
          /\ pc'[t] = "peer" /\ pc' = [pc EXCEPT ![t] = pc'[t]] /\ Shapes
      BY <2>1 DEF BridgesInv, Shapes, Record
    <2>3. ASSUME Alive'
          PROVE  pc[Other(t)] = "idle" /\ Kept(t)' /\ Kept(Other(t))' /\ Ordered(t)'
      <3>1. Ordered(t) /\ pc[Other(t)] = "idle" /\ Kept(t)' /\ Kept(Other(t))'
        BY <1>1, <2>1, <2>2, <2>3, AtRest
      <3>2. Ordered(t)'
        BY <1>1, <2>1, <2>2, <3>1 DEF Ordered, Goes, Line
      <3> QED
        BY <3>1, <3>2
    <2> QED
      BY <1>1, <2>2, <2>3, InsideKeeps
  <1> QED
    BY <1>2, <1>3

LEMMA TestPeerOutlives ==
  ASSUME OutlivedInv, BridgesInv, UNCHANGED inst, NEW t \in Sides, TestPeer(t)
  PROVE  OutlivedInv'
  <1>1. pc[t] = "peer" /\ IrcRest /\ Calm /\ UNCHANGED <<table, players, excused>>
    BY DEF TestPeer
  <1>2. PICK p \in {"delPeer", "delOwn"} : Goto(t, p)
    BY DEF TestPeer
  <1> QED
    BY <1>1, <1>2, GoesOnOutlives

\* The entry that is deleted is not excused any more.
LEMMA DelPeerOutlives ==
  ASSUME OutlivedInv, BridgesInv, UNCHANGED inst, NEW t \in Sides, DelPeer(t)
  PROVE  OutlivedInv'
  <1> USE OtherSide
  <1>1. pc[t] = "delPeer" /\ IrcRest /\ UNCHANGED players
    BY DEF DelPeer, Access
  <1>2. CASE at[t].peer \notin DOMAIN table[Other(t)]
    <2>1. Raise(t, "key") /\ UNCHANGED <<table, excused>>
      BY <1>2 DEF DelPeer, Access, Peer
    <2> QED
      BY <1>1, <2>1, RaisesOutlives
  <1>3. CASE at[t].peer \in DOMAIN table[Other(t)]
    <2>1. /\ pc' = [pc EXCEPT ![t] = "delOwn"] /\ excused' = excused \ {<<Other(t), at[t].peer>>}
          /\ table' = [table EXCEPT ![Other(t)] = Without(table[Other(t)], at[t].peer)]
          /\ UNCHANGED <<at, overlap, dead, batch, link, channel, cut>>
      BY <1>1, <1>3 DEF DelPeer, Access, Peer, Calm, Goto, IrcRest
    <2>2. /\ table'[t] = table[t] /\ DOMAIN table'[Other(t)] = DOMAIN table[Other(t)] \ {at[t].peer}
          /\ pc'[t] = "delOwn" /\ pc'[Other(t)] = pc[Other(t)] /\ pc' = [pc EXCEPT ![t] = pc'[t]] /\ Shapes
      BY <2>1 DEF BridgesInv, Shapes, Without, Restrict
    <2>3. ASSUME Alive'
          PROVE  pc[Other(t)] = "idle" /\ Kept(t)' /\ Kept(Other(t))' /\ Ordered(t)'
      <3>1. Alive
        BY <2>1, <2>3 DEF Alive
      <3>2. pc[Other(t)] = "idle"
        BY <1>1, <3>1, Found DEF Alive
      <3>3. Kept(t) /\ Ordered(t) /\ Kept(Other(t))
        BY <3>1 DEF OutlivedInv
      <3>5. Kept(t)'
        BY <1>1, <2>1, <2>2, <3>3, StillThere DEF Kept
      <3>6. Kept(Other(t))'
        BY <1>1, <2>1, <2>2, <3>2, <3>3, StillThere DEF Kept
      <3>7. Ordered(t)'
        BY <1>1, <2>1, <2>2, <3>3 DEF Ordered, Goes, Line
      <3> QED
        BY <3>2, <3>5, <3>6, <3>7
    <2> QED
      BY <1>1, <2>2, <2>3, InsideKeeps
  <1> QED
    BY <1>2, <1>3

LEMMA DelOwnOutlives ==
  ASSUME OutlivedInv, BridgesInv, UNCHANGED inst, NEW t \in Sides, DelOwn(t)
  PROVE  OutlivedInv'
  <1> USE OtherSide
  <1>1. pc[t] = "delOwn" /\ IrcRest /\ UNCHANGED players
    BY DEF DelOwn, Access
  <1>2. CASE at[t].own \notin DOMAIN table[t]
    <2>1. Raise(t, "key") /\ UNCHANGED <<table, excused>>
      BY <1>2 DEF DelOwn, Access, Own
    <2> QED
      BY <1>1, <2>1, RaisesOutlives
  <1>3. CASE at[t].own \in DOMAIN table[t]
    <2>1. /\ excused' = excused \ {<<t, at[t].own>>}
          /\ table' = [table EXCEPT ![t] = Without(table[t], at[t].own)]
          /\ UNCHANGED <<overlap, dead, batch, link, channel, cut>>
          /\ IF t = "game" THEN pc' = [pc EXCEPT ![t] = "tell"] /\ UNCHANGED at
             ELSE pc' = [pc EXCEPT ![t] = "find"] /\ at' = [at EXCEPT ![t].ids = DOMAIN players]
      BY <1>1, <1>3 DEF DelOwn, Access, Own, Calm, Goto, IrcRest
    <2>2. /\ table'[Other(t)] = table[Other(t)] /\ DOMAIN table'[t] = DOMAIN table[t] \ {at[t].own}
          /\ pc'[t] \in {"tell", "find"} /\ pc'[Other(t)] = pc[Other(t)] /\ pc' = [pc EXCEPT ![t] = pc'[t]]
          /\ Shapes
      BY <2>1 DEF BridgesInv, Shapes, Without, Restrict
    <2>3. /\ at'[t].why = at[t].why /\ at'[t].own = at[t].own /\ (t = "game" => at'[t].ids = at[t].ids)
          /\ at'[Other(t)] = at[Other(t)]
      BY <2>1 DEF BridgesInv, Shapes, Record
    <2>4. ASSUME Alive'
          PROVE  pc[Other(t)] = "idle" /\ Kept(t)' /\ Kept(Other(t))' /\ Ordered(t)'
      <3>1. Alive
        BY <2>1, <2>4 DEF Alive
      <3>2. pc[Other(t)] = "idle" /\ at[t].why # "setup"
        BY <1>1, <3>1, Found DEF Alive, Stage
      <3>3. Kept(t) /\ Ordered(t) /\ Kept(Other(t))
        BY <3>1 DEF OutlivedInv
      <3>5. Kept(t)'
        BY <1>1, <2>1, <2>2, <3>3, StillThere DEF Kept
      <3>6. Kept(Other(t))'
        BY <1>1, <2>1, <2>2, <3>2, <3>3, StillThere DEF Kept
      <3>7. Goes(t) => Goes(t)'
        BY <1>1, <2>1, <2>3 DEF Goes, Line, Sides
      <3>8. Ordered(t)'
        BY <1>1, <2>1, <2>2, <2>3, <3>2, <3>3, <3>7 DEF Ordered
      <3> QED
        BY <3>2, <3>5, <3>6, <3>8
    <2> QED
      BY <1>1, <2>2, <2>4, InsideKeeps
  <1> QED
    BY <1>2, <1>3

LEMMA RelayOutlives ==
  ASSUME OutlivedInv, BridgesInv, UNCHANGED inst, NEW t \in Sides, Relay(t)
  PROVE  OutlivedInv'
  <1> USE OtherSide
  <1>1. pc[t] = "relay" /\ IrcRest /\ UNCHANGED <<players, table, excused>>
    BY DEF Relay, Access
  <1>2. CASE at[t].own \notin DOMAIN table[t]
    <2>1. Raise(t, "key")
      BY <1>2 DEF Relay, Access, Own
    <2> QED
      BY <1>1, <2>1, RaisesOutlives
  <1>3. CASE at[t].own \in DOMAIN table[t] /\ t = "game"
    <2>1. End(t) /\ UNCHANGED dead
      BY <1>3 DEF Relay, Access, Own, Calm
    <2> QED
      BY <1>1, <2>1, EndsOutlives
  <1>4. CASE at[t].own \in DOMAIN table[t] /\ t # "game"
    <2>1. /\ pc' = [pc EXCEPT ![t] = "find"] /\ at' = [at EXCEPT ![t].ids = DOMAIN players]
          /\ UNCHANGED <<overlap, dead, batch, link, channel, cut>>
      BY <1>1, <1>4 DEF Relay, Access, Own, Calm, IrcRest
    <2>2. at'[t].why = at[t].why /\ pc'[t] = "find" /\ pc' = [pc EXCEPT ![t] = pc'[t]] /\ Shapes
      BY <2>1 DEF BridgesInv, Shapes, Record
    <2>3. ASSUME Alive'
          PROVE  pc[Other(t)] = "idle" /\ Kept(t)' /\ Kept(Other(t))' /\ Ordered(t)'
      <3>1. Ordered(t) /\ pc[Other(t)] = "idle" /\ Kept(t)' /\ Kept(Other(t))'
        BY <1>1, <2>1, <2>2, <2>3, AtRest
      <3>2. at'[t].why = "text"
        BY <1>1, <2>2, <3>1 DEF Ordered
      <3>3. Ordered(t)'
        BY <2>2, <3>2 DEF Ordered
      <3> QED
        BY <3>1, <3>3
    <2> QED
      BY <1>1, <2>2, <2>3, InsideKeeps
  <1> QED
    BY <1>2, <1>3, <1>4

LEMMA TellOutlives ==
  ASSUME OutlivedInv, BridgesInv, UNCHANGED inst, Tell
  PROVE  OutlivedInv'
  <1>1. pc["game"] = "tell" /\ IrcRest /\ UNCHANGED <<players, table, excused>> /\ "game" \in Sides
    BY DEF Tell, Sides
  <1>2. CASE Raise("game", "channel")
    BY <1>1, <1>2, RaisesOutlives
  <1>3. CASE Calm /\ at["game"].why = "leave" /\ Goto("game", "left")
    <2>1. Ordered("game") => at["game"].own \notin DOMAIN table["game"]
      BY <1>1 DEF Ordered
    <2> QED
      BY <1>1, <1>3, <2>1, GoesOnOutlives
  <1>4. CASE Calm /\ End("game")
    BY <1>1, <1>4, EndsOutlives DEF Calm
  <1> QED
    BY <1>2, <1>3, <1>4 DEF Tell

LEMMA FindOutlives ==
  ASSUME OutlivedInv, BridgesInv, UNCHANGED inst, Find
  PROVE  OutlivedInv'
  <1>1. pc["irc"] = "find" /\ IrcRest /\ UNCHANGED <<players, table, excused>> /\ "irc" \in Sides
    BY DEF Find, Sides
  <1>2. ASSUME NEW what, Raise("irc", what) PROVE OutlivedInv'
    BY <1>1, <1>2, RaisesOutlives
  <1>3. CASE Calm /\ End("irc")
    BY <1>1, <1>3, EndsOutlives DEF Calm
  <1>4. CASE Calm /\ at["irc"].why = "leave" /\ Goto("irc", "left")
    <2>1. Ordered("irc") => at["irc"].own \notin DOMAIN table["irc"]
      BY <1>1, <1>4 DEF Ordered
    <2> QED
      BY <1>1, <1>4, <2>1, GoesOnOutlives
  <1>5. CASE Calm /\ at["irc"].why = "setup" /\ at["irc"].peer \in Range(players) /\ Goto("irc", "putOwn")
    BY <1>1, <1>5, GoesOnOutlives
  <1> QED
    BY <1>2, <1>3, <1>4, <1>5, Zenon DEF Find, Peer

\* The end of a quit: no other player has the name of the one who is taken off the list.
LEMMA PlayerGoneOutlives ==
  ASSUME OutlivedInv, BridgesInv, UNCHANGED inst, PlayerGone
  PROVE  OutlivedInv'
  <1>1. /\ pc["game"] = "left" /\ pc' = [pc EXCEPT !["game"] = "idle"]
        /\ players' = Restrict(players, DOMAIN players \ at["game"].ids)
        /\ UNCHANGED <<overlap, table, excused, link, channel, batch, dead, cut>>
        /\ "game" \in Sides /\ Other("game") = "irc"
    BY DEF PlayerGone, End, ircVars, Sides, Other
  <1>2. /\ DOMAIN players' = DOMAIN players \ at["game"].ids
        /\ \A p \in DOMAIN players' : players'[p] = players[p]
    BY <1>1 DEF Restrict
  <1>4. pc'["game"] = "idle" /\ pc'["irc"] = pc["irc"]
    BY <1>1 DEF BridgesInv, Shapes, Sides
  <1>5. ASSUME Alive', NEW t \in Sides PROVE Kept(t)' /\ Ordered(t)'
    <2>1. Alive
      BY <1>1, <1>5 DEF Alive
    <2>2. pc["irc"] = "idle"
      BY <1>1, <2>1, Found DEF Alive
    <2>3. Kept(t) /\ Kept("game") /\ Ordered("game")
      BY <2>1 DEF OutlivedInv, Sides
    <2>4. Ordered(t)'
      BY <1>4, <2>2, OrderedIdle DEF Sides
    <2>5. at["game"].own \notin DOMAIN table["game"] /\ Goes("game")
      BY <1>1, <2>3 DEF Ordered
    <2>6. ASSUME t = "irc" PROVE Kept("irc")'
      <3>1. Kept("irc")
        BY <2>3, <2>6
      <3> QED
        BY <1>1, <2>2, <3>1 DEF Kept, There, Gone, Known
    <2>7. Kept("game")'
      <3>1. \A k \in DOMAIN table["game"] : k \in Range(players) => k \in Range(players')
        BY <1>2, <2>5 DEF Goes, Range
      <3> QED
        BY <1>1, <2>3, <3>1, KeptOn DEF There
    <2> QED
      BY <2>4, <2>6, <2>7 DEF Sides
  <1> QED
    BY <1>5 DEF OutlivedInv

LEMMA IrcLeftOutlives ==
  ASSUME OutlivedInv, BridgesInv, SideInv, UNCHANGED inst, IrcLeft
  PROVE  OutlivedInv'
  <1>1. /\ pc["irc"] = "left" /\ pc' = [pc EXCEPT !["irc"] = "idle"] /\ Leaving
        /\ UNCHANGED <<overlap, table, excused, players>>
        /\ "irc" \in Sides /\ Other("irc") = "game" /\ Shapes
    BY DEF IrcLeft, End, Sides, Other, BridgesInv
  <1>2. pc'["irc"] = "idle" /\ pc'["game"] = pc["game"] /\ pc' = [pc EXCEPT !["irc"] = pc'["irc"]]
    BY <1>1 DEF Shapes, Sides
  <1>3. ASSUME Alive'
        PROVE  pc["game"] = "idle" /\ Kept("irc")' /\ Kept("game")' /\ Ordered("irc")'
    <2>1. cut' = cut /\ ~dead
      BY <1>1 DEF Leaving, HandlePart, HandleQuit, Handling, Dies, Done
    <2>2. Alive /\ ~dead'
      BY <1>1, <1>3, <2>1 DEF Alive
    <2>3. pc["game"] = "idle"
      BY <1>1, <2>2, Found DEF Alive
    <2>4. Kept("irc") /\ Kept("game") /\ Ordered("irc")
      BY <2>2 DEF OutlivedInv, Sides
    <2>5. at["irc"].own \notin DOMAIN table["irc"] /\ Line.nick = at["irc"].own
      BY <1>1, <2>4 DEF Ordered, Goes
    <2>6. ~Gone /\ StillKnown({Line.nick})
      BY <1>1, <2>2, LeavingKnows DEF SideInv, Alive
    <2>7. \A k \in DOMAIN table["irc"] : There("irc", k) => There("irc", k)'
      BY <2>5, <2>6 DEF There, StillKnown
    <2>8. Kept("irc")'
      BY <1>1, <2>4, <2>7, KeptOn
    <2>9. Kept("game")'
      BY <1>1, <2>3, <2>4 DEF Kept, There
    <2> QED
      BY <1>2, <2>3, <2>8, <2>9, OrderedIdle, <1>1
  <1> QED
    BY <1>1, <1>2, <1>3, InsideKeeps

-----------------------------------------------------------------------------
(* An operation begins.                                                    *)

LEMMA BeginsOutlives ==
  ASSUME OutlivedInv, BridgesInv, UNCHANGED <<inst, table, players, excused, link, channel, dead, cut>>,
         NEW t \in Sides, pc[t] = "idle", pc' = [pc EXCEPT ![t] = pc'[t]],
         overlap' = (overlap \/ pc[Other(t)] # "idle"),
         Alive => Ordered(t)'
  PROVE  OutlivedInv'
  <1> USE OtherSide
  <1>1. ASSUME Alive'
        PROVE  pc[Other(t)] = "idle" /\ Kept(t)' /\ Kept(Other(t))' /\ Ordered(t)'
    <2>1. Alive /\ pc[Other(t)] = "idle"
      BY <1>1 DEF Alive, BridgesInv, Shapes
    <2>2. Kept(t) /\ Kept(Other(t))
      BY <2>1 DEF OutlivedInv
    <2>3. Kept(t)'
      BY <2>2, StillThere, KeptOn
    <2>4. Kept(Other(t))'
      BY <2>1, <2>2, StillThere, KeptOn
    <2> QED
      BY <2>1, <2>3, <2>4
  <1> QED
    BY <1>1, InsideKeeps DEF BridgesInv

LEMMA RemoveOutlives ==
  ASSUME OutlivedInv, BridgesInv, UNCHANGED <<inst, table, players, excused, link, channel, dead, cut>>,
         NEW t \in Sides, pc[t] = "idle", NEW own, NEW why \in {"leave", "remove"}, NEW who,
         RemoveBridge(t, own, why, who),
         why = "leave" =>
           IF t = "irc" THEN batch' # <<>> /\ Head(batch').ev \in {"part", "quit"} /\ Head(batch').nick = own
                        ELSE \A p \in who \cap DOMAIN players : players[p] = own
  PROVE  OutlivedInv'
  <1>1. /\ pc' = [pc EXCEPT ![t] = pc'[t]] /\ overlap' = (overlap \/ pc[Other(t)] # "idle")
        /\ pc'[t] = IF own \in DOMAIN table[t] THEN "read" ELSE IF why = "leave" THEN "left" ELSE "idle"
        /\ at'[t].own = own /\ at'[t].why = why /\ at'[t].ids = who
    BY DEF RemoveBridge, Begin, BridgesInv, Shapes, Record
  <1>2. why = "leave" => Goes(t)'
    BY <1>1 DEF Goes, Line
  <1>3. Ordered(t)'
    BY <1>1, <1>2 DEF Ordered
  <1> QED
    BY <1>1, <1>3, BeginsOutlives

LEMMA TextOutlives ==
  ASSUME OutlivedInv, BridgesInv, UNCHANGED <<inst, table, players, excused, link, channel, dead, cut>>,
         NEW t \in Sides, pc[t] = "idle", NEW own, Text(t, own)
  PROVE  OutlivedInv'
  <1>1. /\ pc' = [pc EXCEPT ![t] = pc'[t]] /\ overlap' = (overlap \/ pc[Other(t)] # "idle")
        /\ pc'[t] = IF own \in DOMAIN table[t] THEN "relay" ELSE "idle"
        /\ at'[t].own = own /\ at'[t].why = "text"
    BY DEF Text, Begin, BridgesInv, Shapes, Record
  <1>2. Ordered(t)'
    BY <1>1 DEF Ordered
  <1> QED
    BY <1>1, <1>2, BeginsOutlives

LEMMA NothingOutlives ==
  ASSUME OutlivedInv, BridgesInv, UNCHANGED <<inst, table, players, excused, link, channel, dead, cut>>,
         NEW t \in Sides, pc[t] = "idle", NEW op, Begin(t, "idle", op)
  PROVE  OutlivedInv'
  <1>1. pc' = [pc EXCEPT ![t] = pc'[t]] /\ overlap' = (overlap \/ pc[Other(t)] # "idle") /\ pc'[t] = "idle"
    BY DEF Begin, BridgesInv, Shapes
  <1> QED
    BY <1>1, OrderedIdle, BeginsOutlives

LEMMA SetupOutlives ==
  ASSUME OutlivedInv, BridgesInv, UNCHANGED <<inst, table, players, excused, link, channel, dead, cut>>,
         NEW t \in Sides, pc[t] = "idle", NEW own, NEW peer, Setup(t, own, peer)
  PROVE  OutlivedInv'
  <1> DEFINE op == [why |-> "setup", own |-> own, peer |-> peer, ids |-> DOMAIN players]
  <1>1. \/ \E e : Begin(t, "idle", e)
        \/ t = "irc" /\ Begin(t, "find", op)
        \/ t = "game" /\ Begin(t, "putOwn", op)
    BY DEF Setup, Sides
  <1>2. CASE \E e : Begin(t, "idle", e)
    BY <1>2, NothingOutlives
  <1>3. CASE (t = "irc" /\ Begin(t, "find", op)) \/ (t = "game" /\ Begin(t, "putOwn", op))
    <2>1. /\ pc' = [pc EXCEPT ![t] = pc'[t]] /\ overlap' = (overlap \/ pc[Other(t)] # "idle")
          /\ (t = "irc" /\ pc'[t] = "find") \/ (t = "game" /\ pc'[t] = "putOwn")
      BY <1>3 DEF Begin, BridgesInv, Shapes
    <2>2. at'[t].own = own /\ at'[t].peer = peer /\ at'[t].why = "setup"
      BY <1>3 DEF Begin, BridgesInv, Shapes
    <2>3. Ordered(t)'
      BY <2>1, <2>2 DEF Ordered
    <2> QED
      BY <2>1, <2>3, BeginsOutlives
  <1> HIDE DEF op
  <1> QED
    BY <1>1, <1>2, <1>3

-----------------------------------------------------------------------------
(* What happens around the operations.                                     *)

LEMMA AroundOutlives ==
  ASSUME OutlivedInv, UNCHANGED <<inst, pc, at, table, overlap>>, excused \subseteq excused',
         pc["irc"] = "idle" \/ UNCHANGED batch, pc["game"] = "idle" \/ UNCHANGED players,
         Alive' => Alive,
         Alive /\ Alive' =>
           \A t \in Sides : Kept(t) =>
             \A k \in DOMAIN table[t] : There(t, k) => There(t, k)' \/ <<t, k>> \in excused'
  PROVE  OutlivedInv'
  <1>1. ASSUME Alive', NEW t \in Sides PROVE Kept(t)' /\ Ordered(t)'
    <2>1. Kept(t) /\ Ordered(t) /\ Alive
      BY <1>1 DEF OutlivedInv
    <2>2. Kept(t)'
      BY <1>1, <2>1, KeptOn
    <2>3. pc'[t] # "idle" => (Goes(t) => Goes(t)')
      BY DEF Goes, Line, Sides
    <2>4. Ordered(t)'
      BY <2>1, <2>3 DEF Ordered
    <2> QED
      BY <2>2, <2>4
  <1> QED
    BY <1>1 DEF OutlivedInv

LEMMA PlayersOutlive ==
  ASSUME OutlivedInv, UNCHANGED inst, NEW p \in Players, PlayerEnters(p) \/ PlayerRenames(p) \/ PlayerErrors(p)
  PROVE  OutlivedInv'
  <1>1. UNCHANGED <<pc, at, table, overlap, batch, link, channel, dead, cut>> /\ pc["game"] = "idle"
    BY DEF PlayerEnters, PlayerRenames, PlayerErrors, GameOnly, Idle, ircVars
  <1>2. Alive' <=> Alive
    BY <1>1 DEF Alive
  <1>3. /\ excused \subseteq excused'
        /\ \A k \in Range(players) \cap DOMAIN table["game"] :
             k \in Range(players') \/ <<"game", k>> \in excused'
    <2>1. CASE PlayerEnters(p)
      <3>1. PICK x \in Names : p \notin DOMAIN players /\ players' = With(players, p, x) /\ UNCHANGED excused
        BY <2>1 DEF PlayerEnters
      <3> QED
        BY <3>1 DEF With, Range
    <2>2. CASE PlayerRenames(p)
      <3>1. PICK x \in Names : /\ p \in DOMAIN players /\ players' = [players EXCEPT ![p] = x]
                               /\ excused' = excused \cup ({"game"} \X ({players[p]} \cap DOMAIN table["game"]))
        BY <2>2 DEF PlayerRenames, Excuse
      <3> QED
        BY <3>1 DEF Range
    <2>3. CASE PlayerErrors(p)
      <3>1. /\ p \in DOMAIN players /\ players' = Without(players, p)
            /\ excused' = excused \cup ({"game"} \X ({players[p]} \cap DOMAIN table["game"]))
        BY <2>3 DEF PlayerErrors, Excuse
      <3> QED
        BY <3>1 DEF Range, Without, Restrict
    <2> QED
      BY <2>1, <2>2, <2>3
  <1>4. ASSUME NEW t \in Sides, NEW k \in DOMAIN table[t], There(t, k)
        PROVE  There(t, k)' \/ <<t, k>> \in excused'
    BY <1>1, <1>3, <1>4 DEF There, Gone, Known, Sides
  <1> QED
    BY <1>1, <1>2, <1>3, <1>4, AroundOutlives

\* Steps of the bot's thread and of the network outside the operations.
LEMMA NetworkOutlives ==
  ASSUME OutlivedInv, UNCHANGED <<inst, pc, at, table, overlap, players>>, excused \subseteq excused',
         pc["irc"] = "idle" \/ UNCHANGED batch, Alive' => Alive,
         Alive /\ Alive' =>
           \A k \in DOMAIN table["irc"] : Gone \/ Known(k) => Gone' \/ Known(k)' \/ <<"irc", k>> \in excused'
  PROVE  OutlivedInv'
  <1>1. ASSUME Alive, Alive', NEW t \in Sides, NEW k \in DOMAIN table[t], There(t, k)
        PROVE  There(t, k)' \/ <<t, k>> \in excused'
    BY <1>1 DEF There, Sides
  <1> QED
    BY <1>1, AroundOutlives

LEMMA LineOutlives ==
  ASSUME OutlivedInv, SideInv, UNCHANGED inst, IrcLine
  PROVE  OutlivedInv'
  <1>1. /\ UNCHANGED <<pc, at, table, overlap, players>> /\ pc["irc"] = "idle" /\ HandleLine
        /\ excused' = excused \cup ({"irc"} \X (Unseen \cap DOMAIN table["irc"]))
    BY DEF IrcLine, Idle, Excuse
  <1>2. ~dead /\ cut' = cut
    BY <1>1 DEF HandleLine, Handling, HandleWelcome, HandleInUse, HandleJoin, HandleKick, HandleNick,
       HandleMode, HandleNamReply, Done, Dies
  <1>3. Alive' => Alive
    BY <1>1, <1>2 DEF Alive
  <1>4. ASSUME Alive'
        PROVE  \A k \in DOMAIN table["irc"] : Gone \/ Known(k) => Known(k)' \/ <<"irc", k>> \in excused'
    <2>1. ~Gone /\ StillKnown(Unseen)
      BY <1>1, <1>2, <1>4, LineKnows DEF SideInv, Alive
    <2> QED
      BY <1>1, <2>1 DEF StillKnown
  <1> QED
    BY <1>1, <1>3, <1>4, NetworkOutlives

LEMMA IrcNetworkOutlives ==
  ASSUME OutlivedInv, UNCHANGED inst, IrcNetwork
  PROVE  OutlivedInv'
  <1>1. /\ UNCHANGED <<pc, at, table, overlap, players>> /\ pc["irc"] = "idle"
        /\ UNCHANGED <<dead, cut>>
    BY DEF IrcNetwork, Idle, Connect, Receive
  <1>2. Alive' => Alive
    BY <1>1 DEF Alive
  <1>3. CASE Connect /\ Excuse("irc", DOMAIN table["irc"])
    <2>1. \A k \in DOMAIN table["irc"] : <<"irc", k>> \in excused'
      BY <1>3 DEF Excuse
    <2>2. excused \subseteq excused'
      BY <1>3 DEF Excuse
    <2> QED
      BY <1>1, <1>2, <2>1, <2>2, NetworkOutlives
  <1>4. CASE Receive /\ UNCHANGED excused
    <2>1. UNCHANGED <<link, channel>>
      BY <1>4 DEF Receive
    <2>2. \A k : Gone \/ Known(k) => Gone' \/ Known(k)'
      BY <2>1 DEF Gone, Known
    <2> QED
      BY <1>1, <1>2, <1>4, <2>2, NetworkOutlives
  <1> QED
    BY <1>3, <1>4 DEF IrcNetwork

LEMMA LostOutlives ==
  ASSUME OutlivedInv, UNCHANGED inst, IrcDrop \/ Unload
  PROVE  OutlivedInv'
  <1>1. UNCHANGED <<pc, at, table, overlap, players, excused, batch, dead>> /\ Gone' /\ (~cut' => ~cut)
    BY DEF IrcDrop, Unload, Drop, bridgeVars, Gone
  <1>2. Alive' => Alive
    BY <1>1 DEF Alive
  <1> QED
    BY <1>1, <1>2, NetworkOutlives

LEMMA ServerOutlives ==
  ASSUME OutlivedInv, ~dead, UNCHANGED inst, IrcServer \/ \E u \in Users : UserSays(u)
  PROVE  OutlivedInv'
  <1>1. UNCHANGED <<pc, at, table, overlap, players, excused>>
    BY DEF IrcServer, UserSays, bridgeVars
  <1>2. UNCHANGED <<link, channel, batch, dead, cut>>
    BY DEF IrcServer, UserSays, Outside, Server, UserJoins, UserLeaves, UserRenames, UserMode, KickBot,
           RenameBot, ServeNick, ServeJoin
  <1>3. Alive' => Alive
    BY <1>1, <1>2 DEF Alive
  <1>4. \A k : Gone \/ Known(k) => Gone' \/ Known(k)'
    BY <1>2 DEF Gone, Known
  <1> QED
    BY <1>1, <1>2, <1>3, <1>4, NetworkOutlives

-----------------------------------------------------------------------------
(* Commands and leaving.                                                   *)

LEMMA QuitsOutlive ==
  ASSUME OutlivedInv, BridgesInv, UNCHANGED inst, NEW p \in Players, PlayerQuits(p)
  PROVE  OutlivedInv'
  <1>1. /\ pc["game"] = "idle" /\ UNCHANGED <<table, players, excused, link, channel, dead, cut>>
        /\ RemoveBridge("game", players[p], "leave", {p}) /\ "game" \in Sides
    BY DEF PlayerQuits, GameOnly, Idle, ircVars, Sides
  <1> QED
    BY <1>1, RemoveOutlives

LEMMA LeavesOutlive ==
  ASSUME OutlivedInv, BridgesInv, UNCHANGED inst, IrcLeaves
  PROVE  OutlivedInv'
  <1>1. /\ pc["irc"] = "idle" /\ UNCHANGED <<table, players, excused, link, channel, dead, cut>>
        /\ RemoveBridge("irc", Line.nick, "leave", {}) /\ "irc" \in Sides
        /\ batch' = batch /\ batch # <<>> /\ Line.ev \in {"part", "quit"}
    BY DEF IrcLeaves, Idle, ircVars, Sides, Handling
  <1>2. batch' # <<>> /\ Head(batch').ev \in {"part", "quit"} /\ Head(batch').nick = Line.nick
    BY <1>1 DEF Line
  <1> QED
    BY <1>1, <1>2, RemoveOutlives

LEMMA GameCommandOutlives ==
  ASSUME OutlivedInv, BridgesInv, UNCHANGED inst, NEW p \in Players, GameCommand(p)
  PROVE  OutlivedInv'
  <1>1. /\ pc["game"] = "idle" /\ UNCHANGED <<table, players, excused, link, channel, dead, cut>>
        /\ p \in DOMAIN players /\ "game" \in Sides
    BY DEF GameCommand, GameOnly, Idle, ircVars, Sides
  <1>2. \/ \E k : Setup("game", players[p], k)
        \/ RemoveBridge("game", players[p], "remove", {})
        \/ Text("game", players[p])
    BY DEF GameCommand
  <1> QED
    BY <1>1, <1>2, SetupOutlives, RemoveOutlives, TextOutlives

LEMMA IrcCommandOutlives ==
  ASSUME OutlivedInv, BridgesInv, UNCHANGED inst, IrcCommand
  PROVE  OutlivedInv'
  <1>1. /\ pc["irc"] = "idle" /\ UNCHANGED <<table, players, excused, link, channel, dead, cut>>
        /\ "irc" \in Sides /\ ~dead /\ batch # <<>> /\ Line.ev = "say"
    BY DEF IrcCommand, Idle, IrcRest, Sides, Handling
  <1>2. \/ Setup("irc", Line.nick, Line.arg)
        \/ RemoveBridge("irc", Line.nick, "remove", {})
        \/ Begin("irc", "idle", NoOp)
        \/ Text("irc", Line.nick)
    BY DEF IrcCommand
  <1> QED
    BY <1>1, <1>2, SetupOutlives, RemoveOutlives, TextOutlives, NothingOutlives

-----------------------------------------------------------------------------

LEMMA OutlivedKeeps ==
  ASSUME OutlivedInv, SideInv, BridgesInv, BridgesNext
  PROVE  OutlivedInv'
  <1>1. UNCHANGED inst /\ "game" \in Sides /\ "irc" \in Sides
    BY DEF BridgesNext, Sides
  <1>2. ASSUME NEW t \in Sides, Operation(t) PROVE OutlivedInv'
    BY <1>1, <1>2, PutOwnOutlives, PutPeerOutlives, ReadOutlives, TestPeerOutlives, DelPeerOutlives,
       DelOwnOutlives, RelayOutlives DEF Operation
  <1>3. CASE GameThread \/ IrcThread
    BY <1>1, <1>2, <1>3, TellOutlives, PlayerGoneOutlives, FindOutlives, IrcLeftOutlives
    DEF GameThread, IrcThread
  <1>4. CASE GameBegins
    BY <1>1, <1>4, LostOutlives, PlayersOutlive, QuitsOutlive, GameCommandOutlives DEF GameBegins
  <1>5. CASE IrcBegins
    BY <1>1, <1>5, IrcCommandOutlives, LeavesOutlive, LineOutlives, IrcNetworkOutlives DEF IrcBegins
  <1>6. CASE Explored /\ Elsewhere
    BY <1>1, <1>6, LostOutlives, ServerOutlives DEF Elsewhere, Explored
  <1> QED
    BY <1>3, <1>4, <1>5, <1>6 DEF BridgesNext

LEMMA OutlivedStep == OutlivedInv /\ SideInv /\ BridgesInv /\ [BridgesNext]_bvars => OutlivedInv'
  <1> SUFFICES ASSUME OutlivedInv, SideInv, BridgesInv, [BridgesNext]_bvars PROVE OutlivedInv'
    OBVIOUS
  <1>1. CASE UNCHANGED bvars
    <2>1. UNCHANGED <<inst, pc, at, table, overlap, players, excused, link, channel, batch, dead, cut>>
      BY <1>1 DEF bvars, bridgeVars, ircVars
    <2>2. Alive' => Alive
      BY <2>1 DEF Alive
    <2>3. \A k : Gone \/ Known(k) => Gone' \/ Known(k)'
      BY <2>1 DEF Gone, Known
    <2> QED
      BY <2>1, <2>2, <2>3, NetworkOutlives
  <1> QED
    BY <1>1, OutlivedKeeps

\* Between the operations, a bridge is left only of a user that the bot knows and of a player on
\* the list, apart from those whose leaving the plugin is not told of: whatever they set up and
\* removed, and in whatever order both sides come and go (ircbridges.py:36-98).
THEOREM BridgesOutliveNobody == BridgesSpec => []BridgeOutlived
  <1>1. OutlivedInv => BridgeOutlived
    <2> SUFFICES ASSUME OutlivedInv, Between, ~overlap, InStep, ~cut,
                        NEW t \in Sides, NEW k \in DOMAIN table[t]
                 PROVE  Present(t, k) \/ <<t, k>> \in excused
      BY DEF BridgeOutlived
    <2>1. Kept(t) /\ ~Gone /\ pc[t] = "idle"
      BY DEF OutlivedInv, Alive, InStep, Gone, Between
    <2> QED
      BY <2>1 DEF Kept, There, Present
  <1> QED
    BY BridgesBegin, BridgesKeep, SideBegins, SideStep, OutlivedBegins, OutlivedStep, <1>1, PTL DEF BridgesSpec

-----------------------------------------------------------------------------
(* ChatRelay: what the relays owe to both sides, for any number of lines   *)
(* that people say and of lines that the game server sends back.           *)

USE DEF GameHows, IrcHows, Texts

ChatTypes ==
  /\ said \subseteq Lines /\ IsFiniteSet(said)
  /\ gameIn \in Seq(Lines) /\ ircIn \in Seq(Lines)
  /\ out \subseteq Sends /\ irc \in BOOLEAN /\ echoes \in Nat

\* The lines people say have numbers of their own.
Numbered ==
  /\ \A l \in said : l.n <= Cardinality(said)
  /\ \A l, k \in said : l.n = k.n => l = k

\* What the servers have still to deliver: people's lines, and in the game the bot's.
Delivered ==
  /\ \A i \in 1 .. Len(gameIn) : gameIn[i].side = "game" /\ (gameIn[i].who = "people" => gameIn[i] \in said)
  /\ \A i \in 1 .. Len(ircIn) : ircIn[i].side = "irc" /\ ircIn[i] \in said

\* What may be sent because of a line.
Due(s, l) ==
  /\ s.n = l.n
  /\ IF s.as = "relay" THEN s.to # l.side /\ ~IsCommand(l) ELSE IsCommand(l)
  /\ IsPrivate(l) /\ s.as # "broadcast" => s.reaches \notin {"all", "team"}

\* Whatever was sent was due to a line of people.
AllDue == \A s \in out : \E l \in said : Due(s, l)

ChatInv == ChatTypes /\ Numbered /\ Delivered /\ AllDue

-----------------------------------------------------------------------------

LEMMA ChatBegins == ChatInit => ChatInv
  <1>1. IsFiniteSet({}) /\ <<>> \in Seq(Lines) /\ Len(<<>>) = 0
    BY FS_EmptySet, EmptySeq
  <1> QED
    BY <1>1 DEF ChatInit, ChatInv, ChatTypes, Numbered, Delivered, AllDue

\* The answers to a command, and a relayed line, are due.
LEMMA ProcessDue ==
  ASSUME NEW l \in Lines, NEW known \in BOOLEAN, NEW s \in Process(l, known)
  PROVE  s \in Sends /\ Due(s, l)
  <1>1. IsCommand(l)
    BY DEF Process
  <1>2. l.n \in Nat
    BY DEF Lines
  <1>3. CASE s \in Respond(l)
    <2>1. s.n = l.n /\ s.as = "answer" /\ (IsPrivate(l) => s.reaches = "speaker")
      BY <1>3 DEF Respond, RespondInGame, RespondOnIrc, GameReach, Send, IsPrivate
    <2>2. s \in Sends
      BY <1>2, <1>3 DEF Respond, RespondInGame, RespondOnIrc, GameReach, Send, Sends
    <2> QED
      BY <1>1, <2>1, <2>2 DEF Due
  <1>4. CASE s \in {Send(l, "irc", "named", "told"), Send(l, "game", "named", "told")}
    BY <1>1, <1>2, <1>4 DEF Send, Sends, Due
  <1>5. CASE s \in {Send(l, "irc", "all", "broadcast"), Send(l, "game", "all", "broadcast")}
    BY <1>1, <1>2, <1>5 DEF Send, Sends, Due
  <1>6. Process(l, known) \subseteq
          Respond(l) \cup {Send(l, "irc", "named", "told"), Send(l, "game", "named", "told")}
          \cup {Send(l, "irc", "all", "broadcast"), Send(l, "game", "all", "broadcast")}
    BY DEF Process, Broadcast
  <1> QED
    BY <1>3, <1>4, <1>5, <1>6

LEMMA DispatchDue ==
  ASSUME NEW l \in Lines, NEW known \in BOOLEAN,
         NEW s \in IF l.side = "game" THEN DispatchIngame(l, known) ELSE DispatchIrc(l, known)
  PROVE  s \in Sends /\ Due(s, l)
  <1>1. l.n \in Nat /\ l.side \in {"game", "irc"}
    BY DEF Lines
  <1>2. CASE s \in Process(l, known)
    BY <1>2, ProcessDue
  <1>3. CASE s \in ToBridge(l)
    BY <1>1, <1>3 DEF ToBridge, Send, Sends, Due
  <1>4. CASE l.side = "game" /\ s \in GameToIrc(l)
    BY <1>1, <1>4 DEF GameToIrc, Send, Sends, Due, IsPrivate
  <1>5. CASE l.side = "irc" /\ s \in IrcToGame(l)
    BY <1>1, <1>5 DEF IrcToGame, Send, Sends, Due
  <1> QED
    BY <1>1, <1>2, <1>3, <1>4, <1>5 DEF DispatchIngame, DispatchIrc

\* A line that people say has a number nobody has.
LEMMA SayKeeps ==
  ASSUME ChatInv, NEW side \in {"game", "irc"}, Say(side)
  PROVE  ChatInv'
  <1>1. PICK how \in GameHows \cup IrcHows, text \in Texts, op \in BOOLEAN :
          LET l == [n |-> Cardinality(said) + 1, side |-> side, how |-> how, text |-> text,
                    who |-> "people", op |-> op] IN
          /\ said' = said \cup {l}
          /\ IF side = "game" THEN gameIn' = Append(gameIn, l) /\ UNCHANGED ircIn
             ELSE irc /\ ircIn' = Append(ircIn, l) /\ UNCHANGED gameIn
    BY DEF Say
  <1> DEFINE l == [n |-> Cardinality(said) + 1, side |-> side, how |-> how, text |-> text,
                   who |-> "people", op |-> op]
  <1>2. Cardinality(said) \in Nat
    BY FS_CardinalityType DEF ChatInv, ChatTypes
  <1>3. l \in Lines /\ l.n = Cardinality(said) + 1 /\ l.side = side
    BY <1>2 DEF Lines
  <1>4. /\ said' = said \cup {l}
        /\ IF side = "game" THEN gameIn' = Append(gameIn, l) /\ UNCHANGED ircIn
           ELSE irc /\ ircIn' = Append(ircIn, l) /\ UNCHANGED gameIn
    BY <1>1
  <1> HIDE DEF l
  <1>5. \A k \in said : k.n \in Nat /\ k.n <= Cardinality(said)
    BY DEF ChatInv, ChatTypes, Numbered, Lines
  <1>6. l \notin said /\ \A k \in said : k.n # l.n
    BY <1>2, <1>3, <1>5
  <1>7. IsFiniteSet(said') /\ Cardinality(said') = Cardinality(said) + 1
    BY <1>4, <1>6, FS_AddElement DEF ChatInv, ChatTypes
  <1>8. UNCHANGED <<out, irc, echoes>>
    BY DEF Say
  <1>9. gameIn \in Seq(Lines) /\ ircIn \in Seq(Lines)
    BY DEF ChatInv, ChatTypes
  <1>10. ChatTypes'
    <2>1. gameIn' \in Seq(Lines) /\ ircIn' \in Seq(Lines)
      <3>1. Append(gameIn, l) \in Seq(Lines) /\ Append(ircIn, l) \in Seq(Lines)
        BY <1>3, <1>9, AppendProperties
      <3> QED
        BY <1>4, <1>9, <3>1
    <2>2. said' \subseteq Lines
      BY <1>3, <1>4 DEF ChatInv, ChatTypes
    <2> QED
      BY <1>7, <1>8, <2>1, <2>2 DEF ChatInv, ChatTypes
  <1>11. Numbered'
    BY <1>2, <1>3, <1>4, <1>5, <1>6, <1>7 DEF ChatInv, Numbered
  <1>12. Delivered'
    <2>1. CASE side = "game"
      <3>1. \A i \in 1 .. Len(gameIn') : gameIn'[i] = l \/ (i \in 1 .. Len(gameIn) /\ gameIn'[i] = gameIn[i])
        BY <1>3, <1>4, <1>9, <2>1, AppendProperties, LenProperties
      <3> QED
        BY <1>3, <1>4, <2>1, <3>1 DEF ChatInv, Delivered
    <2>2. CASE side = "irc"
      <3>1. \A i \in 1 .. Len(ircIn') : ircIn'[i] = l \/ (i \in 1 .. Len(ircIn) /\ ircIn'[i] = ircIn[i])
        BY <1>3, <1>4, <1>9, <2>2, AppendProperties, LenProperties
      <3> QED
        BY <1>3, <1>4, <2>2, <3>1 DEF ChatInv, Delivered
    <2> QED
      BY <2>1, <2>2
  <1>13. AllDue'
    BY <1>4, <1>8 DEF ChatInv, AllDue
  <1> QED
    BY <1>10, <1>11, <1>12, <1>13 DEF ChatInv

LEMMA EchoKeeps == ChatInv /\ Echo => ChatInv'
  <1> SUFFICES ASSUME ChatInv, Echo PROVE ChatInv'
    OBVIOUS
  <1>1. PICK s \in out, text \in Texts :
          gameIn' = Append(gameIn, [n |-> s.n, side |-> "game",
                                    how |-> IF s.reaches = "all" THEN "public" ELSE "team",
                                    text |-> text, who |-> "bot", op |-> FALSE])
    BY DEF Echo
  <1> DEFINE l == [n |-> s.n, side |-> "game", how |-> IF s.reaches = "all" THEN "public" ELSE "team",
                   text |-> text, who |-> "bot", op |-> FALSE]
  <1>2. l \in Lines /\ l.side = "game" /\ l.who = "bot"
    BY DEF ChatInv, ChatTypes, Sends, Lines
  <1>3. gameIn' = Append(gameIn, l) /\ gameIn \in Seq(Lines)
    BY <1>1 DEF ChatInv, ChatTypes
  <1> HIDE DEF l
  <1>4. UNCHANGED <<said, ircIn, out, irc>> /\ echoes' = echoes + 1
    BY DEF Echo
  <1>5. gameIn' \in Seq(Lines)
    BY <1>2, <1>3, AppendProperties
  <1>6. \A i \in 1 .. Len(gameIn') : gameIn'[i] = l \/ (i \in 1 .. Len(gameIn) /\ gameIn'[i] = gameIn[i])
    BY <1>2, <1>3, AppendProperties, LenProperties
  <1>7. Delivered'
    BY <1>2, <1>4, <1>6 DEF ChatInv, Delivered
  <1> QED
    BY <1>4, <1>5, <1>7 DEF ChatInv, ChatTypes, Numbered, AllDue

\* The rest of what a server has still to deliver.
LEMMA RestDelivered ==
  ASSUME NEW s \in Seq(Lines), s # <<>>
  PROVE  /\ Head(s) \in Lines /\ Tail(s) \in Seq(Lines) /\ 1 \in 1 .. Len(s) /\ Head(s) = s[1]
         /\ \A i \in 1 .. Len(Tail(s)) : i + 1 \in 1 .. Len(s) /\ Tail(s)[i] = s[i + 1]
  BY HeadTailProperties, EmptySeq

LEMMA GameChatKeeps == ChatInv /\ GameChat => ChatInv'
  <1> SUFFICES ASSUME ChatInv, GameChat PROVE ChatInv'
    OBVIOUS
  <1> DEFINE l == Head(gameIn)
  <1>1. gameIn \in Seq(Lines) /\ gameIn # <<>> /\ ircIn \in Seq(Lines) /\ gameIn' = Tail(gameIn)
    BY DEF ChatInv, ChatTypes, GameChat
  <1>2. /\ l \in Lines /\ Tail(gameIn) \in Seq(Lines) /\ 1 \in 1 .. Len(gameIn) /\ l = gameIn[1]
        /\ \A i \in 1 .. Len(Tail(gameIn)) : i + 1 \in 1 .. Len(gameIn) /\ Tail(gameIn)[i] = gameIn[i + 1]
    BY <1>1, RestDelivered
  <1>3. l.side = "game" /\ (l.who = "people" => l \in said) /\ l.who \in {"people", "bot"}
    BY <1>2 DEF ChatInv, Delivered, Lines
  <1> HIDE DEF l
  <1>4. PICK known \in BOOLEAN : out' = IF SelfSent(l) THEN out ELSE out \cup DispatchIngame(l, known)
    BY DEF GameChat, l
  <1>5. irc' \in BOOLEAN /\ ircIn' = (IF irc' THEN ircIn ELSE <<>>) /\ UNCHANGED <<said, echoes>>
    BY DEF GameChat, ChatInv, ChatTypes
  <1>6. out' \subseteq Sends /\ AllDue'
    <2>1. CASE SelfSent(l)
      BY <1>4, <1>5, <2>1 DEF ChatInv, ChatTypes, AllDue
    <2>2. CASE ~SelfSent(l)
      <3>1. l \in said
        BY <1>3, <2>2 DEF SelfSent
      <3>2. \A s \in DispatchIngame(l, known) : s \in Sends /\ Due(s, l)
        BY <1>2, <1>3, DispatchDue
      <3> QED
        BY <1>4, <1>5, <2>2, <3>1, <3>2 DEF ChatInv, ChatTypes, AllDue
    <2> QED
      BY <2>1, <2>2
  <1>7. ircIn' \in Seq(Lines) /\ (ircIn' = ircIn \/ Len(ircIn') = 0)
    BY <1>1, <1>5, EmptySeq
  <1>8. Delivered'
    BY <1>1, <1>2, <1>5, <1>7 DEF ChatInv, Delivered
  <1> QED
    BY <1>1, <1>2, <1>5, <1>6, <1>7, <1>8 DEF ChatInv, ChatTypes, Numbered

LEMMA IrcChatKeeps == ChatInv /\ IrcChat => ChatInv'
  <1> SUFFICES ASSUME ChatInv, IrcChat PROVE ChatInv'
    OBVIOUS
  <1> DEFINE l == Head(ircIn)
  <1>1. ircIn \in Seq(Lines) /\ ircIn # <<>> /\ gameIn \in Seq(Lines)
    BY DEF ChatInv, ChatTypes, IrcChat
  <1>2. /\ l \in Lines /\ Tail(ircIn) \in Seq(Lines) /\ 1 \in 1 .. Len(ircIn) /\ l = ircIn[1]
        /\ \A i \in 1 .. Len(Tail(ircIn)) : i + 1 \in 1 .. Len(ircIn) /\ Tail(ircIn)[i] = ircIn[i + 1]
    BY <1>1, RestDelivered
  <1>3. l.side = "irc" /\ l \in said
    BY <1>2 DEF ChatInv, Delivered
  <1> HIDE DEF l
  <1>4. PICK known \in BOOLEAN : out' = out \/ out' = out \cup DispatchIrc(l, known)
    BY DEF IrcChat, l
  <1>5. /\ irc' \in BOOLEAN /\ ircIn' = (IF irc' THEN Tail(ircIn) ELSE <<>>)
        /\ UNCHANGED <<said, echoes, gameIn>>
    BY DEF IrcChat, ChatInv, ChatTypes
  <1>6. out' \subseteq Sends /\ AllDue'
    <2>1. \A s \in DispatchIrc(l, known) : s \in Sends /\ Due(s, l)
      BY <1>2, <1>3, DispatchDue
    <2> QED
      BY <1>3, <1>4, <1>5, <2>1 DEF ChatInv, ChatTypes, AllDue
  <1>7. ircIn' \in Seq(Lines) /\ (ircIn' = Tail(ircIn) \/ Len(ircIn') = 0)
    BY <1>2, <1>5, EmptySeq
  <1>8. Delivered'
    BY <1>2, <1>5, <1>7 DEF ChatInv, Delivered
  <1> QED
    BY <1>1, <1>5, <1>6, <1>7, <1>8 DEF ChatInv, ChatTypes, Numbered

LEMMA ChatStepKeeps == ChatInv /\ [ChatNext]_chatVars => ChatInv'
  <1> SUFFICES ASSUME ChatInv, [ChatNext]_chatVars PROVE ChatInv'
    OBVIOUS
  <1>1. CASE UNCHANGED chatVars
    BY <1>1 DEF chatVars, ChatInv, ChatTypes, Numbered, Delivered, AllDue
  <1> QED
    BY <1>1, SayKeeps, EchoKeeps, GameChatKeeps, IrcChatKeeps DEF ChatNext

\* The line a thing was sent for is the one it was due to.
LEMMA DueHolds == ChatInv => RelayHolds
  <1> SUFFICES ASSUME ChatInv, NEW s \in out PROVE Due(s, Spoken(s))
    BY DEF RelayHolds, NoEcho, PrivateKept, Due
  <1>1. PICK l \in said : Due(s, l)
    BY DEF ChatInv, AllDue
  <1>2. l.n = s.n
    BY <1>1 DEF Due
  <1>3. Spoken(s) \in said /\ Spoken(s).n = s.n
    BY <1>2 DEF Spoken
  <1>4. Spoken(s) = l
    BY <1>2, <1>3 DEF ChatInv, Numbered
  <1> QED
    BY <1>1, <1>4

\* Nothing goes round between the two sides, only commands of people are obeyed, and what is said
\* in private is not heard by a whole side (ottd_client_event.py), however many lines the game
\* server sends back.
THEOREM RelayAlwaysHolds == ChatSpec => []RelayHolds
  <1>1. ChatInit => ChatInv
    BY ChatBegins
  <1>2. ChatInv /\ [ChatNext]_chatVars => ChatInv'
    BY ChatStepKeeps
  <1>3. ChatInv => RelayHolds
    BY DueHolds
  <1> QED
    BY <1>1, <1>2, <1>3, PTL DEF ChatSpec
=============================================================================
