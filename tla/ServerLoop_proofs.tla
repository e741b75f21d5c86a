--------------------------- MODULE ServerLoop_proofs ---------------------------
(***************************************************************************)
(* The lists of ServerLoop, for any number of clients.                     *)
(***************************************************************************)
EXTENDS ServerLoop, SequenceTheorems, FiniteSetTheorems, TLAPS

\* A client in the lists has been accepted once and for all.
Accepted == \A c \in ToSet(clients) : peer[c] \in {"up", "gone"}

\* What is still to be read is the listening socket and clients that are in the lists.
ReadyListed == pc = "reading" => NoTwice(r) /\ ToSet(r) \subseteq ToSet(clients) \cup {Listener}

\* A closed handler is left in the lists only by a send for somebody else.
ClosedByOthers == ~cut => ToSet(clients) \subseteq open

Inv ==
  /\ ServerTypeOK /\ ListsAgree /\ NoDoubleQuit /\ SelectFailsOnlyByBroadcast
  /\ Accepted /\ ReadyListed /\ ClosedByOthers

-----------------------------------------------------------------------------
(* Lists without repetition.                                               *)

LEMMA InList ==
  ASSUME NEW S, NEW s \in Seq(S), NEW c
  PROVE  c \in ToSet(s) <=> \E i \in 1 .. Len(s) : s[i] = c
  <1>1. DOMAIN s = 1 .. Len(s)  BY LenProperties
  <1>2. QED  BY <1>1 DEF ToSet

\* Where the elements are once the k-th one is taken out.
LEMMA TakenOut ==
  ASSUME NEW S, NEW s \in Seq(S), NEW k \in 1 .. Len(s)
  PROVE  /\ RemoveAt(s, k) \in Seq(S) /\ Len(RemoveAt(s, k)) = Len(s) - 1
         /\ \A i \in 1 .. Len(s) - 1 : RemoveAt(s, k)[i] = IF i < k THEN s[i] ELSE s[i + 1]
  <1> DEFINE n == Len(s)
             a == SubSeq(s, 1, k - 1)
             b == SubSeq(s, k + 1, n)
  <1>1. n \in Nat /\ k \in 1 .. n  BY LenProperties
  <1>2. \A i \in 1 .. n : s[i] \in S  BY ElementOfSeq
  <1>3. RemoveAt(s, k) = a \o b  BY DEF RemoveAt
  <1>4. a \in Seq(S) /\ Len(a) = k - 1 /\ \A i \in 1 .. k - 1 : a[i] = s[i]
    <2> HIDE DEF n
    <2>1. 1 \in Int /\ k - 1 \in Int /\ \A i \in 1 .. k - 1 : s[i] \in S  BY <1>1, <1>2
    <2>2. /\ a \in Seq(S) /\ Len(a) = IF 1 <= k - 1 THEN (k - 1) - 1 + 1 ELSE 0
          /\ \A i \in 1 .. (k - 1) - 1 + 1 : a[i] = s[1 + i - 1]
      <3> HIDE DEF a
      <3> QED  BY <2>1, SubSeqProperties DEF a
    <2> HIDE DEF a
    <2>3. (k - 1) - 1 + 1 = k - 1 /\ \A i \in 1 .. k - 1 : 1 + i - 1 = i  BY <1>1
    <2>4. QED  BY <1>1, <2>2, <2>3
  <1>5. b \in Seq(S) /\ Len(b) = n - k /\ \A i \in 1 .. n - k : b[i] = s[k + i]
    <2> HIDE DEF n
    <2>1. k + 1 \in Int /\ n \in Int /\ \A i \in k + 1 .. n : s[i] \in S  BY <1>1, <1>2
    <2>2. /\ b \in Seq(S) /\ Len(b) = IF k + 1 <= n THEN n - (k + 1) + 1 ELSE 0
          /\ \A i \in 1 .. n - (k + 1) + 1 : b[i] = s[(k + 1) + i - 1]
      <3> HIDE DEF b
      <3> QED  BY <2>1, SubSeqProperties DEF b
    <2> HIDE DEF b
    <2>3. n - (k + 1) + 1 = n - k /\ \A i \in 1 .. n - k : (k + 1) + i - 1 = k + i  BY <1>1
    <2>4. QED  BY <1>1, <2>2, <2>3
  <1> HIDE DEF a, b, n
  <1>6. /\ a \o b \in Seq(S) /\ Len(a \o b) = Len(a) + Len(b)
        /\ \A i \in 1 .. Len(a) + Len(b) : (a \o b)[i] = IF i <= Len(a) THEN a[i] ELSE b[i - Len(a)]
    BY <1>4, <1>5, ConcatProperties
  <1>7. Len(a) + Len(b) = n - 1  BY <1>1, <1>4, <1>5
  <1>8. ASSUME NEW i \in 1 .. n - 1 PROVE (a \o b)[i] = IF i < k THEN s[i] ELSE s[i + 1]
    <2>1. CASE i < k
      <3>1. i <= Len(a) /\ i \in 1 .. k - 1  BY <1>1, <1>4, <2>1
      <3>2. QED  BY <1>4, <1>6, <1>7, <2>1, <3>1
    <2>2. CASE i >= k
      <3>1. ~(i <= Len(a)) /\ i - Len(a) \in 1 .. n - k /\ k + (i - Len(a)) = i + 1
        BY <1>1, <1>4, <2>2
      <3>2. (a \o b)[i] = b[i - Len(a)]  BY <1>6, <1>7, <3>1
      <3>3. b[i - Len(a)] = s[i + 1]  BY <1>5, <3>1
      <3>4. ~(i < k)  BY <1>1, <2>2
      <3>5. QED  BY <3>2, <3>3, <3>4
    <2>3. i < k \/ i >= k
      <3>1. i \in Int /\ k \in Int  BY <1>1
      <3>2. QED  BY <3>1
    <2>4. QED  BY <2>1, <2>2, <2>3
  <1>9. QED  BY <1>3, <1>6, <1>7, <1>8 DEF n

\* list.remove on a list without repetition.
LEMMA WithoutList ==
  ASSUME NEW S, NEW s \in Seq(S), NoTwice(s), NEW c \in ToSet(s)
  PROVE  /\ Without(s, c) \in Seq(S) /\ NoTwice(Without(s, c))
         /\ ToSet(Without(s, c)) = ToSet(s) \ {c}
  <1> DEFINE k == CHOOSE i \in 1 .. Len(s) : s[i] = c
             w == RemoveAt(s, k)
  <1>1. k \in 1 .. Len(s) /\ s[k] = c  BY InList
  <1>2. Without(s, c) = w  BY DEF Without
  <1> HIDE DEF k
  <1>3. /\ w \in Seq(S) /\ Len(w) = Len(s) - 1
        /\ \A i \in 1 .. Len(s) - 1 : w[i] = IF i < k THEN s[i] ELSE s[i + 1]
    BY <1>1, TakenOut
  <1>4. Len(s) \in Nat  BY LenProperties
  <1> HIDE DEF w
  <1>5. NoTwice(w)
    <2>1. SUFFICES ASSUME NEW i \in 1 .. Len(w), NEW j \in 1 .. Len(w), w[i] = w[j]
                   PROVE  i = j
      BY DEF NoTwice
    <2> DEFINE at(x) == IF x < k THEN x ELSE x + 1
    <2>2. at(i) \in 1 .. Len(s) /\ at(j) \in 1 .. Len(s)  BY <1>1, <1>3, <1>4
    <2>3. w[i] = s[at(i)] /\ w[j] = s[at(j)]  BY <1>3
    <2>4. at(i) = at(j)  BY <2>1, <2>2, <2>3 DEF NoTwice
    <2>5. QED  BY <1>1, <1>3, <1>4, <2>4
  <1>6. ASSUME NEW x \in ToSet(w) PROVE x \in ToSet(s) \ {c}
    <2>1. PICK i \in 1 .. Len(w) : w[i] = x  BY <1>3, InList
    <2> DEFINE j == IF i < k THEN i ELSE i + 1
    <2>2. j \in 1 .. Len(s) /\ j # k  BY <1>1, <1>3, <1>4
    <2>3. s[j] = x  BY <1>3, <2>1
    <2>4. s[j] # c  BY <1>1, <2>2 DEF NoTwice
    <2>5. QED  BY <2>2, <2>3, <2>4, InList
  <1>7. ASSUME NEW x \in ToSet(s) \ {c} PROVE x \in ToSet(w)
    <2>1. PICK i \in 1 .. Len(s) : s[i] = x  BY InList
    <2>2. i # k  BY <1>1, <2>1
    <2> DEFINE j == IF i < k THEN i ELSE i - 1
    <2>3. j \in 1 .. Len(w) /\ (IF j < k THEN j ELSE j + 1) = i  BY <1>1, <1>3, <1>4, <2>2
    <2>4. w[j] = x  BY <1>3, <2>1, <2>3
    <2>5. QED  BY <1>3, <2>3, <2>4, InList
  <1>8. QED  BY <1>2, <1>3, <1>5, <1>6, <1>7

LEMMA AppendList ==
  ASSUME NEW S, NEW s \in Seq(S), NoTwice(s), NEW c \in S, c \notin ToSet(s)
  PROVE  /\ Append(s, c) \in Seq(S) /\ NoTwice(Append(s, c))
         /\ ToSet(Append(s, c)) = ToSet(s) \cup {c}
  <1> DEFINE t == Append(s, c)
  <1>1. /\ t \in Seq(S) /\ Len(t) = Len(s) + 1 /\ Len(s) \in Nat
        /\ \A i \in 1 .. Len(s) : t[i] = s[i]
        /\ t[Len(s) + 1] = c
    BY AppendProperties, LenProperties
  <1> HIDE DEF t
  <1>2. \A i \in 1 .. Len(s) : t[i] # c  BY <1>1, InList
  <1>3. NoTwice(t)
    <2>1. SUFFICES ASSUME NEW i \in 1 .. Len(t), NEW j \in 1 .. Len(t), t[i] = t[j]
                   PROVE  i = j
      BY DEF NoTwice
    <2>2. (i \in 1 .. Len(s) \/ i = Len(s) + 1) /\ (j \in 1 .. Len(s) \/ j = Len(s) + 1)
      BY <1>1
    <2>3. QED  BY <1>1, <1>2, <2>1, <2>2 DEF NoTwice
  <1>4. ASSUME NEW x PROVE x \in ToSet(t) <=> x \in ToSet(s) \cup {c}
    <2>1. x \in ToSet(t) <=> \E i \in 1 .. Len(t) : t[i] = x  BY <1>1, InList
    <2>2. x \in ToSet(s) <=> \E i \in 1 .. Len(s) : s[i] = x  BY InList
    <2>3. \A i \in 1 .. Len(t) : i \in 1 .. Len(s) \/ i = Len(s) + 1  BY <1>1
    <2>4. Len(s) + 1 \in 1 .. Len(t) /\ \A i \in 1 .. Len(s) : i \in 1 .. Len(t)  BY <1>1
    <2>5. QED  BY <1>1, <2>1, <2>2, <2>3, <2>4
  <1>5. QED  BY <1>1, <1>3, <1>4 DEF t

LEMMA TailList ==
  ASSUME NEW S, NEW s \in Seq(S), s # <<>>, NoTwice(s)
  PROVE  /\ Head(s) \in ToSet(s) /\ Tail(s) \in Seq(S) /\ NoTwice(Tail(s))
         /\ ToSet(Tail(s)) \subseteq ToSet(s) \ {Head(s)}
  <1>1. /\ Tail(s) \in Seq(S) /\ Len(Tail(s)) = Len(s) - 1 /\ Len(s) \in Nat \ {0}
        /\ \A i \in 1 .. Len(Tail(s)) : Tail(s)[i] = s[i + 1]
    BY HeadTailProperties, EmptySeq
  <1>2. Head(s) = s[1] /\ 1 \in 1 .. Len(s)  BY <1>1
  <1>3. NoTwice(Tail(s))  BY <1>1 DEF NoTwice
  <1>4. ASSUME NEW x \in ToSet(Tail(s)) PROVE x \in ToSet(s) \ {Head(s)}
    <2>1. PICK i \in 1 .. Len(Tail(s)) : Tail(s)[i] = x  BY <1>1, InList
    <2>2. i + 1 \in 1 .. Len(s) /\ i + 1 # 1 /\ s[i + 1] = x  BY <1>1, <2>1
    <2>3. x # s[1]  BY <1>2, <2>2 DEF NoTwice
    <2>4. QED  BY <1>2, <2>2, <2>3, InList
  <1>5. Head(s) \in ToSet(s)  BY <1>2, InList
  <1>6. QED  BY <1>1, <1>3, <1>4, <1>5

LEMMA Ordered ==
  ASSUME NEW R, IsFiniteSet(R), NEW q \in SetToSeqs(R)
  PROVE  q \in Seq(R) /\ NoTwice(q) /\ ToSet(q) \subseteq R
  <1>1. Cardinality(R) \in Nat  BY FS_CardinalityType
  <1>2. /\ q \in [1 .. Cardinality(R) -> R]
        /\ \A i, j \in 1 .. Cardinality(R) : i # j => q[i] # q[j]
    BY DEF SetToSeqs
  <1>3. q \in Seq(R) /\ Len(q) = Cardinality(R)  BY <1>1, <1>2
  <1>4. NoTwice(q)  BY <1>2, <1>3 DEF NoTwice
  <1>5. ToSet(q) \subseteq R  BY <1>2 DEF ToSet
  <1>6. QED  BY <1>3, <1>4, <1>5

-----------------------------------------------------------------------------
(* The methods.                                                            *)

\* What a call of the subclass may close.
LEMMA HookCloses ==
  ASSUME NEW c, Hook(c), ServerTypeOK
  PROVE  /\ open' \subseteq open /\ cut' \in BOOLEAN /\ (cut => cut')
         /\ ~cut' => open \ open' \subseteq {c}
  <1>1. PICK F \in SUBSET Failing : open' = open \ F /\ cut' = (cut \/ ~(F \subseteq {c}))
    BY DEF Hook
  <1>2. QED  BY <1>1 DEF ServerTypeOK

\* handle_client_quit of a client that is in the lists.
LEMMA QuitRemoves ==
  ASSUME ServerTypeOK, ListsAgree, NEW c \in ToSet(clients), NEW next, HandleClientQuit(c, next)
  PROVE  /\ pc' = next /\ clients' \in Seq(Clients) /\ NoTwice(clients')
         /\ readsocks' = clients' /\ writesocks' = clients'
         /\ ToSet(clients') = ToSet(clients) \ {c}
  <1>1. clients \in Seq(Clients) /\ NoTwice(clients)  BY DEF ServerTypeOK, ListsAgree
  <1>2. /\ Without(clients, c) \in Seq(Clients) /\ NoTwice(Without(clients, c))
        /\ ToSet(Without(clients, c)) = ToSet(clients) \ {c}
    BY <1>1, WithoutList
  <1>3. readsocks = clients /\ writesocks = clients  BY DEF ListsAgree
  <1>4. QED  BY <1>2, <1>3 DEF HandleClientQuit

\* A handler s is asked to receive or to send: what becomes of the lists.
LEMMA AskHandler ==
  ASSUME Inv, NEW s \in ToSet(clients), pc \in {"reading", "writing"},
         open' \subseteq open, cut' \in BOOLEAN, cut => cut',
         ~cut' => open \ open' \subseteq {s},
         IF s \in open' THEN UNCHANGED <<pc, lists>> ELSE HandleClientQuit(s, pc),
         peer' = peer
  PROVE  /\ pc' = pc /\ clients' \in Seq(Clients) /\ ListsAgree' /\ Accepted' /\ ClosedByOthers'
         /\ open' \in SUBSET Clients /\ ToSet(clients) \ {s} \subseteq ToSet(clients')
  <1>1. CASE s \in open'
    <2>1. pc' = pc /\ readsocks' = readsocks /\ writesocks' = writesocks /\ clients' = clients
      BY <1>1 DEF lists
    <2>2. ~cut' => open' = open  BY <1>1
    <2>3. QED
      BY <2>1, <2>2 DEF Inv, ServerTypeOK, ListsAgree, Accepted, ClosedByOthers
  <1>2. CASE s \notin open'
    <2>1. HandleClientQuit(s, pc)  BY <1>2
    <2>2. /\ pc' = pc /\ clients' \in Seq(Clients) /\ NoTwice(clients')
          /\ readsocks' = clients' /\ writesocks' = clients'
          /\ ToSet(clients') = ToSet(clients) \ {s}
      BY <2>1, QuitRemoves DEF Inv
    <2>3. ListsAgree'  BY <1>2, <2>2 DEF Inv, ListsAgree
    <2>4. Accepted' /\ ClosedByOthers'  BY <2>2 DEF Inv, Accepted, ClosedByOthers
    <2>5. QED  BY <2>2, <2>3, <2>4 DEF Inv, ServerTypeOK
  <1>3. QED  BY <1>1, <1>2

-----------------------------------------------------------------------------
LEMMA InitInv == ServerInit => Inv
  <1> SUFFICES ASSUME ServerInit PROVE Inv  OBVIOUS
  <1>1. <<>> \in Seq(Clients) /\ <<>> \in Seq(Clients \cup {Listener}) /\ Len(<<>>) = 0
    BY EmptySeq
  <1>2. ToSet(<<>>) = {} /\ NoTwice(<<>>)  BY DEF ToSet, NoTwice
  <1>3. ServerTypeOK
    <2>1. peer \in [Clients -> {"away", "queued", "up", "gone"}]  BY DEF ServerInit
    <2>2. pc \in PCs /\ wi \in Nat \ {0} /\ open \in SUBSET Clients  BY DEF ServerInit, PCs
    <2>3. turn \in Clients \cup {Nobody} /\ cut \in BOOLEAN  BY DEF ServerInit
    <2>4. /\ r \in Seq(Clients \cup {Listener})
          /\ readsocks \in Seq(Clients) /\ writesocks \in Seq(Clients) /\ clients \in Seq(Clients)
      BY <1>1 DEF ServerInit
    <2>5. QED  BY <2>1, <2>2, <2>3, <2>4 DEF ServerTypeOK
  <1>4. QED
    BY <1>2, <1>3 DEF ServerInit, Inv, ListsAgree, NoDoubleQuit, SelectFailsOnlyByBroadcast,
                      Accepted, ReadyListed, ClosedByOthers

LEMMA StepInv == Inv /\ [ServerNext]_serverVars => Inv'
  <1> SUFFICES ASSUME Inv, [ServerNext]_serverVars PROVE Inv'  OBVIOUS
  <1>0. /\ ServerTypeOK /\ ListsAgree /\ NoDoubleQuit /\ SelectFailsOnlyByBroadcast
        /\ Accepted /\ ReadyListed /\ ClosedByOthers
    BY DEF Inv
  <1> DEFINE Members == Clients \cup {Listener}
  <1>1. CASE Select
    <2>1. UNCHANGED <<wi, readsocks, writesocks, clients, open, peer, turn, cut>>
      BY <1>1 DEF Select, lists
    <2>2. ListsAgree' /\ Accepted' /\ ClosedByOthers'
      BY <1>0, <2>1 DEF ListsAgree, Accepted, ClosedByOthers
    <2>3. CASE ToSet(readsocks) \subseteq open
      <3>1. PICK R \in SUBSET (ToSet(readsocks) \cup {Listener}) :
              r' \in SetToSeqs(R) /\ pc' = "reading"
        BY <1>1, <2>3 DEF Select
      <3>2. ToSet(readsocks) = ToSet(clients) /\ ToSet(clients) \subseteq Clients
        BY <1>0, <2>3 DEF ListsAgree, ServerTypeOK
      <3>3. IsFiniteSet(R)
        <4>1. IsFiniteSet(Clients \cup {Listener})
          BY ClientsAssumption, FS_AddElement
        <4>2. R \subseteq Clients \cup {Listener}  BY <3>2
        <4>3. QED  BY <4>1, <4>2, FS_Subset
      <3>4. r' \in Seq(R) /\ NoTwice(r') /\ ToSet(r') \subseteq R  BY <3>1, <3>3, Ordered
      <3>5. r' \in Seq(Members)  BY <3>2, <3>4, SeqMonotonic
      <3>6. ReadyListed'  BY <2>1, <3>2, <3>4 DEF ReadyListed
      <3>7. ServerTypeOK'  BY <1>0, <2>1, <3>1, <3>5 DEF ServerTypeOK, PCs
      <3>8. QED  BY <2>2, <3>1, <3>6, <3>7 DEF Inv, NoDoubleQuit, SelectFailsOnlyByBroadcast
    <2>4. CASE ~(ToSet(readsocks) \subseteq open)
      <3>1. pc' = "select_failed" /\ r' = <<>>  BY <1>1, <2>4 DEF Select
      <3>2. cut  BY <1>0, <2>4 DEF ListsAgree, ClosedByOthers
      <3>3. ServerTypeOK'  BY <1>0, <2>1, <3>1, EmptySeq DEF ServerTypeOK, PCs
      <3>4. QED
        BY <2>1, <2>2, <3>1, <3>2, <3>3
        DEF Inv, NoDoubleQuit, SelectFailsOnlyByBroadcast, ReadyListed
    <2>5. QED  BY <2>3, <2>4
  <1>2. CASE HandleTcpConnection
    <2>1. PICK c \in Clients :
            /\ peer[c] = "queued" /\ peer' = [peer EXCEPT ![c] = "up"]
            /\ readsocks' = Append(readsocks, c)
            /\ writesocks' = Append(writesocks, c)
            /\ clients' = Append(clients, c)
            /\ open' = open \cup {c}
      BY <1>2 DEF HandleTcpConnection
    <2>2. pc = "reading" /\ r # <<>> /\ r' = Tail(r) /\ UNCHANGED <<pc, wi, turn, cut>>
      BY <1>2 DEF HandleTcpConnection
    <2>3. c \notin ToSet(clients)  BY <1>0, <2>1 DEF Accepted
    <2>4. /\ clients' \in Seq(Clients) /\ NoTwice(clients')
          /\ ToSet(clients') = ToSet(clients) \cup {c}
      <3>1. clients \in Seq(Clients) /\ NoTwice(clients)  BY <1>0 DEF ServerTypeOK, ListsAgree
      <3>2. QED  BY <2>1, <2>3, <3>1, AppendList
    <2>5. r' \in Seq(Members) /\ NoTwice(r') /\ ToSet(r') \subseteq ToSet(r)
      <3>1. r \in Seq(Members) /\ NoTwice(r)  BY <1>0, <2>2 DEF ServerTypeOK, ReadyListed
      <3>2. QED  BY <2>2, <3>1, TailList
    <2>6. ListsAgree'  BY <1>0, <2>1, <2>4 DEF ListsAgree
    <2>7. Accepted'  BY <1>0, <2>1, <2>4 DEF Accepted, ServerTypeOK
    <2>8. ReadyListed' /\ ClosedByOthers'
      BY <1>0, <2>1, <2>2, <2>4, <2>5 DEF ReadyListed, ClosedByOthers
    <2>9. ServerTypeOK'
      <3>1. readsocks' = clients' /\ writesocks' = clients'  BY <2>6 DEF ListsAgree
      <3>2. QED  BY <1>0, <2>1, <2>2, <2>4, <2>5, <3>1 DEF ServerTypeOK
    <2>10. QED
      BY <1>0, <2>2, <2>6, <2>7, <2>8, <2>9 DEF Inv, NoDoubleQuit, SelectFailsOnlyByBroadcast
  <1>3. CASE RecvData
    <2> DEFINE s == Head(r)
    <2>1. pc = "reading" /\ r # <<>> /\ s # Listener /\ r' = Tail(r) /\ UNCHANGED <<wi, peer, turn>>
      BY <1>3 DEF RecvData
    <2>2. /\ \/ s \in open /\ Hook(s)
             \/ (s \in open => peer[s] = "gone") /\ open' = open \ {s} /\ UNCHANGED cut
          /\ IF s \in open' THEN UNCHANGED <<pc, lists>> ELSE HandleClientQuit(s, pc)
      BY <1>3 DEF RecvData
    <2>3. /\ s \in ToSet(r) /\ r' \in Seq(Members) /\ NoTwice(r')
          /\ ToSet(r') \subseteq ToSet(r) \ {s}
      <3>1. r \in Seq(Members) /\ NoTwice(r)  BY <1>0, <2>1 DEF ServerTypeOK, ReadyListed
      <3>2. QED  BY <2>1, <3>1, TailList
    <2>4. s \in ToSet(clients)  BY <1>0, <2>1, <2>3 DEF ReadyListed
    <2> HIDE DEF s
    <2>5. /\ open' \subseteq open /\ cut' \in BOOLEAN /\ (cut => cut')
          /\ ~cut' => open \ open' \subseteq {s}
      <3>1. CASE Hook(s)  BY <1>0, <3>1, HookCloses
      <3>2. CASE open' = open \ {s} /\ cut' = cut  BY <1>0, <3>2 DEF ServerTypeOK
      <3>3. QED  BY <2>2, <3>1, <3>2
    <2>6. /\ pc' = pc /\ clients' \in Seq(Clients) /\ ListsAgree' /\ Accepted' /\ ClosedByOthers'
          /\ open' \in SUBSET Clients /\ ToSet(clients) \ {s} \subseteq ToSet(clients')
      BY <2>1, <2>2, <2>4, <2>5, AskHandler
    <2>7. ReadyListed'  BY <1>0, <2>1, <2>3, <2>6 DEF ReadyListed
    <2>8. ServerTypeOK'
      <3>1. readsocks' = clients' /\ writesocks' = clients'  BY <2>6 DEF ListsAgree
      <3>2. QED  BY <1>0, <2>1, <2>3, <2>5, <2>6, <3>1 DEF ServerTypeOK
    <2>9. QED
      BY <1>0, <2>1, <2>6, <2>7, <2>8 DEF Inv, NoDoubleQuit, SelectFailsOnlyByBroadcast
  <1>4. CASE ReadDone
    BY <1>0, <1>4 DEF ReadDone, Inv, ServerTypeOK, PCs, ListsAgree, NoDoubleQuit,
       SelectFailsOnlyByBroadcast, Accepted, ReadyListed, ClosedByOthers, lists
  <1>5. CASE SendData
    <2> DEFINE s == writesocks[wi]
    <2>1. pc = "writing" /\ wi <= Len(writesocks) /\ wi' = wi + 1 /\ UNCHANGED <<r, peer>>
      BY <1>5 DEF SendData
    <2>2. wi \in 1 .. Len(clients) /\ s \in ToSet(clients) /\ s \in Clients
      <3>1. writesocks = clients /\ clients \in Seq(Clients) /\ wi \in Nat \ {0}
        BY <1>0 DEF ListsAgree, ServerTypeOK
      <3>2. wi \in 1 .. Len(clients)  BY <2>1, <3>1, LenProperties
      <3>3. QED  BY <3>1, <3>2, InList, ElementOfSeq
    <2>3. CASE s \in open
      <3>1. /\ Hook(s) /\ turn' = s
            /\ IF s \in open' THEN UNCHANGED <<pc, lists>> ELSE HandleClientQuit(s, pc)
        BY <1>5, <2>3 DEF SendData
      <3> HIDE DEF s
      <3>2. /\ open' \subseteq open /\ cut' \in BOOLEAN /\ (cut => cut')
            /\ ~cut' => open \ open' \subseteq {s}
        BY <1>0, <3>1, HookCloses
      <3>3. /\ pc' = pc /\ clients' \in Seq(Clients) /\ ListsAgree' /\ Accepted' /\ ClosedByOthers'
            /\ open' \in SUBSET Clients
        BY <2>1, <2>2, <3>1, <3>2, AskHandler
      <3>4. readsocks' = clients' /\ writesocks' = clients'  BY <3>3 DEF ListsAgree
      <3>5. ServerTypeOK'  BY <1>0, <2>1, <2>2, <3>1, <3>2, <3>3, <3>4 DEF ServerTypeOK
      <3>6. QED
        BY <1>0, <2>1, <3>3, <3>5
        DEF Inv, NoDoubleQuit, SelectFailsOnlyByBroadcast, ReadyListed
    <2>4. CASE s \notin open
      <3>1. UNCHANGED <<pc, readsocks, writesocks, clients, open, turn, cut>>
        BY <1>5, <2>4 DEF SendData, lists
      <3>2. QED
        BY <1>0, <2>1, <3>1 DEF Inv, ServerTypeOK, ListsAgree, NoDoubleQuit,
           SelectFailsOnlyByBroadcast, Accepted, ReadyListed, ClosedByOthers
    <2>5. QED  BY <2>3, <2>4
  <1>6. CASE ServerSendData
    <2>1. /\ Hook(Nobody) /\ turn' = Nobody /\ pc' = "select"
          /\ UNCHANGED <<r, wi, readsocks, writesocks, clients, peer>>
      BY <1>6 DEF ServerSendData, lists
    <2>2. /\ open' \subseteq open /\ cut' \in BOOLEAN /\ (cut => cut')
          /\ ~cut' => open \ open' \subseteq {Nobody}
      BY <1>0, <2>1, HookCloses
    <2>3. ~cut' => open' = open
      BY <1>0, <2>2, ClientsAssumption DEF ServerTypeOK
    <2>4. ServerTypeOK'  BY <1>0, <2>1, <2>2 DEF ServerTypeOK, PCs
    <2>5. QED
      BY <1>0, <2>1, <2>2, <2>3, <2>4 DEF Inv, ListsAgree, NoDoubleQuit,
         SelectFailsOnlyByBroadcast, Accepted, ReadyListed, ClosedByOthers
  <1>7. CASE PeerConnects \/ PeerLeaves
    <2>1. PICK c \in Clients : /\ peer[c] \in {"away", "up"}
                               /\ peer' = [peer EXCEPT ![c] = IF peer[c] = "away" THEN "queued" ELSE "gone"]
      BY <1>7 DEF PeerConnects, PeerLeaves
    <2>2. UNCHANGED <<pc, r, wi, readsocks, writesocks, clients, open, turn, cut>>
      BY <1>7 DEF PeerConnects, PeerLeaves, lists
    <2>3. ToSet(clients) \subseteq Clients
      BY <1>0, RangeOfSeq DEF ServerTypeOK, ToSet
    <2>4. Accepted'  BY <1>0, <2>1, <2>2, <2>3 DEF Accepted, ServerTypeOK
    <2>5. ServerTypeOK'  BY <1>0, <2>1, <2>2 DEF ServerTypeOK
    <2>6. QED
      BY <1>0, <2>2, <2>4, <2>5 DEF Inv, ListsAgree, NoDoubleQuit,
         SelectFailsOnlyByBroadcast, ReadyListed, ClosedByOthers
  <1>8. CASE UNCHANGED serverVars
    BY <1>0, <1>8 DEF serverVars, lists, Inv, ServerTypeOK, ListsAgree, NoDoubleQuit,
       SelectFailsOnlyByBroadcast, Accepted, ReadyListed, ClosedByOthers
  <1>9. QED  BY <1>1, <1>2, <1>3, <1>4, <1>5, <1>6, <1>7, <1>8 DEF ServerNext, Serve

LEMMA Invariance == ServerSpec => []Inv
  BY InitInv, StepInv, PTL DEF ServerSpec

\* The types of the lists and of the loop's position.
THEOREM TypeCorrect == ServerSpec => []ServerTypeOK
  <1>1. Inv => ServerTypeOK  BY DEF Inv
  <1>2. QED  BY <1>1, Invariance, PTL

\* readsocks, writesocks and clients are the same list, without repetition, at every step
\* of either loop.
THEOREM ListsAlwaysAgree == ServerSpec => []ListsAgree
  <1>1. Inv => ListsAgree  BY DEF Inv
  <1>2. QED  BY <1>1, Invariance, PTL

\* handle_client_quit never meets a client that is not in the lists any more.
THEOREM RemovedOnce == ServerSpec => []NoDoubleQuit
  <1>1. Inv => NoDoubleQuit  BY DEF Inv
  <1>2. QED  BY <1>1, Invariance, PTL

\* Without broadcasts, serve_forever() never dies in select.
THEOREM OnlyBroadcastKills == ServerSpec => []SelectFailsOnlyByBroadcast
  <1>1. Inv => SelectFailsOnlyByBroadcast  BY DEF Inv
  <1>2. QED  BY <1>1, Invariance, PTL
=============================================================================
