-------------------------- MODULE Formats_proofs ---------------------------
(***************************************************************************)
(* The readers of bytes and text, for any savegame, any format and values, *)
(* and any revisions servers announce: a savegame is loaded as its writer  *)
(* laid it out, the layers of its map are whole when they are handled, and *)
(* what it wrote again is what it loaded; what pack_ext wrote is what      *)
(* unpack_ext reads, and the two raise where they may; a version is        *)
(* printed as it was parsed, and its number grows with it.  The readers of *)
(* bytes are followed by where they stand: the bytes of the parts lie one  *)
(* behind the other in what was written, and as many parts as have been    *)
(* read lie before the reader's place.  Text is followed from its front: a *)
(* numeral digit by digit, a text to be split by its characters.           *)
(***************************************************************************)
EXTENDS Savegame, Structz, VersionNumbers, SequenceTheorems, WellFoundedInduction, TLAPS

-----------------------------------------------------------------------------
(* Numbers, sequences, and where they lie in FlattenSeq                    *)

\* A set of numbers that is not empty has a least one.
LEMMA LeastNumber ==
  ASSUME NEW T \in SUBSET Nat, T # {}
  PROVE \E m \in T : \A k \in T : m <= k
<1>1. IsWellFoundedOn(OpToRel(<, Nat), Nat)
  BY NatLessThanWellFounded
<1>2. PICK x \in T : \A y \in T : ~ (<<y, x>> \in OpToRel(<, Nat))
  BY <1>1, WFMin
<1>3. \A y \in T : ~(y < x)
  BY <1>2 DEF OpToRel
<1>. QED BY <1>3

\* Induction up to a number.
LEMMA UpTo ==
  ASSUME NEW n \in Nat, NEW T, 0 \in T, \A i \in 0 .. n - 1 : i \in T => i + 1 \in T
  PROVE 0 .. n \subseteq T
<1> SUFFICES ASSUME (0 .. n) \ T # {} PROVE FALSE
  OBVIOUS
<1>1. (0 .. n) \ T \in SUBSET Nat OBVIOUS
<1>2. PICK m \in (0 .. n) \ T : \A k \in (0 .. n) \ T : m <= k
  BY <1>1, LeastNumber
<1>3. m - 1 \in 0 .. n - 1 /\ m - 1 \in T BY <1>2
<1>4. m - 1 + 1 \in T BY <1>3
<1> QED BY <1>2, <1>4

\* FlattenSeq
Flattens(s, f) == f = [i \in 1 .. Len(s) |-> IF i = 1 THEN s[i] ELSE f[i - 1] \o s[i]]

\* The function FlattenSeq chooses from exists.
LEMMA FlattenExists ==
  ASSUME NEW S, NEW s \in Seq(Seq(S)), s # <<>>
  PROVE \E f : Flattens(s, f)
<1> DEFINE G(n, g) == g = [i \in 1 .. n |-> IF i = 1 THEN s[i] ELSE g[i - 1] \o s[i]]
           T == {n \in Nat : n = 0 \/ \E g : G(n, g)}
<1>1. \E g : G(1, g)
  <2> DEFINE g == [i \in 1 .. 1 |-> s[1]]
  <2>1. \A i \in 1 .. 1 : s[1] = IF i = 1 THEN s[i] ELSE g[i - 1] \o s[i] OBVIOUS
  <2>2. G(1, g) BY <2>1
  <2> HIDE DEF g, G
  <2> QED BY <2>2
<1>2. ASSUME NEW n \in Nat, n \in T PROVE n + 1 \in T
  <2>1. CASE n = 0
    <3>1. n + 1 = 1 /\ n + 1 \in Nat BY <2>1
    <3> HIDE DEF G
    <3>2. \E g : G(n + 1, g) BY <1>1, <3>1
    <3> QED BY <3>1, <3>2
  <2>2. CASE n # 0
    <3>1. PICK g : G(n, g) BY <1>2, <2>2
    <3> DEFINE h == [i \in 1 .. n + 1 |-> IF i = n + 1 THEN g[n] \o s[n + 1] ELSE g[i]]
    <3>2. \A i \in 1 .. n : h[i] = g[i] OBVIOUS
    <3>3. ASSUME NEW i \in 1 .. n + 1 PROVE h[i] = IF i = 1 THEN s[i] ELSE h[i - 1] \o s[i]
      <4>1. CASE i = n + 1 
        <5>1. i # 1 /\ i - 1 = n /\ i - 1 \in 1 .. n BY <2>2, <4>1
        <5>2. h[i - 1] = g[n] BY <3>2, <5>1
        <5> QED BY <4>1, <5>1, <5>2
      <4>2. CASE i # n + 1
        <5>1. i \in 1 .. n BY <4>2
        <5>2. g[i] = IF i = 1 THEN s[i] ELSE g[i - 1] \o s[i] BY <3>1, <5>1
        <5>3. i # 1 => h[i - 1] = g[i - 1] BY <5>1, <3>2
        <5> HIDE DEF h
        <5> QED BY <5>1, <5>2, <5>3, <3>2
      <4> QED BY <4>1, <4>2
    <3>4. h = [i \in 1 .. n + 1 |-> IF i = 1 THEN s[i] ELSE h[i - 1] \o s[i]]
      BY <3>3
    <3>5. G(n + 1, h) BY <3>4
    <3> HIDE DEF h, G
    <3> QED BY <3>5
  <2> QED BY <2>1, <2>2
<1>3. 0 .. Len(s) \subseteq T
  <2>1. 0 \in T OBVIOUS
  <2>2. Len(s) \in Nat BY LenProperties
  <2>3. \A i \in 0 .. Len(s) - 1 : i \in T => i + 1 \in T BY <1>2, <2>2
  <2> HIDE DEF T
  <2> QED BY <2>1, <2>2, <2>3, UpTo
<1>4. Len(s) \in Nat \ {0} BY EmptySeq
<1>5. Len(s) \in T
  <2> HIDE DEF T
  <2> QED BY <1>3, <1>4
<1> QED BY <1>4, <1>5 DEF Flattens

\* What stands where in two sequences one behind the other.
LEMMA Concat ==
  ASSUME NEW S, NEW a \in Seq(S), NEW b \in Seq(S)
  PROVE /\ a \o b \in Seq(S)
        /\ Len(a) \in Nat /\ Len(b) \in Nat /\ Len(a \o b) = Len(a) + Len(b)
        /\ \A k \in 1 .. Len(a) : (a \o b)[k] = a[k]
        /\ \A k \in 1 .. Len(b) : (a \o b)[Len(a) + k] = b[k]
<1>1. Len(a) \in Nat /\ Len(b) \in Nat BY LenProperties
<1>2. /\ a \o b \in Seq(S) /\ Len(a \o b) = Len(a) + Len(b)
      /\ \A i \in 1 .. Len(a) + Len(b) : (a \o b)[i] = IF i <= Len(a) THEN a[i] ELSE b[i - Len(a)]
  BY ConcatProperties
<1>3. \A k \in 1 .. Len(a) : (a \o b)[k] = a[k] BY <1>1, <1>2
<1>4. ASSUME NEW k \in 1 .. Len(b) PROVE (a \o b)[Len(a) + k] = b[k]
  <2>1. Len(a) + k \in 1 .. Len(a) + Len(b) /\ ~(Len(a) + k <= Len(a)) /\ Len(a) + k - Len(a) = k BY <1>1
  <2> QED BY <1>2, <2>1
<1> QED BY <1>1, <1>2, <1>3, <1>4

\* The sequences in front of each place of a flattened one.
Beginnings(S, s, f) ==
  /\ f \in [0 .. Len(s) -> Seq(S)]
  /\ f[0] = <<>> /\ f[Len(s)] = FlattenSeq(s)
  /\ \A i \in 1 .. Len(s) : f[i] = f[i - 1] \o s[i]

\* Each beginning of a flattened sequence goes on with the next sequence.
LEMMA FlattenBeginnings ==
  ASSUME NEW S, NEW s \in Seq(Seq(S))
  PROVE \E f : Beginnings(S, s, f)
<1>1. Len(s) \in Nat /\ \A i \in 1 .. Len(s) : s[i] \in Seq(S)
  BY LenProperties, ElementOfSeq
<1>2. CASE s = <<>>
  <2> DEFINE f == [i \in {0} |-> <<>>]
  <2>1. Len(s) = 0 /\ FlattenSeq(s) = <<>> BY <1>2 DEF FlattenSeq
  <2>2. f \in [0 .. Len(s) -> Seq(S)] BY <2>1, EmptySeq
  <2>3. f[0] = <<>> OBVIOUS
  <2> HIDE DEF f
  <2> QED BY <2>1, <2>2, <2>3 DEF Beginnings
<1>3. CASE s # <<>>
  <2> DEFINE g == CHOOSE g : Flattens(s, g)
  <2>1. Flattens(s, g) BY <1>3, FlattenExists
  <2>2. Len(s) # 0 BY <1>3, EmptySeq
  <2>3. FlattenSeq(s) = g[Len(s)]
    BY <2>2 DEF FlattenSeq, Flattens
  <2> DEFINE T == {i \in Nat : i = 0 \/ g[i] \in Seq(S)}
  <2> HIDE DEF g
  <2>4. ASSUME NEW i \in 1 .. Len(s) PROVE g[i] = IF i = 1 THEN s[i] ELSE g[i - 1] \o s[i]
    BY <2>1 DEF Flattens
  <2>5. ASSUME NEW i \in 0 .. Len(s) - 1, i \in T PROVE i + 1 \in T
    <3>1. i + 1 \in 1 .. Len(s) /\ i + 1 \in Nat /\ i + 1 - 1 = i BY <1>1
    <3>2. CASE i = 0 BY <3>1, <3>2, <2>4, <1>1
    <3>3. CASE i # 0
      <4>1. g[i] \in Seq(S) BY <2>5, <3>3
      <4>2. g[i + 1] = g[i] \o s[i + 1]
        <5>1. i + 1 # 1 BY <3>3
        <5>2. g[i + 1] = IF i + 1 = 1 THEN s[i + 1] ELSE g[i + 1 - 1] \o s[i + 1] BY <3>1, <2>4
        <5> QED BY <3>1, <5>1, <5>2
      <4>3. g[i + 1] \in Seq(S) BY <4>1, <4>2, <3>1, <1>1, ConcatProperties
      <4> QED BY <4>3, <3>1
    <3> QED BY <3>2, <3>3
  <2>6. 0 .. Len(s) \subseteq T
    <3>1. 0 \in T OBVIOUS
    <3> HIDE DEF T
    <3> QED BY <3>1, <2>5, <1>1, UpTo
  <2> DEFINE f == [i \in 0 .. Len(s) |-> IF i = 0 THEN <<>> ELSE g[i]]
  <2>7. f \in [0 .. Len(s) -> Seq(S)] BY <2>6, EmptySeq
  <2>8. f[0] = <<>> /\ f[Len(s)] = g[Len(s)] BY <2>2, <1>1
  <2>9. ASSUME NEW i \in 1 .. Len(s) PROVE f[i] = f[i - 1] \o s[i]
    <3>1. i - 1 \in 0 .. Len(s) /\ i \in 0 .. Len(s) /\ s[i] \in Seq(S) BY <1>1
    <3>2. CASE i = 1
      <4>1. f[i - 1] = <<>> /\ f[i] = g[i] BY <3>1, <3>2
      <4>2. g[i] = s[i] BY <2>4, <3>2
      <4> HIDE DEF f
      <4>3. <<>> \o s[i] = s[i] BY <3>1, ConcatEmptySeq
      <4> QED BY <4>1, <4>2, <4>3
    <3>3. CASE i # 1
      <4>1. f[i - 1] = g[i - 1] /\ f[i] = g[i] BY <3>1, <3>3
      <4>2. g[i] = g[i - 1] \o s[i] BY <2>4, <3>3
      <4> HIDE DEF f
      <4> QED BY <4>1, <4>2
    <3> QED BY <3>2, <3>3
  <2> HIDE DEF f
  <2> QED BY <2>3, <2>7, <2>8, <2>9 DEF Beginnings
<1> QED BY <1>2, <1>3

\* Where the sequences lie in a flattened one.
Laid(s, pos) ==
  /\ pos \in [0 .. Len(s) -> Nat] /\ pos[0] = 0
  /\ \A i \in 1 .. Len(s) : pos[i] = pos[i - 1] + Len(s[i])
Starts(s) == CHOOSE pos : Laid(s, pos)

\* The sequences lie in one way only.
LEMMA LaidOnce ==
  ASSUME NEW S, NEW s \in Seq(Seq(S)), NEW p, NEW q, Laid(s, p), Laid(s, q)
  PROVE p = q
<1> DEFINE T == {i \in Nat : p[i] = q[i]}
<1>1. 0 \in T /\ Len(s) \in Nat BY LenProperties DEF Laid
<1>2. ASSUME NEW i \in 0 .. Len(s) - 1, i \in T PROVE i + 1 \in T
  <2>1. i + 1 \in 1 .. Len(s) /\ i + 1 \in Nat /\ i + 1 - 1 = i BY <1>1
  <2>2. p[i + 1] = p[i] + Len(s[i + 1]) /\ q[i + 1] = q[i] + Len(s[i + 1])
    BY <2>1 DEF Laid
  <2> QED BY <1>2, <2>1, <2>2
<1>3. 0 .. Len(s) \subseteq T
  <2> HIDE DEF T
  <2> QED BY <1>1, <1>2, UpTo
<1>4. \A i \in 0 .. Len(s) : p[i] = q[i] BY <1>3
<1>5. p \in [0 .. Len(s) -> Nat] /\ q \in [0 .. Len(s) -> Nat] BY DEF Laid
<1> QED BY <1>4, <1>5

\* A flattened sequence holds each of its sequences, where Starts says.
LEMMA Places ==
  ASSUME NEW S, NEW s \in Seq(Seq(S))
  PROVE /\ FlattenSeq(s) \in Seq(S)
        /\ Laid(s, Starts(s))
        /\ Len(FlattenSeq(s)) = Starts(s)[Len(s)]
        /\ \A i \in 1 .. Len(s) :
             /\ Starts(s)[i] <= Len(FlattenSeq(s))
             /\ \A k \in 1 .. Len(s[i]) : FlattenSeq(s)[Starts(s)[i - 1] + k] = s[i][k]
<1>1. PICK f : Beginnings(S, s, f) BY FlattenBeginnings
<1>2. Len(s) \in Nat /\ \A i \in 1 .. Len(s) : s[i] \in Seq(S) /\ Len(s[i]) \in Nat
  BY LenProperties, ElementOfSeq
<1> DEFINE pos == [i \in 0 .. Len(s) |-> Len(f[i])]
<1>3. \A i \in 0 .. Len(s) : f[i] \in Seq(S) /\ pos[i] = Len(f[i]) /\ Len(f[i]) \in Nat
  BY <1>1, LenProperties DEF Beginnings
<1>4. pos \in [0 .. Len(s) -> Nat] BY <1>3
<1> HIDE DEF pos
<1>5. ASSUME NEW i \in 1 .. Len(s)
      PROVE /\ pos[i] = pos[i - 1] + Len(s[i]) /\ pos[i - 1] \in Nat /\ pos[i] \in Nat /\ Len(s[i]) \in Nat
            /\ \A k \in 1 .. pos[i - 1] : f[i][k] = f[i - 1][k]
            /\ \A k \in 1 .. Len(s[i]) : f[i][pos[i - 1] + k] = s[i][k]
  <2>1. i - 1 \in 0 .. Len(s) /\ i \in 0 .. Len(s) BY <1>2
  <2>2. f[i] = f[i - 1] \o s[i] BY <1>1 DEF Beginnings
  <2>3. f[i - 1] \in Seq(S) /\ s[i] \in Seq(S) BY <1>2, <1>3, <2>1
  <2>4. pos[i - 1] = Len(f[i - 1]) /\ pos[i] = Len(f[i]) BY <1>3, <2>1
  <2> DEFINE a == f[i - 1]
             b == s[i]
             c == f[i]
  <2>5. c = a \o b /\ a \in Seq(S) /\ b \in Seq(S) BY <2>2, <2>3
  <2> HIDE DEF a, b, c
  <2>6. /\ Len(a) \in Nat /\ Len(b) \in Nat /\ Len(c) = Len(a) + Len(b)
        /\ \A k \in 1 .. Len(a) : c[k] = a[k]
        /\ \A k \in 1 .. Len(b) : c[Len(a) + k] = b[k]
    BY <2>5, Concat
  <2>7. pos[i - 1] = Len(a) /\ pos[i] = Len(c) BY <2>4 DEF a, c
  <2>8. pos[i] = pos[i - 1] + Len(b) /\ pos[i - 1] \in Nat /\ pos[i] \in Nat /\ Len(b) \in Nat
    BY <2>6, <2>7
  <2>9. \A k \in 1 .. pos[i - 1] : c[k] = a[k] BY <2>6, <2>7
  <2>10. \A k \in 1 .. Len(b) : c[pos[i - 1] + k] = b[k] BY <2>6, <2>7
  <2> QED BY <2>8, <2>9, <2>10 DEF a, b, c
<1>6. pos[0] = 0 BY <1>1, <1>3, <1>2, EmptySeq DEF Beginnings
<1>7. Laid(s, pos) BY <1>4, <1>5, <1>6 DEF Laid
<1>8. Starts(s) = pos BY <1>7, LaidOnce DEF Starts
<1> DEFINE T == {m \in Nat : \A i \in 1 .. m : i \in 1 .. Len(s) =>
                   /\ pos[i] <= pos[m]
                   /\ \A k \in 1 .. Len(s[i]) : f[m][pos[i - 1] + k] = s[i][k]}
<1>9. 0 .. Len(s) \subseteq T
  <2>1. 0 \in T OBVIOUS
  <2>2. ASSUME NEW m \in 0 .. Len(s) - 1, m \in T PROVE m + 1 \in T
    <3>1. m + 1 \in 1 .. Len(s) /\ m + 1 \in Nat /\ m + 1 - 1 = m /\ m \in 0 .. Len(s) BY <1>2
    <3>2. ASSUME NEW i \in 1 .. m + 1, i \in 1 .. Len(s)
          PROVE /\ pos[i] <= pos[m + 1]
                /\ \A k \in 1 .. Len(s[i]) : f[m + 1][pos[i - 1] + k] = s[i][k]
      <4>1. pos[m + 1] = pos[m] + Len(s[m + 1]) /\ pos[m] \in Nat /\ Len(s[m + 1]) \in Nat
        <5>1. pos[m + 1] = pos[m + 1 - 1] + Len(s[m + 1]) /\ pos[m + 1 - 1] \in Nat /\ Len(s[m + 1]) \in Nat
          BY <3>1, <1>5
        <5> QED BY <5>1, <3>1
      <4>2. CASE i = m + 1
        <5>1. \A k \in 1 .. Len(s[i]) : f[i][pos[i - 1] + k] = s[i][k] BY <1>5, <3>2
        <5>2. pos[i] \in Nat BY <1>5, <3>2
        <5> QED BY <5>1, <5>2, <4>2
      <4>3. CASE i # m + 1
        <5>1. i \in 1 .. m BY <4>3, <3>1
        <5>2. pos[i] <= pos[m] /\ \A k \in 1 .. Len(s[i]) : f[m][pos[i - 1] + k] = s[i][k]
          BY <5>1, <2>2, <3>2
        <5>3. pos[i] = pos[i - 1] + Len(s[i]) /\ pos[i - 1] \in Nat /\ Len(s[i]) \in Nat /\ pos[i] \in Nat
          BY <1>5, <3>2
        <5>4. ASSUME NEW k \in 1 .. Len(s[i]) PROVE f[m + 1][pos[i - 1] + k] = s[i][k]
          <6>1. pos[i - 1] + k \in 1 .. pos[m]
            <7>1. pos[i] <= pos[m] BY <5>2
            <7>2. pos[i - 1] + k <= pos[i] /\ pos[i - 1] + k >= 1 /\ pos[i - 1] + k \in Nat BY <5>3
            <7>3. pos[m] \in Nat /\ pos[i] \in Nat BY <4>1, <5>3
            <7> QED BY <7>1, <7>2, <7>3
          <6>2. f[m + 1][pos[i - 1] + k] = f[m][pos[i - 1] + k]
            <7>1. \A j \in 1 .. pos[m + 1 - 1] : f[m + 1][j] = f[m + 1 - 1][j] BY <3>1, <1>5
            <7> QED BY <6>1, <3>1, <7>1
          <6> QED BY <6>2, <5>2
        <5>5. pos[i] <= pos[m + 1] BY <5>2, <5>3, <4>1
        <5> QED BY <5>4, <5>5
      <4> QED BY <4>2, <4>3
    <3> QED BY <3>1, <3>2
  <2> HIDE DEF T
  <2> QED BY <2>1, <2>2, <1>2, UpTo
<1>10. f[Len(s)] = FlattenSeq(s) /\ pos[Len(s)] = Len(f[Len(s)]) /\ f[Len(s)] \in Seq(S)
  BY <1>1, <1>2, <1>3 DEF Beginnings
<1>11. \A i \in 1 .. Len(s) : pos[i] <= pos[Len(s)] /\ \A k \in 1 .. Len(s[i]) : f[Len(s)][pos[i - 1] + k] = s[i][k]
  <2>1. Len(s) \in T
    <3> HIDE DEF T
    <3> QED BY <1>2, <1>9
  <2> QED BY <2>1
<1> QED BY <1>7, <1>8, <1>10, <1>11

-----------------------------------------------------------------------------
(* savegame.py: the variable length numbers                                *)

\* The bounds of the variable length numbers, which the prover need not multiply out.
LEMMA Numbers ==
  /\ Two16 \in Nat /\ Two24 \in Nat /\ MaxGamma \in Nat
  /\ 64 * 256 < 32 * Two16 /\ 32 * Two16 < 16 * Two24 /\ 128 < 64 * 256
  BY DEF MaxGamma, Two24, Two16

\* The greatest number fits into four bytes less four bits.
LEMMA BelowMax ==
  ASSUME NEW n \in Nat
  PROVE n <= MaxGamma <=> n < 16 * Two24
  BY DEF MaxGamma, Two24, Two16

\* Such a number is below the bound of the longest form.
LEMMA GammaRange ==
  ASSUME NEW n \in 0 .. MaxGamma
  PROVE n \in Nat /\ n < 16 * Two24
<1>1. n \in Nat /\ n <= MaxGamma BY Numbers
<1>2. n < 16 * Two24 BY <1>1, BelowMax
<1> QED BY <1>1, <1>2

\* The first byte of a number says how many follow.
LEMMA GammaWrites ==
  ASSUME NEW n \in 0 .. MaxGamma
  PROVE /\ GammaBytes(n) \in Seq(Byte) /\ Len(GammaBytes(n)) \in 1 .. 4
        /\ Follow(GammaBytes(n)[1]) = Len(GammaBytes(n)) - 1
        /\ (Len(GammaBytes(n)) > 1 <=> n >= 128)
<1>0. n \in Nat /\ n < 16 * Two24 BY GammaRange
<1>1. CASE n < 128
  <2>1. GammaBytes(n) = <<n>> BY <1>1 DEF GammaBytes
  <2>2. n \in Byte BY <1>0, <1>1 DEF Byte, Two24, Two16
  <2> QED BY <2>1, <2>2, <1>1 DEF Follow
<1>2. CASE n >= 128 /\ n < 64 * 256
  <2> DEFINE a == n \div 256
             b == n % 256
  <2>1. GammaBytes(n) = <<128 + a, b>> BY <1>0, <1>2, Numbers DEF GammaBytes
  <2>2. 128 + a \in 128 .. 191 /\ b \in Byte BY <1>0, <1>2 DEF Byte, Two24, Two16
  <2> HIDE DEF a, b
  <2>3. 128 + a \in Byte BY <2>2 DEF Byte
  <2> QED BY <2>1, <2>2, <2>3, <1>2 DEF Follow
<1>3. CASE n >= 64 * 256 /\ n < 32 * Two16
  <2> DEFINE a == n \div Two16
             b == (n \div 256) % 256
             c == n % 256
  <2>1. GammaBytes(n) = <<192 + a, b, c>> BY <1>0, <1>3, Numbers DEF GammaBytes
  <2>2. 192 + a \in 192 .. 223 /\ b \in Byte /\ c \in Byte BY <1>0, <1>3 DEF Byte, Two24, Two16
  <2> HIDE DEF a, b, c
  <2>3. 192 + a \in Byte BY <2>2 DEF Byte
  <2> QED BY <2>1, <2>2, <2>3, <1>3 DEF Follow
<1>4. CASE n >= 32 * Two16
  <2> DEFINE a == n \div Two24
             b == (n \div Two16) % 256
             c == (n \div 256) % 256
             d == n % 256
  <2>1. GammaBytes(n) = <<224 + a, b, c, d>> BY <1>0, <1>4, Numbers DEF GammaBytes
  <2>2. 224 + a \in 224 .. 239 /\ b \in Byte /\ c \in Byte /\ d \in Byte BY <1>0, <1>4 DEF Byte, Two24, Two16
  <2> HIDE DEF a, b, c, d
  <2>3. 224 + a \in Byte BY <2>2 DEF Byte
  <2>4. n >= 128 BY <1>0, <1>4, Numbers
  <2>5. GammaBytes(n) \in Seq(Byte) BY <2>1, <2>2, <2>3
  <2>6. Len(GammaBytes(n)) = 4 /\ GammaBytes(n)[1] = 224 + a BY <2>1
  <2>7. Follow(224 + a) = 3 BY <2>2 DEF Follow
  <2> QED BY <2>4, <2>5, <2>6, <2>7
<1> QED BY <1>0, <1>1, <1>2, <1>3, <1>4, Numbers

\* The bytes of a gamma that lie at a place, as far as there are any.
LiesAt(bytes, at) == \A k \in 1 .. Len(bytes) : at + k <= Len(raw) => raw[at + k] = bytes[k]

\* A number that was written is read back, and its bytes are passed; when a byte of it is missing, it raises.
LEMMA GammaRead ==
  ASSUME NEW n \in 0 .. MaxGamma, NEW at \in Nat, raw \in Seq(Byte), LiesAt(GammaBytes(n), at)
  PROVE /\ GammaFits(at) <=> at + Len(GammaBytes(n)) <= Len(raw)
        /\ GammaFits(at) => GammaValue(at) = n /\ GammaNext(at) = at + Len(GammaBytes(n))
<1> DEFINE g == GammaBytes(n)
<1>0. n \in Nat /\ n < 16 * Two24 BY GammaRange
<1>1. /\ g \in Seq(Byte) /\ Len(g) \in 1 .. 4 /\ Follow(g[1]) = Len(g) - 1
  BY GammaWrites
<1>2. Len(raw) \in Nat BY LenProperties
<1>3. \A k \in 1 .. Len(g) : at + k <= Len(raw) => raw[at + k] = g[k] BY DEF LiesAt
<1>4. at < Len(raw) => At(at) = g[1]
  <2>1. at < Len(raw) => at + 1 <= Len(raw) BY <1>2
  <2> QED BY <1>1, <1>3, <2>1 DEF At
<1>5. GammaFits(at) <=> at + Len(g) <= Len(raw)
  <2> HIDE DEF g
  <2>1. CASE at < Len(raw)
    <3>1. Follow(At(at)) = Len(g) - 1 BY <1>1, <1>4, <2>1
    <3> DEFINE l == Len(g)
               r == Len(raw)
    <3>2. GammaFits(at) <=> l - 1 <= 3 /\ at + (l - 1) < r BY <3>1, <2>1 DEF GammaFits
    <3>3. l \in 1 .. 4 /\ r \in Nat BY <1>1, <1>2
    <3> HIDE DEF l, r
    <3>4. GammaFits(at) <=> at + l <= r BY <3>2, <3>3
    <3> QED BY <3>4 DEF l, r
  <2>2. CASE ~(at < Len(raw)) BY <1>1, <1>2, <2>2 DEF GammaFits
  <2> QED BY <2>1, <2>2
<1>6. ASSUME GammaFits(at) PROVE GammaValue(at) = n /\ GammaNext(at) = at + Len(g)
  <2>1. at + Len(g) <= Len(raw) /\ at < Len(raw) BY <1>5, <1>6 DEF GammaFits
  <2>2. \A k \in 1 .. Len(g) : raw[at + k] = g[k]
    <3> HIDE DEF g
    <3> QED BY <1>3, <2>1, <1>1, <1>2
  <2>3. Follow(At(at)) = Len(g) - 1 BY <1>1, <1>4, <2>1
  <2>4. GammaNext(at) = at + Len(g)
    <3> HIDE DEF g
    <3> QED BY <2>3, <1>1 DEF GammaNext
  <2>5. CASE n < 128
    <3>1. g = <<n>> BY <2>5 DEF GammaBytes
    <3>2. At(at) = n /\ Follow(At(at)) = 0 BY <3>1, <1>4, <2>1, <2>3
    <3> QED BY <3>2, <2>4 DEF GammaValue
  <2>6. CASE n >= 128 /\ n < 64 * 256
    <3> DEFINE a == n \div 256
               b == n % 256
    <3>1. g = <<128 + a, b>> BY <1>0, <2>6, Numbers DEF GammaBytes
    <3>2. a \in 0 .. 63 /\ n = a * 256 + b BY <1>0, <2>6 DEF Two24, Two16
    <3>3. Len(g) = 2 /\ g[1] = 128 + a /\ g[2] = b BY <3>1
    <3> HIDE DEF a, b, g
    <3>4. Follow(At(at)) = 1 BY <3>3, <2>3
    <3>5. At(at) = 128 + a /\ At(at + 1) = b
      <4>1. raw[at + 1] = g[1] /\ raw[at + 2] = g[2] BY <2>2, <3>3
      <4>2. at + 1 + 1 = at + 2 OBVIOUS
      <4> QED BY <4>1, <4>2, <3>3 DEF At
    <3>6. (128 + a) % 64 = a BY <3>2
    <3>7. GammaValue(at) = (At(at) % 64) * 256 + At(at + 1) BY <3>4 DEF GammaValue
    <3> QED BY <3>7, <3>6, <3>5, <3>2, <2>4
  <2>7. CASE n >= 64 * 256 /\ n < 32 * Two16
    <3> DEFINE a == n \div Two16
               b == (n \div 256) % 256
               c == n % 256
    <3>1. g = <<192 + a, b, c>> BY <1>0, <2>7, Numbers DEF GammaBytes
    <3>2. a \in 0 .. 31 /\ n = (a * 256 + b) * 256 + c BY <1>0, <2>7 DEF Two24, Two16
    <3>3. Len(g) = 3 /\ g[1] = 192 + a /\ g[2] = b /\ g[3] = c BY <3>1
    <3> HIDE DEF a, b, c, g
    <3>4. Follow(At(at)) = 2 BY <3>3, <2>3
    <3>5. At(at) = 192 + a /\ At(at + 1) = b /\ At(at + 2) = c
      <4>1. raw[at + 1] = g[1] /\ raw[at + 2] = g[2] /\ raw[at + 3] = g[3] BY <2>2, <3>3
      <4>2. at + 1 + 1 = at + 2 /\ at + 2 + 1 = at + 3 OBVIOUS
      <4> QED BY <4>1, <4>2, <3>3 DEF At
    <3>6. (192 + a) % 32 = a BY <3>2
    <3>7. GammaValue(at) = ((At(at) % 32) * 256 + At(at + 1)) * 256 + At(at + 2)
      BY <3>4 DEF GammaValue
    <3> QED BY <3>7, <3>6, <3>5, <3>2, <2>4
  <2>8. CASE n >= 32 * Two16
    <3> DEFINE a == n \div Two24
               b == (n \div Two16) % 256
               c == (n \div 256) % 256
               d == n % 256
    <3>1. g = <<224 + a, b, c, d>> BY <1>0, <2>8, Numbers DEF GammaBytes
    <3>2. a \in 0 .. 15 /\ n = ((a * 256 + b) * 256 + c) * 256 + d BY <1>0, <2>8 DEF Two24, Two16
    <3>3. Len(g) = 4 /\ g[1] = 224 + a /\ g[2] = b /\ g[3] = c /\ g[4] = d BY <3>1
    <3> HIDE DEF a, b, c, d, g
    <3>4. Follow(At(at)) = 3 BY <3>3, <2>3
    <3>5. At(at) = 224 + a /\ At(at + 1) = b /\ At(at + 2) = c /\ At(at + 3) = d
      <4>1. raw[at + 1] = g[1] /\ raw[at + 2] = g[2] /\ raw[at + 3] = g[3] /\ raw[at + 4] = g[4] BY <2>2, <3>3
      <4>2. at + 1 + 1 = at + 2 /\ at + 2 + 1 = at + 3 /\ at + 3 + 1 = at + 4 OBVIOUS
      <4> QED BY <4>1, <4>2, <3>3 DEF At
    <3>6. (224 + a) % 16 = a BY <3>2
    <3>7. GammaValue(at) = (((At(at) % 16) * 256 + At(at + 1)) * 256 + At(at + 2)) * 256 + At(at + 3)
      BY <3>4 DEF GammaValue
    <3> QED BY <3>7, <3>6, <3>5, <3>2, <2>4
  <2> QED BY <1>0, <2>5, <2>6, <2>7, <2>8, Numbers
<1> QED BY <1>5, <1>6

-----------------------------------------------------------------------------
(* savegame.py: what lies at a place                                       *)

\* What lies at a place holds its parts.
LEMMA LiesInTwo ==
  ASSUME NEW a \in Seq(Byte), NEW b \in Seq(Byte), NEW at \in Nat, raw \in Seq(Byte), LiesAt(a \o b, at)
  PROVE LiesAt(a, at) /\ LiesAt(b, at + Len(a))
<1> DEFINE ab == a \o b
<1>1. /\ Len(a) \in Nat /\ Len(b) \in Nat /\ Len(ab) = Len(a) + Len(b)
      /\ \A k \in 1 .. Len(a) : ab[k] = a[k]
      /\ \A k \in 1 .. Len(b) : ab[Len(a) + k] = b[k]
  BY Concat
<1>2. \A k \in 1 .. Len(ab) : at + k <= Len(raw) => raw[at + k] = ab[k] BY DEF LiesAt
<1> HIDE DEF ab
<1>3. \A k \in 1 .. Len(a) : k \in 1 .. Len(ab) BY <1>1
<1>4. LiesAt(a, at) BY <1>1, <1>2, <1>3 DEF LiesAt
<1>5. ASSUME NEW k \in 1 .. Len(b), at + Len(a) + k <= Len(raw) PROVE raw[at + Len(a) + k] = b[k]
  <2>1. Len(a) + k \in 1 .. Len(ab) BY <1>1
  <2>2. at + (Len(a) + k) = at + Len(a) + k BY <1>1
  <2>3. at + (Len(a) + k) <= Len(raw) => raw[at + (Len(a) + k)] = ab[Len(a) + k] BY <2>1, <1>2
  <2>4. ab[Len(a) + k] = b[k] BY <1>1
  <2> QED BY <2>2, <2>3, <2>4, <1>5
<1>6. LiesAt(b, at + Len(a)) BY <1>5 DEF LiesAt
<1> QED BY <1>4, <1>6

\* What lies in the data, and whole, is a slice of it.
LEMMA LiesWithin ==
  ASSUME NEW p \in Seq(Seq(Byte)), NEW at \in Nat, raw \in Seq(Byte), LiesAt(FlattenSeq(p), at),
         NEW i \in 1 .. Len(p)
  PROVE /\ LiesAt(p[i], at + Starts(p)[i - 1])
        /\ Starts(p)[i - 1] \in Nat /\ Starts(p)[i] = Starts(p)[i - 1] + Len(p[i])
<1> DEFINE f == FlattenSeq(p)
           pos == Starts(p)
<1>1. /\ f \in Seq(Byte) /\ Laid(p, pos)
      /\ \A j \in 1 .. Len(p) : pos[j] <= Len(f) /\ \A k \in 1 .. Len(p[j]) : f[pos[j - 1] + k] = p[j][k]
  BY Places
<1>2. \A k \in 1 .. Len(f) : at + k <= Len(raw) => raw[at + k] = f[k] BY DEF LiesAt
<1> HIDE DEF f, pos
<1>3. Len(p) \in Nat /\ p[i] \in Seq(Byte) /\ Len(f) \in Nat BY <1>1, LenProperties, ElementOfSeq
<1>4. Len(p[i]) \in Nat BY <1>3, LenProperties
<1>5. pos[i - 1] \in Nat /\ pos[i] = pos[i - 1] + Len(p[i])
  <2>1. i - 1 \in 0 .. Len(p) BY <1>3
  <2> QED BY <2>1, <1>1 DEF Laid
<1>6. ASSUME NEW k \in 1 .. Len(p[i]), at + pos[i - 1] + k <= Len(raw) PROVE raw[at + pos[i - 1] + k] = p[i][k]
  <2>1. pos[i] <= Len(f) /\ f[pos[i - 1] + k] = p[i][k] BY <1>1
  <2>2. pos[i - 1] + k \in 1 .. Len(f) BY <2>1, <1>3, <1>4, <1>5
  <2>3. at + (pos[i - 1] + k) = at + pos[i - 1] + k BY <1>5, <1>4
  <2>4. at + (pos[i - 1] + k) <= Len(raw) => raw[at + (pos[i - 1] + k)] = f[pos[i - 1] + k] BY <1>2, <2>2
  <2> QED BY <2>1, <2>3, <2>4, <1>6
<1>7. LiesAt(p[i], at + pos[i - 1]) BY <1>6 DEF LiesAt
<1> QED BY <1>5, <1>7 DEF pos

\* The slice of the data where bytes lie is these bytes.
LEMMA SliceIs ==
  ASSUME NEW d \in Seq(Byte), NEW from \in Nat, raw \in Seq(Byte), LiesAt(d, from), from + Len(d) <= Len(raw)
  PROVE Slice(from, from + Len(d)) = d
<1>1. Len(d) \in Nat /\ Len(raw) \in Nat BY LenProperties
<1> DEFINE l == Len(d)
           r == Len(raw)
           t == IF from + l < r THEN from + l ELSE r
           u == Slice(from, from + l)
<1>2. u = SubSeq(raw, from + 1, t) BY DEF Slice
<1>3. t = from + l BY <1>1
<1> HIDE DEF t, u, l, r
<1>4. \A i \in from + 1 .. from + l : i \in 1 .. r BY <1>1 DEF l, r
<1>5. /\ u \in Seq(Byte) /\ Len(u) = l
      /\ \A i \in 1 .. l : u[i] = raw[from + i]
  <2>1. \A i \in from + 1 .. from + l : raw[i] \in Byte BY <1>4, ElementOfSeq DEF r
  <2>2. from + 1 <= from + l + 1 /\ l \in Nat BY <1>1 DEF l
  <2>3. u = SubSeq(raw, from + 1, from + l) BY <1>2, <1>3
  <2>4. from + 1 \in Int /\ from + l \in Int BY <2>2
  <2>5. u \in Seq(Byte) /\ Len(u) = l /\ \A i \in 1 .. l : u[i] = raw[from + i]
    <3> DEFINE m == from + 1
               n == from + l
    <3>1. m \in Int /\ n \in Int /\ \A i \in m .. n : raw[i] \in Byte BY <2>1, <2>4
    <3> HIDE DEF m, n
    <3>2. /\ SubSeq(raw, m, n) \in Seq(Byte)
          /\ Len(SubSeq(raw, m, n)) = (IF m <= n THEN n - m + 1 ELSE 0)
          /\ \A i \in 1 .. n - m + 1 : SubSeq(raw, m, n)[i] = raw[m + i - 1]
      BY <3>1, SubSeqProperties
    <3>3. u = SubSeq(raw, m, n) BY <2>3 DEF m, n
    <3>4. /\ u \in Seq(Byte)
          /\ Len(u) = (IF m <= n THEN n - m + 1 ELSE 0)
          /\ \A i \in 1 .. n - m + 1 : u[i] = raw[m + i - 1]
      BY <3>2, <3>3
    <3>5. n - m + 1 = l /\ m \in Nat /\ n \in Nat /\ (m <= n <=> l # 0)
          /\ \A i \in 1 .. l : m + i - 1 = from + i
      BY <2>2 DEF m, n
    <3>6. Len(u) = l BY <3>4, <3>5, <2>2
    <3>7. \A i \in 1 .. l : u[i] = raw[from + i] BY <3>4, <3>5
    <3> QED BY <3>4, <3>6, <3>7
  <2> QED BY <2>5
<1>6. \A i \in 1 .. l : u[i] = d[i]
  <2> SUFFICES ASSUME NEW i \in 1 .. l PROVE u[i] = d[i] OBVIOUS
  <2>1. from + i <= r BY <1>1 DEF l, r
  <2> QED BY <2>1, <1>5 DEF LiesAt, l, r
<1>7. u = d BY <1>5, <1>6, SeqEqual DEF l
<1> QED BY <1>7 DEF u, l

-----------------------------------------------------------------------------
(* savegame.py: the shape of what is written                               *)

\* The shape of what is written.
LEMMA WordBytes ==
  ASSUME NEW n \in Nat, n < 16 * Two24
  PROVE /\ Word(n) \in Seq(Byte) /\ Len(Word(n)) = 4
        /\ Tail(Word(n)) \in Seq(Byte) /\ Len(Tail(Word(n))) = 3
        /\ n \div Two24 \in 0 .. 15
        /\ Tail(Word(n)) = <<(n \div Two16) % 256, (n \div 256) % 256, n % 256>>
        /\ n = (n \div Two24) * Two24 + ((n \div Two16) % 256) * Two16 + ((n \div 256) % 256) * 256 + (n % 256)
<1> DEFINE a == n \div Two24
           b == (n \div Two16) % 256
           c == (n \div 256) % 256
           d == n % 256
<1>1. a \in 0 .. 15 /\ b \in Byte /\ c \in Byte /\ d \in Byte BY DEF Byte, Two24, Two16
<1>2. n = a * Two24 + b * Two16 + c * 256 + d BY DEF Two24, Two16
<1>3. Word(n) = <<a, b, c, d>> BY DEF Word
<1> HIDE DEF a, b, c, d
<1>4. a \in Byte BY <1>1 DEF Byte
<1>5. Word(n) \in Seq(Byte) /\ Len(Word(n)) = 4 BY <1>1, <1>3, <1>4
<1>6. Tail(Word(n)) = <<b, c, d>>
  <2>1. /\ Tail(Word(n)) \in Seq(Byte) /\ Len(Tail(Word(n))) = 3
        /\ \A i \in 1 .. 3 : Tail(Word(n))[i] = Word(n)[i + 1]
    <3>1. Word(n) # <<>> BY <1>5, EmptySeq
    <3> DEFINE w == Word(n)
    <3>2. w \in Seq(Byte) /\ w # <<>> /\ Len(w) = 4 BY <3>1, <1>5
    <3> HIDE DEF w
    <3>3. /\ Tail(w) \in Seq(Byte) /\ Len(Tail(w)) = Len(w) - 1
          /\ \A i \in 1 .. Len(Tail(w)) : Tail(w)[i] = w[i + 1]
      BY <3>2, HeadTailProperties
    <3>4. Len(Tail(w)) = 3 BY <3>2, <3>3
    <3> QED BY <3>3, <3>4 DEF w
  <2> DEFINE t == Tail(Word(n))
             w == <<b, c, d>>
  <2>2. w \in Seq(Byte) /\ Len(w) = 3 /\ w[1] = b /\ w[2] = c /\ w[3] = d BY <1>1
  <2>3. t[1] = b /\ t[2] = c /\ t[3] = d
    <3>0. 1 \in 1 .. 3 /\ 2 \in 1 .. 3 /\ 3 \in 1 .. 3 /\ 1 + 1 = 2 /\ 2 + 1 = 3 /\ 3 + 1 = 4 OBVIOUS
    <3>1. t[1] = Word(n)[2] /\ t[2] = Word(n)[3] /\ t[3] = Word(n)[4]
      <4>1. t[1] = Word(n)[1 + 1] /\ t[2] = Word(n)[2 + 1] /\ t[3] = Word(n)[3 + 1] BY <2>1, <3>0
      <4> QED BY <4>1, <3>0
    <3> QED BY <3>1, <1>3
  <2> HIDE DEF t, w
  <2>4. t \in Seq(Byte) /\ Len(t) = 3 BY <2>1 DEF t
  <2>5. \A i \in 1 .. 3 : t[i] = w[i]
    <3>1. \A i \in 1 .. 3 : i = 1 \/ i = 2 \/ i = 3 OBVIOUS
    <3> QED BY <3>1, <2>2, <2>3
  <2>6. t = w BY <2>2, <2>4, <2>5, SeqEqual
  <2> QED BY <2>6 DEF t, w
<1>7. Tail(Word(n)) \in Seq(Byte) /\ Len(Tail(Word(n))) = 3
  <2>1. <<b, c, d>> \in Seq(Byte) /\ Len(<<b, c, d>>) = 3 BY <1>1
  <2> QED BY <2>1, <1>6
<1> QED BY <1>1, <1>2, <1>5, <1>6, <1>7 DEF a, b, c, d

ItemParts(c) == [j \in DOMAIN c.items |-> ItemBytes(c.type, c.items[j])]

\* An item is its length, its index if sparse, and its data.
LEMMA ItemShape ==
  ASSUME NEW c \in Chunk, WellFormed(c), NEW j \in DOMAIN c.items
  PROVE /\ c.items[j].data \in Seq(Byte) /\ Len(c.items[j].data) \in Nat /\ c.items[j].index \in 0 .. MaxGamma
        /\ Len(c.items[j].data) + 1 \in 0 .. MaxGamma
        /\ Len(c.items[j].data) + Len(GammaBytes(c.items[j].index)) + 1 \in 0 .. MaxGamma
        /\ ItemBytes(c.type, c.items[j]) \in Seq(Byte)
<1> DEFINE i == c.items[j]
           d == i.data
           x == i.index
<1>1. c.items \in Seq([index : 0 .. MaxGamma, data : Seq(Byte)]) BY DEF Chunk
<1>2. i \in [index : 0 .. MaxGamma, data : Seq(Byte)] BY <1>1, LenProperties, ElementOfSeq
<1>3. d \in Seq(Byte) /\ x \in 0 .. MaxGamma /\ Len(d) \in Nat BY <1>2
<1>4. Len(d) + 5 <= MaxGamma BY DEF WellFormed
<1> HIDE DEF d, x
<1>5. GammaBytes(x) \in Seq(Byte) /\ Len(GammaBytes(x)) \in 1 .. 4 BY <1>3, GammaWrites
<1> DEFINE p == Len(d) + 1
           q == Len(d) + Len(GammaBytes(x)) + 1
<1>6. p \in 0 .. MaxGamma /\ q \in 0 .. MaxGamma
  <2> DEFINE l == Len(d)
             g == Len(GammaBytes(x))
  <2>1. l \in Nat /\ g \in 1 .. 4 /\ l + 5 <= MaxGamma /\ MaxGamma \in Nat BY <1>3, <1>4, <1>5, Numbers DEF d
  <2> HIDE DEF l, g
  <2>2. l + 1 \in 0 .. MaxGamma /\ l + g + 1 \in 0 .. MaxGamma BY <2>1
  <2> QED BY <2>2 DEF l, g
<1>7. ItemBytes(c.type, i) = IF c.type = ARRAY THEN GammaBytes(p) \o d ELSE GammaBytes(q) \o GammaBytes(x) \o d
  BY DEF ItemBytes, d, x
<1> HIDE DEF i, p, q
<1>8. GammaBytes(p) \in Seq(Byte) /\ GammaBytes(q) \in Seq(Byte) BY <1>6, GammaWrites
<1>9. ItemBytes(c.type, i) \in Seq(Byte)
  <2>1. GammaBytes(p) \o d \in Seq(Byte) BY <1>3, <1>8, ConcatProperties
  <2>2. GammaBytes(q) \o GammaBytes(x) \in Seq(Byte) BY <1>5, <1>8, ConcatProperties
  <2>3. GammaBytes(q) \o GammaBytes(x) \o d \in Seq(Byte) BY <1>3, <2>2, ConcatProperties
  <2> QED BY <1>7, <2>1, <2>3
<1> QED BY <1>3, <1>6, <1>9 DEF i, d, x, p, q

\* Where a chunk's parts lie, from the place of the chunk.
Parted(c, at) ==
  /\ LiesAt(c.name, at)
  /\ c.type = RIFF =>
       /\ LiesAt(<<16 * (Len(c.items[1].data) \div Two24)>>, at + 4)
       /\ LiesAt(Tail(Word(Len(c.items[1].data))), at + 5) /\ LiesAt(c.items[1].data, at + 8)
  /\ c.type # RIFF =>
       /\ LiesAt(<<c.type>>, at + 4) /\ LiesAt(FlattenSeq(ItemParts(c)), at + 5)
       /\ LiesAt(<<0>>, at + 5 + Starts(ItemParts(c))[Len(c.items)])

\* A chunk is its name, its type and its items, with a 0 behind those of an array.
LEMMA ChunkShape ==
  ASSUME NEW c \in Chunk, WellFormed(c)
  PROVE /\ ItemParts(c) \in Seq(Seq(Byte)) /\ Len(ItemParts(c)) = Len(c.items)
        /\ ChunkBytes(c) \in Seq(Byte)
        /\ c.type = RIFF => Len(ChunkBytes(c)) = 8 + Len(c.items[1].data)
        /\ c.type # RIFF => Len(ChunkBytes(c)) = 6 + Starts(ItemParts(c))[Len(c.items)]
        /\ raw \in Seq(Byte) => \A at \in Nat : LiesAt(ChunkBytes(c), at) => Parted(c, at)
<1> DEFINE n == c.name
<1>1. n \in Seq(Byte) /\ Len(n) = 4 /\ c.type \in {RIFF, ARRAY, SPARSE} BY DEF Chunk, WellFormed
<1>2. c.items \in Seq([index : 0 .. MaxGamma, data : Seq(Byte)]) /\ Len(c.items) \in Nat
  BY LenProperties DEF Chunk
<1>3. /\ ItemParts(c) \in Seq(Seq(Byte)) /\ Len(ItemParts(c)) = Len(c.items)
  <2>1. DOMAIN c.items = 1 .. Len(c.items) BY <1>2, LenProperties
  <2>2. \A j \in 1 .. Len(c.items) : ItemBytes(c.type, c.items[j]) \in Seq(Byte) BY <2>1, ItemShape
  <2>3. ItemParts(c) = [j \in 1 .. Len(c.items) |-> ItemBytes(c.type, c.items[j])] BY <2>1 DEF ItemParts
  <2> QED BY <2>2, <2>3, <1>2
<1>4. CASE c.type = RIFF
  <2> DEFINE d == c.items[1].data
             b == 16 * (Len(d) \div Two24)
             t == Tail(Word(Len(d)))
             u == n \o <<b>>
             v == u \o t
  <2>1. Len(c.items) = 1 BY <1>4 DEF WellFormed
  <2>2. 1 \in DOMAIN c.items BY <2>1, <1>2, LenProperties
  <2>3. d \in Seq(Byte) /\ Len(d) \in Nat BY <2>2, ItemShape
  <2>4. Len(d) < 16 * Two24
    <3>1. Len(d) + 5 <= MaxGamma BY <2>2 DEF WellFormed
    <3> QED BY <2>3, <3>1, Numbers, BelowMax
  <2>5. t \in Seq(Byte) /\ Len(t) = 3 /\ Len(d) \div Two24 \in 0 .. 15 BY <2>3, <2>4, WordBytes
  <2>6. <<b>> \in Seq(Byte) /\ Len(<<b>>) = 1
    <3> DEFINE h == Len(d) \div Two24
    <3>0. h \in 0 .. 15 /\ b = 16 * h BY <2>5
    <3> HIDE DEF h, b
    <3>1. b \in Byte BY <3>0 DEF Byte
    <3> QED BY <3>1
  <2>7. ChunkBytes(c) = v \o d
    <3>1. RIFF + b = b BY <2>5 DEF RIFF
    <3>2. ChunkBytes(c) = n \o <<RIFF + b>> \o t \o d BY <1>4 DEF ChunkBytes
    <3> QED BY <3>1, <3>2
  <2> HIDE DEF n, d, b, t
  <2>8. u \in Seq(Byte) /\ Len(u) = 5
    <3>1. u \in Seq(Byte) /\ Len(u) = Len(n) + Len(<<b>>) BY <1>1, <2>6, Concat
    <3> QED BY <3>1, <1>1, <2>6
  <2>9. v \in Seq(Byte) /\ Len(v) = 8
    <3> HIDE DEF u
    <3>1. v \in Seq(Byte) /\ Len(v) = Len(u) + Len(t) BY <2>5, <2>8, Concat
    <3> QED BY <3>1, <2>5, <2>8
  <2>10. v \o d \in Seq(Byte) /\ Len(v \o d) = 8 + Len(d)
    <3> HIDE DEF v
    <3>1. v \o d \in Seq(Byte) /\ Len(v \o d) = Len(v) + Len(d) BY <2>3, <2>9, Concat
    <3> QED BY <3>1, <2>9
  <2>11. ASSUME raw \in Seq(Byte), NEW at \in Nat, LiesAt(v \o d, at)
         PROVE LiesAt(n, at) /\ LiesAt(<<b>>, at + 4) /\ LiesAt(t, at + 5) /\ LiesAt(d, at + 8)
    <3>1. LiesAt(v, at) /\ LiesAt(d, at + 8)
      <4> HIDE DEF v
      <4>1. LiesAt(v, at) /\ LiesAt(d, at + Len(v)) BY <2>3, <2>9, <2>11, LiesInTwo
      <4> QED BY <4>1, <2>9
    <3>2. LiesAt(u, at) /\ LiesAt(t, at + 5)
      <4> HIDE DEF u
      <4>1. LiesAt(u, at) /\ LiesAt(t, at + Len(u)) BY <2>5, <2>8, <2>11, <3>1, LiesInTwo
      <4> QED BY <4>1, <2>8
    <3>3. LiesAt(n, at) /\ LiesAt(<<b>>, at + 4)
      <4>1. LiesAt(n, at) /\ LiesAt(<<b>>, at + Len(n)) BY <1>1, <2>6, <2>11, <3>2, LiesInTwo
      <4> QED BY <4>1, <1>1
    <3> QED BY <3>1, <3>2, <3>3
  <2>12. \A at \in Nat : raw \in Seq(Byte) /\ LiesAt(v \o d, at) => Parted(c, at)
    BY <2>11, <1>4 DEF Parted, n, d, b, t
  <2> HIDE DEF v
  <2> QED BY <1>3, <1>4, <2>7, <2>10, <2>12 DEF d
<1>5. CASE c.type # RIFF
  <2> DEFINE f == FlattenSeq(ItemParts(c))
             t == c.type
             u == n \o <<t>>
             v == u \o f
             e == <<0>>
             l == Starts(ItemParts(c))[Len(c.items)]
  <2>1. f \in Seq(Byte) /\ Len(f) = l /\ Len(f) \in Nat
    <3>1. f \in Seq(Byte) /\ Len(f) = Starts(ItemParts(c))[Len(ItemParts(c))] BY <1>3, Places
    <3> QED BY <3>1, <1>3, LenProperties
  <2>2. <<t>> \in Seq(Byte) /\ Len(<<t>>) = 1 /\ e \in Seq(Byte) /\ Len(e) = 1
    BY <1>1 DEF Byte, RIFF, ARRAY, SPARSE
  <2>3. ChunkBytes(c) = v \o e BY <1>5 DEF ChunkBytes, ItemParts
  <2> HIDE DEF n, t, f, e, l
  <2>4. u \in Seq(Byte) /\ Len(u) = 5
    <3>1. u \in Seq(Byte) /\ Len(u) = Len(n) + Len(<<t>>) BY <1>1, <2>2, Concat
    <3> QED BY <3>1, <1>1, <2>2
  <2>5. v \in Seq(Byte) /\ Len(v) = 5 + l
    <3> HIDE DEF u
    <3>1. v \in Seq(Byte) /\ Len(v) = Len(u) + Len(f) BY <2>1, <2>4, Concat
    <3> QED BY <3>1, <2>1, <2>4
  <2>6. v \o e \in Seq(Byte) /\ Len(v \o e) = 6 + l
    <3> HIDE DEF v
    <3>1. v \o e \in Seq(Byte) /\ Len(v \o e) = Len(v) + Len(e) BY <2>2, <2>5, Concat
    <3> QED BY <3>1, <2>1, <2>2, <2>5
  <2>7. ASSUME raw \in Seq(Byte), NEW at \in Nat, LiesAt(v \o e, at)
        PROVE LiesAt(n, at) /\ LiesAt(<<t>>, at + 4) /\ LiesAt(f, at + 5) /\ LiesAt(e, at + 5 + l)
    <3>1. LiesAt(v, at) /\ LiesAt(e, at + 5 + l)
      <4> HIDE DEF v
      <4>1. LiesAt(v, at) /\ LiesAt(e, at + Len(v)) BY <2>2, <2>5, <2>7, LiesInTwo
      <4>2. at + Len(v) = at + 5 + l BY <2>1, <2>5
      <4> QED BY <4>1, <4>2
    <3>2. LiesAt(u, at) /\ LiesAt(f, at + 5)
      <4> HIDE DEF u
      <4>1. LiesAt(u, at) /\ LiesAt(f, at + Len(u)) BY <2>1, <2>4, <2>7, <3>1, LiesInTwo
      <4> QED BY <4>1, <2>4
    <3>3. LiesAt(n, at) /\ LiesAt(<<t>>, at + 4)
      <4>1. LiesAt(n, at) /\ LiesAt(<<t>>, at + Len(n)) BY <1>1, <2>2, <2>7, <3>2, LiesInTwo
      <4> QED BY <4>1, <1>1
    <3> QED BY <3>1, <3>2, <3>3
  <2>8. \A at \in Nat : raw \in Seq(Byte) /\ LiesAt(v \o e, at) => Parted(c, at)
    BY <2>7, <1>5 DEF Parted, n, t, f, e, l
  <2> HIDE DEF v
  <2> QED BY <1>3, <1>5, <2>3, <2>6, <2>8 DEF l
<1> QED BY <1>4, <1>5

Place(c, j) == Starts(ItemParts(c))[j]

\* Each item of a chunk that lies in the data lies in it.
LEMMA ItemLies ==
  ASSUME NEW c \in Chunk, WellFormed(c), c.type # RIFF, NEW at \in Nat, raw \in Seq(Byte), Parted(c, at),
         NEW j \in 1 .. Len(c.items)
  PROVE /\ Place(c, j - 1) \in Nat
        /\ LiesAt(ItemBytes(c.type, c.items[j]), at + 5 + Place(c, j - 1))
        /\ Place(c, j) = Place(c, j - 1) + Len(ItemBytes(c.type, c.items[j]))
<1> DEFINE p == ItemParts(c)
           b == ItemBytes(c.type, c.items[j])
<1>1. p \in Seq(Seq(Byte)) /\ Len(p) = Len(c.items) BY ChunkShape
<1>2. c.items \in Seq([index : 0 .. MaxGamma, data : Seq(Byte)]) BY DEF Chunk
<1>3. j \in DOMAIN c.items BY <1>2, LenProperties
<1>4. p[j] = b BY <1>3 DEF ItemParts
<1>5. LiesAt(FlattenSeq(p), at + 5) BY DEF Parted
<1>6. /\ LiesAt(p[j], at + 5 + Starts(p)[j - 1])
      /\ Starts(p)[j - 1] \in Nat /\ Starts(p)[j] = Starts(p)[j - 1] + Len(p[j])
  <2> HIDE DEF p
  <2>1. at + 5 \in Nat /\ j \in 1 .. Len(p) BY <1>1
  <2> QED BY <1>1, <1>5, <2>1, LiesWithin
<1> QED BY <1>4, <1>6 DEF Place

\* What a step reads of an array.
LEMMA ArrayLies ==
  ASSUME NEW c \in Chunk, WellFormed(c), c.type = ARRAY, NEW at \in Nat, raw \in Seq(Byte), Parted(c, at),
         NEW j \in 1 .. Len(c.items)
  PROVE LET d == c.items[j].data
            g == GammaBytes(Len(d) + 1)
            o == at + 5 + Place(c, j - 1)
        IN LiesAt(g, o) /\ LiesAt(d, o + Len(g)) /\ Place(c, j) = Place(c, j - 1) + Len(g) + Len(d)
<1> DEFINE d == c.items[j].data
           x == c.items[j].index
           b == ItemBytes(c.type, c.items[j])
           o == at + 5 + Place(c, j - 1)
<1>1. j \in DOMAIN c.items BY LenProperties DEF Chunk
<1>2. /\ d \in Seq(Byte) /\ Len(d) \in Nat /\ x \in 0 .. MaxGamma
      /\ Len(d) + 1 \in 0 .. MaxGamma /\ Len(d) + Len(GammaBytes(x)) + 1 \in 0 .. MaxGamma
  BY <1>1, ItemShape
<1>3. c.type # RIFF BY DEF RIFF, ARRAY, SPARSE
<1>4. /\ LiesAt(b, o) /\ Place(c, j - 1) \in Nat /\ Place(c, j) = Place(c, j - 1) + Len(b)
  BY <1>3, ItemLies
<1>5. o \in Nat BY <1>4
<1> DEFINE g == GammaBytes(Len(d) + 1)
<1>6. b = g \o d BY DEF ItemBytes
<1>7. g \in Seq(Byte) /\ Len(g) \in Nat BY <1>2, GammaWrites
<1> HIDE DEF g, b, o
<1>8. Len(b) = Len(g) + Len(d) BY <1>2, <1>6, <1>7, Concat
<1>9. LiesAt(g, o) /\ LiesAt(d, o + Len(g)) BY <1>2, <1>4, <1>5, <1>6, <1>7, LiesInTwo
<1>10. Place(c, j) = Place(c, j - 1) + Len(g) + Len(d) BY <1>2, <1>4, <1>7, <1>8
<1> QED BY <1>9, <1>10 DEF g, o

\* What a step reads of a sparse array.
LEMMA SparseLies ==
  ASSUME NEW c \in Chunk, WellFormed(c), c.type = SPARSE, NEW at \in Nat, raw \in Seq(Byte), Parted(c, at),
         NEW j \in 1 .. Len(c.items)
  PROVE LET d == c.items[j].data
            h == GammaBytes(c.items[j].index)
            g == GammaBytes(Len(d) + Len(h) + 1)
            o == at + 5 + Place(c, j - 1)
        IN /\ LiesAt(g, o) /\ LiesAt(h, o + Len(g)) /\ LiesAt(d, o + Len(g) + Len(h))
           /\ Place(c, j) = Place(c, j - 1) + Len(g) + Len(h) + Len(d)
<1> DEFINE d == c.items[j].data
           x == c.items[j].index
           b == ItemBytes(c.type, c.items[j])
           o == at + 5 + Place(c, j - 1)
<1>1. j \in DOMAIN c.items BY LenProperties DEF Chunk
<1>2. /\ d \in Seq(Byte) /\ Len(d) \in Nat /\ x \in 0 .. MaxGamma
      /\ Len(d) + 1 \in 0 .. MaxGamma /\ Len(d) + Len(GammaBytes(x)) + 1 \in 0 .. MaxGamma
  BY <1>1, ItemShape
<1>3. c.type # RIFF BY DEF RIFF, ARRAY, SPARSE
<1>4. /\ LiesAt(b, o) /\ Place(c, j - 1) \in Nat /\ Place(c, j) = Place(c, j - 1) + Len(b)
  BY <1>3, ItemLies
<1>5. o \in Nat BY <1>4
<1> DEFINE h == GammaBytes(x)
           g == GammaBytes(Len(d) + Len(h) + 1)
           gh == g \o h
<1>6. b = gh \o d BY DEF ItemBytes, ARRAY, SPARSE
<1>7. g \in Seq(Byte) /\ Len(g) \in Nat /\ h \in Seq(Byte) /\ Len(h) \in Nat
  <2>1. h \in Seq(Byte) /\ Len(h) \in Nat BY <1>2, GammaWrites
  <2>2. Len(d) + Len(h) + 1 \in 0 .. MaxGamma BY <1>2
  <2>3. g \in Seq(Byte) /\ Len(g) \in Nat
    <3> HIDE DEF h
    <3> DEFINE q == Len(d) + Len(h) + 1
    <3>1. q \in 0 .. MaxGamma BY <2>2
    <3> HIDE DEF q
    <3>2. GammaBytes(q) \in Seq(Byte) /\ Len(GammaBytes(q)) \in 1 .. 4 BY <3>1, GammaWrites
    <3>3. Len(GammaBytes(q)) \in Nat BY <3>2
    <3> QED BY <3>2, <3>3 DEF q
  <2> QED BY <2>1, <2>3
<1> HIDE DEF g, h, b, o, d
<1>8. gh \in Seq(Byte) /\ Len(gh) = Len(g) + Len(h) BY <1>7, Concat
<1>9. /\ Len(b) = Len(g) + Len(h) + Len(d)
      /\ LiesAt(gh, o) /\ LiesAt(d, o + Len(g) + Len(h))
  <2> HIDE DEF gh
  <2>1. Len(b) = Len(gh) + Len(d) BY <1>2, <1>6, <1>8, Concat
  <2>2. LiesAt(gh, o) /\ LiesAt(d, o + Len(gh)) BY <1>2, <1>4, <1>5, <1>6, <1>8, LiesInTwo
  <2>3. o + Len(gh) = o + Len(g) + Len(h) BY <1>4, <1>5, <1>7, <1>8
  <2> QED BY <2>1, <2>2, <2>3, <1>8
<1>10. LiesAt(g, o) /\ LiesAt(h, o + Len(g)) BY <1>4, <1>5, <1>7, <1>9, LiesInTwo
<1>11. Place(c, j) = Place(c, j - 1) + Len(g) + Len(h) + Len(d)
  <2> DEFINE k == Len(g)
             l == Len(h)
             m == Len(d)
             u == Place(c, j - 1)
  <2>1. /\ k \in Nat /\ l \in Nat /\ m \in Nat /\ u \in Nat
        /\ Len(b) = k + l + m /\ Place(c, j) = u + Len(b)
    BY <1>7, <1>9, <1>2, <1>4, <1>5
  <2> HIDE DEF k, l, m, u
  <2>2. Place(c, j) = u + k + l + m BY <2>1
  <2> QED BY <2>2 DEF k, l, m, u
<1>12. /\ LiesAt(g, o) /\ LiesAt(h, o + Len(g)) /\ LiesAt(d, o + Len(g) + Len(h))
      /\ Place(c, j) = Place(c, j - 1) + Len(g) + Len(h) + Len(d)
  BY <1>9, <1>10, <1>11
<1> QED BY <1>12 DEF g, h, o, d

-----------------------------------------------------------------------------
(* savegame.py: the file as a whole                                        *)

\* The file as a whole.
File(s) == [i \in DOMAIN s.chunks |-> ChunkBytes(s.chunks[i])]
Base(s, i) == Starts(File(s))[i]
RawOf(s) == SubSeq(Bytes(s), 1, Len(Bytes(s)) - s.cut)

\* The assumption on the savegames, for one of them.
LEMMA SavesMeant ==
  ASSUME NEW s \in Saves
  PROVE /\ s.chunks \in Seq(Chunk) /\ Len(s.chunks) \in Nat /\ DOMAIN s.chunks = 1 .. Len(s.chunks)
        /\ \A i \in 1 .. Len(s.chunks) : s.chunks[i] \in Chunk /\ WellFormed(s.chunks[i])
<1>1. s.chunks \in Seq(Chunk) /\ \A i \in DOMAIN s.chunks : WellFormed(s.chunks[i])
  BY SavesAssumption DEF SavesAssumption
<1>2. Len(s.chunks) \in Nat /\ DOMAIN s.chunks = 1 .. Len(s.chunks) BY <1>1, LenProperties
<1>3. \A i \in 1 .. Len(s.chunks) : s.chunks[i] \in Chunk BY <1>1, ElementOfSeq
<1> QED BY <1>1, <1>2, <1>3

\* A savegame is its header, its chunks and a 0.
LEMMA FileShape ==
  ASSUME NEW s \in Saves
  PROVE /\ Bytes(s) \in Seq(Byte) /\ Len(Bytes(s)) = Base(s, Len(s.chunks)) + 4
        /\ \A i \in 0 .. Len(s.chunks) : Base(s, i) \in Nat
        /\ Base(s, 0) = 0
        /\ \A i \in 1 .. Len(s.chunks) : Base(s, i) = Base(s, i - 1) + Len(ChunkBytes(s.chunks[i]))
        /\ raw = RawOf(s) =>
             /\ raw \in Seq(Byte) /\ Len(raw) = Len(Bytes(s)) - s.cut /\ s.cut \in Nat /\ Len(raw) \in Nat
             /\ \A i \in 1 .. Len(s.chunks) : Parted(s.chunks[i], Base(s, i - 1))
             /\ LiesAt(Word(0), Base(s, Len(s.chunks)))
<1> DEFINE f == File(s)
           n == Len(s.chunks)
           w == FlattenSeq(f)
           z == Word(0)
           pos == Starts(f)
<1>1. f \in Seq(Seq(Byte)) /\ Len(f) = n /\ n \in Nat /\ \A i \in 1 .. n : f[i] = ChunkBytes(s.chunks[i])
  <2>1. \A i \in 1 .. n : ChunkBytes(s.chunks[i]) \in Seq(Byte) BY SavesMeant, ChunkShape
  <2>2. f = [i \in 1 .. n |-> ChunkBytes(s.chunks[i])] BY SavesMeant DEF File
  <2>3. n \in Nat BY SavesMeant
  <2> HIDE DEF f, n
  <2> QED BY <2>1, <2>2, <2>3
<1>2. Bytes(s) = w \o z BY DEF Bytes, File
<1> HIDE DEF f, n
<1>3. /\ w \in Seq(Byte) /\ Laid(f, pos) /\ Len(w) = pos[n] BY <1>1, Places
<1>4. z \in Seq(Byte) /\ Len(z) = 4
  <2>1. 0 \in Nat /\ 0 < 16 * Two24 BY Numbers
  <2> QED BY <2>1, WordBytes
<1> HIDE DEF w, z, pos
<1>5. Bytes(s) \in Seq(Byte) /\ Len(Bytes(s)) = pos[n] + 4
  <2>1. w \o z \in Seq(Byte) /\ Len(w \o z) = Len(w) + Len(z) BY <1>3, <1>4, Concat
  <2>2. Len(w) + Len(z) = pos[n] + 4 BY <1>3, <1>4
  <2> QED BY <1>2, <2>1, <2>2
<1>6. \A i \in 0 .. n : pos[i] \in Nat BY <1>1, <1>3 DEF Laid
<1>7. pos[0] = 0 /\ \A i \in 1 .. n : pos[i] = pos[i - 1] + Len(ChunkBytes(s.chunks[i])) BY <1>1, <1>3 DEF Laid
<1>8. ASSUME raw = RawOf(s)
      PROVE /\ raw \in Seq(Byte) /\ Len(raw) = Len(Bytes(s)) - s.cut /\ s.cut \in Nat /\ Len(raw) \in Nat
            /\ LiesAt(Bytes(s), 0)
  <2> DEFINE a == Bytes(s)
             l == Len(a) - s.cut
  <2>1. s.cut \in 0 .. Len(a) BY SavesAssumption DEF SavesAssumption
  <2>2. a \in Seq(Byte) /\ Len(a) \in Nat BY <1>5, LenProperties
  <2>3. l \in Nat /\ l <= Len(a) BY <2>1, <2>2
  <2>4. raw = SubSeq(a, 1, l) BY <1>8 DEF RawOf
  <2> HIDE DEF a, l
  <2>5. 1 \in Int /\ l \in Int /\ \A i \in 1 .. l : a[i] \in Byte BY <2>2, <2>3, ElementOfSeq
  <2>6. /\ SubSeq(a, 1, l) \in Seq(Byte)
        /\ Len(SubSeq(a, 1, l)) = (IF 1 <= l THEN l - 1 + 1 ELSE 0)
        /\ \A i \in 1 .. l - 1 + 1 : SubSeq(a, 1, l)[i] = a[1 + i - 1]
    BY <2>5, SubSeqProperties
  <2>7. raw \in Seq(Byte) /\ Len(raw) = l BY <2>3, <2>4, <2>6
  <2>8. \A i \in 1 .. l : raw[i] = a[i]
    <3>1. l - 1 + 1 = l /\ \A i \in 1 .. l : 1 + i - 1 = i BY <2>3
    <3> QED BY <3>1, <2>4, <2>6
  <2>9. \A k \in 1 .. Len(a) : 0 + k <= Len(raw) => raw[0 + k] = a[k] BY <2>2, <2>3, <2>7, <2>8
  <2>10. LiesAt(a, 0) BY <2>9 DEF LiesAt
  <2> QED BY <2>1, <2>2, <2>3, <2>7, <2>10 DEF a, l
<1>9. ASSUME raw = RawOf(s)
      PROVE LiesAt(z, pos[n]) /\ \A i \in 1 .. n : Parted(s.chunks[i], pos[i - 1])
  <2>1. raw \in Seq(Byte) /\ LiesAt(w \o z, 0) BY <1>2, <1>8, <1>9
  <2>2. LiesAt(w, 0) /\ LiesAt(z, 0 + Len(w)) BY <1>3, <1>4, <2>1, LiesInTwo
  <2>3. 0 + Len(w) = pos[n] BY <1>1, <1>3, <1>6
  <2>4. ASSUME NEW i \in 1 .. n PROVE Parted(s.chunks[i], pos[i - 1])
    <3>1. i \in 1 .. Len(f) /\ LiesAt(FlattenSeq(f), 0) BY <1>1, <2>2 DEF w
    <3>2. LiesAt(f[i], 0 + Starts(f)[i - 1]) BY <1>1, <2>1, <3>1, LiesWithin
    <3>3. pos[i - 1] \in Nat BY <1>1, <1>6
    <3>4. LiesAt(ChunkBytes(s.chunks[i]), pos[i - 1]) BY <1>1, <3>2, <3>3 DEF pos
    <3>5. s.chunks[i] \in Chunk /\ WellFormed(s.chunks[i]) BY SavesMeant DEF n
    <3> QED BY <2>1, <3>3, <3>4, <3>5, ChunkShape
  <2> QED BY <2>2, <2>3, <2>4
<1> QED BY <1>5, <1>6, <1>7, <1>8, <1>9 DEF Base, pos, f, n, z

-----------------------------------------------------------------------------
(* savegame.py: what has been read                                         *)

\* What has been read.
ReadItems(c, j) ==
  IF c.type = ARRAY THEN [k \in 1 .. j |-> c.items[k].data]
  ELSE [x \in {c.items[k].index : k \in 1 .. j} |-> c.items[CHOOSE k \in 1 .. j : c.items[k].index = x].data]

\* Nothing has been read of the items in the beginning.
LEMMA ReadsNone ==
  ASSUME NEW c \in Chunk
  PROVE ReadItems(c, 0) = <<>>
<1>1. 1 .. 0 = {} OBVIOUS
<1>2. CASE c.type = ARRAY
  <2>1. ReadItems(c, 0) = [k \in 1 .. 0 |-> c.items[k].data] BY <1>2 DEF ReadItems
  <2> QED BY <2>1
<1>3. CASE c.type # ARRAY
  <2> DEFINE D == {c.items[k].index : k \in 1 .. 0}
  <2>1. D = {} BY <1>1
  <2>2. ReadItems(c, 0) = [x \in D |-> c.items[CHOOSE k \in 1 .. 0 : c.items[k].index = x].data] BY <1>3 DEF ReadItems
  <2> HIDE DEF D
  <2> QED BY <2>1, <2>2
<1> QED BY <1>2, <1>3

\* One item more has been read.
LEMMA ReadsNext ==
  ASSUME NEW c \in Chunk, WellFormed(c), NEW j \in 1 .. Len(c.items)
  PROVE /\ c.type = ARRAY => ReadItems(c, j) = Append(ReadItems(c, j - 1), c.items[j].data)
        /\ c.type = SPARSE => ReadItems(c, j) = With(ReadItems(c, j - 1), c.items[j].index, c.items[j].data)
<1>0. Len(c.items) \in Nat /\ DOMAIN c.items = 1 .. Len(c.items) BY LenProperties DEF Chunk
<1>1. ASSUME c.type = ARRAY PROVE ReadItems(c, j) = Append(ReadItems(c, j - 1), c.items[j].data)
  <2> DEFINE D(k) == c.items[k].data
             a == [k \in 1 .. j |-> D(k)]
             b == [k \in 1 .. j - 1 |-> D(k)]
             S == {D(k) : k \in 1 .. j}
  <2>1. ReadItems(c, j) = a /\ ReadItems(c, j - 1) = b BY <1>1 DEF ReadItems
  <2>2. j - 1 \in Nat /\ j \in Nat /\ \A k \in 1 .. j : D(k) \in S OBVIOUS
  <2> HIDE DEF S, D
  <2>3. a \in Seq(S) /\ b \in Seq(S) /\ Len(b) = j - 1 /\ Len(a) = j /\ D(j) \in S BY <2>2
  <2>4. /\ Append(b, D(j)) \in Seq(S) /\ Len(Append(b, D(j))) = j
        /\ \A k \in 1 .. j : a[k] = Append(b, D(j))[k]
    <3>1. Append(b, D(j)) \in Seq(S) /\ Len(Append(b, D(j))) = Len(b) + 1 BY <2>3, AppendProperties
    <3>2. \A k \in 1 .. Len(b) : Append(b, D(j))[k] = b[k] BY <2>3, AppendProperties
    <3>3. Append(b, D(j))[Len(b) + 1] = D(j) BY <2>3, AppendProperties
    <3>4. Len(b) + 1 = j BY <2>2, <2>3
    <3>5. ASSUME NEW k \in 1 .. j PROVE a[k] = Append(b, D(j))[k]
      <4>1. CASE k = j BY <4>1, <3>3, <3>4
      <4>2. CASE k # j
        <5>1. k \in 1 .. j - 1 BY <4>2, <2>2
        <5>2. Append(b, D(j))[k] = b[k] BY <5>1, <3>2, <2>3
        <5> QED BY <5>1, <5>2
      <4> QED BY <4>1, <4>2
    <3> QED BY <3>1, <3>4, <3>5
  <2> HIDE DEF a, b
  <2>5. a = Append(b, D(j)) BY <2>3, <2>4, SeqEqual
  <2> QED BY <2>1, <2>5 DEF D
<1>2. ASSUME c.type = SPARSE
      PROVE ReadItems(c, j) = With(ReadItems(c, j - 1), c.items[j].index, c.items[j].data)
  <2> DEFINE X(k) == c.items[k].index
             D(k) == c.items[k].data
             A(m) == {X(k) : k \in 1 .. m}
             K(m, x) == CHOOSE k \in 1 .. m : X(k) = x
             R(m) == [x \in A(m) |-> D(K(m, x))]
  <2>1. ReadItems(c, j) = R(j) /\ ReadItems(c, j - 1) = R(j - 1) BY <1>2 DEF ReadItems, SPARSE, ARRAY
  <2>2. \A k, l \in 1 .. j : X(k) = X(l) => k = l
    <3>1. \A k, l \in DOMAIN c.items : c.items[k].index = c.items[l].index => k = l BY <1>2 DEF WellFormed
    <3>2. \A k \in 1 .. j : k \in DOMAIN c.items BY <1>0
    <3> QED BY <3>1, <3>2
  <2> HIDE DEF X, D
  <2>3. A(j) = {X(j)} \cup A(j - 1)
    <3>1. 1 .. j = {j} \cup 1 .. j - 1 OBVIOUS
    <3> QED BY <3>1
  <2>4. \A x \in A(j) : K(j, x) \in 1 .. j /\ X(K(j, x)) = x OBVIOUS
  <2>5. \A x \in A(j - 1) : K(j - 1, x) \in 1 .. j - 1 /\ X(K(j - 1, x)) = x OBVIOUS
  <2> HIDE DEF K
  <2>6. X(j) \in A(j) /\ K(j, X(j)) = j
    <3>1. j \in 1 .. j /\ X(j) \in A(j) OBVIOUS
    <3> HIDE DEF A
    <3> QED BY <2>2, <2>4, <3>1
  <2>7. \A x \in A(j - 1) : K(j, x) = K(j - 1, x)
    <3>1. \A k \in 1 .. j - 1 : k \in 1 .. j OBVIOUS
    <3> SUFFICES ASSUME NEW x \in A(j - 1) PROVE K(j, x) = K(j - 1, x) OBVIOUS
    <3>2. x \in A(j) BY <2>3
    <3> HIDE DEF A
    <3>3. K(j, x) \in 1 .. j /\ X(K(j, x)) = x BY <2>4, <3>2
    <3>4. K(j - 1, x) \in 1 .. j /\ X(K(j - 1, x)) = x BY <2>5, <3>1
    <3> QED BY <2>2, <3>3, <3>4
  <2>8. X(j) \notin A(j - 1)
    <3>1. \A k \in 1 .. j - 1 : k \in 1 .. j /\ k # j OBVIOUS
    <3>2. \A k \in 1 .. j - 1 : X(k) # X(j) BY <2>2, <3>1
    <3> QED BY <3>2
  <2> DEFINE q == With(R(j - 1), X(j), D(j))
  <2>9. q = [x \in A(j - 1) \cup {X(j)} |-> IF x = X(j) THEN D(j) ELSE R(j - 1)[x]]
    <3> HIDE DEF A
    <3> QED BY DEF With
  <2> HIDE DEF A
  <2>10. ASSUME NEW x \in A(j) PROVE R(j)[x] = IF x = X(j) THEN D(j) ELSE R(j - 1)[x]
    <3>1. CASE x = X(j) BY <3>1, <2>6
    <3>2. CASE x # X(j)
      <4>1. x \in A(j - 1) BY <2>3, <3>2
      <4> QED BY <4>1, <2>7, <3>2
    <3> QED BY <3>1, <3>2
  <2>11. R(j) = q BY <2>3, <2>9, <2>10
  <2> HIDE DEF q, R
  <2>12. ReadItems(c, j) = q BY <2>1, <2>11
  <2> QED BY <2>1, <2>12 DEF q, X, D
<1> QED BY <1>1, <1>2

\* All items of a chunk.
LEMMA ReadsAll ==
  ASSUME NEW c \in Chunk, c.type # RIFF
  PROVE [name |-> c.name, type |-> c.type, items |-> ReadItems(c, Len(c.items))] = Read(c)
<1>1. DOMAIN c.items = 1 .. Len(c.items) BY LenProperties DEF Chunk
<1>2. c.type \in {ARRAY, SPARSE} BY DEF Chunk
<1>3. CASE c.type = ARRAY BY <1>1, <1>3 DEF Read, ReadItems, ARRAY, RIFF, SPARSE
<1>4. CASE c.type = SPARSE BY <1>1, <1>4 DEF Read, ReadItems, ARRAY, RIFF, SPARSE
<1> QED BY <1>2, <1>3, <1>4

Loads(s, n) == [i \in 1 .. n |-> Read(s.chunks[i])]

\* One chunk more has been loaded.
LEMMA LoadsNext ==
  ASSUME NEW s \in Saves, NEW n \in Nat
  PROVE Append(Loads(s, n), Read(s.chunks[n + 1])) = Loads(s, n + 1)
<1> DEFINE D(k) == Read(s.chunks[k])
           m == n + 1
           a == [k \in 1 .. m |-> D(k)]
           b == [k \in 1 .. n |-> D(k)]
           S == {D(k) : k \in 1 .. m}
<1>1. m \in Nat /\ n = m - 1 /\ \A k \in 1 .. m : D(k) \in S OBVIOUS
<1> HIDE DEF S, D
<1>2. a \in Seq(S) /\ b \in Seq(S) /\ Len(b) = n /\ Len(a) = m /\ D(m) \in S BY <1>1
<1>3. /\ Append(b, D(m)) \in Seq(S) /\ Len(Append(b, D(m))) = m
      /\ \A k \in 1 .. m : a[k] = Append(b, D(m))[k]
  <2>1. Append(b, D(m)) \in Seq(S) /\ Len(Append(b, D(m))) = Len(b) + 1 BY <1>2, AppendProperties
  <2>2. \A k \in 1 .. Len(b) : Append(b, D(m))[k] = b[k] BY <1>2, AppendProperties
  <2>3. Append(b, D(m))[Len(b) + 1] = D(m) BY <1>2, AppendProperties
  <2>4. Len(b) + 1 = m BY <1>2
  <2>5. ASSUME NEW k \in 1 .. m PROVE a[k] = Append(b, D(m))[k]
    <3>1. CASE k = m BY <3>1, <2>3, <2>4
    <3>2. CASE k # m
      <4>1. k \in 1 .. n BY <3>2
      <4>2. Append(b, D(m))[k] = b[k] BY <4>1, <2>2, <1>2
      <4> QED BY <4>1, <4>2
    <3> QED BY <3>1, <3>2
  <2> QED BY <2>1, <2>4, <2>5
<1> HIDE DEF a, b
<1>4. a = Append(b, D(m)) BY <1>2, <1>3, SeqEqual
<1> QED BY <1>4 DEF a, b, D, Loads

-----------------------------------------------------------------------------
(* savegame.py: the inductive invariant                                    *)

\* The reader is at a place of the writer's layout, and has what lies before it.
Phases == {"header", "id", "riff", "items", "handle", "done", "failed"}

FileInv ==
  /\ save \in Saves /\ phase \in Phases
  /\ phase = "header" => offset = 0 /\ chunks = <<>>
  /\ phase \notin {"header", "failed"} => raw = RawOf(save)

Upto(n) == chunks = Loads(save, n)

AtId(n) == phase = "id" /\ offset = Base(save, n) /\ (offset <= Len(raw) => Upto(n))
AtRiff(n) ==
  /\ phase = "riff" /\ n < Len(save.chunks) /\ save.chunks[n + 1].type = RIFF
  /\ name = save.chunks[n + 1].name /\ offset = Base(save, n) + 5
  /\ offset <= Len(raw) => Upto(n)
AtItem(n, j) ==
  /\ phase = "items" /\ n < Len(save.chunks) /\ j \in 0 .. Len(save.chunks[n + 1].items)
  /\ save.chunks[n + 1].type # RIFF /\ found = [type |-> save.chunks[n + 1].type, items |-> found.items]
  /\ name = save.chunks[n + 1].name /\ offset = Base(save, n) + 5 + Place(save.chunks[n + 1], j)
  /\ offset <= Len(raw) => Upto(n) /\ found.items = ReadItems(save.chunks[n + 1], j)

Loading == \E n \in 0 .. Len(save.chunks) : AtId(n) \/ AtRiff(n) \/ \E j \in Nat : AtItem(n, j)

LoadInv ==
  ~LongSparse =>
    /\ phase \in {"id", "riff", "items"} => Loading
    /\ Loaded => save.cut = 0 /\ Upto(Len(save.chunks))

\* The data stay what the file held.
LEMMA FileInvHolds == SaveSpec => []FileInv
<1>1. SaveInit => FileInv BY DEF SaveInit, SaveBegins, FileInv, Phases
<1>2. FileInv /\ [SaveNext]_saveVars => FileInv'
  <2> SUFFICES ASSUME FileInv, [SaveNext]_saveVars PROVE FileInv' OBVIOUS
  <2>1. CASE Uncompress
    BY <2>1 DEF FileInv, Uncompress, Fail, Phases, RawOf
  <2>2. CASE ReadId
    <3>1. phase' \in {"id", "riff", "items", "handle", "failed"} BY <2>2 DEF ReadId, Load, Fail
    <3>2. save' = save /\ raw' = raw /\ phase = "id" BY <2>2 DEF ReadId, Load, Fail
    <3> QED BY <3>1, <3>2 DEF FileInv, Phases
  <2>3. CASE ReadRiff
    <3>1. phase' \in {"id", "failed"} BY <2>3 DEF ReadRiff, End, Load, Fail
    <3>2. save' = save /\ raw' = raw /\ phase = "riff" BY <2>3 DEF ReadRiff, End, Load, Fail
    <3> QED BY <3>1, <3>2 DEF FileInv, Phases
  <2>4. CASE ReadArrayItem
    <3>1. phase' \in {"id", "items", "failed"} BY <2>4 DEF ReadArrayItem, End, Load, Fail
    <3>2. save' = save /\ raw' = raw /\ phase = "items" BY <2>4 DEF ReadArrayItem, End, Load, Fail
    <3> QED BY <3>1, <3>2 DEF FileInv, Phases
  <2>5. CASE ReadSparseItem
    <3>1. phase' \in {"id", "items", "failed"} BY <2>5 DEF ReadSparseItem, End, Load, Fail
    <3>2. save' = save /\ raw' = raw /\ phase = "items" BY <2>5 DEF ReadSparseItem, End, Load, Fail
    <3> QED BY <3>1, <3>2 DEF FileInv, Phases
  <2>6. CASE HandleChunk
    <3>1. phase' \in {"handle", "failed"} BY <2>6 DEF HandleChunk
    <3>2. save' = save /\ raw' = raw /\ phase = "handle" BY <2>6 DEF HandleChunk
    <3> QED BY <3>1, <3>2 DEF FileInv, Phases
  <2>7. CASE Recompress
    <3>1. phase' \in {"done", "failed"} BY <2>7 DEF Recompress
    <3>2. save' = save /\ raw' = raw /\ phase = "handle" BY <2>7 DEF Recompress
    <3> QED BY <3>1, <3>2 DEF FileInv, Phases
  <2>8. CASE UNCHANGED saveVars BY <2>8 DEF FileInv, saveVars
  <2> QED BY <2>1, <2>2, <2>3, <2>4, <2>5, <2>6, <2>7, <2>8 DEF SaveNext
<1> QED BY <1>1, <1>2, PTL DEF SaveSpec

\* The step that reads the id of a chunk.
LEMMA IdStep ==
  ASSUME FileInv, NEW n \in 0 .. Len(save.chunks), AtId(n), ReadId
  PROVE \/ phase' = "failed"
        \/ phase' = "handle" /\ save.cut = 0 /\ Upto(Len(save.chunks)) /\ UNCHANGED <<save, raw, chunks>>
        \/ UNCHANGED <<save, raw>> /\ (AtRiff(n)' \/ AtItem(n, 0)')
<1> DEFINE m == Len(save.chunks)
           c == save.chunks[n + 1]
           o == Base(save, n)
<1>1. /\ phase = "id" /\ offset = o /\ (offset <= Len(raw) => Upto(n)) BY DEF AtId
<1>2. save \in Saves /\ raw = RawOf(save) BY <1>1 DEF FileInv
<1>3. m \in Nat BY <1>2, SavesMeant
<1>4. /\ raw \in Seq(Byte) /\ Len(raw) = Base(save, m) + 4 - save.cut /\ save.cut \in Nat /\ Len(raw) \in Nat
      /\ o \in Nat /\ \A i \in 1 .. m : Parted(save.chunks[i], Base(save, i - 1))
      /\ LiesAt(Word(0), Base(save, m)) /\ Base(save, m) \in Nat
  BY <1>2, <1>3, FileShape
<1>5. Word(0) \in Seq(Byte) /\ Len(Word(0)) = 4
  <2>1. 0 \in Nat /\ 0 < 16 * Two24 BY Numbers
  <2> QED BY <2>1, WordBytes
<1>6. CASE ~Has(4) BY <1>1, <1>6 DEF ReadId, Fail
<1>7. CASE Has(4) /\ n = m
  <2>1. o + 4 <= Len(raw) BY <1>1, <1>7 DEF Has
  <2>2. save.cut = 0 BY <1>3, <1>4, <1>7, <2>1
  <2>3. Slice(offset, offset + 4) = Word(0)
    <3> DEFINE w == Word(0)
    <3>1. w \in Seq(Byte) /\ LiesAt(w, o) /\ o + Len(w) <= Len(raw) BY <1>4, <1>5, <1>7, <2>1
    <3> HIDE DEF w, o
    <3>2. Slice(o, o + Len(w)) = w BY <3>1, <1>4, SliceIs
    <3> QED BY <3>2, <1>1, <1>5 DEF w
  <2>4. Upto(m) BY <1>1, <1>4, <1>7, <2>1
  <2>5. phase' = "handle" /\ UNCHANGED <<save, raw, chunks>> BY <1>1, <1>7, <2>3 DEF ReadId, Load
  <2> QED BY <2>2, <2>4, <2>5
<1>8. CASE Has(4) /\ n # m
  <2>1. n \in Nat /\ n + 1 \in 1 .. m /\ n + 1 - 1 = n /\ n < m BY <1>3, <1>8
  <2>2. c \in Chunk /\ WellFormed(c) BY <1>2, <2>1, SavesMeant
  <2>3. Parted(c, o)
    <3>1. Parted(save.chunks[n + 1], Base(save, n + 1 - 1)) BY <1>4, <2>1
    <3> QED BY <3>1, <2>1
  <2>4. Slice(offset, offset + 4) = c.name /\ c.name # Word(0)
    <3> DEFINE w == c.name
    <3>0. o + 4 <= Len(raw) BY <1>1, <1>8 DEF Has
    <3>1. w \in Seq(Byte) /\ LiesAt(w, o) /\ Len(w) = 4 BY <2>2, <2>3 DEF Chunk, WellFormed, Parted
    <3>2. w # Word(0) BY <2>2 DEF WellFormed
    <3> HIDE DEF w, o
    <3>3. o + Len(w) <= Len(raw) BY <3>0, <3>1
    <3>4. Slice(o, o + Len(w)) = w BY <3>1, <3>3, <1>4, SliceIs
    <3> QED BY <3>1, <3>2, <3>4, <1>1 DEF w
  <2>5. CASE ~Has(5) BY <1>1, <1>8, <2>4, <2>5 DEF ReadId, Fail
  <2>6. CASE Has(5)
    <3>1. o + 5 <= Len(raw) /\ Upto(n)
      <4>1. o + 5 <= Len(raw) BY <1>1, <2>6 DEF Has
      <4> QED BY <4>1, <1>1, <1>4
    <3>2. name' = c.name /\ UNCHANGED <<save, raw, chunks>> BY <1>1, <1>8, <2>4, <2>6 DEF ReadId, Load
    <3> DEFINE b == IF c.type = RIFF THEN 16 * (Len(c.items[1].data) \div Two24) ELSE c.type
    <3>3. At(offset + 4) = b
      <4>1. LiesAt(<<b>>, o + 4) BY <2>3 DEF Parted
      <4> HIDE DEF b, o
      <4>2. o + 4 + 1 <= Len(raw) => raw[o + 4 + 1] = b BY <4>1 DEF LiesAt
      <4>3. o + 4 + 1 = o + 5 BY <1>4
      <4> QED BY <4>2, <4>3, <3>1, <1>1 DEF At
    <3>4. CASE c.type = RIFF
      <4>1. b \notin {ARRAY, SPARSE} /\ b % 16 = RIFF
        <5> DEFINE h == Len(c.items[1].data) \div Two24
                   d == c.items[1].data
        <5>1. 1 \in DOMAIN c.items /\ Len(c.items) = 1
          <6>1. c.items \in Seq([index : 0 .. MaxGamma, data : Seq(Byte)]) BY <2>2 DEF Chunk
          <6>2. Len(c.items) = 1 BY <2>2, <3>4 DEF WellFormed
          <6> QED BY <6>1, <6>2, LenProperties
        <5>2. Len(d) \in Nat /\ Len(d) + 5 <= MaxGamma BY <2>2, <5>1, ItemShape DEF WellFormed
        <5>3. Len(d) < 16 * Two24
          <6> DEFINE l == Len(d)
          <6>1. l \in Nat /\ l + 5 <= MaxGamma BY <5>2
          <6> HIDE DEF l
          <6>2. l <= MaxGamma BY <6>1, Numbers
          <6>3. l < 16 * Two24 BY <6>1, <6>2, BelowMax
          <6> QED BY <6>3 DEF l
        <5>4. h \in 0 .. 15 BY <5>2, <5>3, WordBytes
        <5>5. b = 16 * h BY <3>4
        <5> HIDE DEF h, b
        <5> QED BY <5>4, <5>5 DEF RIFF, ARRAY, SPARSE
      <4>2. phase' = "riff" /\ offset' = offset + 5
        <5> HIDE DEF b
        <5> QED BY <1>1, <1>8, <2>4, <2>6, <3>3, <4>1 DEF ReadId, Load
      <4>3. AtRiff(n)' BY <1>1, <2>1, <3>1, <3>2, <3>4, <4>2 DEF AtRiff, Upto
      <4> QED BY <4>3, <3>2
    <3>5. CASE c.type # RIFF
      <4>1. b = c.type /\ b \in {ARRAY, SPARSE} BY <2>2, <3>5 DEF Chunk
      <4>2. phase' = "items" /\ offset' = offset + 5 /\ found' = [type |-> c.type, items |-> <<>>]
        <5> HIDE DEF b
        <5> QED BY <1>1, <1>8, <2>4, <2>6, <3>3, <4>1 DEF ReadId, Load
      <4>3. Place(c, 0) = 0
        <5>1. Laid(ItemParts(c), Starts(ItemParts(c))) BY <2>2, ChunkShape, Places
        <5> QED BY <5>1 DEF Laid, Place
      <4>4. 0 \in 0 .. Len(c.items) BY <2>2, LenProperties DEF Chunk
      <4>5. ReadItems(c, 0) = <<>> BY <2>2, ReadsNone
      <4>6. offset' = o + 5 + Place(c, 0) BY <1>1, <1>4, <4>2, <4>3
      <4>7. AtItem(n, 0)' BY <1>1, <2>1, <3>1, <3>2, <3>5, <4>2, <4>4, <4>5, <4>6 DEF AtItem, Upto
      <4> QED BY <4>7, <3>2
    <3> QED BY <3>4, <3>5
  <2> QED BY <2>5, <2>6
<1> QED BY <1>6, <1>7, <1>8

\* The step that reads a chunk of one piece.
LEMMA RiffStep ==
  ASSUME FileInv, NEW n \in 0 .. Len(save.chunks), AtRiff(n), ReadRiff
  PROVE \/ phase' = "failed"
        \/ UNCHANGED <<save, raw>> /\ n + 1 \in 0 .. Len(save.chunks) /\ AtId(n + 1)'
<1> DEFINE m == Len(save.chunks)
           c == save.chunks[n + 1]
           o == Base(save, n)
           d == c.items[1].data
<1>1. /\ phase = "riff" /\ n < m /\ c.type = RIFF /\ name = c.name /\ offset = o + 5
      /\ (offset <= Len(raw) => Upto(n))
  BY DEF AtRiff
<1>2. save \in Saves /\ raw = RawOf(save) BY <1>1 DEF FileInv
<1>3. m \in Nat /\ n \in Nat /\ n + 1 \in 1 .. m /\ n + 1 - 1 = n BY <1>1, <1>2, SavesMeant
<1>4. /\ raw \in Seq(Byte) /\ Len(raw) \in Nat /\ o \in Nat /\ Parted(c, o)
      /\ Base(save, n + 1) = o + Len(ChunkBytes(c))
  <2>1. \A i \in 1 .. m : Parted(save.chunks[i], Base(save, i - 1)) /\ Base(save, i) = Base(save, i - 1) + Len(ChunkBytes(save.chunks[i]))
    BY <1>2, FileShape
  <2>2. Parted(c, Base(save, n + 1 - 1)) /\ Base(save, n + 1) = Base(save, n + 1 - 1) + Len(ChunkBytes(c))
    BY <2>1, <1>3
  <2> QED BY <2>2, <1>2, <1>3, FileShape
<1>5. c \in Chunk /\ WellFormed(c) BY <1>2, <1>3, SavesMeant
<1>6. CASE ~Has(3) BY <1>1, <1>6 DEF ReadRiff, Fail
<1>7. CASE Has(3)
  <2> DEFINE l == Len(d)
             h == l \div Two24
             x == (l \div Two16) % 256
             y == (l \div 256) % 256
             z == l % 256
  <2>1. d \in Seq(Byte) /\ l \in Nat /\ l < 16 * Two24
    <3>1. 1 \in DOMAIN c.items
      <4>1. c.items \in Seq([index : 0 .. MaxGamma, data : Seq(Byte)]) BY <1>5 DEF Chunk
      <4>2. Len(c.items) = 1 BY <1>1, <1>5 DEF WellFormed
      <4> QED BY <4>1, <4>2, LenProperties
    <3>2. d \in Seq(Byte) /\ l \in Nat /\ l + 5 <= MaxGamma BY <1>5, <3>1, ItemShape DEF WellFormed
    <3> HIDE DEF l
    <3>3. l <= MaxGamma BY <3>2, Numbers
    <3> QED BY <3>2, <3>3, BelowMax
  <2>2. /\ h \in 0 .. 15 /\ l = h * Two24 + x * Two16 + y * 256 + z /\ Tail(Word(l)) = <<x, y, z>>
    <3>1. \A k \in Nat : k < 16 * Two24 =>
            /\ k \div Two24 \in 0 .. 15 /\ Tail(Word(k)) = <<(k \div Two16) % 256, (k \div 256) % 256, k % 256>>
            /\ k = (k \div Two24) * Two24 + ((k \div Two16) % 256) * Two16 + ((k \div 256) % 256) * 256 + (k % 256)
      BY WordBytes
    <3> HIDE DEF d
    <3> QED BY <2>1, <3>1
  <2>3. o + 8 <= Len(raw) /\ Upto(n)
    <3>1. o + 5 + 3 <= Len(raw) BY <1>1, <1>7 DEF Has
    <3> QED BY <3>1, <1>1, <1>4
  <2>4. LiesAt(<<16 * h>>, o + 4) /\ LiesAt(<<x, y, z>>, o + 5) /\ LiesAt(d, o + 8)
    BY <1>1, <1>4, <2>2 DEF Parted
  <2>5. Len(ChunkBytes(c)) = 8 + l BY <1>1, <1>5, ChunkShape
  <2> HIDE DEF h, x, y, z, o, d, l
  <2>6. At(offset - 1) = 16 * h /\ At(offset) = x /\ At(offset + 1) = y /\ At(offset + 2) = z
    <3>1. o + 4 + 1 <= Len(raw) => raw[o + 4 + 1] = 16 * h BY <2>4 DEF LiesAt
    <3>2. \A k \in 1 .. 3 : o + 5 + k <= Len(raw) => raw[o + 5 + k] = <<x, y, z>>[k] BY <2>4 DEF LiesAt
    <3>3. raw[o + 4 + 1] = 16 * h /\ raw[o + 5 + 1] = x /\ raw[o + 5 + 2] = y /\ raw[o + 5 + 3] = z
      BY <3>1, <3>2, <2>3, <1>4
    <3>4. offset - 1 + 1 = o + 4 + 1 /\ offset + 1 = o + 5 + 1 /\ offset + 1 + 1 = o + 5 + 2 /\ offset + 2 + 1 = o + 5 + 3
      BY <1>1, <1>4
    <3> QED BY <3>3, <3>4 DEF At
  <2>7. (16 * h) \div 16 = h BY <2>2
  <2> DEFINE leng == (At(offset - 1) \div 16) * Two24 + At(offset) * Two16 + At(offset + 1) * 256 + At(offset + 2)
             end == offset + 3 + leng
             what == [type |-> RIFF, items |-> Slice(offset + 3, end)]
  <2>8. leng = l BY <2>2, <2>6, <2>7
  <2>9. End(end, what) BY <1>7 DEF ReadRiff
  <2>10. end = o + 8 + l /\ offset + 3 = o + 8 BY <1>1, <1>4, <2>1, <2>8
  <2>11. o + 8 + l <= Len(raw) => Slice(o + 8, o + 8 + l) = d
    <3>1. o + 8 \in Nat BY <1>4
    <3> QED BY <3>1, <1>4, <2>1, <2>4, SliceIs DEF l
  <2> HIDE DEF leng
  <2>12. end <= Len(raw) => what.items = d BY <2>10, <2>11
  <2> HIDE DEF end
  <2>13. /\ phase' = "id" /\ offset' = end /\ UNCHANGED <<save, raw>>
         /\ chunks' = Append(chunks, [name |-> c.name, type |-> RIFF, items |-> what.items])
    BY <2>9, <1>1 DEF End, Load
  <2> HIDE DEF what
  <2>14. offset' = Base(save, n + 1)
    <3>1. o + (8 + l) = o + 8 + l BY <1>4, <2>1
    <3> QED BY <3>1, <1>4, <2>5, <2>10, <2>13 DEF o
  <2>15. end <= Len(raw) => chunks' = Loads(save, n + 1)
    <3>1. Read(c) = [name |-> c.name, type |-> RIFF, items |-> d] BY <1>1 DEF Read, d, RIFF, ARRAY, SPARSE
    <3>2. chunks = Loads(save, n) BY <2>3 DEF Upto
    <3>3. Append(Loads(save, n), Read(c)) = Loads(save, n + 1) BY <1>2, <1>3, LoadsNext
    <3> HIDE DEF c
    <3> QED BY <2>12, <2>13, <3>1, <3>2, <3>3
  <2>16. AtId(n + 1)' BY <2>13, <2>14, <2>15 DEF AtId, Upto
  <2> QED BY <2>13, <2>16, <1>3
<1> QED BY <1>6, <1>7

\* A length of 0.
LEMMA ReadsZero ==
  ASSUME NEW at \in Nat, raw \in Seq(Byte), LiesAt(<< 0 >>, at), GammaFits(at)
  PROVE GammaValue(at) = 0 /\ GammaNext(at) = at + 1 /\ at + 1 <= Len(raw)
<1>1. 0 \in 0 .. MaxGamma BY Numbers
<1>2. GammaBytes(0) = <<0>> BY DEF GammaBytes
<1>3. Len(<<0>>) = 1 OBVIOUS
<1>4. LiesAt(GammaBytes(0), at) BY <1>2
<1> QED BY <1>1, <1>2, <1>3, <1>4, GammaRead

\* What a step on an item knows of its place.
LEMMA ItemPlace ==
  ASSUME FileInv, NEW n \in 0 .. Len(save.chunks), NEW j \in Nat, AtItem(n, j),
         NEW c, NEW o, c = save.chunks[n + 1], o = Base(save, n)
  PROVE /\ save \in Saves /\ c \in Chunk /\ WellFormed(c) /\ c.type # RIFF /\ found.type = c.type
        /\ n \in Nat /\ n + 1 \in 0 .. Len(save.chunks) /\ n + 1 \in DOMAIN save.chunks
        /\ raw \in Seq(Byte) /\ Len(raw) \in Nat /\ o \in Nat /\ Parted(c, o)
        /\ Base(save, n + 1) = o + 6 + Place(c, Len(c.items)) /\ Len(c.items) \in Nat
        /\ Place(c, j) \in Nat /\ offset = o + 5 + Place(c, j) /\ offset \in Nat
        /\ j = Len(c.items) => LiesAt(<<0>>, offset)
<1> DEFINE m == Len(save.chunks)
<1>1. /\ phase = "items" /\ n < m /\ j \in 0 .. Len(c.items) /\ c.type # RIFF /\ found.type = c.type
      /\ offset = o + 5 + Place(c, j)
  BY DEF AtItem
<1>2. save \in Saves /\ raw = RawOf(save) BY <1>1 DEF FileInv
<1>3. m \in Nat /\ n \in Nat /\ n + 1 \in 1 .. m /\ n + 1 - 1 = n BY <1>1, <1>2, SavesMeant
<1>4. /\ raw \in Seq(Byte) /\ Len(raw) \in Nat /\ o \in Nat /\ Parted(c, o)
      /\ Base(save, n + 1) = o + Len(ChunkBytes(c))
  <2>1. \A i \in 1 .. m : Parted(save.chunks[i], Base(save, i - 1)) /\ Base(save, i) = Base(save, i - 1) + Len(ChunkBytes(save.chunks[i]))
    BY <1>2, FileShape
  <2>2. Parted(c, Base(save, n + 1 - 1)) /\ Base(save, n + 1) = Base(save, n + 1 - 1) + Len(ChunkBytes(c))
    BY <2>1, <1>3
  <2> QED BY <2>2, <1>2, <1>3, FileShape
<1>5. c \in Chunk /\ WellFormed(c) BY <1>2, <1>3, SavesMeant
<1>6. Len(c.items) \in Nat BY <1>5, LenProperties DEF Chunk
<1>7. \A i \in 0 .. Len(c.items) : Place(c, i) \in Nat
  <2>1. ItemParts(c) \in Seq(Seq(Byte)) /\ Len(ItemParts(c)) = Len(c.items) BY <1>5, ChunkShape
  <2>2. Laid(ItemParts(c), Starts(ItemParts(c))) BY <2>1, Places
  <2> QED BY <2>1, <2>2 DEF Laid, Place
<1>8. Base(save, n + 1) = o + 6 + Place(c, Len(c.items))
  <2>1. Len(ChunkBytes(c)) = 6 + Place(c, Len(c.items)) BY <1>1, <1>5, ChunkShape DEF Place
  <2>2. Place(c, Len(c.items)) \in Nat BY <1>6, <1>7
  <2> QED BY <1>4, <2>1, <2>2
<1>9. j = Len(c.items) => LiesAt(<<0>>, offset) BY <1>1, <1>4 DEF Parted, Place
<1>10. Place(c, j) \in Nat /\ offset \in Nat BY <1>1, <1>4, <1>7
<1>11. n + 1 \in 0 .. m /\ n + 1 \in DOMAIN save.chunks BY <1>2, <1>3, SavesMeant
<1> QED BY <1>1, <1>2, <1>3, <1>4, <1>5, <1>6, <1>8, <1>9, <1>10, <1>11

\* The 0 behind the items ends a chunk.
LEMMA ItemsEnd ==
  ASSUME FileInv, NEW n \in 0 .. Len(save.chunks), NEW j \in Nat, AtItem(n, j),
         j = Len(save.chunks[n + 1].items), offset + 1 <= Len(raw), End(offset + 1, found)
  PROVE UNCHANGED <<save, raw>> /\ n + 1 \in 0 .. Len(save.chunks) /\ AtId(n + 1)'
<1> DEFINE c == save.chunks[n + 1]
           o == Base(save, n)
<1>1. /\ save \in Saves /\ c \in Chunk /\ WellFormed(c) /\ c.type # RIFF /\ found.type = c.type
      /\ n \in Nat /\ n + 1 \in 0 .. Len(save.chunks) /\ n + 1 \in DOMAIN save.chunks
      /\ raw \in Seq(Byte) /\ Len(raw) \in Nat /\ o \in Nat /\ Parted(c, o)
      /\ Base(save, n + 1) = o + 6 + Place(c, Len(c.items)) /\ Len(c.items) \in Nat
      /\ Place(c, j) \in Nat /\ offset = o + 5 + Place(c, j) /\ offset \in Nat
  BY ItemPlace
<1>2. Upto(n) /\ found.items = ReadItems(c, j) /\ name = c.name
  <2>1. offset <= Len(raw) BY <1>1
  <2> QED BY <2>1 DEF AtItem
<1>3. /\ phase' = "id" /\ offset' = offset + 1 /\ UNCHANGED <<save, raw>>
      /\ chunks' = Append(chunks, [name |-> name, type |-> found.type, items |-> found.items])
  BY DEF End, Load
<1>4. offset' = Base(save, n + 1) BY <1>1, <1>3
<1>5. chunks' = Loads(save, n + 1)
  <2>1. [name |-> name, type |-> found.type, items |-> found.items] = Read(c) BY <1>1, <1>2, ReadsAll
  <2>2. Append(Loads(save, n), Read(c)) = Loads(save, n + 1) BY <1>1, LoadsNext
  <2> QED BY <1>2, <1>3, <2>1, <2>2 DEF Upto
<1>6. AtId(n + 1)' BY <1>3, <1>4, <1>5 DEF AtId, Upto
<1> QED BY <1>1, <1>3, <1>6

\* A length that is not 0 begins an item.
LEMMA ItemsGoOn ==
  ASSUME FileInv, NEW n \in 0 .. Len(save.chunks), NEW j \in Nat, AtItem(n, j),
         NEW c, c = save.chunks[n + 1], j # Len(c.items), NEW to, NEW items,
         to = Base(save, n) + 5 + Place(c, j + 1), to <= Len(raw) => items = ReadItems(c, j + 1),
         Load(to, "items", [found EXCEPT !.items = items]), UNCHANGED <<name, chunks>>,
         offset <= Len(raw)
  PROVE UNCHANGED <<save, raw>> /\ AtItem(n, j + 1)'
<1>1. /\ found = [type |-> c.type, items |-> found.items] /\ Upto(n) /\ name = c.name /\ j \in 0 .. Len(c.items) /\ Len(c.items) \in Nat
      /\ n < Len(save.chunks) /\ c.type # RIFF
  BY ItemPlace DEF AtItem
<1>2. j + 1 \in 0 .. Len(c.items) BY <1>1
<1>3. /\ phase' = "items" /\ offset' = to /\ UNCHANGED <<save, raw>>
      /\ found' = [type |-> c.type, items |-> items]
  BY <1>1 DEF Load
<1> QED BY <1>1, <1>2, <1>3 DEF AtItem, Upto

\* The step that reads an item of an array.
LEMMA ArrayStep ==
  ASSUME FileInv, NEW n \in 0 .. Len(save.chunks), NEW j \in Nat, AtItem(n, j), ReadArrayItem
  PROVE \/ phase' = "failed"
        \/ UNCHANGED <<save, raw>> /\ n + 1 \in 0 .. Len(save.chunks) /\ AtId(n + 1)'
        \/ UNCHANGED <<save, raw>> /\ AtItem(n, j + 1)'
<1> DEFINE c == save.chunks[n + 1]
           o == Base(save, n)
<1>1. /\ save \in Saves /\ c \in Chunk /\ WellFormed(c) /\ c.type # RIFF /\ found.type = c.type
      /\ n \in Nat /\ n + 1 \in 0 .. Len(save.chunks) /\ n + 1 \in DOMAIN save.chunks
      /\ raw \in Seq(Byte) /\ Len(raw) \in Nat /\ o \in Nat /\ Parted(c, o)
      /\ Base(save, n + 1) = o + 6 + Place(c, Len(c.items)) /\ Len(c.items) \in Nat
      /\ Place(c, j) \in Nat /\ offset = o + 5 + Place(c, j) /\ offset \in Nat
      /\ j = Len(c.items) => LiesAt(<<0>>, offset)
  BY ItemPlace
<1>2. c.type = ARRAY BY <1>1 DEF ReadArrayItem
<1>3. CASE ~GammaFits(offset) BY <1>3 DEF ReadArrayItem, Fail
<1>4. CASE GammaFits(offset) /\ j = Len(c.items)
  <2>1. GammaValue(offset) = 0 /\ GammaNext(offset) = offset + 1 /\ offset + 1 <= Len(raw)
    BY <1>1, <1>4, ReadsZero
  <2>2. End(offset + 1, found) BY <1>4, <2>1 DEF ReadArrayItem
  <2> QED BY <1>4, <2>1, <2>2, ItemsEnd
<1>5. CASE GammaFits(offset) /\ j # Len(c.items)
  <2> DEFINE k == j + 1
             d == c.items[k].data
             l == Len(d)
             g == GammaBytes(l + 1)
  <2>1. k \in 1 .. Len(c.items) /\ k - 1 = j /\ k \in DOMAIN c.items
    <3> DEFINE m == Len(c.items)
    <3>1. j \in 0 .. m BY DEF AtItem
    <3>2. DOMAIN c.items = 1 .. m /\ m \in Nat BY <1>1, LenProperties DEF Chunk
    <3>3. j # m BY <1>5
    <3> HIDE DEF c, m
    <3>4. k \in 1 .. m /\ k - 1 = j BY <3>1, <3>2, <3>3
    <3> QED BY <3>2, <3>4 DEF m
  <2>2. d \in Seq(Byte) /\ l \in Nat /\ l + 1 \in 0 .. MaxGamma BY <1>1, <2>1, ItemShape
  <2>3. LiesAt(g, offset) /\ LiesAt(d, offset + Len(g)) /\ Place(c, k) = Place(c, j) + Len(g) + l
    <3> HIDE DEF c, o, k
    <3>1. offset = o + 5 + Place(c, k - 1) BY <1>1, <2>1
    <3>2. LiesAt(g, offset) /\ LiesAt(d, offset + Len(g)) /\ Place(c, k) = Place(c, k - 1) + Len(g) + l
      BY <1>1, <1>2, <2>1, <3>1, ArrayLies
    <3> QED BY <3>2, <2>1
  <2> HIDE DEF d, l
  <2>4. GammaValue(offset) = l + 1 /\ GammaNext(offset) = offset + Len(g) /\ Len(g) \in Nat
    <3> DEFINE v == l + 1
    <3>1. v \in 0 .. MaxGamma /\ LiesAt(GammaBytes(v), offset) BY <2>2, <2>3
    <3> HIDE DEF v
    <3>2. GammaValue(offset) = v /\ GammaNext(offset) = offset + Len(GammaBytes(v)) BY <1>1, <1>5, <3>1, GammaRead
    <3>3. Len(GammaBytes(v)) \in 1 .. 4 BY <3>1, GammaWrites
    <3>4. Len(GammaBytes(v)) \in Nat BY <3>3
    <3> QED BY <3>2, <3>4 DEF v
  <2> HIDE DEF g
  <2> DEFINE from == offset + Len(g)
             end == from + l
             items == Append(found.items, Slice(from, end))
  <2>5. Load(end, "items", [found EXCEPT !.items = items]) /\ UNCHANGED <<name, chunks>>
    <3>1. l + 1 # 0 /\ from + (l + 1) - 1 = end BY <1>1, <2>2, <2>4
    <3> HIDE DEF c, o, k
    <3> QED BY <1>5, <2>4, <3>1 DEF ReadArrayItem
  <2>6. end = o + 5 + Place(c, k)
    <3> HIDE DEF c, o, k
    <3> DEFINE p == Place(c, j)
               q == Len(g)
    <3>1. p \in Nat /\ q \in Nat /\ l \in Nat /\ o \in Nat /\ offset = o + 5 + p /\ Place(c, k) = p + q + l
      BY <1>1, <2>2, <2>3, <2>4
    <3> HIDE DEF p, q
    <3>2. offset + q + l = o + 5 + Place(c, k) BY <3>1
    <3> QED BY <3>2 DEF q
  <2>7. offset <= Len(raw) BY <1>1, <1>5 DEF GammaFits
  <2>8. ASSUME end <= Len(raw) PROVE items = ReadItems(c, k)
    <3>1. Slice(from, end) = d
      <4>1. from \in Nat BY <1>1, <2>4
      <4> QED BY <4>1, <1>1, <2>2, <2>3, <2>8, SliceIs DEF l
    <3>2. found.items = ReadItems(c, j) BY <2>7 DEF AtItem
    <3>3. ReadItems(c, k) = Append(ReadItems(c, k - 1), d) BY <1>1, <1>2, <2>1, ReadsNext DEF d
    <3> HIDE DEF c, k
    <3> QED BY <3>1, <3>2, <3>3, <2>1
  <2> HIDE DEF items, end
  <2>9. UNCHANGED <<save, raw>> /\ AtItem(n, j + 1)' BY <1>5, <2>5, <2>6, <2>7, <2>8, ItemsGoOn
  <2> QED BY <2>9
<1> QED BY <1>3, <1>4, <1>5

\* The step that reads an item of a sparse array.
LEMMA SparseStep ==
  ASSUME FileInv, NEW n \in 0 .. Len(save.chunks), NEW j \in Nat, AtItem(n, j), ReadSparseItem, ~LongSparse
  PROVE \/ phase' = "failed"
        \/ UNCHANGED <<save, raw>> /\ n + 1 \in 0 .. Len(save.chunks) /\ AtId(n + 1)'
        \/ UNCHANGED <<save, raw>> /\ AtItem(n, j + 1)'
<1> DEFINE c == save.chunks[n + 1]
           o == Base(save, n)
<1>1. /\ save \in Saves /\ c \in Chunk /\ WellFormed(c) /\ c.type # RIFF /\ found.type = c.type
      /\ n \in Nat /\ n + 1 \in 0 .. Len(save.chunks) /\ n + 1 \in DOMAIN save.chunks
      /\ raw \in Seq(Byte) /\ Len(raw) \in Nat /\ o \in Nat /\ Parted(c, o)
      /\ Base(save, n + 1) = o + 6 + Place(c, Len(c.items)) /\ Len(c.items) \in Nat
      /\ Place(c, j) \in Nat /\ offset = o + 5 + Place(c, j) /\ offset \in Nat
      /\ j = Len(c.items) => LiesAt(<<0>>, offset)
  BY ItemPlace
<1>2. c.type = SPARSE BY <1>1 DEF ReadSparseItem
<1>3. CASE ~GammaFits(offset) BY <1>3 DEF ReadSparseItem, Fail
<1>4. CASE GammaFits(offset) /\ j = Len(c.items)
  <2>1. GammaValue(offset) = 0 /\ GammaNext(offset) = offset + 1 /\ offset + 1 <= Len(raw)
    BY <1>1, <1>4, ReadsZero
  <2>2. End(offset + 1, found) BY <1>4, <2>1 DEF ReadSparseItem
  <2> QED BY <1>4, <2>1, <2>2, ItemsEnd
<1>5. CASE GammaFits(offset) /\ j # Len(c.items)
  <2> DEFINE k == j + 1
             d == c.items[k].data
             x == c.items[k].index
             l == Len(d)
             h == GammaBytes(x)
             v == l + Len(h) + 1
             g == GammaBytes(v)
  <2>1. k \in 1 .. Len(c.items) /\ k - 1 = j /\ k \in DOMAIN c.items
    <3> DEFINE m == Len(c.items)
    <3>1. j \in 0 .. m BY DEF AtItem
    <3>2. DOMAIN c.items = 1 .. m /\ m \in Nat BY <1>1, LenProperties DEF Chunk
    <3>3. j # m BY <1>5
    <3> HIDE DEF c, m
    <3>4. k \in 1 .. m /\ k - 1 = j BY <3>1, <3>2, <3>3
    <3> QED BY <3>2, <3>4 DEF m
  <2>2. d \in Seq(Byte) /\ l \in Nat /\ v \in 0 .. MaxGamma /\ x \in 0 .. MaxGamma BY <1>1, <2>1, ItemShape
  <2>3. /\ LiesAt(g, offset) /\ LiesAt(h, offset + Len(g)) /\ LiesAt(d, offset + Len(g) + Len(h))
        /\ Place(c, k) = Place(c, j) + Len(g) + Len(h) + l
    <3> HIDE DEF c, o, k
    <3>1. offset = o + 5 + Place(c, k - 1) BY <1>1, <2>1
    <3>2. /\ LiesAt(g, offset) /\ LiesAt(h, offset + Len(g)) /\ LiesAt(d, offset + Len(g) + Len(h))
          /\ Place(c, k) = Place(c, k - 1) + Len(g) + Len(h) + l
      BY <1>1, <1>2, <2>1, <3>1, SparseLies
    <3> QED BY <3>2, <2>1
  <2>4. v < 128
    <3>1. Len(c.items[k].data) + Len(GammaBytes(c.items[k].index)) + 1 < 128 \/ ~(Len(c.items[k].data) + Len(GammaBytes(c.items[k].index)) + 1 >= 128)
      BY <1>1, <1>2, <2>1 DEF LongSparse
    <3> HIDE DEF c, d, x, k
    <3>2. v \in Nat BY <2>2, Numbers
    <3>3. v < 128 \/ ~(v >= 128) BY <3>1 DEF d, x
    <3> HIDE DEF v
    <3> QED BY <3>2, <3>3
  <2> HIDE DEF d, l, x
  <2>5. Len(g) = 1 /\ Len(h) \in Nat
    <3> HIDE DEF v
    <3>1. Len(g) \in 1 .. 4 /\ (Len(g) > 1 <=> v >= 128) BY <2>2, GammaWrites
    <3>2. Len(h) \in 1 .. 4 BY <2>2, GammaWrites
    <3>3. v \in Nat BY <2>2, Numbers
    <3> HIDE DEF g, h
    <3> QED BY <3>1, <3>2, <3>3, <2>4
  <2>6. GammaValue(offset) = v /\ GammaNext(offset) = offset + 1
    <3> HIDE DEF v
    <3>1. GammaValue(offset) = v /\ GammaNext(offset) = offset + Len(GammaBytes(v)) BY <1>1, <1>5, <2>2, <2>3, GammaRead
    <3> QED BY <3>1, <2>5
  <2> DEFINE at == offset + 1
             from == at + Len(h)
             end == offset + v
             items == With(found.items, x, Slice(from, end))
  <2>7. at \in Nat /\ LiesAt(h, at) /\ from \in Nat /\ LiesAt(d, from)
    <3> HIDE DEF g, h
    <3>1. offset + Len(g) = at /\ offset + Len(g) + Len(h) = from BY <2>5
    <3>2. at \in Nat /\ from \in Nat BY <1>1, <2>5
    <3> HIDE DEF at, from
    <3>3. LiesAt(h, offset + Len(g)) /\ LiesAt(d, offset + Len(g) + Len(h)) BY <2>3
    <3> QED BY <3>1, <3>2, <3>3
  <2>8. CASE ~GammaFits(at)
    <3>1. v # 0 BY <2>2, <2>5
    <3> HIDE DEF v
    <3> QED BY <1>5, <2>6, <2>8, <3>1 DEF ReadSparseItem, Fail
  <2>9. CASE GammaFits(at)
    <3>1. GammaValue(at) = x /\ GammaNext(at) = from BY <1>1, <2>2, <2>7, <2>9, GammaRead
    <3>2. Load(end, "items", [found EXCEPT !.items = items]) /\ UNCHANGED <<name, chunks>>
      <4>1. v # 0 BY <2>2, <2>5
      <4> HIDE DEF c, o, k, v, h
      <4> QED BY <1>5, <2>6, <2>9, <3>1, <4>1 DEF ReadSparseItem
    <3> HIDE DEF g, h
    <3>3. end = o + 5 + Place(c, k) /\ end = from + l
      <4> HIDE DEF c, o, k
      <4> DEFINE p == Place(c, j)
                 q == Len(h)
      <4>1. /\ p \in Nat /\ q \in Nat /\ l \in Nat /\ o \in Nat /\ offset = o + 5 + p
            /\ Place(c, k) = p + 1 + q + l
        BY <1>1, <2>2, <2>3, <2>5
      <4> HIDE DEF p, q
      <4>2. offset + (l + q + 1) = o + 5 + Place(c, k) /\ offset + (l + q + 1) = offset + 1 + q + l BY <4>1
      <4> QED BY <4>2 DEF q
    <3>4. offset <= Len(raw) BY <1>1, <1>5 DEF GammaFits
    <3>5. ASSUME end <= Len(raw) PROVE items = ReadItems(c, k)
      <4>1. Slice(from, end) = d
        <5> HIDE DEF from, end
        <5>1. from + Len(d) <= Len(raw) /\ end = from + Len(d) BY <3>3, <3>5 DEF l
        <5> QED BY <5>1, <1>1, <2>2, <2>7, SliceIs
      <4>2. found.items = ReadItems(c, j) BY <3>4 DEF AtItem
      <4>3. ReadItems(c, k) = With(ReadItems(c, k - 1), x, d) BY <1>1, <1>2, <2>1, ReadsNext DEF d, x
      <4> HIDE DEF c, k
      <4> QED BY <4>1, <4>2, <4>3, <2>1
    <3> HIDE DEF items, end
    <3>6. UNCHANGED <<save, raw>> /\ AtItem(n, j + 1)' BY <1>5, <3>2, <3>3, <3>4, <3>5, ItemsGoOn
    <3> QED BY <3>6
  <2> QED BY <2>8, <2>9
<1> QED BY <1>3, <1>4, <1>5

\* The reader is where the layout says.
LEMMA LoadInvHolds == SaveSpec => []LoadInv
<1>1. SaveInit => LoadInv BY DEF SaveInit, SaveBegins, LoadInv, Loaded
<1>2. FileInv /\ LoadInv /\ [SaveNext]_saveVars => LoadInv'
  <2> SUFFICES ASSUME FileInv, LoadInv, [SaveNext]_saveVars, ~LongSparse'
               PROVE /\ phase' \in {"id", "riff", "items"} => Loading'
                     /\ Loaded' => save'.cut = 0 /\ Upto(Len(save.chunks))'
    BY DEF LoadInv
  <2>1. save' = save
    BY DEF SaveNext, Uncompress, ReadId, ReadRiff, ReadArrayItem, ReadSparseItem, HandleChunk, Recompress,
           Fail, Load, End, saveVars
  <2>2. /\ ~LongSparse /\ (phase \in {"id", "riff", "items"} => Loading)
        /\ (Loaded => save.cut = 0 /\ Upto(Len(save.chunks)))
    <3>1. ~LongSparse BY <2>1 DEF LongSparse
    <3> QED BY <3>1 DEF LoadInv
  <2>3. CASE phase' = "failed" BY <2>3 DEF Loaded
  <2>4. CASE Uncompress /\ phase' # "failed"
    <3>1. phase = "header" /\ phase' = "id" /\ UNCHANGED <<offset, chunks>>
      BY <2>4 DEF Uncompress, Fail
    <3>2. save \in Saves /\ offset = 0 /\ chunks = <<>> BY <3>1 DEF FileInv
    <3>3. Base(save, 0) = 0 /\ 0 \in 0 .. Len(save.chunks)
      <4>1. Len(save.chunks) \in Nat BY <3>2, SavesMeant
      <4> QED BY <4>1, <3>2, FileShape
    <3>4. Loads(save, 0) = <<>> BY DEF Loads
    <3>5. AtId(0)' BY <2>1, <3>1, <3>2, <3>3, <3>4 DEF AtId, Upto
    <3>6. Loading'
      <4>1. 0 \in 0 .. Len(save'.chunks) BY <2>1, <3>3
      <4> QED BY <4>1, <3>5 DEF Loading
    <3> QED BY <3>1, <3>6 DEF Loaded
  <2>5. CASE ReadId /\ phase' # "failed"
    <3>1. phase = "id" BY <2>5 DEF ReadId
    <3>2. PICK n \in 0 .. Len(save.chunks) : AtId(n) BY <2>2, <3>1 DEF Loading, AtRiff, AtItem
    <3>3. \/ phase' = "handle" /\ save.cut = 0 /\ Upto(Len(save.chunks)) /\ UNCHANGED <<save, raw, chunks>>
          \/ UNCHANGED <<save, raw>> /\ (AtRiff(n)' \/ AtItem(n, 0)')
      BY <2>5, <3>2, IdStep
    <3>4. CASE phase' = "handle" /\ save.cut = 0 /\ Upto(Len(save.chunks)) /\ UNCHANGED <<save, raw, chunks>>
      BY <3>4, <2>1 DEF Loaded, Upto
    <3>5. CASE AtRiff(n)' \/ AtItem(n, 0)'
      <4>1. n \in 0 .. Len(save'.chunks) BY <2>1
      <4>2. Loading' BY <4>1, <3>5 DEF Loading
      <4>3. ~Loaded' BY <3>5 DEF Loaded, AtRiff, AtItem
      <4> QED BY <4>2, <4>3
    <3> QED BY <3>3, <3>4, <3>5
  <2>6. CASE ReadRiff /\ phase' # "failed"
    <3>1. phase = "riff" BY <2>6 DEF ReadRiff
    <3>2. PICK n \in 0 .. Len(save.chunks) : AtRiff(n) BY <2>2, <3>1 DEF Loading, AtId, AtItem
    <3>3. n + 1 \in 0 .. Len(save.chunks) /\ AtId(n + 1)' BY <2>6, <3>2, RiffStep
    <3>4. n + 1 \in 0 .. Len(save'.chunks) BY <2>1, <3>3
    <3>5. Loading' BY <3>3, <3>4 DEF Loading
    <3>6. ~Loaded' BY <3>3 DEF Loaded, AtId
    <3> QED BY <3>5, <3>6
  <2>7. CASE (ReadArrayItem \/ ReadSparseItem) /\ phase' # "failed"
    <3>1. phase = "items" BY <2>7 DEF ReadArrayItem, ReadSparseItem
    <3>2. PICK n \in 0 .. Len(save.chunks) : \E j \in Nat : AtItem(n, j) BY <2>2, <3>1 DEF Loading, AtId, AtRiff
    <3>3. PICK j \in Nat : AtItem(n, j) BY <3>2
    <3>4. \/ n + 1 \in 0 .. Len(save.chunks) /\ AtId(n + 1)'
          \/ AtItem(n, j + 1)'
      BY <2>2, <2>7, <3>3, ArrayStep, SparseStep
    <3>5. CASE n + 1 \in 0 .. Len(save.chunks) /\ AtId(n + 1)'
      <4>1. n + 1 \in 0 .. Len(save'.chunks) BY <2>1, <3>5
      <4>2. Loading' BY <3>5, <4>1 DEF Loading
      <4>3. ~Loaded' BY <3>5 DEF Loaded, AtId
      <4> QED BY <4>2, <4>3
    <3>6. CASE AtItem(n, j + 1)'
      <4>1. n \in 0 .. Len(save'.chunks) /\ j + 1 \in Nat BY <2>1
      <4>2. Loading' BY <3>6, <4>1 DEF Loading
      <4>3. ~Loaded' BY <3>6 DEF Loaded, AtItem
      <4> QED BY <4>2, <4>3
    <3> QED BY <3>4, <3>5, <3>6
  <2>8. CASE (HandleChunk \/ Recompress) /\ phase' # "failed"
    <3>1. phase = "handle" /\ phase' \in {"handle", "done"} /\ UNCHANGED chunks BY <2>8 DEF HandleChunk, Recompress
    <3> QED BY <2>1, <2>2, <3>1 DEF Loaded, Upto
  <2>9. CASE UNCHANGED saveVars
    <3>1. UNCHANGED <<save, raw, offset, phase, name, found, chunks>> BY <2>9 DEF saveVars
    <3>2. Loading => Loading' BY <3>1 DEF Loading, AtId, AtRiff, AtItem, Upto
    <3> QED BY <2>2, <3>1, <3>2 DEF Loaded, Upto
  <2> QED BY <2>3, <2>4, <2>5, <2>6, <2>7, <2>8, <2>9 DEF SaveNext
<1> QED BY <1>1, <1>2, FileInvHolds, PTL DEF SaveSpec

\* The file loads as it was saved, or not at all: LoadsWhatWasSaved.
THEOREM LoadsAlwaysWhatWasSaved == SaveSpec => []LoadsWhatWasSaved
<1>1. FileInv /\ LoadInv => LoadsWhatWasSaved
  <2> SUFFICES ASSUME FileInv, LoadInv, Loaded, ~LongSparse
               PROVE save.cut = 0 /\ chunks = [i \in DOMAIN save.chunks |-> Read(save.chunks[i])]
    BY DEF LoadsWhatWasSaved
  <2>1. save \in Saves /\ save.cut = 0 /\ chunks = Loads(save, Len(save.chunks)) BY DEF FileInv, LoadInv, Upto
  <2> QED BY <2>1, SavesMeant DEF Loads
<1> QED BY <1>1, FileInvHolds, LoadInvHolds, PTL

-----------------------------------------------------------------------------
(* savegame.py: the map of a file, and its layers                          *)

\* Batches cover what they are to cover.
LEMMA BatchesCover ==
  ASSUME NEW T \in Nat, NEW B \in Nat \ {0}
  PROVE /\ B * ((T + B - 1) \div B) \in Nat /\ B * ((T + B - 1) \div B) >= T
        /\ T % B = 0 => B * ((T + B - 1) \div B) = T
<1>1. B * ((T + B - 1) \div B) >= T OBVIOUS
<1>2. (T + B - 1) \div B \in Nat OBVIOUS
<1>3. ASSUME T % B = 0 PROVE B * ((T + B - 1) \div B) = T
  <2>1. T = B * (T \div B) + (T % B) OBVIOUS
  <2>2. T \div B \in Nat OBVIOUS
  <2>3. (T + B - 1) \div B = T \div B BY <1>3
  <2> DEFINE q == T \div B
  <2>4. B * q \in Nat BY <2>2
  <2>5. T = B * q + 0 BY <2>1, <1>3
  <2> HIDE DEF q
  <2>6. T = B * q BY <2>4, <2>5
  <2> QED BY <2>3, <2>6 DEF q
<1>4. B * ((T + B - 1) \div B) \in Nat
  <2> DEFINE q == (T + B - 1) \div B
  <2>1. q \in Nat BY <1>2
  <2> HIDE DEF q
  <2>2. B * q \in Nat BY <2>1
  <2> QED BY <2>2 DEF q
<1> QED BY <1>1, <1>3, <1>4

\* Four bytes of the map size are a number.
LEMMA NumberIs ==
  ASSUME NEW d \in Seq(Byte), NEW m \in Nat, NEW n \in Nat, m >= 1, n = m + 3, n <= Len(d)
  PROVE Number(SubSeq(d, m, n)) \in Nat
<1>1. Len(d) \in Nat BY LenProperties
<1>2. m \in Int /\ n \in Int /\ \A i \in m .. n : d[i] \in Byte BY <1>1, ElementOfSeq
<1>3. /\ SubSeq(d, m, n) \in Seq(Byte) /\ Len(SubSeq(d, m, n)) = IF m <= n THEN n - m + 1 ELSE 0
  BY <1>2, SubSeqProperties
<1> DEFINE t == SubSeq(d, m, n)
<1>4. t \in Seq(Byte) /\ Len(t) = 4 BY <1>3
<1> HIDE DEF t
<1>5. t[1] \in Nat /\ t[2] \in Nat /\ t[3] \in Nat /\ t[4] \in Nat
  <2>1. \A k \in 1 .. 4 : t[k] \in Byte BY <1>4, ElementOfSeq
  <2>0. Byte \subseteq Nat BY DEF Byte
  <2>2. \A k \in 1 .. 4 : t[k] \in Nat BY <2>0, <2>1
  <2> QED BY <2>2
<1>6. Number(t) \in Nat
  <2> DEFINE a == t[1]
             b == t[2]
             c == t[3]
             e == t[4]
  <2>1. Number(t) = ((a * 256 + b) * 256 + c) * 256 + e BY DEF Number
  <2>2. a \in Nat /\ b \in Nat /\ c \in Nat /\ e \in Nat BY <1>5
  <2> HIDE DEF a, b, c, e
  <2>3. ((a * 256 + b) * 256 + c) * 256 + e \in Nat BY <2>2
  <2> QED BY <2>1, <2>3
<1> QED BY <1>6 DEF t

Names(s, n) == {s.chunks[i].name : i \in 1 .. n}

\* A chunk of the map, as it is loaded.
LEMMA MapChunks ==
  ASSUME NEW s \in Saves, NEW i \in 1 .. Len(s.chunks), s.chunks[i].name \in Layers \cup {MAPS}
  PROVE /\ MapChunkAt(s, i) /\ s.chunks[i].type = RIFF
        /\ s.chunks[i].items[1].data \in Seq(Byte)
<1> DEFINE c == s.chunks[i]
<1>1. i \in DOMAIN s.chunks /\ c \in Chunk /\ WellFormed(c) BY SavesMeant
<1>2. MapChunkAt(s, i) BY <1>1, SavesAssumption DEF SavesAssumption
<1>3. c.type = RIFF BY <1>2 DEF MapChunkAt
<1>4. 1 \in DOMAIN c.items
  <2>1. c.items \in Seq([index : 0 .. MaxGamma, data : Seq(Byte)]) BY <1>1 DEF Chunk
  <2>2. Len(c.items) = 1 BY <1>1, <1>3 DEF WellFormed
  <2> QED BY <2>1, <2>2, LenProperties
<1>5. c.items[1].data \in Seq(Byte) BY <1>1, <1>4, ItemShape
<1> QED BY <1>2, <1>3, <1>5

\* There is one size of the map at most, and it is the one that is read.
LEMMA OneSize ==
  ASSUME NEW s \in Saves
  PROVE /\ SizesIn(s) = {} => MapSize(s) = DefaultMap
        /\ \A i \in 1 .. Len(s.chunks) : s.chunks[i].name = MAPS =>
             /\ VersionOf(s) >= 6 /\ Len(s.chunks[i].items[1].data) = 8
             /\ MapSize(s) = [x |-> Number(SubSeq(s.chunks[i].items[1].data, 1, 4)),
                              y |-> Number(SubSeq(s.chunks[i].items[1].data, 5, 8))]
        /\ TilesOf(s) \in Nat
<1>1. Len(s.chunks) \in Nat /\ DOMAIN s.chunks = 1 .. Len(s.chunks) BY SavesMeant
<1>2. SizesIn(s) = {} => MapSize(s) = DefaultMap BY DEF MapSize
<1>3. ASSUME NEW i \in 1 .. Len(s.chunks), s.chunks[i].name = MAPS
      PROVE /\ VersionOf(s) >= 6 /\ Len(s.chunks[i].items[1].data) = 8
            /\ MapSize(s) = [x |-> Number(SubSeq(s.chunks[i].items[1].data, 1, 4)),
                             y |-> Number(SubSeq(s.chunks[i].items[1].data, 5, 8))]
            /\ TilesOf(s) \in Nat
  <2>1. MapChunkAt(s, i) /\ s.chunks[i].items[1].data \in Seq(Byte) BY <1>3, MapChunks
  <2>2. VersionOf(s) >= 6 /\ Len(s.chunks[i].items[1].data) = 8 BY <2>1, <1>3 DEF MapChunkAt
  <2> DEFINE k == CHOOSE j \in SizesIn(s) : TRUE
  <2>3. i \in SizesIn(s) BY <1>1, <1>3 DEF SizesIn
  <2>4. k \in SizesIn(s) BY <2>3
  <2> HIDE DEF k
  <2>5. k \in 1 .. Len(s.chunks) /\ s.chunks[k].name = MAPS BY <2>4, <1>1 DEF SizesIn
  <2>6. MapChunkAt(s, k) BY <2>5, MapChunks
  <2>7. \A j \in 1 .. i - 1 : s.chunks[j].name # MAPS BY <2>1, <1>3 DEF MapChunkAt
  <2>8. \A j \in 1 .. k - 1 : s.chunks[j].name # MAPS BY <2>6, <2>5 DEF MapChunkAt
  <2>9. k = i
    <3>1. ~(k < i) BY <2>5, <2>7
    <3>2. ~(i < k) BY <2>5, <2>8, <1>3
    <3> QED BY <3>1, <3>2, <2>5
  <2> DEFINE d == s.chunks[i].items[1].data
  <2>10. MapSize(s) = [x |-> Number(SubSeq(d, 1, 4)), y |-> Number(SubSeq(d, 5, 8))]
    BY <2>3, <2>9 DEF MapSize, k
  <2>11. TilesOf(s) = Number(SubSeq(d, 1, 4)) * Number(SubSeq(d, 5, 8)) BY <2>10 DEF TilesOf
  <2>12. Number(SubSeq(d, 1, 4)) \in Nat /\ Number(SubSeq(d, 5, 8)) \in Nat
    <3>1. d \in Seq(Byte) /\ Len(d) = 8 BY <2>1, <2>2
    <3> HIDE DEF d
    <3>2. \A m, n \in Nat : m >= 1 /\ n = m + 3 /\ n <= Len(d) => Number(SubSeq(d, m, n)) \in Nat
      BY <3>1, NumberIs
    <3>3. 1 \in Nat /\ 4 \in Nat /\ 4 = 1 + 3 /\ 1 >= 1 /\ 4 <= Len(d) BY <3>1
    <3>4. 5 \in Nat /\ 8 \in Nat /\ 8 = 5 + 3 /\ 5 >= 1 /\ 8 <= Len(d) BY <3>1
    <3>5. Number(SubSeq(d, 1, 4)) \in Nat BY <3>2, <3>3
    <3>6. Number(SubSeq(d, 5, 8)) \in Nat BY <3>2, <3>4
    <3> QED BY <3>5, <3>6
  <2>13. TilesOf(s) \in Nat BY <2>11, <2>12
  <2> QED BY <2>2, <2>10, <2>13
<1>4. TilesOf(s) \in Nat
  <2>1. CASE SizesIn(s) = {}
    <3>1. MapSize(s).x \in Nat /\ MapSize(s).y \in Nat BY <1>2, <2>1, SavesAssumption DEF SavesAssumption
    <3> QED BY <3>1 DEF TilesOf
  <2>2. CASE SizesIn(s) # {}
    <3>1. PICK i \in 1 .. Len(s.chunks) : s.chunks[i].name = MAPS BY <2>2, <1>1 DEF SizesIn
    <3> QED BY <3>1, <1>3
  <2> QED BY <2>1, <2>2
<1> QED BY <1>2, <1>3, <1>4

\* When a layer comes, the size of the map is known.
LEMMA SizeKnown ==
  ASSUME NEW s \in Saves, NEW i \in 1 .. Len(s.chunks), s.chunks[i].name \in Layers
  PROVE (IF MAPS \in Names(s, i - 1) THEN MapSize(s) ELSE DefaultMap) = MapSize(s)
<1>1. MapChunkAt(s, i) BY MapChunks
<1>2. s.word \in Nat BY SavesAssumption DEF SavesAssumption
<1>3. VersionOf(s) \in Nat BY <1>2 DEF VersionOf, Two16
<1>4. CASE VersionOf(s) >= 6
  <2>1. \E j \in 1 .. i - 1 : s.chunks[j].name = MAPS BY <1>1, <1>4 DEF MapChunkAt
  <2> QED BY <2>1 DEF Names
<1>5. CASE ~(VersionOf(s) >= 6)
  <2>1. \A j \in 1 .. Len(s.chunks) : s.chunks[j].name # MAPS BY <1>5, OneSize
  <2>2. SizesIn(s) = {} BY <2>1, SavesMeant DEF SizesIn
  <2> QED BY <2>2, OneSize
<1> QED BY <1>4, <1>5

\* The handler gets an entry per tile.
LEMMA EntryPerTile ==
  ASSUME save \in Saves, NEW i \in 1 .. Len(save.chunks), save.chunks[i].name \in Layers,
         mapsize = MapSize(save), NEW size, size = Len(save.chunks[i].items[1].data)
  PROVE Entries(save.chunks[i].name, size) = TilesOf(save)
<1> DEFINE l == save.chunks[i].name
           t == TilesOf(save)
           u == Tiles
<1>1. MapChunkAt(save, i) BY MapChunks
<1>2. /\ size = LayerBytes(l, VersionOf(save), t)
      /\ l = MAPE /\ VersionOf(save) <= 42 => t % Batch = 0
  BY <1>1 DEF MapChunkAt
<1>3. t \in Nat /\ Batch \in Nat \ {0} BY OneSize, SavesAssumption DEF SavesAssumption
<1>4. Total = t BY DEF Total, TilesOf
<1>5. u \in Nat /\ u >= t /\ (t % Batch = 0 => u = t)
  <2> HIDE DEF t
  <2> QED BY <1>3, <1>4, BatchesCover DEF Tiles
<1>6. Major = VersionOf(save) /\ VersionOf(save) \in Nat
  <2>1. save.word \in Nat BY SavesAssumption DEF SavesAssumption
  <2> QED BY <2>1 DEF Major, VersionOf, Two16
<1>7. MAPE # MAP2 BY DEF MAPE, MAP2
<1> DEFINE v == VersionOf(save)
<1> HIDE DEF l, t, v
<1>8. CASE l = MAPE /\ v <= 42
  <2>1. Entries(l, size) = Tiles BY <1>6, <1>7, <1>8 DEF Entries, v
  <2> QED BY <2>1, <1>2, <1>5, <1>8 DEF l, t, v
<1>9. CASE l = MAP2 /\ v > 5
  <2>1. size = 2 * t BY <1>2, <1>7, <1>9 DEF LayerBytes, v, t, l
  <2>2. Entries(l, size) = (IF size < 2 * Tiles THEN size ELSE 2 * Tiles) \div 2
    BY <1>6, <1>7, <1>9 DEF Entries, v
  <2> HIDE DEF u
  <2>3. (IF 2 * t < 2 * u THEN 2 * t ELSE 2 * u) \div 2 = t
    <3>1. (IF 2 * t < 2 * u THEN 2 * t ELSE 2 * u) = 2 * t BY <1>3, <1>5
    <3>2. (2 * t) \div 2 = t BY <1>3
    <3> QED BY <3>1, <3>2
  <2> QED BY <2>1, <2>2, <2>3 DEF u, l, t
<1>10. CASE ~(l = MAPE /\ v <= 42) /\ ~(l = MAP2 /\ v > 5)
  <2>1. size = t BY <1>2, <1>10 DEF LayerBytes, v, t, l
  <2>2. Entries(l, size) = IF size < Tiles THEN size ELSE Tiles BY <1>6, <1>10 DEF Entries, v
  <2> HIDE DEF u
  <2>3. (IF t < u THEN t ELSE u) = t BY <1>3, <1>5
  <2> QED BY <2>1, <2>2, <2>3 DEF u, l, t
<1> QED BY <1>8, <1>9, <1>10 DEF l

\* The handlers have the size of the map and the layers of the chunks they have seen.
FreshInv == phase \in {"header", "id", "riff", "items"} => handled = 0 /\ mapsize = DefaultMap /\ layers = <<>>

HandleInv ==
  ~LongSparse /\ Loaded =>
    /\ handled \in 0 .. Len(save.chunks) /\ (phase = "done" => handled = Len(save.chunks))
    /\ mapsize = IF MAPS \in Names(save, handled) THEN MapSize(save) ELSE DefaultMap
    /\ \A l \in DOMAIN layers : layers[l] = TilesOf(save)
    /\ DOMAIN layers = IF save.skipmap THEN {} ELSE Names(save, handled) \cap Layers

WrittenAgain ==
  /\ written.data = raw /\ written.format = Format[save.output]
  /\ written.word \div Two16 = Major /\ (written.word \div 256) % 256 = Minor
WriteInv ==
  /\ phase # "done" => written.format = "none"
  /\ phase = "done" /\ written.format # "none" => WrittenAgain

\* Nothing is handled before all is loaded.
LEMMA FreshInvHolds == SaveSpec => []FreshInv
<1>1. SaveInit => FreshInv BY DEF SaveInit, SaveBegins, FreshInv
<1>2. FreshInv /\ [SaveNext]_saveVars => FreshInv'
  BY DEF FreshInv, SaveNext, Uncompress, ReadId, ReadRiff, ReadArrayItem, ReadSparseItem, HandleChunk, Recompress,
         Fail, Load, End, saveVars
<1> QED BY <1>1, <1>2, PTL DEF SaveSpec

\* The word of a header is made of its parts again.
LEMMA WordAgain ==
  ASSUME NEW w \in Nat
  PROVE LET v == (w \div Two16) * Two16 + ((w \div 256) % 256) * 256 IN
        v \div Two16 = w \div Two16 /\ (v \div 256) % 256 = (w \div 256) % 256
<1> DEFINE a == w \div Two16
           b == (w \div 256) % 256
<1>1. a \in Nat /\ b \in 0 .. 255 BY DEF Two16
<1> HIDE DEF a, b
<1> DEFINE v == a * Two16 + b * 256
<1>2. v \div Two16 = a BY <1>1 DEF Two16
<1>3. v \div 256 = a * 256 + b BY <1>1 DEF Two16
<1>4. (a * 256 + b) % 256 = b BY <1>1
<1> QED BY <1>2, <1>3, <1>4 DEF a, b

\* What is written again is what was loaded.
LEMMA WriteInvHolds == SaveSpec => []WriteInv
<1>1. SaveInit => WriteInv BY DEF SaveInit, SaveBegins, WriteInv
<1>2. FileInv /\ WriteInv /\ [SaveNext]_saveVars => WriteInv'
  <2> SUFFICES ASSUME FileInv, WriteInv, [SaveNext]_saveVars PROVE WriteInv' OBVIOUS
  <2>1. CASE Uncompress \/ ReadId \/ ReadRiff \/ ReadArrayItem \/ ReadSparseItem \/ HandleChunk
    <3>1. phase # "done" /\ phase' # "done" /\ UNCHANGED written
      BY <2>1 DEF Uncompress, ReadId, ReadRiff, ReadArrayItem, ReadSparseItem, HandleChunk, Fail, Load, End
    <3> QED BY <3>1 DEF WriteInv
  <2>2. CASE Recompress
    <3>1. phase = "handle" /\ UNCHANGED <<save, raw>> BY <2>2 DEF Recompress
    <3>2. CASE UNCHANGED written BY <2>2, <3>1, <3>2 DEF WriteInv
    <3>3. CASE /\ written' = [format |-> Format[save.output], word |-> Major * Two16 + Minor * 256, data |-> raw]
               /\ phase' = "done"
      <4>1. save.word \in Nat BY SavesAssumption DEF SavesAssumption, FileInv
      <4>2. LET v == Major * Two16 + Minor * 256 IN v \div Two16 = Major /\ (v \div 256) % 256 = Minor
        BY <4>1, WordAgain DEF Major, Minor
      <4>3. Major' = Major /\ Minor' = Minor BY <3>1 DEF Major, Minor
      <4>4. WrittenAgain' BY <3>1, <3>3, <4>2, <4>3 DEF WrittenAgain
      <4> QED BY <3>3, <4>4 DEF WriteInv
    <3> QED BY <2>2, <3>2, <3>3 DEF Recompress
  <2>3. CASE UNCHANGED saveVars
    <3>1. UNCHANGED <<save, raw, phase, written>> BY <2>3 DEF saveVars
    <3>2. WrittenAgain => WrittenAgain' BY <3>1 DEF WrittenAgain, Major, Minor
    <3> QED BY <3>1, <3>2 DEF WriteInv
  <2> QED BY <2>1, <2>2, <2>3 DEF SaveNext
<1> QED BY <1>1, <1>2, FileInvHolds, PTL DEF SaveSpec

\* The names of the layers.
LEMMA LayerNames ==
  /\ MAPS \notin Layers /\ MAPT \in Layers
  /\ \A l \in Layers : l # MAPS
  BY DEF Layers, MAPS, MAPT, MAPO, MAP2, M3LO, M3HI, MAP5, MAPE, MAP7

\* One chunk handled.
LEMMA HandleStep ==
  ASSUME FileInv, Upto(Len(save.chunks)), ~LongSparse, HandleInv, HandleChunk, phase' # "failed"
  PROVE /\ handled' = handled + 1 /\ handled + 1 \in 1 .. Len(save.chunks) /\ phase' = "handle" /\ UNCHANGED save
        /\ mapsize' = IF MAPS \in Names(save, handled + 1) THEN MapSize(save) ELSE DefaultMap
        /\ \A l \in DOMAIN layers' : layers'[l] = TilesOf(save)
        /\ DOMAIN layers' = IF save.skipmap THEN {} ELSE Names(save, handled + 1) \cap Layers
<1> DEFINE m == Len(save.chunks)
           i == handled + 1
           c == save.chunks[i]
           r == Read(c)
           size == Len(r.items)
           t == TilesOf(save)
<1>1. /\ phase = "handle" /\ handled' = handled + 1 /\ phase' = "handle" /\ handled < Len(chunks) /\ UNCHANGED save
  BY DEF HandleChunk
<1>2. save \in Saves BY DEF FileInv
<1>3. /\ handled \in 0 .. m /\ m \in Nat
      /\ mapsize = IF MAPS \in Names(save, handled) THEN MapSize(save) ELSE DefaultMap
      /\ \A l \in DOMAIN layers : layers[l] = t
      /\ DOMAIN layers = IF save.skipmap THEN {} ELSE Names(save, handled) \cap Layers
  BY <1>1, <1>2, SavesMeant DEF HandleInv, Loaded
<1>4. Len(chunks) = m /\ chunks[i] = r /\ i \in 1 .. m /\ i - 1 = handled
  <2>1. chunks = [k \in 1 .. m |-> Read(save.chunks[k])] BY DEF Upto, Loads
  <2>2. Len(chunks) = m BY <2>1, <1>3
  <2> QED BY <2>1, <2>2, <1>1, <1>3
<1>5. /\ Names(save, i) = Names(save, handled) \cup {c.name}
  <2>1. 1 .. i = (1 .. handled) \cup {i} BY <1>3
  <2> HIDE DEF i
  <2> QED BY <2>1 DEF Names
<1>6. r.name = c.name /\ r.type = c.type BY DEF Read
<1>7. ASSUME c.name \in Layers \cup {MAPS} PROVE c.type = RIFF /\ r.items = c.items[1].data /\ MapChunkAt(save, i)
  <2>1. MapChunkAt(save, i) /\ c.type = RIFF
    <3> HIDE DEF i
    <3> QED BY <1>2, <1>4, <1>7, MapChunks
  <2> QED BY <2>1 DEF Read, RIFF, ARRAY, SPARSE
<1>8. /\ r.type # RIFF => UNCHANGED <<mapsize, layers>>
      /\ r.type = RIFF /\ r.name = MAPS =>
           /\ mapsize' = IF Major >= 6 /\ size >= 8
                         THEN [x |-> Number(SubSeq(r.items, 1, 4)), y |-> Number(SubSeq(r.items, 5, 8))]
                         ELSE mapsize
           /\ UNCHANGED layers
      /\ r.type = RIFF /\ r.name # MAPS /\ r.name \in Layers /\ ~save.skipmap =>
           /\ layers' = With(IF r.name = MAPT THEN <<>> ELSE layers, r.name, Entries(r.name, size))
           /\ UNCHANGED mapsize
      /\ r.type = RIFF /\ r.name # MAPS /\ ~(r.name \in Layers /\ ~save.skipmap) => UNCHANGED <<mapsize, layers>>
  <2> HIDE DEF r
  <2>1. chunks[handled + 1] = r BY <1>4
  <2> QED BY <2>1 DEF HandleChunk
<1>9. CASE c.name = MAPS
  <2>1. c.type = RIFF /\ r.items = c.items[1].data BY <1>7, <1>9
  <2>2. /\ VersionOf(save) >= 6 /\ Len(c.items[1].data) = 8
        /\ MapSize(save) = [x |-> Number(SubSeq(c.items[1].data, 1, 4)), y |-> Number(SubSeq(c.items[1].data, 5, 8))]
    <3> HIDE DEF i
    <3> QED BY <1>2, <1>4, <1>9, OneSize
  <2>3. mapsize' = MapSize(save) /\ UNCHANGED layers
    <3>1. Major >= 6 /\ size >= 8 BY <2>1, <2>2 DEF Major, VersionOf
    <3> HIDE DEF r
    <3> QED BY <3>1, <2>1, <2>2, <1>6, <1>8, <1>9
  <2>4. MAPS \in Names(save, i) /\ Names(save, i) \cap Layers = Names(save, handled) \cap Layers
    BY <1>5, <1>9, LayerNames
  <2> HIDE DEF i, c, r, t
  <2> QED BY <1>1, <1>3, <1>4, <2>3, <2>4 DEF i, t
<1>10. CASE c.name \in Layers /\ ~save.skipmap
  <2>1. c.type = RIFF /\ r.items = c.items[1].data /\ MapChunkAt(save, i) /\ c.name # MAPS BY <1>7, <1>10, LayerNames
  <2>2. mapsize = MapSize(save)
    <3>1. (IF MAPS \in Names(save, i - 1) THEN MapSize(save) ELSE DefaultMap) = MapSize(save)
      <4> HIDE DEF i
      <4> QED BY <1>2, <1>4, <1>10, SizeKnown
    <3> HIDE DEF i
    <3> QED BY <3>1, <1>3, <1>4
  <2>3. Entries(c.name, size) = t
    <3>1. size = Len(c.items[1].data) BY <2>1
    <3> HIDE DEF i, r
    <3> QED BY <1>2, <1>4, <1>10, <2>2, <3>1, EntryPerTile
  <2> DEFINE old == IF c.name = MAPT THEN <<>> ELSE layers
  <2>4. layers' = With(old, c.name, t) /\ UNCHANGED mapsize
    <3> HIDE DEF r, t
    <3> QED BY <1>6, <1>8, <1>10, <2>1, <2>3
  <2>5. DOMAIN old = Names(save, handled) \cap Layers /\ \A l \in DOMAIN old : old[l] = t
    <3>1. CASE c.name # MAPT BY <3>1, <1>3, <1>10
    <3>2. CASE c.name = MAPT
      <4>1. \A j \in 1 .. handled : save.chunks[j].name # MAPT BY <2>1, <3>2, <1>4 DEF MapChunkAt
      <4>2. ASSUME NEW j \in 1 .. handled, save.chunks[j].name \in Layers PROVE FALSE
        <5>1. j \in 1 .. m BY <1>3
        <5>2. MapChunkAt(save, j) BY <1>2, <4>2, <5>1, MapChunks
        <5>3. \E k \in 1 .. j - 1 : save.chunks[k].name = MAPT BY <4>1, <4>2, <5>2 DEF MapChunkAt
        <5>4. \A k \in 1 .. j - 1 : k \in 1 .. handled BY <1>3
        <5> QED BY <4>1, <5>3, <5>4
      <4>3. Names(save, handled) \cap Layers = {} BY <4>2 DEF Names
      <4>4. old = <<>> BY <3>2
      <4>5. DOMAIN old = {} BY <4>4
      <4> HIDE DEF old
      <4> QED BY <4>3, <4>5
    <3> QED BY <3>1, <3>2
  <2> HIDE DEF old, t
  <2>6. DOMAIN layers' = Names(save, i) \cap Layers /\ \A l \in DOMAIN layers' : layers'[l] = t
    <3>1. layers' = [x \in DOMAIN old \cup {c.name} |-> IF x = c.name THEN t ELSE old[x]] BY <2>4 DEF With
    <3>2. DOMAIN layers' = DOMAIN old \cup {c.name} BY <3>1
    <3>3. DOMAIN layers' = Names(save, i) \cap Layers BY <3>2, <1>5, <1>10, <2>5
    <3>4. ASSUME NEW l \in DOMAIN layers' PROVE layers'[l] = t BY <3>1, <3>2, <2>5
    <3> QED BY <3>3, <3>4
  <2>7. MAPS \in Names(save, i) <=> MAPS \in Names(save, handled) BY <1>5, <2>1
  <2> HIDE DEF i, c, r
  <2> QED BY <1>1, <1>3, <1>4, <1>10, <2>4, <2>6, <2>7 DEF i, t
<1>11. CASE c.name # MAPS /\ ~(c.name \in Layers /\ ~save.skipmap)
  <2>1. UNCHANGED <<mapsize, layers>>
    <3> HIDE DEF r, c
    <3> QED BY <1>6, <1>8, <1>11
  <2>2. MAPS \in Names(save, i) <=> MAPS \in Names(save, handled) BY <1>5, <1>11
  <2>3. ~save.skipmap => Names(save, i) \cap Layers = Names(save, handled) \cap Layers BY <1>5, <1>11
  <2> HIDE DEF i, c, r, t
  <2> QED BY <1>1, <1>3, <1>4, <2>1, <2>2, <2>3 DEF i, t
<1> QED BY <1>9, <1>10, <1>11

\* The layers handled so far are whole.
LEMMA HandleInvHolds == SaveSpec => []HandleInv
<1>1. SaveInit => HandleInv BY DEF SaveInit, SaveBegins, HandleInv, Loaded
<1>2. FileInv /\ LoadInv /\ FreshInv /\ HandleInv /\ [SaveNext]_saveVars => HandleInv'
  <2> SUFFICES ASSUME FileInv, LoadInv, FreshInv, HandleInv, [SaveNext]_saveVars, ~LongSparse', Loaded'
               PROVE /\ handled' \in 0 .. Len(save'.chunks) /\ (phase' = "done" => handled' = Len(save'.chunks))
                     /\ mapsize' = IF MAPS \in Names(save', handled') THEN MapSize(save') ELSE DefaultMap
                     /\ \A l \in DOMAIN layers' : layers'[l] = TilesOf(save')
                     /\ DOMAIN layers' = IF save'.skipmap THEN {} ELSE Names(save', handled') \cap Layers
    BY DEF HandleInv
  <2>1. save' = save
    BY DEF SaveNext, Uncompress, ReadId, ReadRiff, ReadArrayItem, ReadSparseItem, HandleChunk, Recompress,
           Fail, Load, End, saveVars
  <2>2. ~LongSparse BY <2>1 DEF LongSparse
  <2>3. save \in Saves /\ Len(save.chunks) \in Nat BY SavesMeant DEF FileInv
  <2>4. CASE ReadId
    <3>1. handled' = 0 /\ mapsize' = DefaultMap /\ layers' = <<>> /\ phase' = "handle"
      BY <2>4 DEF ReadId, Load, Fail, FreshInv, Loaded
    <3>2. Names(save, 0) = {}
      <4>1. 1 .. 0 = {} OBVIOUS
      <4> QED BY <4>1 DEF Names
    <3>3. DOMAIN layers' = {} BY <3>1
    <3> QED BY <2>1, <2>3, <3>1, <3>2, <3>3
  <2>5. CASE HandleChunk
    <3>1. phase = "handle" /\ phase' # "failed" BY <2>5 DEF HandleChunk, Loaded
    <3>2. Upto(Len(save.chunks)) BY <2>2, <3>1 DEF LoadInv, Loaded
    <3>3. /\ handled' = handled + 1 /\ handled + 1 \in 1 .. Len(save.chunks) /\ phase' = "handle"
          /\ mapsize' = IF MAPS \in Names(save, handled + 1) THEN MapSize(save) ELSE DefaultMap
          /\ \A l \in DOMAIN layers' : layers'[l] = TilesOf(save)
          /\ DOMAIN layers' = IF save.skipmap THEN {} ELSE Names(save, handled + 1) \cap Layers
      BY <2>2, <2>5, <3>1, <3>2, HandleStep
    <3> QED BY <2>1, <2>3, <3>3
  <2>6. CASE Recompress
    <3>1. phase = "handle" /\ handled = Len(chunks) /\ UNCHANGED <<handled, mapsize, layers, chunks>>
      BY <2>6 DEF Recompress
    <3>2. Upto(Len(save.chunks)) BY <2>2, <3>1 DEF LoadInv, Loaded
    <3>3. Len(chunks) = Len(save.chunks)
      <4>1. chunks = [k \in 1 .. Len(save.chunks) |-> Read(save.chunks[k])] BY <3>2 DEF Upto, Loads
      <4> QED BY <4>1, <2>3
    <3> QED BY <2>1, <2>2, <3>1, <3>3 DEF HandleInv, Loaded
  <2>7. CASE UNCHANGED saveVars
    <3>1. UNCHANGED <<save, phase, handled, mapsize, layers>> BY <2>7 DEF saveVars
    <3> QED BY <2>2, <3>1 DEF HandleInv, Loaded
  <2>8. CASE Uncompress \/ ReadRiff \/ ReadArrayItem \/ ReadSparseItem
    BY <2>8 DEF Uncompress, ReadRiff, ReadArrayItem, ReadSparseItem, Fail, Load, End, Loaded
  <2> QED BY <2>4, <2>5, <2>6, <2>7, <2>8 DEF SaveNext
<1> QED BY <1>1, <1>2, FileInvHolds, LoadInvHolds, FreshInvHolds, PTL DEF SaveSpec

\* Every layer has an entry per tile, and the file written again is the same: LayersWhole.
THEOREM LayersAlwaysWhole == SaveSpec => []LayersWhole
<1>1. FileInv /\ HandleInv /\ WriteInv => LayersWhole
  <2> SUFFICES ASSUME FileInv, HandleInv, WriteInv, phase = "done" PROVE LayersWhole BY DEF LayersWhole
  <2>1. save \in Saves BY DEF FileInv
  <2>2. ASSUME ~LongSparse
        PROVE /\ \A l \in DOMAIN layers : layers[l] = TilesOf(save)
              /\ ~save.skipmap => {save.chunks[i].name : i \in DOMAIN save.chunks} \cap Layers = DOMAIN layers
    <3>1. /\ handled = Len(save.chunks) /\ \A l \in DOMAIN layers : layers[l] = TilesOf(save)
          /\ DOMAIN layers = IF save.skipmap THEN {} ELSE Names(save, handled) \cap Layers
      BY <2>2 DEF HandleInv, Loaded
    <3>2. Names(save, handled) = {save.chunks[i].name : i \in DOMAIN save.chunks} BY <2>1, <3>1, SavesMeant DEF Names
    <3> QED BY <3>1, <3>2
  <2> QED BY <2>2 DEF LayersWhole, WriteInv, WrittenAgain
<1> QED BY <1>1, FileInvHolds, HandleInvHolds, WriteInvHolds, PTL

-----------------------------------------------------------------------------
(* structz.py: the layout of packed values                                 *)

\* Places ascend.
LEMMA Rises ==
  ASSUME NEW S, NEW s \in Seq(Seq(S)), NEW p, Laid(s, p), NEW j \in 0 .. Len(s), NEW i \in 0 .. j
  PROVE p[i] \in Nat /\ p[j] \in Nat /\ p[i] <= p[j]
<1> DEFINE T == {m \in Nat : m \in 0 .. j => p[j - m] <= p[j]}
<1>1. Len(s) \in Nat /\ j \in Nat /\ i \in Nat BY LenProperties
<1>2. p \in [0 .. Len(s) -> Nat] BY DEF Laid
<1>3. 0 \in T
  <2>1. j - 0 = j BY <1>1
  <2>2. p[j] \in Nat BY <1>2
  <2>3. p[j - 0] <= p[j] BY <2>1, <2>2
  <2> QED BY <2>3
<1>4. ASSUME NEW m \in 0 .. j - 1, m \in T PROVE m + 1 \in T
  <2>1. j - m \in 1 .. Len(s) /\ j - m - 1 = j - (m + 1) /\ m \in 0 .. j /\ m + 1 \in Nat /\ j - (m + 1) \in 0 .. Len(s)
    BY <1>1
  <2>2. s[j - m] \in Seq(S) BY <2>1, ElementOfSeq
  <2>3. Len(s[j - m]) \in Nat BY <2>2, LenProperties
  <2>8. \A k \in 1 .. Len(s) : p[k] = p[k - 1] + Len(s[k]) BY DEF Laid
  <2>4. p[j - m] = p[j - m - 1] + Len(s[j - m]) BY <2>1, <2>8
  <2>9. \A k \in 0 .. Len(s) : p[k] \in Nat BY <1>2
  <2>10. j - m \in 0 .. Len(s) BY <1>1, <2>1
  <2>5. p[j - m] \in Nat /\ p[j - (m + 1)] \in Nat /\ p[j] \in Nat
    <3>1. p[j - m] \in Nat BY <2>9, <2>10
    <3>2. p[j - (m + 1)] \in Nat BY <2>9, <2>1
    <3> QED BY <2>9, <3>1, <3>2
  <2>6. p[j - m] <= p[j] BY <1>4, <2>1
  <2>7. p[j - (m + 1)] <= p[j] BY <2>1, <2>3, <2>4, <2>5, <2>6
  <2> QED BY <2>1, <2>7
<1>5. 0 .. j \subseteq T
  <2> HIDE DEF T
  <2> QED BY <1>1, <1>3, <1>4, UpTo
<1>6. j - i \in 0 .. j /\ j - (j - i) = i BY <1>1
<1>7. p[i] <= p[j] BY <1>5, <1>6
<1> QED BY <1>1, <1>2, <1>7

\* What stands in w behind its first a elements, and in front of the one after b.
LEMMA Excerpt ==
  ASSUME NEW S, NEW w \in Seq(S), NEW d \in Seq(S), NEW a \in Nat, NEW b \in Nat,
         b = a + Len(d), b <= Len(w), \A k \in 1 .. Len(d) : w[a + k] = d[k]
  PROVE SubSeq(w, a + 1, b) = d /\ SubSeq(w, 1, a) \o d = SubSeq(w, 1, b)
<1>1. Len(w) \in Nat /\ Len(d) \in Nat BY LenProperties
<1>2. SubSeq(w, a + 1, b) = d
  <2> DEFINE m == a + 1
  <2>1. m \in 1 .. Len(w) + 1 /\ b \in m - 1 .. Len(w) BY <1>1
  <2>2. b - m + 1 = Len(d) BY <1>1
  <2>5. ASSUME NEW i \in 1 .. Len(d) PROVE w[m + i - 1] = d[i]
    <3>1. m + i - 1 = a + i BY <1>1
    <3> QED BY <3>1
  <2> HIDE DEF m
  <2>3. /\ SubSeq(w, m, b) \in Seq(S) /\ Len(SubSeq(w, m, b)) = b - m + 1
        /\ \A i \in 1 .. b - m + 1 : SubSeq(w, m, b)[i] = w[m + i - 1]
    BY <2>1, <1>1, SubSeqProperties
  <2>4. SubSeq(w, m, b) = d BY <2>2, <2>3, <2>5, SeqEqual
  <2> QED BY <2>4 DEF m
<1>3. SubSeq(w, 1, a) \o d = SubSeq(w, 1, b)
  <2> DEFINE f == 1
             q == SubSeq(w, f, a)
             r == SubSeq(w, f, b)
  <2>1. f \in 1 .. Len(w) + 1 /\ a \in f - 1 .. Len(w) /\ b \in f - 1 .. Len(w) BY <1>1
  <2>2. a - f + 1 = a /\ b - f + 1 = b /\ \A i \in Nat : f + i - 1 = i BY <1>1
  <2> HIDE DEF f
  <2>3. q \in Seq(S) /\ Len(q) = a - f + 1 /\ \A i \in 1 .. a - f + 1 : q[i] = w[f + i - 1]
    BY <2>1, SubSeqProperties
  <2>4. r \in Seq(S) /\ Len(r) = b - f + 1 /\ \A i \in 1 .. b - f + 1 : r[i] = w[f + i - 1]
    BY <2>1, SubSeqProperties
  <2>10. q \in Seq(S) /\ r \in Seq(S) BY <2>3, <2>4
  <2>5. Len(q) = a /\ Len(r) = b /\ (\A i \in 1 .. a : q[i] = w[i]) /\ (\A i \in 1 .. b : r[i] = w[i])
    <3>1. Len(q) = a /\ Len(r) = b BY <2>2, <2>3, <2>4
    <3>2. ASSUME NEW i \in 1 .. a PROVE q[i] = w[i]
      <4>1. f + i - 1 = i /\ i \in 1 .. a - f + 1 BY <2>2
      <4>2. q[i] = w[f + i - 1] BY <4>1, <2>3
      <4> QED BY <4>1, <4>2
    <3>3. ASSUME NEW i \in 1 .. b PROVE r[i] = w[i]
      <4>1. f + i - 1 = i /\ i \in 1 .. b - f + 1 BY <2>2
      <4>2. r[i] = w[f + i - 1] BY <4>1, <2>4
      <4> QED BY <4>1, <4>2
    <3> QED BY <3>1, <3>2, <3>3
  <2> HIDE DEF q, r
  <2>6. /\ q \o d \in Seq(S) /\ Len(q \o d) = Len(q) + Len(d)
        /\ \A k \in 1 .. Len(q) : (q \o d)[k] = q[k]
        /\ \A k \in 1 .. Len(d) : (q \o d)[Len(q) + k] = d[k]
    BY <2>10, Concat
  <2>7. ASSUME NEW i \in 1 .. b PROVE (q \o d)[i] = r[i]
    <3>1. CASE i <= a BY <3>1, <2>5, <2>6, <1>1
    <3>2. CASE ~(i <= a)
      <4>1. i - a \in 1 .. Len(d) /\ a + (i - a) = i BY <3>2, <1>1
      <4>2. (q \o d)[a + (i - a)] = d[i - a] BY <4>1, <2>5, <2>6
      <4>3. w[a + (i - a)] = d[i - a] BY <4>1
      <4> QED BY <4>1, <4>2, <4>3, <2>5
    <3> QED BY <3>1, <3>2
  <2>8. Len(q \o d) = b /\ Len(r) = b BY <2>5, <2>6
  <2>9. q \o d = r BY <2>4, <2>6, <2>7, <2>8, SeqEqual
  <2> QED BY <2>9 DEF q, r, f
<1> QED BY <1>2, <1>3

\* A function on the first numbers is a sequence.
LEMMA SeqIs ==
  ASSUME NEW S, NEW n \in Nat, NEW f, f \in [1 .. n -> S]
  PROVE f \in Seq(S) /\ Len(f) = n /\ DOMAIN f = 1 .. n
<1>1. f \in Seq(S) /\ DOMAIN f = 1 .. n OBVIOUS
<1>2. Len(f) \in Nat /\ DOMAIN f = 1 .. Len(f) BY <1>1, LenProperties
<1> QED BY <1>1, <1>2

\* The sum of sizes is where their running sums end.
LEMMA SumIs ==
  ASSUME NEW sizes \in Seq(Nat), NEW p \in [0 .. Len(sizes) -> Nat], p[0] = 0,
         \A i \in 1 .. Len(sizes) : p[i] = p[i - 1] + sizes[i]
  PROVE TotalSize(sizes) = p[Len(sizes)]
<1>1. Len(sizes) \in Nat BY LenProperties
<1> DEFINE IsSum(g) == g = [i \in 0 .. Len(sizes) |-> IF i = 0 THEN 0 ELSE g[i - 1] + sizes[i]]
<1>2. IsSum(p)
  <2>1. \A i \in 0 .. Len(sizes) : p[i] = IF i = 0 THEN 0 ELSE p[i - 1] + sizes[i] BY <1>1
  <2> QED BY <2>1
<1>3. ASSUME NEW g, IsSum(g) PROVE g[Len(sizes)] = p[Len(sizes)]
  <2> DEFINE T == {i \in Nat : g[i] = p[i]}
  <2>1. 0 \in T BY <1>1, <1>3
  <2>2. ASSUME NEW i \in 0 .. Len(sizes) - 1, i \in T PROVE i + 1 \in T
    <3>1. i + 1 \in 1 .. Len(sizes) /\ i + 1 \in 0 .. Len(sizes) /\ i + 1 # 0 /\ i + 1 - 1 = i /\ i + 1 \in Nat BY <1>1
    <3>2. g[i + 1] = g[i] + sizes[i + 1] BY <3>1, <1>3
    <3>3. p[i + 1] = p[i] + sizes[i + 1] BY <3>1
    <3> QED BY <3>1, <3>2, <3>3, <2>2
  <2>3. 0 .. Len(sizes) \subseteq T
    <3> HIDE DEF T
    <3> QED BY <1>1, <2>1, <2>2, UpTo
  <2> QED BY <1>1, <2>3
<1>4. TotalSize(sizes) = (CHOOSE g : IsSum(g))[Len(sizes)] BY DEF TotalSize
<1>5. IsSum(CHOOSE g : IsSum(g)) BY <1>2
<1> HIDE DEF IsSum
<1> QED BY <1>3, <1>4, <1>5

\* And each running sum is the sum of a beginning.
LEMMA Sums ==
  ASSUME NEW sizes \in Seq(Nat), NEW p \in [0 .. Len(sizes) -> Nat], p[0] = 0,
         \A i \in 1 .. Len(sizes) : p[i] = p[i - 1] + sizes[i]
  PROVE \A i \in 0 .. Len(sizes) : TotalSize(SubSeq(sizes, 1, i)) = p[i]
<1> SUFFICES ASSUME NEW i \in 0 .. Len(sizes) PROVE TotalSize(SubSeq(sizes, 1, i)) = p[i]
  OBVIOUS
<1>1. Len(sizes) \in Nat BY LenProperties
<1> DEFINE f == 1
           t == SubSeq(sizes, f, i)
           q == [j \in 0 .. i |-> p[j]]
<1>2. f \in 1 .. Len(sizes) + 1 /\ i \in f - 1 .. Len(sizes) /\ i - f + 1 = i BY <1>1
<1>3. \A j \in 1 .. i : f + j - 1 = j BY <1>1
<1> HIDE DEF f
<1>4. t \in Seq(Nat) /\ Len(t) = i - f + 1 /\ \A j \in 1 .. i - f + 1 : t[j] = sizes[f + j - 1]
  BY <1>2, SubSeqProperties
<1> HIDE DEF t
<1>5. Len(t) = i BY <1>2, <1>4
<1>6. ASSUME NEW j \in 1 .. i PROVE t[j] = sizes[j]
  <2>1. j \in 1 .. i - f + 1 /\ f + j - 1 = j BY <1>2, <1>3
  <2>2. t[j] = sizes[f + j - 1] BY <1>4, <2>1
  <2> QED BY <2>1, <2>2
<1>7. q \in [0 .. Len(t) -> Nat] /\ q[0] = 0 /\ q[Len(t)] = p[i]
  <2>1. \A j \in 0 .. i : j \in 0 .. Len(sizes) BY <1>1
  <2>2. 0 \in 0 .. i /\ i \in 0 .. i BY <1>1
  <2> QED BY <1>5, <2>1, <2>2
<1>8. ASSUME NEW j \in 1 .. Len(t) PROVE q[j] = q[j - 1] + t[j]
  <2>1. j \in 0 .. i /\ j - 1 \in 0 .. i /\ j \in 1 .. Len(sizes) /\ j \in 1 .. i BY <1>1, <1>5
  <2>2. q[j] = p[j] /\ q[j - 1] = p[j - 1] BY <2>1
  <2>3. p[j] = p[j - 1] + sizes[j] BY <2>1
  <2>4. t[j] = sizes[j] BY <1>6, <2>1
  <2> QED BY <2>2, <2>3, <2>4
<1> HIDE DEF q
<1>9. TotalSize(t) = q[Len(t)] BY <1>4, <1>7, <1>8, SumIs
<1> QED BY <1>7, <1>9 DEF t, f

\* The values of a piece, laid end to end, are cut apart again.
LEMMA CutBack ==
  ASSUME NEW sizes \in Seq(Nat), NEW v \in Seq(Seq(Nat)), Takes(sizes, v)
  PROVE /\ FlattenSeq(v) \in Seq(Nat) /\ Len(FlattenSeq(v)) = TotalSize(sizes)
        /\ TotalSize(sizes) \in Nat
        /\ Cut(sizes, FlattenSeq(v)) = v
<1> DEFINE p == Starts(v)
           w == FlattenSeq(v)
<1>1. w \in Seq(Nat) /\ Laid(v, p) /\ Len(w) = p[Len(v)] BY Places
<1>2. \A i \in 1 .. Len(v) : p[i] <= Len(w) /\ \A k \in 1 .. Len(v[i]) : w[p[i - 1] + k] = v[i][k]
  BY Places
<1> HIDE DEF p, w
<1>3. Len(v) = Len(sizes) /\ Len(v) \in Nat /\ DOMAIN sizes = 1 .. Len(v) /\ DOMAIN v = 1 .. Len(v)
  BY LenProperties DEF Takes
<1>4. \A i \in 1 .. Len(v) : v[i] \in Seq(Nat) /\ Len(v[i]) \in Nat /\ Len(v[i]) = sizes[i]
  <2>1. \A i \in 1 .. Len(v) : v[i] \in Seq(Nat) BY ElementOfSeq
  <2> QED BY <1>3, <2>1, LenProperties DEF Takes
<1>5. p \in [0 .. Len(v) -> Nat] /\ p[0] = 0 /\ \A i \in 1 .. Len(v) : p[i] = p[i - 1] + Len(v[i])
  BY <1>1 DEF Laid
<1>6. \A i \in 1 .. Len(sizes) : p[i] = p[i - 1] + sizes[i] BY <1>3, <1>4, <1>5
<1>7. TotalSize(sizes) = p[Len(v)] BY <1>3, <1>5, <1>6, SumIs
<1>8. \A i \in 0 .. Len(sizes) : TotalSize(SubSeq(sizes, 1, i)) = p[i] BY <1>3, <1>5, <1>6, Sums
<1>9. p[Len(v)] \in Nat
  <2>1. Len(v) \in 0 .. Len(v) BY <1>3
  <2> QED BY <1>5, <2>1
<1>10. ASSUME NEW i \in 1 .. Len(v)
       PROVE SubSeq(w, TotalSize(SubSeq(sizes, 1, i - 1)) + 1, TotalSize(SubSeq(sizes, 1, i))) = v[i]
  <2>1. i - 1 \in 0 .. Len(sizes) /\ i \in 0 .. Len(sizes) BY <1>3
  <2>2. TotalSize(SubSeq(sizes, 1, i - 1)) = p[i - 1] /\ TotalSize(SubSeq(sizes, 1, i)) = p[i] BY <1>8, <2>1
  <2> DEFINE a == p[i - 1]
             b == p[i]
             d == v[i]
  <2>3. a \in Nat /\ b \in Nat /\ d \in Seq(Nat) BY <1>3, <1>4, <1>5, <2>1
  <2>4. b = a + Len(d) /\ b <= Len(w) /\ \A k \in 1 .. Len(d) : w[a + k] = d[k] BY <1>2, <1>5
  <2> HIDE DEF a, b, d
  <2>5. SubSeq(w, a + 1, b) = d BY <1>1, <2>3, <2>4, Excerpt
  <2> QED BY <2>2, <2>5 DEF a, b, d
<1>11. Cut(sizes, w) = [i \in 1 .. Len(v) |-> v[i]] BY <1>3, <1>10 DEF Cut
<1>12. v = [i \in 1 .. Len(v) |-> v[i]] BY <1>3, LenProperties
<1> QED BY <1>1, <1>7, <1>9, <1>11, <1>12 DEF w

\* There are bytes for all the values of a piece.
LEMMA BlankPiece ==
  ASSUME NEW sizes \in Seq(Nat)
  PROVE \E v \in Seq(Seq(Nat)) : Takes(sizes, v)
<1> DEFINE v == [i \in 1 .. Len(sizes) |-> [k \in 1 .. sizes[i] |-> 0]]
<1>1. Len(sizes) \in Nat /\ DOMAIN sizes = 1 .. Len(sizes) /\ \A i \in 1 .. Len(sizes) : sizes[i] \in Nat
  BY LenProperties, ElementOfSeq
<1>2. ASSUME NEW i \in 1 .. Len(sizes) PROVE v[i] \in Seq(Nat) /\ Len(v[i]) = sizes[i]
  <2> DEFINE n == sizes[i]
             g == [k \in 1 .. n |-> 0]
  <2>1. n \in Nat /\ v[i] = g BY <1>1
  <2> HIDE DEF n
  <2>2. g \in [1 .. n -> Nat] OBVIOUS
  <2> HIDE DEF g
  <2>3. g \in Seq(Nat) /\ Len(g) = n BY <2>1, <2>2, SeqIs
  <2> QED BY <2>1, <2>3 DEF n
<1>3. v \in [1 .. Len(sizes) -> Seq(Nat)]
  BY <1>2
<1> HIDE DEF v
<1>4. v \in Seq(Seq(Nat)) /\ Len(v) = Len(sizes) BY <1>1, <1>3, SeqIs
<1> QED BY <1>1, <1>2, <1>4 DEF Takes

\* A sum of sizes is a size.
LEMMA SumNat ==
  ASSUME NEW sizes \in Seq(Nat)
  PROVE TotalSize(sizes) \in Nat /\ (sizes = <<>> => TotalSize(sizes) = 0)
<1>1. PICK v \in Seq(Seq(Nat)) : Takes(sizes, v) BY BlankPiece
<1>2. TotalSize(sizes) \in Nat BY <1>1, CutBack
<1>3. ASSUME sizes = <<>> PROVE TotalSize(sizes) = 0
  <2>1. Len(sizes) = 0 BY <1>3, EmptySeq
  <2> DEFINE p == [i \in {0} |-> 0]
  <2>2. p \in [0 .. Len(sizes) -> Nat] /\ p[0] = 0 BY <2>1
  <2> HIDE DEF p
  <2>3. \A i \in 1 .. Len(sizes) : p[i] = p[i - 1] + sizes[i] BY <2>1
  <2>4. TotalSize(sizes) = p[Len(sizes)] BY <2>2, <2>3, SumIs
  <2> QED BY <2>1, <2>2, <2>4
<1> QED BY <1>2, <1>3

\* A piece is a few values of at least a byte each, and no longer than it is written.
LEMMA PieceShape ==
  ASSUME NEW piece \in Piece
  PROVE /\ Fields(piece) \in Seq(Nat \ {0}) /\ Fields(piece) \in Seq(Nat)
        /\ Len(Fields(piece)) \in Nat /\ Chars(piece) \in Nat
        /\ piece = <<>> => Fields(piece) = <<>> /\ Chars(piece) = 0
<1> DEFINE F == [count : 0 .. 99, code : DOMAIN Width]
           n == Len(piece)
           each == [j \in 1 .. n |-> IF piece[j].code = "s" THEN <<SizeOf(piece[j])>>
                                    ELSE [i \in 1 .. Times(piece[j]) |-> Width[piece[j].code]]]
           chars == [j \in 1 .. n |-> IF piece[j].count = 0 THEN 1 ELSE IF piece[j].count < 10 THEN 2 ELSE 3]
<1>1. n \in Nat /\ DOMAIN piece = 1 .. n /\ \A j \in 1 .. n : piece[j] \in F
  <2>1. piece \in Seq(F) BY DEF Piece
  <2> HIDE DEF F
  <2> QED BY <2>1, LenProperties, ElementOfSeq
<1>2. ASSUME NEW j \in 1 .. n PROVE each[j] \in Seq(Nat \ {0})
  <2> DEFINE f == piece[j]
  <2>1. f \in F BY <1>1
  <2> HIDE DEF f
  <2>2. f.count \in 0 .. 99 /\ f.code \in {"s", "B", "H"}
    <3>1. DOMAIN Width = {"s", "B", "H"} BY DEF Width
    <3>2. f.count \in 0 .. 99 /\ f.code \in DOMAIN Width BY <2>1
    <3> QED BY <3>1, <3>2
  <2>3. Times(f) \in Nat \ {0}
    <3> DEFINE c == f.count
    <3>1. c \in 0 .. 99 /\ Times(f) = IF c = 0 THEN 1 ELSE c BY <2>2 DEF Times
    <3> HIDE DEF c
    <3>2. c \in Nat BY <3>1
    <3>3. CASE c = 0 BY <3>1, <3>3
    <3>4. CASE c # 0 BY <3>1, <3>2, <3>4
    <3> QED BY <3>3, <3>4
  <2>4. Width[f.code] \in {1, 2} BY <2>2 DEF Width
  <2>5. SizeOf(f) \in Nat \ {0}
    <3> DEFINE t == Times(f)
               w == Width[f.code]
    <3>1. t \in Nat \ {0} /\ w \in {1, 2} BY <2>3, <2>4
    <3> HIDE DEF t, w
    <3>2. t * w \in Nat \ {0}
      <4>1. CASE w = 1 BY <4>1, <3>1
      <4>2. CASE w = 2 BY <4>2, <3>1
      <4> QED BY <4>1, <4>2, <3>1
    <3> QED BY <3>2 DEF t, w, SizeOf
  <2>6. <<SizeOf(f)>> \in Seq(Nat \ {0}) BY <2>5
  <2>7. [i \in 1 .. Times(f) |-> Width[f.code]] \in Seq(Nat \ {0})
    <3> DEFINE m == Times(f)
               w == Width[f.code]
               g == [i \in 1 .. m |-> w]
               P == Nat \ {0}
    <3>1. m \in Nat /\ w \in P BY <2>3, <2>4
    <3> HIDE DEF m, w, P
    <3>2. g \in [1 .. m -> P] BY <3>1
    <3> HIDE DEF g
    <3>3. g \in Seq(P) BY <3>1, <3>2, SeqIs
    <3> QED BY <3>3 DEF g, m, w, P
  <2>8. each[j] = IF f.code = "s" THEN <<SizeOf(f)>> ELSE [i \in 1 .. Times(f) |-> Width[f.code]]
    BY DEF f
  <2> HIDE DEF each
  <2> QED BY <2>6, <2>7, <2>8
<1>3. Fields(piece) = FlattenSeq(each) BY <1>1 DEF Fields
<1>4. each \in [1 .. n -> Seq(Nat \ {0})]
  <2>1. each = [j \in 1 .. n |-> each[j]] OBVIOUS
  <2> HIDE DEF each
  <2> QED BY <1>2, <2>1
<1>5. Fields(piece) \in Seq(Nat \ {0})
  <2> HIDE DEF each, n
  <2>1. each \in Seq(Seq(Nat \ {0})) BY <1>1, <1>4, SeqIs
  <2> QED BY <1>3, <2>1, Places
<1>6. Fields(piece) \in Seq(Nat) BY <1>5, SeqMonotonic
<1>7. Chars(piece) \in Nat
  <2>1. Chars(piece) = TotalSize(chars) BY <1>1 DEF Chars
  <2>2. chars \in [1 .. n -> Nat] OBVIOUS
  <2> HIDE DEF chars, n
  <2>3. chars \in Seq(Nat) BY <1>1, <2>2, SeqIs
  <2> QED BY <2>1, <2>3, SumNat
<1>8. ASSUME piece = <<>> PROVE Fields(piece) = <<>> /\ Chars(piece) = 0
  <2>1. n = 0 BY <1>8, EmptySeq
  <2>2. each = <<>> /\ chars = <<>> BY <2>1
  <2> HIDE DEF each, chars, n
  <2>3. Fields(piece) = <<>> BY <1>3, <2>2 DEF FlattenSeq
  <2>4. Chars(piece) = TotalSize(<<>>) BY <2>2, <1>1 DEF Chars, chars
  <2>5. <<>> \in Seq(Nat) BY EmptySeq
  <2> QED BY <2>3, <2>4, <2>5, SumNat
<1> QED BY <1>5, <1>6, <1>7, <1>8, LenProperties

\* Behind how many values each piece of a format ends.
SlotStarts(f) == Starts(Slots(f))
PieceLies(f, a, i) ==
  /\ SlotStarts(f)[i - 1] \in Nat /\ SlotStarts(f)[i] \in Nat /\ SlotStarts(f)[i] <= Len(a)
  /\ SlotStarts(f)[i] = SlotStarts(f)[i - 1] + Len(Fields(f[i])) + (IF i = Len(f) THEN 0 ELSE 1)
  /\ \A k \in 1 .. Len(Fields(f[i])) : Len(a[SlotStarts(f)[i - 1] + k]) = Fields(f[i])[k]
  /\ i # Len(f) => a[SlotStarts(f)[i]] \in Seq(Nat) /\ \A j \in 1 .. Len(a[SlotStarts(f)[i]]) : a[SlotStarts(f)[i]][j] # 0

\* The values of a format lie where its pieces say.
LEMMA Layout ==
  ASSUME NEW f \in Formats, NEW a \in Values[f]
  PROVE /\ Len(f) \in Nat \ {0} /\ DOMAIN f = 1 .. Len(f)
        /\ \A i \in 1 .. Len(f) : f[i] \in Piece /\ PieceLies(f, a, i)
        /\ a \in Seq(Seq(Nat)) /\ SlotStarts(f)[0] = 0 /\ SlotStarts(f)[Len(f)] = Len(a)
<1> DEFINE n == Len(f)
           s == Slots(f)
           sizes == FlattenSeq(s)
           p == SlotStarts(f)
<1>1. n \in Nat \ {0} /\ DOMAIN f = 1 .. n /\ \A i \in 1 .. n : f[i] \in Piece
  <2>1. f \in Seq(Piece) /\ f # <<>> BY FormatAssumption DEF FormatAssumption
  <2> QED BY <2>1, LenProperties, ElementOfSeq, EmptySeq
<1>2. a \in Seq(Seq(Nat)) /\ Fit(a, f) BY ValuesAssumption DEF ValuesAssumption
<1>3. Len(a) = Len(sizes) /\ \A k \in DOMAIN sizes :
        IF sizes[k] = 0 THEN \A j \in DOMAIN a[k] : a[k][j] # 0 ELSE Len(a[k]) = sizes[k]
  BY <1>2 DEF Fit
<1>4. ASSUME NEW i \in 1 .. n
      PROVE /\ Fields(f[i]) \in Seq(Nat \ {0}) /\ Fields(f[i]) \in Seq(Nat) /\ Len(Fields(f[i])) \in Nat
            /\ s[i] \in Seq(Nat)
            /\ Len(s[i]) = Len(Fields(f[i])) + (IF i = n THEN 0 ELSE 1)
            /\ \A k \in 1 .. Len(Fields(f[i])) : s[i][k] = Fields(f[i])[k] /\ s[i][k] # 0
            /\ i # n => s[i][Len(Fields(f[i])) + 1] = 0
  <2> DEFINE d == Fields(f[i])
             e == IF i = n THEN <<>> ELSE <<0>>
  <2>1. d \in Seq(Nat \ {0}) /\ d \in Seq(Nat) /\ Len(d) \in Nat BY <1>1, PieceShape
  <2>2. e \in Seq(Nat) /\ Len(e) = (IF i = n THEN 0 ELSE 1) /\ (i # n => e[1] = 0)
    <3>1. CASE i = n BY <3>1, EmptySeq
    <3>2. CASE i # n
      <4>1. e = <<0>> BY <3>2
      <4>2. <<0>> \in Seq(Nat) /\ Len(<<0>>) = 1 /\ <<0>>[1] = 0 OBVIOUS
      <4> HIDE DEF e
      <4> QED BY <4>1, <4>2, <3>2
    <3> QED BY <3>1, <3>2
  <2>3. s[i] = d \o e BY <1>1 DEF Slots
  <2>4. \A k \in 1 .. Len(d) : d[k] # 0 BY <2>1, ElementOfSeq
  <2> HIDE DEF d, e, s
  <2>5. /\ d \o e \in Seq(Nat) /\ Len(d \o e) = Len(d) + Len(e)
        /\ \A k \in 1 .. Len(d) : (d \o e)[k] = d[k]
        /\ \A k \in 1 .. Len(e) : (d \o e)[Len(d) + k] = e[k]
    <3>1. d \in Seq(Nat) /\ e \in Seq(Nat) BY <2>1, <2>2
    <3> QED BY <3>1, Concat
  <2>6. i # n => (d \o e)[Len(d) + 1] = 0 BY <2>2, <2>5
  <2>7. /\ Len(s[i]) = Len(d) + (IF i = n THEN 0 ELSE 1)
        /\ \A k \in 1 .. Len(d) : s[i][k] = d[k] /\ s[i][k] # 0
        /\ i # n => s[i][Len(d) + 1] = 0
    BY <2>2, <2>3, <2>4, <2>5, <2>6
  <2> QED BY <2>1, <2>3, <2>5, <2>7 DEF d
<1>5. s \in Seq(Seq(Nat)) /\ Len(s) = n
  <2>1. s = [i \in 1 .. n |-> s[i]] BY <1>1 DEF Slots
  <2> HIDE DEF s, n
  <2>2. s \in [1 .. n -> Seq(Nat)] BY <1>4, <2>1
  <2> QED BY <1>1, <2>2, SeqIs
<1> HIDE DEF s, n
<1>6. /\ sizes \in Seq(Nat) /\ Laid(s, p) /\ Len(sizes) = p[Len(s)]
      /\ \A i \in 1 .. Len(s) : /\ p[i] <= Len(sizes)
                                /\ \A k \in 1 .. Len(s[i]) : sizes[p[i - 1] + k] = s[i][k]
  BY <1>5, Places DEF SlotStarts, s
<1> HIDE DEF p, sizes
<1>7. DOMAIN sizes = 1 .. Len(sizes) /\ Len(sizes) \in Nat BY <1>6, LenProperties
<1>8. p \in [0 .. n -> Nat] /\ p[0] = 0 /\ \A i \in 1 .. n : p[i] = p[i - 1] + Len(s[i])
  BY <1>5, <1>6 DEF Laid
<1>9. ASSUME NEW i \in 1 .. n PROVE PieceLies(f, a, i)
  <2> DEFINE m == Len(Fields(f[i]))
             b == p[i - 1]
  <2>1. i - 1 \in 0 .. n /\ i \in 0 .. n BY <1>1
  <2>2. b \in Nat /\ p[i] \in Nat /\ m \in Nat BY <2>1, <1>8, <1>4
  <2>3. p[i] = b + m + (IF i = n THEN 0 ELSE 1)
    <3>1. p[i] = b + Len(s[i]) BY <1>8
    <3>2. Len(s[i]) = m + (IF i = n THEN 0 ELSE 1) BY <1>4
    <3> HIDE DEF m, b
    <3> QED BY <2>2, <3>1, <3>2
  <2>4. p[i] <= Len(sizes) BY <1>5, <1>6
  <2>5. ASSUME NEW k \in 1 .. m PROVE Len(a[b + k]) = Fields(f[i])[k]
    <3>1. k \in 1 .. Len(s[i])
      <4>1. Len(s[i]) = m + (IF i = n THEN 0 ELSE 1) BY <1>4
      <4> HIDE DEF m
      <4> QED BY <2>2, <4>1
    <3>2. sizes[b + k] = s[i][k] BY <3>1, <1>5, <1>6
    <3>3. s[i][k] = Fields(f[i])[k] /\ s[i][k] # 0 BY <1>4
    <3>4. b + k \in DOMAIN sizes
      <4> HIDE DEF m, b
      <4> QED BY <1>7, <2>2, <2>3, <2>4
    <3> QED BY <1>3, <3>2, <3>3, <3>4
  <2>6. ASSUME i # n PROVE a[p[i]] \in Seq(Nat) /\ \A j \in 1 .. Len(a[p[i]]) : a[p[i]][j] # 0
    <3>1. Len(s[i]) = m + 1 /\ s[i][m + 1] = 0 BY <2>6, <1>4
    <3>2. m + 1 \in 1 .. Len(s[i])
      <4> HIDE DEF m
      <4> QED BY <2>2, <3>1
    <3>3. sizes[b + (m + 1)] = s[i][m + 1] BY <3>2, <1>5, <1>6
    <3>4. b + (m + 1) = p[i] /\ p[i] \in 1 .. Len(sizes)
      <4> HIDE DEF m, b
      <4> QED BY <1>7, <2>2, <2>3, <2>4, <2>6
    <3>5. sizes[p[i]] = 0 BY <3>1, <3>3, <3>4
    <3>6. \A j \in DOMAIN a[p[i]] : a[p[i]][j] # 0 BY <1>3, <1>7, <3>4, <3>5
    <3>7. a[p[i]] \in Seq(Nat) BY <1>2, <1>3, <3>4, ElementOfSeq
    <3>8. DOMAIN a[p[i]] = 1 .. Len(a[p[i]]) BY <3>7, LenProperties
    <3> QED BY <3>6, <3>7, <3>8
  <2> HIDE DEF b, m
  <2>7. p[i] <= Len(a) BY <2>4, <1>3
  <2> QED BY <2>2, <2>3, <2>5, <2>6, <2>7 DEF PieceLies, p, n, m, b
<1>10. p[n] = Len(a) BY <1>3, <1>5, <1>6
<1> QED BY <1>1, <1>2, <1>8, <1>9, <1>10 DEF n, p

\* The fixed values of a piece, and its bytes.
Vals(f, a, i) == SubSeq(a, SlotStarts(f)[i - 1] + 1, SlotStarts(f)[i - 1] + Len(Fields(f[i])))
Part(f, a, i) == FlattenSeq(Vals(f, a, i)) \o (IF i = Len(f) THEN <<>> ELSE mak_zstring(a[SlotStarts(f)[i]]))

\* The fixed values of a piece are as long as its fields, and stand where they should in all values.
LEMMA PieceValues ==
  ASSUME NEW f \in Formats, NEW a \in Values[f], NEW i \in 1 .. Len(f)
  PROVE /\ Vals(f, a, i) \in Seq(Seq(Nat)) /\ Takes(Fields(f[i]), Vals(f, a, i))
        /\ i = Len(f) => SubSeq(a, 1, SlotStarts(f)[i - 1]) \o Vals(f, a, i) = SubSeq(a, 1, SlotStarts(f)[i])
        /\ i # Len(f) => Append(SubSeq(a, 1, SlotStarts(f)[i - 1]) \o Vals(f, a, i), a[SlotStarts(f)[i]]) = SubSeq(a, 1, SlotStarts(f)[i])
<1> DEFINE b == SlotStarts(f)[i - 1]
           c == SlotStarts(f)[i]
           sizes == Fields(f[i])
           m == Len(sizes)
           e == b + m
           f1 == b + 1
           v == Vals(f, a, i)
<1>1. a \in Seq(Seq(Nat)) /\ f[i] \in Piece /\ PieceLies(f, a, i) BY Layout
<1>2. sizes \in Seq(Nat) /\ m \in Nat /\ DOMAIN sizes = 1 .. m BY <1>1, PieceShape, LenProperties
<1>3. b \in Nat /\ c \in Nat /\ c <= Len(a) /\ Len(a) \in Nat
  BY <1>1, LenProperties DEF PieceLies
<1>4. c = b + m + (IF i = Len(f) THEN 0 ELSE 1) /\ \A k \in 1 .. m : Len(a[b + k]) = sizes[k]
  BY <1>1 DEF PieceLies
<1>5. v = SubSeq(a, f1, e) BY DEF Vals
<1> HIDE DEF b, c, m, sizes, v
<1>6. e \in Nat /\ e <= Len(a) /\ f1 \in 1 .. Len(a) + 1 /\ e \in f1 - 1 .. Len(a) /\ e - f1 + 1 = m
      /\ \A k \in 1 .. m : f1 + k - 1 = b + k
  <2>1. e \in Nat /\ c >= e /\ e >= b
    <3>1. CASE i = Len(f) BY <1>2, <1>3, <1>4, <3>1
    <3>2. CASE i # Len(f) BY <1>2, <1>3, <1>4, <3>2
    <3> QED BY <3>1, <3>2
  <2>2. e <= Len(a) BY <2>1, <1>3
  <2>3. f1 \in 1 .. Len(a) + 1 /\ e \in f1 - 1 .. Len(a)
    <3> HIDE DEF e
    <3> QED BY <1>3, <2>1, <2>2
  <2>4. e - f1 + 1 = m BY <1>2, <1>3
  <2>5. \A k \in 1 .. m : f1 + k - 1 = b + k BY <1>2, <1>3
  <2> QED BY <2>1, <2>2, <2>3, <2>4, <2>5
<1> HIDE DEF f1, e
<1>7. v \in Seq(Seq(Nat)) /\ Len(v) = e - f1 + 1 /\ \A k \in 1 .. e - f1 + 1 : v[k] = a[f1 + k - 1]
  BY <1>1, <1>5, <1>6, SubSeqProperties
<1>8. Len(v) = m /\ \A k \in 1 .. m : a[b + k] = v[k]
  <2>1. Len(v) = m BY <1>6, <1>7
  <2>2. ASSUME NEW k \in 1 .. m PROVE a[b + k] = v[k]
    <3>1. k \in 1 .. e - f1 + 1 /\ f1 + k - 1 = b + k BY <1>6
    <3>2. v[k] = a[f1 + k - 1] BY <1>7, <3>1
    <3> QED BY <3>1, <3>2
  <2> QED BY <2>1, <2>2
<1>9. Takes(sizes, v) BY <1>2, <1>4, <1>8 DEF Takes
<1>10. SubSeq(a, 1, b) \o v = SubSeq(a, 1, e)
  <2>1. e = b + Len(v) BY <1>8 DEF e
  <2>2. \A k \in 1 .. Len(v) : a[b + k] = v[k] BY <1>8
  <2> DEFINE V == Seq(Nat)
  <2>3. a \in Seq(V) /\ v \in Seq(V) BY <1>1, <1>7
  <2>4. b \in Nat /\ e \in Nat /\ e <= Len(a) BY <1>3, <1>6
  <2> HIDE DEF V
  <2> QED BY <2>1, <2>2, <2>3, <2>4, Excerpt
<1>11. ASSUME i = Len(f) PROVE SubSeq(a, 1, b) \o v = SubSeq(a, 1, c)
  <2>1. c = e BY <1>2, <1>3, <1>4, <1>11 DEF e
  <2> QED BY <1>10, <2>1
<1>12. ASSUME i # Len(f) PROVE Append(SubSeq(a, 1, b) \o v, a[c]) = SubSeq(a, 1, c)
  <2>1. c = e + 1 BY <1>2, <1>3, <1>4, <1>12 DEF e
  <2> DEFINE d == <<a[c]>>
  <2>2. a[c] \in Seq(Nat) BY <1>1, <1>3, <1>6, <2>1, ElementOfSeq
  <2>3. d \in Seq(Seq(Nat)) /\ Len(d) = 1 /\ d[1] = a[c] BY <2>2
  <2> HIDE DEF d
  <2>4. \A k \in 1 .. Len(d) : a[e + k] = d[k] BY <2>1, <2>3
  <2>5. c = e + Len(d) BY <2>1, <2>3
  <2>6. SubSeq(a, 1, e) \o d = SubSeq(a, 1, c)
    <3> DEFINE V == Seq(Nat)
    <3>1. a \in Seq(V) /\ d \in Seq(V) BY <1>1, <2>3
    <3>2. e \in Nat /\ c \in Nat /\ c <= Len(a) BY <1>3, <1>6
    <3> HIDE DEF V
    <3> QED BY <2>4, <2>5, <3>1, <3>2, Excerpt
  <2> DEFINE g == SubSeq(a, 1, e)
             x == a[c]
  <2>7. g \in Seq(Seq(Nat))
    <3> DEFINE one == 1
    <3>1. one \in 1 .. Len(a) + 1 /\ e \in one - 1 .. Len(a) BY <1>3, <1>6
    <3> HIDE DEF one
    <3>2. SubSeq(a, one, e) \in Seq(Seq(Nat)) BY <1>1, <1>3, <3>1, SubSeqProperties
    <3> QED BY <3>2 DEF one
  <2>8. x \in Seq(Nat) BY <2>2
  <2> HIDE DEF g, x
  <2>9. Append(g, x) = g \o <<x>> BY <2>7, <2>8, AppendIsConcat
  <2> QED BY <1>10, <2>6, <2>9 DEF g, x, d
<1> QED BY <1>7, <1>9, <1>11, <1>12 DEF b, c, m, sizes, v

\* The string ends at the first zero byte.
LEMMA FindsZero ==
  ASSUME NEW bytes \in Seq(Nat), NEW str \in Seq(Nat), Len(str) + 1 <= Len(bytes),
         \A k \in 1 .. Len(str) : bytes[k] = str[k] /\ str[k] # 0, bytes[Len(str) + 1] = 0
  PROVE get_zstring(bytes).size = Len(str) + 1 /\ get_zstring(bytes).str = str
<1> DEFINE I == {i \in 1 .. Len(bytes) : bytes[i] = 0}
           z == IF I # {} THEN Min(I) ELSE 0
           n == Len(str)
<1>1. n \in Nat /\ Len(bytes) \in Nat BY LenProperties
<1>2. n + 1 \in I /\ \A i \in I : n + 1 <= i BY <1>1
<1>3. Min(I) = n + 1 BY <1>1, <1>2 DEF Min
<1>4. z = n + 1 BY <1>2, <1>3
<1>5. get_zstring(bytes) = IF z = 0 THEN [size |-> 0, str |-> SubSeq(bytes, 1, Len(bytes) - 1)]
                           ELSE [size |-> z, str |-> SubSeq(bytes, 1, z - 1)]
  BY DEF get_zstring, SelectInSeq
<1> HIDE DEF z
<1>6. z # 0 /\ z - 1 = n BY <1>1, <1>4
<1>7. get_zstring(bytes).size = z /\ get_zstring(bytes).str = SubSeq(bytes, 1, n) BY <1>5, <1>6
<1>8. SubSeq(bytes, 1, n) = str
  <2> DEFINE b == 0
  <2>1. b \in Nat /\ n = b + Len(str) /\ n <= Len(bytes) /\ n \in Nat /\ b + 1 = 1 BY <1>1
  <2>2. \A k \in 1 .. Len(str) : bytes[b + k] = str[k] BY <1>1
  <2> HIDE DEF b, n
  <2>3. SubSeq(bytes, b + 1, n) = str BY <2>1, <2>2, Excerpt
  <2> QED BY <2>1, <2>3
<1> QED BY <1>4, <1>7, <1>8

\* The bytes of a piece are its fixed values and the string behind them.
LEMMA PartShape ==
  ASSUME NEW f \in Formats, NEW a \in Values[f], NEW i \in 1 .. Len(f)
  PROVE LET size == TotalSize(Fields(f[i]))
            str == a[SlotStarts(f)[i]]
            part == Part(f, a, i)
            flat == FlattenSeq(Vals(f, a, i))
        IN /\ size \in Nat /\ flat \in Seq(Nat) /\ Len(flat) = size /\ part \in Seq(Nat)
           /\ Cut(Fields(f[i]), flat) = Vals(f, a, i)
           /\ \A k \in 1 .. size : part[k] = flat[k]
           /\ i = Len(f) => Len(part) = size
           /\ i # Len(f) => /\ str \in Seq(Nat) /\ Len(str) \in Nat /\ Len(part) = size + Len(str) + 1
                            /\ \A k \in 1 .. Len(str) : part[size + k] = str[k] /\ str[k] # 0
                            /\ part[size + Len(str) + 1] = 0
<1> DEFINE size == TotalSize(Fields(f[i]))
           str == a[SlotStarts(f)[i]]
           part == Part(f, a, i)
           flat == FlattenSeq(Vals(f, a, i))
           v == Vals(f, a, i)
           last == IF i = Len(f) THEN <<>> ELSE mak_zstring(str)
<1>1. f[i] \in Piece /\ PieceLies(f, a, i) BY Layout
<1>2. Fields(f[i]) \in Seq(Nat) BY <1>1, PieceShape
<1>3. v \in Seq(Seq(Nat)) /\ Takes(Fields(f[i]), v) BY PieceValues
<1> HIDE DEF v
<1>4. flat \in Seq(Nat) /\ Len(flat) = size /\ size \in Nat /\ Cut(Fields(f[i]), flat) = v
  BY <1>2, <1>3, CutBack DEF v
<1>5. part = flat \o last BY DEF Part
<1>6. i # Len(f) => str \in Seq(Nat) /\ \A j \in 1 .. Len(str) : str[j] # 0
  BY <1>1 DEF PieceLies
<1> HIDE DEF flat, size, part, str
<1>7. CASE i = Len(f)
  <2>1. last = <<>> BY <1>7
  <2>2. part = flat BY <1>4, <1>5, <2>1, ConcatEmptySeq
  <2> QED BY <1>4, <1>7, <2>2 DEF flat, size, part, str, v
<1>8. CASE i # Len(f)
  <2> DEFINE d == <<0>>
             n == Len(str)
  <2>1. last = str \o d BY <1>8 DEF mak_zstring
  <2>2. d \in Seq(Nat) /\ Len(d) = 1 /\ d[1] = 0 OBVIOUS
  <2>3. str \in Seq(Nat) /\ n \in Nat BY <1>6, <1>8, LenProperties
  <2> HIDE DEF d, last
  <2>12. str \in Seq(Nat) /\ d \in Seq(Nat) BY <2>2, <2>3
  <2>4. /\ str \o d \in Seq(Nat) /\ Len(str \o d) = Len(str) + Len(d)
        /\ \A k \in 1 .. Len(str) : (str \o d)[k] = str[k]
        /\ \A k \in 1 .. Len(d) : (str \o d)[Len(str) + k] = d[k]
    BY <2>12, Concat
  <2>5. (str \o d)[Len(str) + 1] = 0 BY <2>2, <2>4
  <2>6. /\ last \in Seq(Nat) /\ Len(last) = n + 1
        /\ \A k \in 1 .. n : last[k] = str[k]
        /\ last[n + 1] = 0
    BY <2>1, <2>2, <2>4, <2>5
  <2>13. flat \in Seq(Nat) /\ last \in Seq(Nat) BY <1>4, <2>6
  <2>7. /\ flat \o last \in Seq(Nat) /\ Len(flat \o last) = Len(flat) + Len(last)
        /\ \A k \in 1 .. Len(flat) : (flat \o last)[k] = flat[k]
        /\ \A k \in 1 .. Len(last) : (flat \o last)[Len(flat) + k] = last[k]
    BY <2>13, Concat
  <2>8. Len(part) = size + n + 1 /\ part \in Seq(Nat)
    <3>1. Len(part) = size + (n + 1) BY <1>4, <1>5, <2>6, <2>7
    <3> HIDE DEF n
    <3> QED BY <3>1, <1>4, <1>5, <2>3, <2>7
  <2>9. \A k \in 1 .. size : part[k] = flat[k] BY <1>4, <1>5, <2>7
  <2>10. ASSUME NEW k \in 1 .. n PROVE part[size + k] = str[k] /\ str[k] # 0
    <3>1. k \in 1 .. Len(last) BY <2>3, <2>6
    <3>2. part[size + k] = last[k] BY <1>4, <1>5, <2>7, <3>1
    <3> QED BY <3>2, <2>6, <1>6, <1>8
  <2>11. part[size + n + 1] = 0
    <3>1. n + 1 \in 1 .. Len(last)
      <4> HIDE DEF n
      <4> QED BY <2>3, <2>6
    <3>2. part[size + (n + 1)] = last[n + 1] BY <1>4, <1>5, <2>7, <3>1
    <3>3. size + (n + 1) = size + n + 1
      <4> HIDE DEF n
      <4> QED BY <1>4, <2>3
    <3> QED BY <3>2, <3>3, <2>6
  <2> QED BY <1>4, <1>8, <2>3, <2>8, <2>9, <2>10, <2>11 DEF flat, size, part, str, v
<1> QED BY <1>7, <1>8

\* The bytes of all values, and behind how many of them each piece ends.
Parts(f, a) == [i \in 1 .. Len(f) |-> Part(f, a, i)]
Whole(f, a) == FlattenSeq(Parts(f, a))
Ends(f, a) == Starts(Parts(f, a))

\* And lie where Ends says in the bytes of all pieces.
LEMMA PartLies ==
  ASSUME NEW f \in Formats, NEW a \in Values[f], NEW i \in 1 .. Len(f)
  PROVE LET size == TotalSize(Fields(f[i]))
            str == a[SlotStarts(f)[i]]
            part == Part(f, a, i)
            whole == Whole(f, a)
            ends == Ends(f, a)
        IN /\ whole \in Seq(Nat) /\ ends \in [0 .. Len(f) -> Nat] /\ ends[0] = 0 /\ ends[Len(f)] = Len(whole)
           /\ ends[i] = ends[i - 1] + Len(part) /\ ends[i] <= Len(whole)
           /\ i # Len(f) => ends[i] <= ends[Len(f) - 1]
           /\ SubSeq(whole, 1, ends[i - 1]) \o part = SubSeq(whole, 1, ends[i])
           /\ \A k \in 1 .. Len(part) : whole[ends[i - 1] + k] = part[k]
<1> DEFINE part == Part(f, a, i)
           whole == Whole(f, a)
           p == Ends(f, a)
           s == Parts(f, a)
           n == Len(f)
<1>1. n \in Nat \ {0} BY Layout
<1>2. \A j \in 1 .. n : Part(f, a, j) \in Seq(Nat) BY PartShape
<1>3. s \in [1 .. n -> Seq(Nat)] BY <1>2 DEF Parts
<1>4. s[i] = part BY DEF Parts
<1> HIDE DEF s, n
<1>5. s \in Seq(Seq(Nat)) /\ Len(s) = n BY <1>1, <1>3, SeqIs
<1>6. /\ whole \in Seq(Nat) /\ Laid(s, p) /\ Len(whole) = p[Len(s)]
      /\ \A j \in 1 .. Len(s) : /\ p[j] <= Len(whole)
                                /\ \A k \in 1 .. Len(s[j]) : whole[p[j - 1] + k] = s[j][k]
  BY <1>5, Places DEF Whole, Ends, s
<1> HIDE DEF p, whole
<1>7. p \in [0 .. n -> Nat] /\ p[0] = 0 /\ \A j \in 1 .. n : p[j] = p[j - 1] + Len(s[j])
  BY <1>5, <1>6 DEF Laid
<1>8. i \in 1 .. n /\ i - 1 \in 0 .. n /\ i \in 0 .. n BY <1>1 DEF n
<1>9. p[i] = p[i - 1] + Len(part) /\ p[i] <= Len(whole) /\ \A k \in 1 .. Len(part) : whole[p[i - 1] + k] = part[k]
  <2>1. p[i] = p[i - 1] + Len(s[i]) BY <1>7, <1>8
  <2>2. p[i] <= Len(whole) /\ \A k \in 1 .. Len(s[i]) : whole[p[i - 1] + k] = s[i][k]
    BY <1>5, <1>6, <1>8
  <2> QED BY <2>1, <2>2, <1>4
<1>10. ASSUME i # n PROVE p[i] <= p[n - 1]
  <2>1. n - 1 \in 0 .. Len(s) /\ i \in 0 .. n - 1 BY <1>1, <1>5, <1>8, <1>10
  <2> QED BY <1>5, <1>6, <2>1, Rises
<1>11. part \in Seq(Nat) BY PartShape
<1> DEFINE b == p[i - 1]
           c == p[i]
<1>12. b \in Nat /\ c \in Nat BY <1>7, <1>8
<1>13. c = b + Len(part) /\ c <= Len(whole) /\ \A k \in 1 .. Len(part) : whole[b + k] = part[k]
  BY <1>9
<1>14. SubSeq(whole, 1, b) \o part = SubSeq(whole, 1, c)
  <2> HIDE DEF b, c, part
  <2>1. whole \in Seq(Nat) /\ part \in Seq(Nat) BY <1>6, <1>11
  <2>2. c = b + Len(part) /\ c <= Len(whole) BY <1>13
  <2>3. \A k \in 1 .. Len(part) : whole[b + k] = part[k] BY <1>13
  <2> DEFINE V == Nat
  <2>5. whole \in Seq(V) /\ part \in Seq(V) BY <2>1
  <2>6. b \in Nat /\ c \in Nat /\ c <= Len(whole) BY <1>12, <2>2
  <2>7. c = b + Len(part) BY <2>2
  <2> HIDE DEF V
  <2>4. SubSeq(whole, 1, b) \o part = SubSeq(whole, 1, c) 
    BY <2>3, <2>5, <2>6, <2>7, Excerpt
  <2> QED BY <2>4
<1> QED BY <1>5, <1>6, <1>7, <1>9, <1>10, <1>14 DEF n, p, whole

\* Bytes that begin as the packed ones do, as far as they go, and what a piece reads of them.
BeginsAs(h, whole) == \A k \in 1 .. Len(whole) : k <= Len(h) => h[k] = whole[k]

\* A piece that lies in the data is read as its values.
LEMMA PieceRead ==
  ASSUME NEW f \in Formats, NEW a \in Values[f], NEW i \in 1 .. Len(f), NEW h \in Seq(Nat), NEW from, NEW at,
         from = Ends(f, a)[i - 1], at = from + TotalSize(Fields(f[i])), at <= Len(h),
         BeginsAs(h, Whole(f, a))
  PROVE LET z == get_zstring(SubSeq(h, at + 1, Len(h)))
        IN /\ Cut(Fields(f[i]), SubSeq(h, from + 1, at)) = Vals(f, a, i)
           /\ i # Len(f) /\ Ends(f, a)[i] <= Len(h) => z.str = a[SlotStarts(f)[i]] /\ at + z.size = Ends(f, a)[i]
<1> DEFINE size == TotalSize(Fields(f[i]))
           part == Part(f, a, i)
           whole == Whole(f, a)
           to == Ends(f, a)[i]
           flat == FlattenSeq(Vals(f, a, i))
           str == a[SlotStarts(f)[i]]
<1>1. /\ size \in Nat /\ flat \in Seq(Nat) /\ Len(flat) = size /\ part \in Seq(Nat)
      /\ Cut(Fields(f[i]), flat) = Vals(f, a, i)
      /\ \A k \in 1 .. size : part[k] = flat[k]
      /\ i = Len(f) => Len(part) = size
      /\ i # Len(f) => /\ str \in Seq(Nat) /\ Len(str) \in Nat /\ Len(part) = size + Len(str) + 1
                       /\ \A k \in 1 .. Len(str) : part[size + k] = str[k] /\ str[k] # 0
                       /\ part[size + Len(str) + 1] = 0
  BY PartShape
<1>2. /\ whole \in Seq(Nat) /\ Ends(f, a) \in [0 .. Len(f) -> Nat]
      /\ to = Ends(f, a)[i - 1] + Len(part) /\ to <= Len(whole)
      /\ \A k \in 1 .. Len(part) : whole[Ends(f, a)[i - 1] + k] = part[k]
  BY PartLies
<1>3. from \in Nat /\ to \in Nat
  <2>1. Len(f) \in Nat BY Layout
  <2>2. i \in 0 .. Len(f) /\ i - 1 \in 0 .. Len(f) BY <2>1
  <2> QED BY <1>2, <2>2
<1>4. at = from + size OBVIOUS
<1>5. \A k \in 1 .. Len(whole) : k <= Len(h) => h[k] = whole[k] BY DEF BeginsAs
<1> HIDE DEF size, part, to, whole, flat, str
<1>6. to = from + Len(part) /\ to <= Len(whole) BY <1>2
<1>11. size \in Nat /\ Len(flat) = size /\ (i = Len(f) => Len(part) = size) BY <1>1
<1>12. ASSUME i # Len(f) PROVE Len(str) \in Nat /\ Len(part) = size + Len(str) + 1 BY <1>1, <1>12
<1>7. Len(part) \in Nat /\ size <= Len(part) /\ Len(whole) \in Nat /\ Len(h) \in Nat /\ at \in Nat
  <2>1. Len(part) \in Nat /\ Len(whole) \in Nat /\ Len(h) \in Nat BY <1>1, <1>2, LenProperties
  <2>2. at \in Nat BY <1>3, <1>4, <1>11
  <2>3. CASE i = Len(f) BY <1>11, <2>1, <2>2, <2>3
  <2>4. CASE i # Len(f)
    <3> DEFINE n == Len(str)
    <3>1. n \in Nat /\ Len(part) = size + n + 1 BY <1>12, <2>4
    <3> HIDE DEF n
    <3>2. size <= Len(part) BY <1>11, <3>1
    <3> QED BY <2>1, <2>2, <3>2
  <2> QED BY <2>3, <2>4
<1>8. ASSUME NEW k \in 1 .. Len(part), from + k <= Len(h) PROVE h[from + k] = part[k]
  <2>1. from + k \in 1 .. Len(whole) BY <1>3, <1>6, <1>7
  <2>2. h[from + k] = whole[from + k] BY <1>5, <1>8, <2>1
  <2>3. whole[from + k] = part[k] BY <1>2
  <2> QED BY <2>2, <2>3
<1>9. SubSeq(h, from + 1, at) = flat
  <2> DEFINE V == Nat
             w == h
             b == from
             c == at
  <2>1. w \in Seq(V) /\ flat \in Seq(V) BY <1>1
  <2>2. b \in Nat /\ c \in Nat /\ c <= Len(w) BY <1>3, <1>7
  <2>3. c = b + Len(flat) BY <1>1, <1>4
  <2>4. ASSUME NEW k \in 1 .. Len(flat) PROVE w[b + k] = flat[k]
    <3>1. k \in 1 .. size /\ k \in 1 .. Len(part) /\ from + k <= Len(h) BY <1>11, <1>3, <1>4, <1>7
    <3> QED BY <3>1, <1>1, <1>8
  <2>6. \A k \in 1 .. Len(flat) : w[b + k] = flat[k] BY <2>4
  <2> HIDE DEF V, w, b, c
  <2>7. SubSeq(w, b + 1, c) = flat
    BY <2>1, <2>2, <2>3, <2>6, Excerpt
  <2>5. SubSeq(h, from + 1, at) = flat BY <2>7 DEF w, b, c
  <2> QED BY <2>5
<1>10. ASSUME i # Len(f), to <= Len(h)
       PROVE get_zstring(SubSeq(h, at + 1, Len(h))).str = str /\ at + get_zstring(SubSeq(h, at + 1, Len(h))).size = to
  <2> DEFINE m == at + 1
             e == Len(h)
             b == SubSeq(h, m, e)
             n == Len(str)
  <2>1. n \in Nat /\ Len(part) = size + n + 1 BY <1>1, <1>10
  <2>2. str \in Seq(Nat) /\ part[size + n + 1] = 0 /\ \A k \in 1 .. n : part[size + k] = str[k] /\ str[k] # 0
    BY <1>1, <1>10
  <2> HIDE DEF n
  <2>3. to = at + n + 1 /\ at + n + 1 <= e
    <3>1. to = from + (size + n + 1) BY <1>6, <2>1
    <3>2. to = at + n + 1 BY <1>3, <1>4, <1>11, <2>1, <3>1
    <3> QED BY <1>10, <3>2
  <2>4. m \in 1 .. Len(h) + 1 /\ e \in m - 1 .. Len(h) /\ e - m + 1 >= n + 1 /\ e - m + 1 \in Nat
    <3>1. Len(h) \in Nat /\ at \in Nat /\ n \in Nat /\ at + n + 1 <= Len(h) BY <1>7, <2>1, <2>3
    <3> DEFINE l == Len(h)
    <3> HIDE DEF l
    <3>2. l \in Nat /\ at \in Nat /\ n \in Nat /\ at + n + 1 <= l BY <3>1 DEF l
    <3>3. at + 1 \in 1 .. l + 1 /\ l \in (at + 1) - 1 .. l /\ l - (at + 1) + 1 >= n + 1 /\ l - (at + 1) + 1 \in Nat
      BY <3>2
    <3> QED BY <3>3 DEF l
  <2>5. \A k \in 1 .. n + 1 : m + k - 1 = from + (size + k) /\ size + k \in 1 .. Len(part) /\ from + (size + k) <= Len(h)
    <3> SUFFICES ASSUME NEW k \in 1 .. n + 1
                 PROVE m + k - 1 = from + (size + k) /\ size + k \in 1 .. Len(part) /\ from + (size + k) <= Len(h)
      OBVIOUS
    <3>1. k \in Nat /\ k >= 1 /\ k <= n + 1 BY <2>1
    <3>2. m + k - 1 = from + (size + k) BY <1>3, <1>4, <1>11, <3>1
    <3>3. size + k \in 1 .. Len(part) BY <1>7, <1>11, <2>1, <3>1
    <3>4. from + (size + k) <= at + n + 1 BY <1>3, <1>4, <1>11, <2>1, <3>1
    <3>5. from + (size + k) <= Len(h)
      <4> DEFINE u == from + (size + k)
                 v == at + n + 1
      <4>1. u \in Nat /\ v \in Nat BY <1>3, <1>7, <1>11, <2>1, <3>1
      <4>3. u <= v /\ v <= Len(h) BY <2>3, <3>4
      <4> HIDE DEF u, v
      <4>2. u <= Len(h) BY <1>7, <4>1, <4>3
      <4> QED BY <4>2 DEF u
    <3> QED BY <3>2, <3>3, <3>5
  <2>13. e \in Nat /\ m \in Nat BY <1>7
  <2> HIDE DEF m, e
  <2>6. /\ b \in Seq(Nat) /\ Len(b) = e - m + 1 /\ \A k \in 1 .. e - m + 1 : b[k] = h[m + k - 1]
    <3>1. m \in 1 .. Len(h) + 1 /\ e \in m - 1 .. Len(h) BY <2>4
    <3> DEFINE V == Nat
    <3>2. h \in Seq(V) OBVIOUS
    <3> HIDE DEF V
    <3>3. b \in Seq(V) BY <3>1, <3>2, SubSeqProperties
    <3>4. Len(b) = e - m + 1 BY <3>1, <3>2, SubSeqProperties
    <3>5. \A k \in 1 .. e - m + 1 : b[k] = h[m + k - 1] BY <3>1, <3>2, SubSeqProperties
    <3> QED BY <3>3, <3>4, <3>5 DEF V
  <2> HIDE DEF b
  <2>7. ASSUME NEW k \in 1 .. n + 1 PROVE b[k] = part[size + k]
    <3>1. k \in 1 .. e - m + 1 BY <2>1, <2>4
    <3>2. b[k] = h[m + k - 1] BY <2>6, <3>1
    <3>3. m + k - 1 = from + (size + k) /\ size + k \in 1 .. Len(part) /\ from + (size + k) <= Len(h) BY <2>5
    <3>4. h[from + (size + k)] = part[size + k] BY <1>8, <3>3
    <3> QED BY <3>2, <3>3, <3>4
  <2>8. \A k \in 1 .. n : b[k] = str[k] /\ str[k] # 0
    <3> SUFFICES ASSUME NEW k \in 1 .. n PROVE b[k] = str[k] /\ str[k] # 0 OBVIOUS
    <3>1. k \in 1 .. n + 1 BY <2>1
    <3> QED BY <2>2, <2>7, <3>1
  <2>9. b[n + 1] = 0
    <3>1. n + 1 \in 1 .. n + 1 /\ size + (n + 1) = size + n + 1 BY <1>1, <2>1
    <3>2. b[n + 1] = part[size + (n + 1)] BY <2>7, <3>1
    <3> QED BY <2>2, <3>1, <3>2
  <2>10. n + 1 <= Len(b) BY <2>1, <2>4, <2>6
  <2>11. get_zstring(b).size = n + 1 /\ get_zstring(b).str = str
    BY <2>2, <2>6, <2>8, <2>9, <2>10, FindsZero DEF n
  <2>12. at + (n + 1) = to BY <1>7, <2>1, <2>3
  <2> QED BY <2>11, <2>12 DEF b, m, e
<1> QED BY <1>1, <1>9, <1>10 DEF size, part, to, whole, flat, str

\* A piece is packed as its own values, or it raises for one of the reasons named.
LEMMA PieceTaken ==
  ASSUME NEW f \in Formats, NEW a \in Values[f], NEW i \in 1 .. Len(f), NEW from, from = SlotStarts(f)[i - 1]
  PROVE LET behind == IF Len(f) = 1 THEN Len(a) ELSE from + Chars(f[i])
            values == SubSeq(a, from + 1, IF behind < Len(a) THEN behind ELSE Len(a))
            raises == \/ (f[i] # <<>> \/ Len(f) = 1) /\ ~Takes(Fields(f[i]), values)
                      \/ i # Len(f) /\ behind >= Len(a)
        IN /\ raises => Len(f) > 1 /\ (IF i = Len(f) THEN Chars(f[i]) < Len(Fields(f[i])) ELSE Chars(f[i]) # Len(Fields(f[i])))
           /\ ~raises => values = Vals(f, a, i) /\ (i # Len(f) => behind + 1 = SlotStarts(f)[i])
<1> DEFINE behind == IF Len(f) = 1 THEN Len(a) ELSE from + Chars(f[i])
           end == IF behind < Len(a) THEN behind ELSE Len(a)
           values == SubSeq(a, from + 1, end)
           raises == \/ (f[i] # <<>> \/ Len(f) = 1) /\ ~Takes(Fields(f[i]), values)
                     \/ i # Len(f) /\ behind >= Len(a)
           m == Len(Fields(f[i]))
           c == Chars(f[i])
           l == Len(a)
           n == Len(f)
           to == SlotStarts(f)[i]
           sizes == Fields(f[i])
           v == Vals(f, a, i)
           empty == f[i] = <<>>
<1>1. /\ n \in Nat \ {0} /\ f[i] \in Piece /\ PieceLies(f, a, i)
      /\ a \in Seq(Seq(Nat)) /\ SlotStarts(f)[n] = l
  BY Layout
<1>2. m \in Nat /\ c \in Nat /\ (empty => m = 0 /\ c = 0)
  <2>1. <<>> \in Seq(Nat) /\ Len(<<>>) = 0 BY EmptySeq
  <2> QED BY <1>1, <2>1, PieceShape
<1>3. l \in Nat BY <1>1, LenProperties
<1>4. from \in Nat /\ to \in Nat /\ to <= l /\ to = from + m + (IF i = n THEN 0 ELSE 1)
  BY <1>1 DEF PieceLies
<1>5. i = n => l = from + m
  <2>1. i = n => to = l BY <1>1
  <2> HIDE DEF m, l, to, n
  <2> QED BY <1>2, <1>3, <1>4, <2>1
<1>6. i # n => from + m + 1 <= l /\ to = from + m + 1 /\ n # 1
  <2>1. i # n => n # 1
    <3>1. i \in 1 .. n /\ n \in Nat BY <1>1
    <3> HIDE DEF n
    <3> QED BY <3>1
  <2> HIDE DEF m, l, to, n
  <2> QED BY <1>2, <1>3, <1>4, <2>1
<1>7. v = SubSeq(a, from + 1, from + m) /\ Takes(sizes, v)
  BY PieceValues DEF Vals
<1>8. behind = (IF n = 1 THEN l ELSE from + c) /\ end = (IF behind < l THEN behind ELSE l) OBVIOUS
<1>9. from <= l
  <2> HIDE DEF m, l, n
  <2> QED BY <1>2, <1>3, <1>4, <1>5, <1>6
<1>10. end = from + m => values = v BY <1>7
<1>11. ASSUME end # from + m, end >= from, end <= l, end \in Nat PROVE ~Takes(sizes, values)
  <2> DEFINE f1 == from + 1
             V == Seq(Nat)
             w == values
             e == end
  <2>1. f1 \in 1 .. Len(a) + 1 /\ e \in f1 - 1 .. Len(a) /\ e - f1 + 1 = e - from /\ e - from # m
    <3> HIDE DEF end, m
    <3> QED BY <1>2, <1>3, <1>4, <1>9, <1>11
  <2>2. w = SubSeq(a, f1, e) /\ a \in Seq(V) BY <1>1
  <2> HIDE DEF f1, e, V, w
  <2>3. Len(SubSeq(a, f1, e)) = e - f1 + 1 BY <2>1, <2>2, SubSeqProperties
  <2>4. Len(w) # m BY <2>1, <2>2, <2>3
  <2> QED BY <2>4 DEF Takes, w
<1>12. raises <=> \/ (~empty \/ n = 1) /\ ~Takes(sizes, values)
                  \/ i # n /\ behind >= l
  OBVIOUS
<1> DEFINE taken == Takes(sizes, values)
<1>13. end = from + m => taken BY <1>7, <1>10
<1>14. end # from + m /\ end >= from /\ end <= l /\ end \in Nat => ~taken BY <1>11
<1> HIDE DEF taken, raises, end, behind, m, c, l, n, to, sizes, v, empty, values
<1>15. raises <=> ((~empty \/ n = 1) /\ ~taken) \/ (i # n /\ behind >= l) BY <1>12 DEF taken
<1>16. CASE i = n /\ n = 1
  <2>1. behind = l /\ end = l /\ l = from + m BY <1>3, <1>5, <1>8, <1>16
  <2>2. ~raises BY <1>13, <1>15, <1>16, <2>1
  <2> QED BY <1>10, <1>16, <2>1, <2>2 DEF taken, raises, end, behind, m, c, l, n, to, sizes, v, empty, values
<1>17. CASE i = n /\ n # 1
  <2>1. behind = from + c /\ l = from + m /\ n > 1 BY <1>1, <1>5, <1>8, <1>17
  <2>2. CASE c >= m
    <3>1. end = from + m BY <1>2, <1>4, <1>8, <2>1, <2>2
    <3>2. ~raises BY <1>13, <1>15, <1>17, <3>1
    <3> QED BY <1>10, <1>17, <3>1, <3>2 DEF taken, raises, end, behind, m, c, l, n, to, sizes, v, empty, values
  <2>3. CASE c < m
    <3>1. end = from + c BY <1>2, <1>4, <1>8, <2>1, <2>3
    <3>2. ~taken BY <1>2, <1>4, <1>14, <2>1, <2>3, <3>1
    <3>3. ~empty BY <1>2, <2>3
    <3>4. raises BY <1>15, <3>2, <3>3
    <3> QED BY <1>17, <2>1, <2>3, <3>4 DEF taken, raises, end, behind, m, c, l, n, to, sizes, v, empty, values
  <2> QED BY <1>2, <2>2, <2>3
<1>18. CASE i # n
  <2>1. behind = from + c /\ from + m + 1 <= l /\ to = from + m + 1 /\ n > 1 BY <1>1, <1>6, <1>8, <1>18
  <2>2. CASE c = m
    <3>1. behind < l /\ end = from + m /\ behind + 1 = to BY <1>2, <1>3, <1>4, <1>8, <2>1, <2>2
    <3>2. ~raises BY <1>2, <1>3, <1>4, <1>13, <1>15, <1>18, <2>1, <3>1
    <3> QED BY <1>10, <1>18, <3>1, <3>2 DEF taken, raises, end, behind, m, c, l, n, to, sizes, v, empty, values
  <2>3. CASE c # m
    <3>1. raises
      <4>1. CASE behind >= l BY <1>15, <1>18, <4>1
      <4>2. CASE ~(behind >= l)
        <5>1. end = from + c /\ end <= l BY <1>2, <1>3, <1>4, <1>8, <2>1, <4>2
        <5>2. ~taken BY <1>2, <1>4, <1>14, <2>3, <5>1
        <5>3. ~empty BY <1>2, <2>3
        <5> QED BY <1>15, <5>2, <5>3
      <4> QED BY <4>1, <4>2
    <3> QED BY <1>18, <2>1, <2>3, <3>1 DEF taken, raises, end, behind, m, c, l, n, to, sizes, v, empty, values
  <2> QED BY <2>2, <2>3
<1> QED BY <1>16, <1>17, <1>18

-----------------------------------------------------------------------------
(* structz.py: the steps                                                   *)

Reading == {"unpack", "done", "unpacking raised"}

FormInv ==
  /\ fmt \in Formats /\ argv \in Values[fmt] /\ ind \in 1 .. Len(fmt) + 1
  /\ cutoff \in Nat /\ exact \in BOOLEAN /\ work \in {"pack", "packing raised"} \cup Reading

\* As far as the pieces have come, the bytes are those of their values.
PackInv ==
  /\ work = "pack" =>
       /\ packed = SubSeq(Whole(fmt, argv), 1, Ends(fmt, argv)[ind - 1]) /\ unp = <<>>
       /\ ind <= Len(fmt) => offs = SlotStarts(fmt)[ind - 1]
  /\ work = "packing raised" => Len(fmt) > 1 /\
       \/ \E i \in 1 .. Len(fmt) - 1 : Chars(fmt[i]) # Len(Fields(fmt[i]))
       \/ Chars(fmt[Len(fmt)]) < Len(Fields(fmt[Len(fmt)]))

HandedOver == packed = Whole(fmt, argv) /\ cutoff <= Len(packed) /\ (cutoff > 0 => exact)

\* When no string was cut, the pieces read so far gave the values packed, and cut bytes let none
\* get past the last piece.
ReadRight ==
  /\ cutoff = 0 => work # "unpacking raised"
  /\ cutoff > 0 => ind <= Len(fmt)
  /\ work = "done" => ind > Len(fmt)
  /\ work \in {"unpack", "done"} => offs = Ends(fmt, argv)[ind - 1] /\ unp = SubSeq(argv, 1, SlotStarts(fmt)[ind - 1])

ReadInv == work \in Reading => HandedOver /\ (LastString <= Len(Handed) => ReadRight)

StructzInv == FormInv /\ PackInv /\ ReadInv

\* A beginning of length 0, and the whole as its own beginning.
LEMMA NothingTaken ==
  ASSUME NEW S, NEW w \in Seq(S)
  PROVE SubSeq(w, 1, 0) = <<>> /\ SubSeq(w, 1, Len(w)) = w
<1>1. Len(w) \in Nat BY LenProperties
<1> DEFINE d == <<>>
           z == 0
           V == S
<1>2. d \in Seq(V) /\ Len(d) = 0 BY EmptySeq
<1>3. w \in Seq(V) OBVIOUS
<1>4. z + 1 = 1 /\ z \in Nat /\ z <= Len(w) /\ z = z + Len(d) /\ \A k \in 1 .. Len(d) : w[z + k] = d[k] BY <1>1, <1>2
<1>5. SubSeq(w, z + 1, z) = d
  <2> HIDE DEF d, z, V
  <2> QED BY <1>2, <1>3, <1>4, Excerpt
<1> DEFINE l == Len(w)
<1>6. l \in Nat /\ l <= Len(w) /\ l = z + Len(w) BY <1>1
<1>7. \A k \in 1 .. Len(w) : w[z + k] = w[k] BY <1>1
<1>8. SubSeq(w, z + 1, l) = w
  <2> HIDE DEF z, l, V
  <2> QED BY <1>3, <1>4, <1>6, <1>7, Excerpt
<1> QED BY <1>4, <1>5, <1>8 DEF d, z, l

\* The whole of it.
LEMMA WholeIs ==
  ASSUME NEW f \in Formats, NEW a \in Values[f]
  PROVE /\ Len(f) \in Nat \ {0} /\ Whole(f, a) \in Seq(Nat) /\ Len(Whole(f, a)) \in Nat
        /\ Ends(f, a) \in [0 .. Len(f) -> Nat] /\ Ends(f, a)[0] = 0 /\ Ends(f, a)[Len(f)] = Len(Whole(f, a))
        /\ TotalSize(Fields(f[Len(f)])) \in Nat
        /\ Ends(f, a)[Len(f)] = Ends(f, a)[Len(f) - 1] + TotalSize(Fields(f[Len(f)]))
<1>1. Len(f) \in Nat \ {0} /\ Len(f) \in 1 .. Len(f) BY Layout
<1> DEFINE n == Len(f)
<1>2. n \in 1 .. n BY <1>1
<1> HIDE DEF n
<1>3. TotalSize(Fields(f[n])) \in Nat /\ Len(Part(f, a, n)) = TotalSize(Fields(f[n]))
  BY <1>2, PartShape DEF n
<1>4. /\ Whole(f, a) \in Seq(Nat) /\ Ends(f, a) \in [0 .. n -> Nat] /\ Ends(f, a)[0] = 0
      /\ Ends(f, a)[n] = Len(Whole(f, a)) /\ Ends(f, a)[n] = Ends(f, a)[n - 1] + Len(Part(f, a, n))
  BY <1>2, PartLies DEF n
<1> QED BY <1>1, <1>3, <1>4, LenProperties DEF n

\* What reaches the reader begins as what was packed.
LEMMA HandedIs ==
  ASSUME FormInv, HandedOver, Behind \in Seq(Nat)
  PROVE /\ Handed \in Seq(Nat) /\ Len(Handed) \in Nat /\ BeginsAs(Handed, Whole(fmt, argv))
        /\ LastString = Ends(fmt, argv)[Len(fmt) - 1]
        /\ cutoff = 0 => Len(Handed) >= Len(packed) /\ (exact => Len(Handed) = Len(packed))
        /\ cutoff > 0 => Len(Handed) < Len(packed)
<1> DEFINE w == packed
           l == Len(packed)
           m == l - cutoff
<1>1. w = Whole(fmt, argv) /\ cutoff <= l /\ (cutoff > 0 => exact) /\ cutoff \in Nat /\ exact \in BOOLEAN
  BY DEF HandedOver, FormInv
<1>2. w \in Seq(Nat) /\ l \in Nat /\ fmt \in Formats /\ argv \in Values[fmt] BY <1>1, WholeIs DEF FormInv
<1>3. LastString = Ends(fmt, argv)[Len(fmt) - 1]
  <2> DEFINE e == Ends(fmt, argv)[Len(fmt) - 1]
             t == TotalSize(Fields(fmt[Len(fmt)]))
  <2>1. t \in Nat /\ Ends(fmt, argv)[Len(fmt)] = e + t /\ Ends(fmt, argv)[Len(fmt)] = Len(Whole(fmt, argv))
    BY <1>2, WholeIs
  <2>2. Len(fmt) - 1 \in 0 .. Len(fmt) BY <1>2, WholeIs
  <2>3. e \in Nat BY <1>2, <2>2, WholeIs
  <2>4. LastString = l - t BY DEF LastString
  <2>5. l = e + t BY <1>1, <2>1
  <2> HIDE DEF l, t, e
  <2>6. LastString = e BY <2>1, <2>3, <2>4, <2>5
  <2> QED BY <2>6 DEF e
<1>4. Handed = IF exact THEN SubSeq(w, 1, m) ELSE w \o Behind BY DEF Handed
<1>5. m \in Nat /\ m <= l /\ (cutoff = 0 => m = l) /\ (cutoff > 0 => m < l)
  <2> HIDE DEF l
  <2> QED BY <1>1, <1>2
<1> HIDE DEF m
<1>6. CASE exact
  <2> DEFINE f1 == 1
             V == Nat
             h == SubSeq(w, f1, m)
  <2>1. f1 \in 1 .. Len(w) + 1 /\ m \in f1 - 1 .. Len(w) /\ m - f1 + 1 = m /\ \A k \in 1 .. m : f1 + k - 1 = k
    BY <1>2, <1>5
  <2>2. w \in Seq(V) BY <1>2
  <2> HIDE DEF f1, w, V
  <2>3. h \in Seq(V) /\ Len(h) = m - f1 + 1 /\ \A k \in 1 .. m - f1 + 1 : h[k] = w[f1 + k - 1]
    BY <2>1, <2>2, SubSeqProperties
  <2>4. Handed = h BY <1>4, <1>6 DEF f1
  <2> HIDE DEF h
  <2>5. Len(h) = m BY <2>1, <2>3
  <2>6. ASSUME NEW k \in 1 .. Len(w), k <= Len(h) PROVE h[k] = w[k]
    <3>0. l = Len(w) BY DEF w
    <3> HIDE DEF l
    <3>1. k \in 1 .. m BY <1>2, <1>5, <2>5, <2>6, <3>0
    <3>2. k \in 1 .. m - f1 + 1 /\ f1 + k - 1 = k BY <2>1, <3>1
    <3>3. h[k] = w[f1 + k - 1] BY <2>3, <3>2
    <3> QED BY <3>2, <3>3
  <2>7. BeginsAs(Handed, Whole(fmt, argv)) BY <1>1, <2>4, <2>6 DEF BeginsAs
  <2>8. Handed \in Seq(Nat) /\ Len(Handed) = m BY <2>3, <2>4, <2>5 DEF V
  <2>9. /\ cutoff = 0 => m >= l /\ (exact => m = l)
        /\ cutoff > 0 => m < l
    <3> HIDE DEF l
    <3> QED BY <1>2, <1>5
  <2> QED BY <1>3, <1>5, <2>7, <2>8, <2>9
<1>7. CASE ~exact
  <2> DEFINE h == w \o Behind
  <2>1. cutoff = 0 /\ ~(cutoff > 0) BY <1>1, <1>7
  <2>2. Behind \in Seq(Nat) OBVIOUS
  <2>3. /\ h \in Seq(Nat) /\ Len(Behind) \in Nat /\ Len(h) = Len(w) + Len(Behind)
        /\ \A k \in 1 .. Len(w) : h[k] = w[k]
    <3> HIDE DEF w
    <3>1. w \in Seq(Nat) BY <1>2
    <3> QED BY <2>2, <3>1, Concat
  <2>4. Handed = h BY <1>4, <1>7
  <2> HIDE DEF h
  <2>5. BeginsAs(Handed, Whole(fmt, argv)) BY <1>1, <2>3, <2>4 DEF BeginsAs
  <2>6. Len(h) \in Nat /\ Len(h) >= l
    <3>1. l = Len(w) BY DEF w
    <3> HIDE DEF l, w
    <3> QED BY <1>2, <2>3, <3>1
  <2> QED BY <1>3, <1>7, <2>1, <2>3, <2>4, <2>5, <2>6
<1> QED BY <1>1, <1>6, <1>7

\* The variables keep their form.
LEMMA FormNext ==
  ASSUME FormInv, [StructzNext]_structzVars
  PROVE FormInv'
<1>1. Len(fmt) \in Nat BY Layout DEF FormInv
<1> DEFINE n == Len(fmt)
<1>2. n \in Nat BY <1>1
<1>3. fmt' = fmt /\ argv' = argv
  BY DEF StructzNext, PackPiece, HandOver, UnpackPiece, UnpackEnds, structzVars
<1>4. n' = n /\ ind \in 1 .. n + 1 BY <1>3 DEF FormInv
<1>5. ind' \in 1 .. n + 1
  <2>1. CASE PackPiece
    <3>1. ind <= n /\ (ind' = ind \/ ind' = ind + 1) BY <2>1 DEF PackPiece
    <3> HIDE DEF n
    <3> QED BY <1>2, <1>4, <3>1
  <2>2. CASE HandOver
    <3>1. ind' = 1 BY <2>2 DEF HandOver
    <3> HIDE DEF n
    <3> QED BY <1>2, <3>1
  <2>3. CASE UnpackPiece
    <3>1. ind <= n /\ (ind' = ind \/ ind' = ind + 1) BY <2>3 DEF UnpackPiece
    <3> HIDE DEF n
    <3> QED BY <1>2, <1>4, <3>1
  <2>4. CASE UnpackEnds \/ UNCHANGED structzVars BY <2>4, <1>4 DEF UnpackEnds, structzVars
  <2> QED BY <2>1, <2>2, <2>3, <2>4 DEF StructzNext
<1>6. exact' \in BOOLEAN /\ work' \in {"pack", "packing raised"} \cup Reading
  <2>1. CASE PackPiece BY <2>1 DEF PackPiece, FormInv, Reading
  <2>2. CASE HandOver BY <2>2 DEF HandOver, Reading
  <2>3. CASE UnpackPiece BY <2>3 DEF UnpackPiece, FormInv, Reading
  <2>4. CASE UnpackEnds BY <2>4 DEF UnpackEnds, FormInv, Reading
  <2>5. CASE UNCHANGED structzVars BY <2>5 DEF structzVars, FormInv, Reading
  <2> QED BY <2>1, <2>2, <2>3, <2>4, <2>5 DEF StructzNext
<1>7. cutoff' \in Nat
  <2>1. CASE HandOver
    <3>1. cutoff' \in (IF exact' THEN 0 .. (IF MaxCut < Len(packed) THEN MaxCut ELSE Len(packed)) ELSE {0})
      BY <2>1 DEF HandOver
    <3>2. MaxCut \in Nat BY FormatAssumption DEF FormatAssumption
    <3> QED BY <3>1, <3>2
  <2>2. CASE PackPiece \/ UnpackPiece \/ UnpackEnds \/ UNCHANGED structzVars
    BY <2>2 DEF PackPiece, UnpackPiece, UnpackEnds, structzVars, FormInv
  <2> QED BY <2>1, <2>2 DEF StructzNext
<1> QED BY <1>3, <1>4, <1>5, <1>6, <1>7 DEF FormInv

\* A piece is packed, or packing raises as it may.
LEMMA PackStep ==
  ASSUME FormInv, PackInv, PackPiece
  PROVE PackInv' /\ work' \notin Reading
<1> DEFINE n == Len(fmt)
           behind == IF Len(fmt) = 1 THEN Len(argv) ELSE offs + Chars(fmt[ind])
           values == SubSeq(argv, offs + 1, IF behind < Len(argv) THEN behind ELSE Len(argv))
           raises == \/ (fmt[ind] # <<>> \/ Len(fmt) = 1) /\ ~Takes(Fields(fmt[ind]), values)
                     \/ ind # Len(fmt) /\ behind >= Len(argv)
           whole == Whole(fmt, argv)
           ends == Ends(fmt, argv)
           part == Part(fmt, argv, ind)
           last == IF ind = Len(fmt) THEN <<>> ELSE mak_zstring(argv[behind + 1])
           flat == FlattenSeq(values)
<1>1. fmt \in Formats /\ argv \in Values[fmt] /\ n \in Nat \ {0} BY Layout DEF FormInv
<1>2. ind \in 1 .. n /\ work = "pack"
  <2>1. ind <= n /\ ind \in 1 .. n + 1 BY DEF PackPiece, FormInv
  <2> HIDE DEF n
  <2>2. ind \in 1 .. n BY <1>1, <2>1
  <2> QED BY <2>2 DEF PackPiece
<1>3. offs = SlotStarts(fmt)[ind - 1] /\ packed = SubSeq(whole, 1, ends[ind - 1]) /\ unp = <<>> BY <1>2 DEF PackInv
<1>4. /\ raises => n > 1 /\ (IF ind = n THEN Chars(fmt[ind]) < Len(Fields(fmt[ind])) ELSE Chars(fmt[ind]) # Len(Fields(fmt[ind])))
      /\ ~raises => values = Vals(fmt, argv, ind) /\ (ind # n => behind + 1 = SlotStarts(fmt)[ind])
  <2> HIDE DEF n
  <2> QED BY <1>1, <1>2, <1>3, PieceTaken DEF n
<1>5. UNCHANGED <<fmt, argv, cutoff, exact, unp>> BY DEF PackPiece
<1>6. CASE raises
  <2>1. work' = "packing raised" BY <1>6 DEF PackPiece, LastPiece
  <2>2. n > 1 /\ \/ \E i \in 1 .. n - 1 : Chars(fmt[i]) # Len(Fields(fmt[i]))
                 \/ Chars(fmt[n]) < Len(Fields(fmt[n]))
    <3>1. CASE ind = n BY <1>4, <1>6, <3>1
    <3>2. CASE ind # n
      <4>1. n > 1 /\ Chars(fmt[ind]) # Len(Fields(fmt[ind])) BY <1>4, <1>6, <3>2
      <4>2. ind \in 1 .. n - 1
        <5> HIDE DEF n
        <5> QED BY <1>1, <1>2, <3>2
      <4> HIDE DEF n
      <4> QED BY <4>1, <4>2
    <3> QED BY <3>1, <3>2
  <2> QED BY <1>5, <2>1, <2>2 DEF PackInv, Reading
<1>7. CASE ~raises
  <2>1. packed' = packed \o flat \o last /\ offs' = behind + 1 /\ ind' = ind + 1 /\ work' = work
    BY <1>7 DEF PackPiece, LastPiece
  <2>2. part = flat \o last BY <1>4, <1>7 DEF Part
  <2>3. whole \in Seq(Nat) /\ SubSeq(whole, 1, ends[ind - 1]) \o part = SubSeq(whole, 1, ends[ind])
    <3> HIDE DEF n
    <3> QED BY <1>1, <1>2, PartLies DEF n
  <2>4. flat \in Seq(Nat) /\ last \in Seq(Nat)
    <3>1. flat = FlattenSeq(Vals(fmt, argv, ind)) BY <1>4, <1>7
    <3>2. flat \in Seq(Nat) /\ (ind # n => argv[SlotStarts(fmt)[ind]] \in Seq(Nat))
      <4> HIDE DEF n, flat
      <4> QED BY <1>1, <1>2, <3>1, PartShape DEF n
    <3>3. CASE ind = n BY <3>2, <3>3, EmptySeq
    <3>4. CASE ind # n
      <4> DEFINE str == argv[SlotStarts(fmt)[ind]]
                 d == <<0>>
      <4>1. last = str \o d BY <1>4, <1>7, <3>4 DEF mak_zstring
      <4>2. str \in Seq(Nat) /\ d \in Seq(Nat) BY <3>2, <3>4
      <4> HIDE DEF str, d, last, flat
      <4>3. str \o d \in Seq(Nat) BY <4>2, Concat
      <4> QED BY <4>1, <4>3, <3>2
    <3> QED BY <3>3, <3>4
  <2>5. packed \in Seq(Nat)
    <3> DEFINE b == ends[ind - 1]
               one == 1
    <3>1. b \in Nat /\ b <= Len(whole)
      <4>1. ind - 1 \in 0 .. n /\ ind \in 0 .. n /\ ends \in [0 .. n -> Nat] /\ ends[ind] = b + Len(part) /\ ends[ind] <= Len(whole)
            /\ part \in Seq(Nat)
        <5>1. ind - 1 \in 0 .. n /\ ind \in 0 .. n
          <6> HIDE DEF n
          <6> QED BY <1>1, <1>2
        <5>2. ind \in 1 .. Len(fmt) BY <1>2
        <5> HIDE DEF n
        <5>3. ends \in [0 .. n -> Nat] /\ ends[ind] = b + Len(part) /\ ends[ind] <= Len(whole)
          BY <1>1, <5>2, PartLies DEF n
        <5>4. part \in Seq(Nat) BY <1>1, <5>2, PartShape
        <5> QED BY <5>1, <5>3, <5>4
      <4>2. Len(part) \in Nat /\ Len(whole) \in Nat BY <4>1, <2>3, LenProperties
      <4>3. b \in Nat /\ ends[ind] \in Nat BY <4>1
      <4> DEFINE c == ends[ind]
                 pl == Len(part)
                 wl == Len(whole)
      <4>4. b \in Nat /\ c \in Nat /\ pl \in Nat /\ wl \in Nat /\ c = b + pl /\ c <= wl BY <4>1, <4>2, <4>3
      <4> HIDE DEF b, c, pl, wl
      <4>5. b <= wl BY <4>4
      <4> QED BY <4>4, <4>5 DEF wl
    <3>2. one \in 1 .. Len(whole) + 1 /\ b \in one - 1 .. Len(whole)
      <4>1. Len(whole) \in Nat BY <2>3, LenProperties
      <4> HIDE DEF b
      <4> QED BY <3>1, <4>1
    <3> HIDE DEF b, one, whole
    <3>3. SubSeq(whole, one, b) \in Seq(Nat) BY <2>3, <3>2, SubSeqProperties
    <3> QED BY <1>3, <3>3 DEF b, one, whole
  <2>6. packed' = SubSeq(whole, 1, ends[ind])
    <3> HIDE DEF flat, last
    <3>1. (packed \o flat) \o last = packed \o (flat \o last) BY <2>4, <2>5, ConcatAssociative
    <3> QED BY <1>3, <2>1, <2>2, <2>3, <3>1
  <2>7. ind' - 1 = ind BY <1>2, <2>1
  <2>8. ASSUME ind' <= n PROVE offs' = SlotStarts(fmt)[ind' - 1]
    <3>1. ind # n
      <4> HIDE DEF n
      <4> QED BY <1>1, <1>2, <2>1, <2>8
    <3>2. behind + 1 = SlotStarts(fmt)[ind] BY <1>4, <1>7, <3>1
    <3> QED BY <2>1, <2>7, <3>2
  <2>9. work' = "pack" BY <1>2, <2>1
  <2> QED BY <1>3, <1>5, <2>6, <2>7, <2>8, <2>9 DEF PackInv, Reading
<1> QED BY <1>6, <1>7

\* Reading begins at the first byte.
LEMMA HandOverStep ==
  ASSUME FormInv, PackInv, HandOver
  PROVE PackInv' /\ ReadInv'
<1> DEFINE n == Len(fmt)
           whole == Whole(fmt, argv)
<1>1. fmt \in Formats /\ argv \in Values[fmt] /\ n \in Nat \ {0} BY Layout DEF FormInv
<1>2. work = "pack" /\ ind > n /\ ind \in 1 .. n + 1 BY DEF HandOver, FormInv
<1>3. packed = SubSeq(whole, 1, Ends(fmt, argv)[ind - 1]) /\ unp = <<>> BY <1>2 DEF PackInv
<1>4. ind - 1 = n
  <2> HIDE DEF n
  <2> QED BY <1>1, <1>2
<1>5. packed = whole
  <2>1. whole \in Seq(Nat) /\ Ends(fmt, argv)[n] = Len(whole) BY <1>1, WholeIs
  <2> HIDE DEF whole, n
  <2> QED BY <1>3, <1>4, <2>1, NothingTaken
<1>6. /\ UNCHANGED <<fmt, argv, packed, unp>> /\ work' = "unpack" /\ ind' = 1 /\ offs' = 0 /\ exact' \in BOOLEAN
      /\ cutoff' \in (IF exact' THEN 0 .. (IF MaxCut < Len(packed) THEN MaxCut ELSE Len(packed)) ELSE {0})
  BY DEF HandOver
<1>7. cutoff' \in Nat /\ cutoff' <= Len(packed) /\ (cutoff' > 0 => exact')
  <2>1. MaxCut \in Nat BY FormatAssumption DEF FormatAssumption
  <2>2. Len(packed) \in Nat BY <1>1, <1>5, WholeIs
  <2> DEFINE l == Len(packed)
  <2> HIDE DEF l
  <2>3. l \in Nat /\ cutoff' \in (IF exact' THEN 0 .. (IF MaxCut < l THEN MaxCut ELSE l) ELSE {0})
    BY <1>6, <2>2 DEF l
  <2>4. CASE exact' BY <2>1, <2>3, <2>4 DEF l
  <2>5. CASE ~exact' BY <2>3, <2>5, <2>2
  <2> QED BY <2>4, <2>5
<1>8. HandedOver' BY <1>5, <1>6, <1>7 DEF HandedOver
<1>9. ReadRight'
  <2>1. Ends(fmt, argv)[0] = 0 BY <1>1, WholeIs
  <2>2. SubSeq(argv, 1, SlotStarts(fmt)[0]) = <<>>
    <3>1. argv \in Seq(Seq(Nat)) /\ SlotStarts(fmt)[0] = 0 BY <1>1, Layout
    <3> QED BY <3>1, NothingTaken
  <2>3. ind' - 1 = 0 /\ ind' <= Len(fmt) BY <1>1, <1>6
  <2> QED BY <1>3, <1>6, <2>1, <2>2, <2>3 DEF ReadRight
<1> QED BY <1>6, <1>8, <1>9 DEF PackInv, ReadInv

\* A piece is unpacked, or unpacking raises as it must.
LEMMA UnpackStep ==
  ASSUME FormInv, ReadInv, UnpackPiece
  PROVE PackInv' /\ ReadInv'
<1> DEFINE n == Len(fmt)
           whole == Whole(fmt, argv)
           ends == Ends(fmt, argv)
           sizes == Fields(fmt[ind])
           size == TotalSize(sizes)
           at == offs + size
           z == get_zstring(SubSeq(Handed, at + 1, Len(Handed)))
           v == Cut(sizes, SubSeq(Handed, offs + 1, at))
           str == argv[SlotStarts(fmt)[ind]]
           l == Len(Handed)
           raises == TooShort(fmt[ind]) /\ (fmt[ind] # <<>> \/ Len(fmt) = 1)
<1>1. fmt \in Formats /\ argv \in Values[fmt] /\ n \in Nat \ {0} BY Layout DEF FormInv
<1>2. ind \in 1 .. n /\ work = "unpack"
  <2>1. ind <= n /\ ind \in 1 .. n + 1 BY DEF UnpackPiece, FormInv
  <2> HIDE DEF n
  <2>2. ind \in 1 .. n BY <1>1, <2>1
  <2> QED BY <2>2 DEF UnpackPiece
<1>3. UNCHANGED <<fmt, argv, packed, cutoff, exact>> BY DEF UnpackPiece
<1>4. HandedOver /\ (LastString <= l => ReadRight) BY <1>2 DEF ReadInv, Reading
<1>5. HandedOver' /\ Handed' = Handed /\ LastString' = LastString
  BY <1>3, <1>4 DEF HandedOver, Handed, LastString
<1>6. work' # "pack" /\ work' # "packing raised" BY <1>2 DEF UnpackPiece
<1>7. PackInv' BY <1>6 DEF PackInv
<1>8. /\ Handed \in Seq(Nat) /\ l \in Nat /\ BeginsAs(Handed, whole)
      /\ LastString = ends[n - 1]
      /\ cutoff = 0 => l >= Len(packed) /\ (exact => l = Len(packed))
      /\ cutoff > 0 => l < Len(packed)
  BY <1>4, FormatAssumption, HandedIs DEF FormatAssumption
<1>9. packed = whole /\ cutoff \in Nat BY <1>4 DEF HandedOver, FormInv
<1>10. SUFFICES ASSUME LastString <= l PROVE ReadRight'
  BY <1>5, <1>7 DEF ReadInv
<1>11. offs = ends[ind - 1] /\ unp = SubSeq(argv, 1, SlotStarts(fmt)[ind - 1]) BY <1>2, <1>4, <1>10 DEF ReadRight
<1>12. ind - 1 \in 0 .. n /\ ind \in 0 .. n /\ n - 1 \in 0 .. n /\ n \in 0 .. n
  <2> HIDE DEF n
  <2> QED BY <1>1, <1>2
<1>13. /\ ends \in [0 .. n -> Nat] /\ ends[0] = 0 /\ ends[n] = Len(whole) /\ Len(whole) \in Nat
       /\ ends[n] = ends[n - 1] + TotalSize(Fields(fmt[n]))
  BY <1>1, WholeIs
<1>14. offs \in Nat /\ ends[ind] \in Nat /\ ends[n - 1] \in Nat BY <1>11, <1>12, <1>13
<1>15. size \in Nat
  <2> HIDE DEF n
  <2> QED BY <1>1, <1>2, PartShape DEF n
<1>16. ind # n => ends[ind] <= ends[n - 1]
  <2> HIDE DEF n
  <2> QED BY <1>1, <1>2, PartLies DEF n
<1>17. ind = n => ends[ind] = at BY <1>11, <1>13
<1>18. at <= ends[ind] /\ at \in Nat
  <2>1. ends[ind] = offs + Len(Part(fmt, argv, ind))
    <3> HIDE DEF n
    <3> QED BY <1>1, <1>2, <1>11, PartLies DEF n
  <2>2. /\ ind = n => Len(Part(fmt, argv, ind)) = size
        /\ ind # n => Len(str) \in Nat /\ Len(Part(fmt, argv, ind)) = size + Len(str) + 1
    <3> HIDE DEF n
    <3> QED BY <1>1, <1>2, PartShape DEF n
  <2>3. CASE ind = n BY <1>14, <1>15, <1>17, <2>3
  <2>4. CASE ind # n
    <3> DEFINE k == Len(str)
               e == ends[ind]
    <3>1. k \in Nat /\ e = offs + (size + k + 1) BY <2>1, <2>2, <2>4
    <3> HIDE DEF k, e, size
    <3>2. offs + size <= e /\ offs + size \in Nat BY <1>14, <1>15, <3>1
    <3> QED BY <3>2 DEF e
  <2> QED BY <2>3, <2>4
<1>19. CASE raises
  <2>1. work' = "unpacking raised" /\ ind' = ind BY <1>19 DEF UnpackPiece
  <2>2. TooShort(fmt[ind]) BY <1>19
  <2>3. cutoff > 0
    <3> SUFFICES ASSUME cutoff = 0 PROVE FALSE BY <1>9
    <3>1. l >= Len(whole) /\ (exact => l = Len(whole)) BY <1>8, <1>9
    <3>2. at <= l
      <4>1. ends[ind] <= Len(whole)
        <5> HIDE DEF n
        <5> QED BY <1>1, <1>2, PartLies DEF n
      <4> HIDE DEF at, l
      <4> QED BY <1>8, <1>13, <1>14, <1>18, <3>1, <4>1
    <3>3. n = 1 /\ exact /\ size # l BY <1>8, <1>18, <2>2, <3>2 DEF TooShort
    <3>4. ind = n /\ ind - 1 = 0
      <4> HIDE DEF n
      <4> QED BY <1>2, <3>3
    <3>5. offs = 0 /\ at = Len(whole) BY <1>11, <1>13, <1>17, <3>4
    <3>6. size = Len(whole) BY <1>15, <3>5
    <3> QED BY <3>1, <3>3, <3>6
  <2>4. ind' <= Len(fmt')
    <3>1. Len(fmt') = n /\ ind' = ind BY <1>3, <2>1
    <3> HIDE DEF n
    <3>2. ind <= n BY <1>1, <1>2
    <3> QED BY <3>1, <3>2
  <2>5. cutoff' # 0 BY <1>3, <2>3
  <2> HIDE DEF n, raises
  <2> QED BY <2>1, <2>4, <2>5 DEF ReadRight
<1>20. CASE ~raises
  <2>1. /\ unp' = IF ind = n THEN unp \o v ELSE Append(unp \o v, z.str)
        /\ offs' = IF ind = n THEN at ELSE at + z.size
        /\ ind' = ind + 1 /\ work' = work
    BY <1>20 DEF UnpackPiece, LastPiece
  <2>2. at <= l /\ (ind # n => ends[ind] <= l) /\ (ind = n => cutoff = 0)
    <3>1. CASE ind # n
      <4> DEFINE e == ends[ind]
                 m == ends[n - 1]
      <4>1. e \in Nat /\ m \in Nat /\ e <= m /\ m <= l /\ at <= e /\ at \in Nat /\ l \in Nat
        BY <1>8, <1>10, <1>14, <1>16, <1>18, <3>1
      <4> HIDE DEF e, m, l, at
      <4>2. e <= l /\ at <= l BY <4>1
      <4> QED BY <3>1, <4>2 DEF e
    <3>2. CASE ind = n
      <4>1. at = Len(whole) BY <1>13, <1>17, <3>2
      <4>2. CASE cutoff = 0 BY <1>8, <1>9, <3>2, <4>1, <4>2
      <4>3. CASE cutoff > 0
        <5>1. l < at BY <1>8, <1>9, <4>1, <4>3
        <5>2. TooShort(fmt[ind]) BY <1>8, <1>18, <5>1 DEF TooShort
        <5>3. fmt[ind] = <<>> BY <1>20, <5>2
        <5>4. sizes = <<>> BY <1>1, <1>2, <5>3, Layout, PieceShape
        <5>5. size = 0
          <6>1. <<>> \in Seq(Nat) BY EmptySeq
          <6> QED BY <5>4, <6>1, SumNat
        <5>6. ends[n] = ends[n - 1] BY <1>13, <1>14, <3>2, <5>5
        <5>7. at <= l BY <1>8, <1>10, <1>13, <4>1, <5>6
        <5> QED BY <1>8, <1>18, <5>1, <5>7
      <4> QED BY <1>9, <4>2, <4>3
    <3> QED BY <3>1, <3>2
  <2>3. /\ v = Vals(fmt, argv, ind)
        /\ ind # n => z.str = str /\ at + z.size = ends[ind]
    <3> HIDE DEF n
    <3>1. ind # n => ends[ind] <= l BY <2>2
    <3> QED BY <1>1, <1>2, <1>8, <1>11, <2>2, <3>1, PieceRead DEF n
  <2>4. unp' = SubSeq(argv, 1, SlotStarts(fmt)[ind])
    <3>1. /\ ind = n => SubSeq(argv, 1, SlotStarts(fmt)[ind - 1]) \o Vals(fmt, argv, ind) = SubSeq(argv, 1, SlotStarts(fmt)[ind])
          /\ ind # n => Append(SubSeq(argv, 1, SlotStarts(fmt)[ind - 1]) \o Vals(fmt, argv, ind), str) = SubSeq(argv, 1, SlotStarts(fmt)[ind])
      <4> HIDE DEF n
      <4> QED BY <1>1, <1>2, PieceValues DEF n
    <3> HIDE DEF n, v, z, str
    <3> QED BY <1>11, <2>1, <2>3, <3>1
  <2>5. offs' = ends[ind]
    <3> HIDE DEF n, z, at
    <3> QED BY <1>17, <2>1, <2>3
  <2>6. ind' - 1 = ind /\ (ind # n => ind' <= n)
    <3> HIDE DEF n
    <3> QED BY <1>1, <1>2, <2>1
  <2>7. cutoff' > 0 => ind' <= Len(fmt')
    <3>1. cutoff' = cutoff /\ Len(fmt') = n BY <1>3
    <3> HIDE DEF n
    <3> QED BY <2>2, <2>6, <3>1
  <2>8. work' = "unpack" BY <1>2, <2>1
  <2> HIDE DEF n, v, z, str, at, size, sizes, l
  <2> QED BY <1>3, <2>4, <2>5, <2>6, <2>7, <2>8 DEF ReadRight
<1> QED BY <1>19, <1>20

\* The length is compared at the end.
LEMMA UnpackEndsStep ==
  ASSUME FormInv, ReadInv, UnpackEnds
  PROVE PackInv' /\ ReadInv'
<1>1. work = "unpack" /\ ind > Len(fmt) /\ ind \in 1 .. Len(fmt) + 1
      /\ UNCHANGED <<fmt, argv, packed, cutoff, exact, ind, offs, unp>>
      /\ work' = IF exact /\ offs # Len(Handed) THEN "unpacking raised" ELSE "done"
  BY DEF UnpackEnds, FormInv
<1>2. HandedOver /\ (LastString <= Len(Handed) => ReadRight) BY <1>1 DEF ReadInv, Reading
<1>3. HandedOver' /\ Handed' = Handed /\ LastString' = LastString
  BY <1>1, <1>2 DEF HandedOver, Handed, LastString
<1>4. PackInv' BY <1>1 DEF PackInv
<1>5. SUFFICES ASSUME LastString <= Len(Handed) PROVE ReadRight'
  BY <1>3, <1>4 DEF ReadInv
<1>6. fmt \in Formats /\ argv \in Values[fmt] /\ cutoff \in Nat BY DEF FormInv
<1>7. Len(fmt) \in Nat BY <1>6, Layout
<1>8. ind - 1 = Len(fmt)
  <2> DEFINE n == Len(fmt)
  <2>1. n \in Nat /\ ind > n /\ ind \in 1 .. n + 1 BY <1>1, <1>7
  <2> HIDE DEF n
  <2>2. ind - 1 = n BY <2>1
  <2> QED BY <2>2 DEF n
<1>9. offs = Len(packed)
  <2>1. offs = Ends(fmt, argv)[Len(fmt)] BY <1>1, <1>2, <1>5, <1>8 DEF ReadRight
  <2>2. Ends(fmt, argv)[Len(fmt)] = Len(Whole(fmt, argv)) BY <1>6, WholeIs
  <2>3. packed = Whole(fmt, argv) BY <1>2 DEF HandedOver
  <2> QED BY <2>1, <2>2, <2>3
<1>10. ~(cutoff > 0)
  <2> DEFINE n == Len(fmt)
  <2>1. n \in Nat /\ ind > n /\ ind \in 1 .. n + 1 /\ (cutoff > 0 => ind <= n) BY <1>1, <1>2, <1>5, <1>7 DEF ReadRight
  <2> HIDE DEF n
  <2> QED BY <2>1
<1>11. exact => Len(Handed) = Len(packed)
  BY <1>2, <1>6, <1>10, FormatAssumption, HandedIs DEF FormatAssumption
<1>12. work' = "done" BY <1>1, <1>9, <1>11
<1> QED BY <1>1, <1>2, <1>5, <1>10, <1>12 DEF ReadRight

\* The invariant holds.
LEMMA StructzInvHolds == StructzSpec => []StructzInv
<1>1. StructzInit => StructzInv
  <2> SUFFICES ASSUME StructzInit PROVE StructzInv OBVIOUS
  <2>1. fmt \in Formats /\ argv \in Values[fmt] BY DEF StructzInit
  <2>2. Len(fmt) \in Nat \ {0} /\ SlotStarts(fmt)[0] = 0 BY <2>1, Layout
  <2>3. Ends(fmt, argv)[0] = 0 /\ Whole(fmt, argv) \in Seq(Nat) BY <2>1, WholeIs
  <2>4. SubSeq(Whole(fmt, argv), 1, 0) = <<>> BY <2>3, NothingTaken
  <2>5. packed = <<>> /\ cutoff = 0 /\ exact = TRUE /\ ind = 1 /\ offs = 0 /\ unp = <<>> /\ work = "pack"
    BY DEF StructzInit, StructzBegins
  <2>6. ind - 1 = 0 /\ ind \in 1 .. Len(fmt) + 1 BY <2>2, <2>5
  <2> QED BY <2>1, <2>2, <2>3, <2>4, <2>5, <2>6 DEF StructzInv, FormInv, PackInv, ReadInv, Reading
<1>2. StructzInv /\ [StructzNext]_structzVars => StructzInv'
  <2> SUFFICES ASSUME StructzInv, [StructzNext]_structzVars PROVE StructzInv' OBVIOUS
  <2>1. FormInv /\ PackInv /\ ReadInv BY DEF StructzInv
  <2>2. FormInv' BY <2>1, FormNext
  <2>3. CASE PackPiece
    <3>1. PackInv' /\ work' \notin Reading BY <2>1, <2>3, PackStep
    <3> QED BY <2>2, <3>1 DEF StructzInv, ReadInv
  <2>4. CASE HandOver BY <2>1, <2>2, <2>4, HandOverStep DEF StructzInv
  <2>5. CASE UnpackPiece BY <2>1, <2>2, <2>5, UnpackStep DEF StructzInv
  <2>6. CASE UnpackEnds BY <2>1, <2>2, <2>6, UnpackEndsStep DEF StructzInv
  <2>7. CASE UNCHANGED structzVars
    BY <2>1, <2>2, <2>7 DEF structzVars, StructzInv, PackInv, ReadInv, ReadRight, HandedOver, Handed, LastString
  <2> QED BY <2>3, <2>4, <2>5, <2>6, <2>7 DEF StructzNext
<1> QED BY <1>1, <1>2, PTL DEF StructzSpec

\* The values packed by a format are the values read back, whatever the format, and packing and
\* unpacking raise only where pack and unpack of structz.py do so for the reasons named.
THEOREM AlwaysReadsBack == StructzSpec => []StructzReadsBack
<1>1. StructzInv => StructzReadsBack
  <2> SUFFICES ASSUME StructzInv PROVE StructzReadsBack OBVIOUS
  <2>1. FormInv /\ PackInv /\ ReadInv BY DEF StructzInv
  <2>2. fmt \in Formats /\ argv \in Values[fmt] /\ cutoff \in Nat /\ ind \in 1 .. Len(fmt) + 1 BY <2>1 DEF FormInv
  <2>3. /\ Len(fmt) \in Nat \ {0} /\ Ends(fmt, argv)[Len(fmt)] = Len(Whole(fmt, argv)) /\ Ends(fmt, argv)[0] = 0
        /\ TotalSize(Fields(fmt[Len(fmt)])) \in Nat /\ Len(Whole(fmt, argv)) \in Nat
        /\ Ends(fmt, argv) \in [0 .. Len(fmt) -> Nat]
        /\ Ends(fmt, argv)[Len(fmt)] = Ends(fmt, argv)[Len(fmt) - 1] + TotalSize(Fields(fmt[Len(fmt)]))
    BY <2>2, WholeIs
  <2>4. ASSUME work \in {"done", "unpacking raised"}
        PROVE /\ Len(Handed) \in Nat /\ LastString = Ends(fmt, argv)[Len(fmt) - 1] /\ packed = Whole(fmt, argv)
              /\ cutoff = 0 => Len(Handed) >= Len(packed)
              /\ LastString <= Len(Handed) => ReadRight
    <3>1. HandedOver /\ (LastString <= Len(Handed) => ReadRight) BY <2>1, <2>4 DEF ReadInv, Reading
    <3> QED BY <2>1, <3>1, FormatAssumption, HandedIs DEF FormatAssumption, HandedOver
  <2>5. Ends(fmt, argv)[Len(fmt) - 1] \in Nat
    <3>1. Len(fmt) - 1 \in 0 .. Len(fmt) BY <2>3
    <3> QED BY <2>3, <3>1
  <2>6. ASSUME work \in {"done", "unpacking raised"}, cutoff = 0
        PROVE work = "done" /\ unp = argv /\ offs = Len(packed)
    <3>1. LastString <= Len(Handed)
      <4> DEFINE e == Ends(fmt, argv)[Len(fmt) - 1]
                 t == TotalSize(Fields(fmt[Len(fmt)]))
                 w == Len(Whole(fmt, argv))
                 l == Len(Handed)
      <4>1. e \in Nat /\ t \in Nat /\ w \in Nat /\ l \in Nat /\ w = e + t BY <2>3, <2>4, <2>5, <2>6
      <4>2. l >= w /\ LastString = e BY <2>4, <2>6
      <4> HIDE DEF e, t, w, l
      <4>3. LastString <= l BY <4>1, <4>2
      <4> QED BY <4>3 DEF l
    <3>2. ReadRight BY <2>4, <2>6, <3>1
    <3>3. work = "done" /\ ind > Len(fmt) BY <2>6, <3>2 DEF ReadRight
    <3>4. ind - 1 = Len(fmt) BY <2>2, <2>3, <3>3
    <3>5. offs = Len(packed) BY <2>3, <2>4, <2>6, <3>2, <3>3, <3>4 DEF ReadRight
    <3>6. unp = SubSeq(argv, 1, Len(argv)) BY <2>2, <3>2, <3>3, <3>4, Layout DEF ReadRight
    <3>7. argv \in Seq(Seq(Nat)) BY <2>2, Layout
    <3>8. unp = argv BY <3>6, <3>7, NothingTaken
    <3> QED BY <3>3, <3>5, <3>8
  <2>7. ASSUME work = "done", cutoff > 0 PROVE Len(fmt) > 1 /\ Len(Handed) < LastString
    <3>1. ~ReadRight BY <2>2, <2>3, <2>7 DEF ReadRight
    <3>2. ~(LastString <= Len(Handed)) BY <2>4, <2>7, <3>1
    <3>3. Len(Handed) < LastString BY <2>4, <2>5, <2>7, <3>2
    <3>4. Len(fmt) # 1
      <4> SUFFICES ASSUME Len(fmt) = 1 PROVE FALSE OBVIOUS
      <4>1. LastString = 0 BY <2>3, <2>4, <2>7
      <4> QED BY <2>4, <2>7, <3>3, <4>1
    <3>5. Len(fmt) \in Nat \ {0} BY <2>3
    <3>6. Len(fmt) > 1
      <4> DEFINE n == Len(fmt)
      <4>1. n \in Nat \ {0} /\ n # 1 BY <3>4, <3>5
      <4> HIDE DEF n
      <4>2. n > 1 BY <4>1
      <4> QED BY <4>2 DEF n
    <3> QED BY <3>3, <3>6
  <2> QED BY <2>1, <2>6, <2>7 DEF StructzReadsBack, PackInv
<1> QED BY <1>1, StructzInvHolds, PTL

-----------------------------------------------------------------------------
(* version.py: what Python computes                                        *)

\* A function of the numbers whose value is taken from that of a smaller one, where it is not given.
Recurs(f, V, base, B, P, H) ==
  f \in [Nat -> V] /\ \A n \in Nat : f[n] = IF n \in base THEN B[n] ELSE H[n][f[P[n]]]

\* Such a function exists.
LEMMA Recursion ==
  ASSUME NEW V, NEW base \in SUBSET Nat, NEW B \in [Nat -> V], NEW P \in [Nat -> Nat], NEW H \in [Nat -> [V -> V]],
         \A n \in Nat \ base : P[n] < n
  PROVE \E f : Recurs(f, V, base, B, P, H)
<1> DEFINE Val(g, k) == IF k \in base THEN B[k] ELSE H[k][g[P[k]]]
           Sat(g, n) == g \in [0 .. n -> V] /\ \A k \in 0 .. n : g[k] = Val(g, k)
<1>1. ASSUME NEW n \in Nat, NEW g \in [0 .. n -> V], NEW k \in 0 .. n PROVE Val(g, k) \in V
  <2>1. k \in Nat OBVIOUS
  <2>2. CASE k \in base BY <2>1, <2>2
  <2>3. CASE k \notin base
    <3>1. P[k] \in 0 .. n BY <2>1, <2>3
    <3>2. g[P[k]] \in V BY <3>1
    <3>3. H[k] \in [V -> V] BY <2>1
    <3> QED BY <2>3, <3>2, <3>3
  <2> QED BY <2>2, <2>3
<1>2. ASSUME NEW n \in Nat, NEW g, NEW h, NEW m \in Nat, n <= m, Sat(g, n), Sat(h, m),
             NEW k \in 0 .. n
      PROVE g[k] = h[k]
  <2> DEFINE T == {i \in 0 .. n : g[i] # h[i]}
  <2> SUFFICES ASSUME T # {} PROVE FALSE
    OBVIOUS
  <2>1. T \in SUBSET Nat OBVIOUS
  <2>2. PICK i \in T : \A j \in T : i <= j BY <2>1, LeastNumber
  <2>3. i \in 0 .. n /\ i \in 0 .. m /\ g[i] # h[i] /\ i \in Nat BY <1>2, <2>2
  <2>4. g[i] = Val(g, i) /\ h[i] = Val(h, i) BY <1>2, <2>3
  <2>5. i \notin base BY <2>3, <2>4
  <2>6. P[i] \in Nat /\ P[i] < i BY <2>3, <2>5
  <2>7. P[i] \in 0 .. n BY <2>3, <2>6
  <2>8. P[i] \notin T BY <2>2, <2>6, <2>3
  <2>9. g[P[i]] = h[P[i]] BY <2>7, <2>8
  <2> QED BY <2>3, <2>4, <2>5, <2>9
<1>3. ASSUME NEW n \in Nat PROVE \E g : Sat(g, n)
  <2> DEFINE T == {i \in Nat : \E g : Sat(g, i)}
  <2>1. 0 \in T
    <3> DEFINE g == [k \in 0 .. 0 |-> B[0]]
    <3>1. 0 \in base
      <4> SUFFICES ASSUME 0 \notin base PROVE FALSE OBVIOUS
      <4>1. P[0] \in Nat /\ P[0] < 0 OBVIOUS
      <4> QED BY <4>1
    <3>2. Sat(g, 0) BY <3>1
    <3> HIDE DEF g, Sat
    <3> QED BY <3>2
  <2>2. ASSUME NEW i \in 0 .. n - 1, i \in T PROVE i + 1 \in T
    <3>0. i \in Nat /\ i + 1 \in Nat /\ ~(i + 1 <= i) OBVIOUS
    <3>1. PICK g : Sat(g, i) BY <2>2
    <3> DEFINE v == IF i + 1 \in base THEN B[i + 1] ELSE H[i + 1][g[P[i + 1]]]
               h == [k \in 0 .. i + 1 |-> IF k = i + 1 THEN v ELSE g[k]]
    <3>2. i + 1 \notin base => P[i + 1] \in 0 .. i BY <3>0
    <3>3. v \in V
      <4>1. CASE i + 1 \in base BY <3>0, <4>1
      <4>2. CASE i + 1 \notin base
        <5>1. g[P[i + 1]] \in V BY <3>1, <3>2, <4>2
        <5>2. H[i + 1] \in [V -> V] BY <3>0
        <5> QED BY <4>2, <5>1, <5>2
      <4> QED BY <4>1, <4>2
    <3>4. \A k \in 0 .. i : k \in 0 .. i + 1 /\ h[k] = g[k] BY <3>0
    <3>5. h \in [0 .. i + 1 -> V]
      <4>1. \A k \in 0 .. i + 1 : k # i + 1 => k \in 0 .. i BY <3>0
      <4> HIDE DEF v
      <4> QED BY <3>1, <3>3, <4>1
    <3>6. ASSUME NEW k \in 0 .. i + 1 PROVE h[k] = Val(h, k)
      <4>1. CASE k = i + 1
        <5>1. h[k] = v BY <4>1
        <5>2. i + 1 \notin base => h[P[i + 1]] = g[P[i + 1]] BY <3>2, <3>4
        <5> HIDE DEF h
        <5> QED BY <4>1, <5>1, <5>2
      <4>2. CASE k # i + 1
        <5>1. k \in 0 .. i /\ k \in Nat BY <4>2, <3>0
        <5>2. g[k] = Val(g, k) BY <5>1, <3>1
        <5>3. k \notin base => P[k] \in 0 .. i BY <5>1
        <5>4. h[k] = g[k] BY <5>1, <3>4
        <5>5. k \notin base => h[P[k]] = g[P[k]] BY <5>3, <3>4
        <5> HIDE DEF h
        <5> QED BY <5>2, <5>4, <5>5
      <4> QED BY <4>1, <4>2
    <3>7. Sat(h, i + 1) BY <3>5, <3>6
    <3> HIDE DEF h, Sat
    <3> QED BY <3>0, <3>7
  <2>3. 0 .. n \subseteq T
    <3> HIDE DEF T
    <3> QED BY <2>1, <2>2, UpTo
  <2>4. n \in T
    <3> HIDE DEF T
    <3> QED BY <2>3
  <2> HIDE DEF Sat
  <2> QED BY <2>4
<1> DEFINE G(n) == CHOOSE g : Sat(g, n)
           f == [n \in Nat |-> G(n)[n]]
<1>4. \A n \in Nat : Sat(G(n), n)
  <2> HIDE DEF Sat
  <2> QED BY <1>3
<1>5. ASSUME NEW n \in Nat PROVE f[n] \in V /\ f[n] = Val(f, n)
  <2>1. Sat(G(n), n) /\ n \in 0 .. n
    <3> HIDE DEF Sat, G
    <3> QED BY <1>4
  <2>2. f[n] = G(n)[n] OBVIOUS
  <2>3. G(n)[n] = Val(G(n), n) /\ G(n)[n] \in V
    <3> HIDE DEF G, f
    <3> QED BY <2>1
  <2>4. ASSUME n \notin base PROVE f[P[n]] = G(n)[P[n]]
    <3>1. P[n] \in Nat /\ P[n] <= n /\ P[n] \in 0 .. P[n] BY <2>4
    <3>2. f[P[n]] = G(P[n])[P[n]] BY <3>1
    <3>3. Sat(G(P[n]), P[n]) BY <3>1, <1>4
    <3>4. G(P[n])[P[n]] = G(n)[P[n]]
      <4> HIDE DEF Sat, G
      <4> QED BY <1>2, <2>1, <3>1, <3>3
    <3> QED BY <3>2, <3>4
  <2> HIDE DEF f, G, Sat
  <2> QED BY <2>2, <2>3, <2>4
<1>6. f \in [Nat -> V] /\ \A n \in Nat : f[n] = IF n \in base THEN B[n] ELSE H[n][f[P[n]]]
  <2>1. \A n \in Nat : f[n] \in V BY <1>5
  <2>2. f \in [Nat -> V] BY <2>1
  <2> HIDE DEF f
  <2> QED BY <2>2, <1>5
<1> HIDE DEF f
<1> QED BY <1>6 DEF Recurs

\* What texts are made of: the prover does not know that a text in quotes is a STRING.
Symbols ==
  STRING \cup {"0", "1", "2", "3", "4", "5", "6", "7", "8", "9", ".", "-", "r", "M", "RC", "beta"}

\* The texts of the model are made of them.
LEMMA OfSymbols == Seq(STRING) \subseteq Seq(Symbols)
<1> SUFFICES ASSUME NEW s \in Seq(STRING) PROVE s \in Seq(Symbols)
  OBVIOUS
<1>1. Len(s) \in Nat /\ s \in [1 .. Len(s) -> STRING] BY LenProperties
<1>2. s \in [1 .. Len(s) -> Symbols] BY <1>1 DEF Symbols
<1> QED BY <1>1, <1>2, SeqDef

\* The powers of two.
LEMMA Powers ==
  /\ Pow2[0] = 1
  /\ \A k \in Nat : Pow2[k] \in Nat \ {0} /\ Pow2[k + 1] = 2 * Pow2[k]
<1> DEFINE Is(f) == f = [k \in Nat |-> IF k = 0 THEN 1 ELSE 2 * f[k - 1]]
           base == {0}
           B == [n \in Nat |-> 1]
           P == [n \in Nat |-> IF n = 0 THEN 0 ELSE n - 1]
           H == [n \in Nat |-> [v \in Nat |-> 2 * v]]
<1>1. \E f : Is(f)
  <2>1. B \in [Nat -> Nat] /\ P \in [Nat -> Nat] /\ \A n \in Nat \ base : P[n] < n OBVIOUS
  <2>2. H \in [Nat -> [Nat -> Nat]] OBVIOUS
  <2>3. PICK f : Recurs(f, Nat, base, B, P, H)
    <3> HIDE DEF B, P, H
    <3>1. base \in SUBSET Nat OBVIOUS
    <3> HIDE DEF base
    <3> QED BY <2>1, <2>2, <3>1, Recursion
  <2>4. f \in [Nat -> Nat] /\ \A n \in Nat : f[n] = IF n \in base THEN B[n] ELSE H[n][f[P[n]]]
    BY <2>3 DEF Recurs
  <2>5. ASSUME NEW n \in Nat PROVE f[n] = IF n = 0 THEN 1 ELSE 2 * f[n - 1]
    <3>1. CASE n = 0 BY <2>4, <3>1
    <3>2. CASE n # 0
      <4>1. P[n] = n - 1 /\ n - 1 \in Nat /\ n \notin base BY <3>2
      <4>2. f[n - 1] \in Nat BY <2>4, <4>1
      <4>3. H[n][f[n - 1]] = 2 * f[n - 1] BY <4>2
      <4> HIDE DEF H, P, B, base
      <4> QED BY <2>4, <3>2, <4>1, <4>3
    <3> QED BY <3>1, <3>2
  <2>6. Is(f) BY <2>4, <2>5
  <2> HIDE DEF Is
  <2> QED BY <2>6
<1>2. Pow2 = CHOOSE f : Is(f) BY DEF Pow2
<1>3. Is(Pow2)
  <2> HIDE DEF Is
  <2> QED BY <1>1, <1>2
<1>4. \A k \in Nat : Pow2[k] = IF k = 0 THEN 1 ELSE 2 * Pow2[k - 1] BY <1>3
<1> HIDE DEF Is
<1>5. Pow2[0] = 1 BY <1>4
<1>6. \A k \in Nat : Pow2[k + 1] = 2 * Pow2[k]
  <2> TAKE k \in Nat
  <2>1. k + 1 \in Nat /\ k + 1 # 0 /\ k + 1 - 1 = k OBVIOUS
  <2> QED BY <1>4, <2>1
<1>7. ASSUME NEW n \in Nat PROVE Pow2[n] \in Nat \ {0}
  <2> DEFINE T == {i \in Nat : Pow2[i] \in Nat \ {0}}
  <2>1. 0 \in T BY <1>5
  <2>2. \A i \in 0 .. n - 1 : i \in T => i + 1 \in T
    <3> TAKE i \in 0 .. n - 1
    <3>1. i \in Nat /\ i + 1 \in Nat OBVIOUS
    <3> QED BY <3>1, <1>6
  <2>3. 0 .. n \subseteq T
    <3> HIDE DEF T
    <3> QED BY <2>1, <2>2, UpTo
  <2> QED BY <2>3
<1> QED BY <1>5, <1>6, <1>7

\* What a digit stands for.
LEMMA DigitIs ==
  ASSUME NEW d \in ToSet(Digits)
  PROVE DigitOf(d) \in 0 .. 9 /\ Digits[DigitOf(d) + 1] = d
<1>1. \E i \in 0 .. 9 : Digits[i + 1] = d
  <2>1. DOMAIN Digits = 1 .. 10 BY DEF Digits
  <2>2. PICK j \in DOMAIN Digits : Digits[j] = d BY DEF ToSet
  <2>3. j - 1 \in 0 .. 9 /\ j - 1 + 1 = j BY <2>1, <2>2
  <2> QED BY <2>2, <2>3
<1> QED BY <1>1 DEF DigitOf

\* The digits of a number.
LEMMA Decimals ==
  ASSUME NEW n \in Nat
  PROVE /\ Decimal[n] \in Seq(Symbols)
        /\ Decimal[n] = IF n < 10 THEN <<Digits[n + 1]>> ELSE Decimal[n \div 10] \o <<Digits[(n % 10) + 1]>>
<1> DEFINE Is(f) == f = [k \in Nat |-> IF k < 10 THEN <<Digits[k + 1]>> ELSE f[k \div 10] \o <<Digits[(k % 10) + 1]>>]
           V == Seq(Symbols)
           base == 0 .. 9
           B == [k \in Nat |-> IF k < 10 THEN <<Digits[k + 1]>> ELSE <<>>]
           P == [k \in Nat |-> k \div 10]
           H == [k \in Nat |-> [v \in V |-> v \o <<Digits[(k % 10) + 1]>>]]
<1>1. \A i \in 0 .. 9 : Digits[i + 1] \in Symbols
  <2> TAKE i \in 0 .. 9
  <2>2. Digits \in Seq(Symbols) /\ Len(Digits) = 10 BY DEF Digits, Symbols
  <2>3. i + 1 \in 1 .. Len(Digits) BY <2>2
  <2> HIDE DEF Digits
  <2> QED BY <2>2, <2>3, ElementOfSeq
<1>2. \A k \in Nat : k % 10 \in 0 .. 9 /\ k \div 10 \in Nat /\ (k >= 10 => k \div 10 < k) OBVIOUS
<1>3. \A v \in V : \A k \in Nat : v \o <<Digits[(k % 10) + 1]>> \in V
  <2> TAKE v \in V
  <2> TAKE k \in Nat
  <2>1. Digits[(k % 10) + 1] \in Symbols BY <1>1, <1>2
  <2>2. <<Digits[(k % 10) + 1]>> \in V BY <2>1
  <2> QED BY <2>2
<1>4. \E f : Is(f)
  <2>1. B \in [Nat -> V]
    <3>1. \A k \in Nat : k < 10 => k \in 0 .. 9 OBVIOUS
    <3>2. \A k \in Nat : k < 10 => Digits[k + 1] \in Symbols BY <1>1, <3>1
    <3>3. ASSUME NEW k \in Nat PROVE B[k] \in V
      <4>1. B[k] = IF k < 10 THEN <<Digits[k + 1]>> ELSE <<>> OBVIOUS
      <4>2. k < 10 => <<Digits[k + 1]>> \in V BY <3>2
      <4>3. <<>> \in V OBVIOUS
      <4> HIDE DEF B, V
      <4> QED BY <4>1, <4>2, <4>3
    <3> HIDE DEF V
    <3> QED BY <3>3
  <2>2. P \in [Nat -> Nat] /\ \A k \in Nat \ base : P[k] < k BY <1>2
  <2>3. H \in [Nat -> [V -> V]]
    <3> HIDE DEF V
    <3> QED BY <1>3
  <2>4. PICK f : Recurs(f, V, base, B, P, H)
    <3>1. base \in SUBSET Nat OBVIOUS
    <3> HIDE DEF B, P, H, V, base
    <3> QED BY <2>1, <2>2, <2>3, <3>1, Recursion
  <2>5. f \in [Nat -> V] /\ \A k \in Nat : f[k] = IF k \in base THEN B[k] ELSE H[k][f[P[k]]]
    BY <2>4 DEF Recurs
  <2>6. ASSUME NEW k \in Nat PROVE f[k] = IF k < 10 THEN <<Digits[k + 1]>> ELSE f[k \div 10] \o <<Digits[(k % 10) + 1]>>
    <3>1. CASE k < 10
      <4>1. k \in base /\ B[k] = <<Digits[k + 1]>> BY <3>1
      <4> HIDE DEF B, base
      <4> QED BY <2>5, <3>1, <4>1
    <3>2. CASE ~(k < 10)
      <4>1. k \notin base /\ P[k] = k \div 10 /\ k \div 10 \in Nat BY <3>2, <1>2
      <4>2. f[k \div 10] \in V
        <5> HIDE DEF V
        <5> QED BY <2>5, <4>1
      <4>3. H[k][f[k \div 10]] = f[k \div 10] \o <<Digits[(k % 10) + 1]>>
        <5> HIDE DEF V
        <5> QED BY <4>2
      <4> HIDE DEF H, P, B, base
      <4> QED BY <2>5, <3>2, <4>1, <4>3
    <3> QED BY <3>1, <3>2
  <2>7. Is(f)
    <3> HIDE DEF V
    <3> QED BY <2>5, <2>6
  <2> HIDE DEF Is
  <2> QED BY <2>7
<1>5. Decimal = CHOOSE f : Is(f) BY DEF Decimal
<1>6. Is(Decimal)
  <2> HIDE DEF Is
  <2> QED BY <1>4, <1>5
<1>7. \A k \in Nat : Decimal[k] = IF k < 10 THEN <<Digits[k + 1]>> ELSE Decimal[k \div 10] \o <<Digits[(k % 10) + 1]>>
  BY <1>6
<1>8. Decimal[n] \in V
  <2> DEFINE T == {k \in Nat : Decimal[k] \notin V}
  <2> SUFFICES ASSUME T # {} PROVE FALSE
    OBVIOUS
  <2>1. T \in SUBSET Nat OBVIOUS
  <2>2. PICK k \in T : \A j \in T : k <= j BY <2>1, LeastNumber
  <2>3. k \in Nat /\ Decimal[k] \notin V OBVIOUS
  <2>4. CASE k < 10
    <3>1. k \in 0 .. 9 BY <2>3, <2>4
    <3>2. Digits[k + 1] \in Symbols BY <1>1, <3>1
    <3>3. Decimal[k] = <<Digits[k + 1]>> BY <1>7, <2>3, <2>4
    <3>4. <<Digits[k + 1]>> \in V BY <3>2
    <3> QED BY <2>3, <3>3, <3>4
  <2>5. CASE ~(k < 10)
    <3>1. k \div 10 \in Nat /\ k \div 10 < k BY <1>2, <2>3, <2>5
    <3>2. k \div 10 \notin T BY <2>2, <2>3, <3>1
    <3>3. Decimal[k \div 10] \in V BY <3>1, <3>2
    <3>4. Decimal[k \div 10] \o <<Digits[(k % 10) + 1]>> \in V
      <4> HIDE DEF V
      <4> QED BY <1>3, <2>3, <3>3
    <3>5. Decimal[k] = Decimal[k \div 10] \o <<Digits[(k % 10) + 1]>> BY <1>7, <2>3, <2>5
    <3> QED BY <2>3, <3>4, <3>5
  <2> QED BY <2>4, <2>5
<1> QED BY <1>7, <1>8

\* The bits of two numbers together.
LEMMA Ors ==
  ASSUME NEW a \in Nat, NEW b \in Nat
  PROVE /\ Or[a][b] \in Nat
        /\ Or[a][b] = IF a = 0 THEN b
                      ELSE IF b = 0 THEN a
                      ELSE 2 * Or[a \div 2][b \div 2] + (IF a % 2 = 1 \/ b % 2 = 1 THEN 1 ELSE 0)
<1> DEFINE Bit(n, c) == IF n % 2 = 1 \/ c % 2 = 1 THEN 1 ELSE 0
           Is(f) == f = [n \in Nat |-> [c \in Nat |->
                          IF n = 0 THEN c ELSE IF c = 0 THEN n ELSE 2 * f[n \div 2][c \div 2] + Bit(n, c)]]
           V == [Nat -> Nat]
           base == {0}
           B == [n \in Nat |-> [c \in Nat |-> c]]
           P == [n \in Nat |-> n \div 2]
           H == [n \in Nat |-> [v \in V |-> [c \in Nat |-> IF c = 0 THEN n ELSE 2 * v[c \div 2] + Bit(n, c)]]]
<1>1. \A n \in Nat : n \div 2 \in Nat /\ (n # 0 => n \div 2 < n) OBVIOUS
<1>2. ASSUME NEW v \in V, NEW n \in Nat
      PROVE [c \in Nat |-> IF c = 0 THEN n ELSE 2 * v[c \div 2] + Bit(n, c)] \in V
  <2>1. ASSUME NEW c \in Nat PROVE (IF c = 0 THEN n ELSE 2 * v[c \div 2] + Bit(n, c)) \in Nat
    <3>1. Bit(n, c) \in Nat OBVIOUS
    <3>2. v[c \div 2] \in Nat BY <1>1
    <3> HIDE DEF Bit
    <3> QED BY <3>1, <3>2
  <2> HIDE DEF Bit
  <2> QED BY <2>1
<1>3. \E f : Is(f)
  <2>1. B \in [Nat -> V] OBVIOUS
  <2>2. P \in [Nat -> Nat] /\ \A k \in Nat \ base : P[k] < k BY <1>1
  <2>3. H \in [Nat -> [V -> V]]
    <3> HIDE DEF V, Bit
    <3> QED BY <1>2
  <2>4. PICK f : Recurs(f, V, base, B, P, H)
    <3>1. base \in SUBSET Nat OBVIOUS
    <3> HIDE DEF B, P, H, V, base
    <3> QED BY <2>1, <2>2, <2>3, <3>1, Recursion
  <2>5. f \in [Nat -> V] /\ \A k \in Nat : f[k] = IF k \in base THEN B[k] ELSE H[k][f[P[k]]]
    BY <2>4 DEF Recurs
  <2>6. ASSUME NEW n \in Nat
        PROVE f[n] = [c \in Nat |-> IF n = 0 THEN c ELSE IF c = 0 THEN n ELSE 2 * f[n \div 2][c \div 2] + Bit(n, c)]
    <3>1. CASE n = 0
      <4>1. f[n] = B[n] BY <2>5, <3>1
      <4>2. B[n] = [c \in Nat |-> c] OBVIOUS
      <4> HIDE DEF B, Bit
      <4> QED BY <3>1, <4>1, <4>2
    <3>2. CASE n # 0
      <4>1. n \notin base /\ P[n] = n \div 2 /\ n \div 2 \in Nat BY <3>2, <1>1
      <4>2. f[n \div 2] \in V
        <5> HIDE DEF V
        <5> QED BY <2>5, <4>1
      <4>3. H[n][f[n \div 2]] = [c \in Nat |-> IF c = 0 THEN n ELSE 2 * f[n \div 2][c \div 2] + Bit(n, c)]
        <5> HIDE DEF V, Bit
        <5> QED BY <4>2
      <4>4. f[n] = H[n][f[n \div 2]]
        <5> HIDE DEF H, P, B, base, V, Bit
        <5> QED BY <2>5, <4>1
      <4> HIDE DEF H, Bit
      <4> QED BY <3>2, <4>3, <4>4
    <3> QED BY <3>1, <3>2
  <2>7. Is(f)
    <3> HIDE DEF V, Bit
    <3> QED BY <2>5, <2>6
  <2> HIDE DEF Is
  <2> QED BY <2>7
<1>4. Or = CHOOSE f : Is(f) BY DEF Or
<1>5. Is(Or)
  <2> HIDE DEF Is
  <2> QED BY <1>3, <1>4
<1>6. \A n \in Nat : Or[n] = [c \in Nat |-> IF n = 0 THEN c ELSE IF c = 0 THEN n ELSE 2 * Or[n \div 2][c \div 2] + Bit(n, c)]
  <2> HIDE DEF Bit
  <2> QED BY <1>5
<1>7. Or[a] \in V
  <2> DEFINE T == {k \in Nat : Or[k] \notin V}
  <2> SUFFICES ASSUME T # {} PROVE FALSE
    <3> HIDE DEF V
    <3> QED OBVIOUS
  <2>1. T \in SUBSET Nat OBVIOUS
  <2>2. PICK k \in T : \A j \in T : k <= j
    <3> HIDE DEF T
    <3> QED BY <2>1, LeastNumber
  <2>3. k \in Nat /\ Or[k] \notin V OBVIOUS
  <2>4. CASE k = 0
    <3>1. Or[k] = [c \in Nat |-> c]
      <4> HIDE DEF Bit
      <4> QED BY <1>6, <2>4
    <3> QED BY <2>3, <3>1
  <2>5. CASE k # 0
    <3>1. k \div 2 \in Nat /\ k \div 2 < k BY <1>1, <2>3, <2>5
    <3>2. k \div 2 \notin T
      <4> HIDE DEF T
      <4> QED BY <2>2, <2>3, <3>1
    <3>3. Or[k \div 2] \in V
      <4> HIDE DEF V
      <4> QED BY <3>1, <3>2
    <3>4. [c \in Nat |-> IF c = 0 THEN k ELSE 2 * Or[k \div 2][c \div 2] + Bit(k, c)] \in V
      <4> HIDE DEF V, Bit
      <4> QED BY <1>2, <2>3, <3>3
    <3>5. Or[k] = [c \in Nat |-> IF c = 0 THEN k ELSE 2 * Or[k \div 2][c \div 2] + Bit(k, c)]
      <4> HIDE DEF V, Bit
      <4> QED BY <1>6, <2>3, <2>5
    <3> HIDE DEF V, Bit
    <3> QED BY <2>3, <3>4, <3>5
  <2> QED BY <2>4, <2>5
<1>8. Or[a][b] \in Nat BY <1>7
<1>9. Or[a][b] = IF a = 0 THEN b ELSE IF b = 0 THEN a ELSE 2 * Or[a \div 2][b \div 2] + Bit(a, b)
  <2> HIDE DEF Bit, V
  <2> QED BY <1>6
<1> QED BY <1>8, <1>9

\* A number below a power of two fills the bits that are 0 in its multiples.
LEMMA OrAdds ==
  ASSUME NEW k \in Nat, NEW x \in Nat, NEW y \in Nat, y < Pow2[k]
  PROVE (Pow2[k] * x | y) = Pow2[k] * x + y
<1> DEFINE T == {i \in Nat : \A c \in Nat, d \in Nat : d < Pow2[i] => Or[Pow2[i] * c][d] = Pow2[i] * c + d}
<1>0. ASSUME NEW d \in Nat PROVE \E q \in Nat, r \in {0, 1} : d \div 2 = q /\ d % 2 = r /\ d = 2 * q + r
  <2> DEFINE q == d \div 2
             r == d % 2
  <2>1. r \in {0, 1} /\ q \in Nat OBVIOUS
  <2>2. d = q * 2 + r OBVIOUS
  <2>3. d \div 2 = q /\ d % 2 = r OBVIOUS
  <2> HIDE DEF q, r
  <2>4. d = 2 * q + r BY <2>1, <2>2
  <2> QED BY <2>1, <2>3, <2>4
<1>1. 0 \in T
  <2>1. Pow2[0] = 1 BY Powers
  <2>2. ASSUME NEW c \in Nat, NEW d \in Nat, d < 1 PROVE Or[1 * c][d] = 1 * c + d
    <3>1. d = 0 /\ 1 * c = c BY <2>2
    <3>2. Or[c][0] = IF c = 0 THEN 0 ELSE c
      <4>1. 0 \in Nat OBVIOUS
      <4> QED BY <4>1, Ors
    <3> QED BY <3>1, <3>2
  <2> QED BY <2>1, <2>2
<1>2. ASSUME NEW i \in 0 .. k - 1, i \in T PROVE i + 1 \in T
  <2>1. i \in Nat /\ i + 1 \in Nat OBVIOUS
  <2> DEFINE m == Pow2[i]
  <2>2. m \in Nat \ {0} /\ Pow2[i + 1] = 2 * m BY <2>1, Powers
  <2>3. \A c \in Nat, d \in Nat : d < m => Or[m * c][d] = m * c + d BY <1>2
  <2> HIDE DEF m
  <2>4. ASSUME NEW c \in Nat, NEW d \in Nat, d < 2 * m PROVE Or[(2 * m) * c][d] = (2 * m) * c + d
    <3> DEFINE z == m * c
               carry == IF (2 * z) % 2 = 1 \/ d % 2 = 1 THEN 1 ELSE 0
    <3>1. (2 * m) * c = 2 * z /\ z \in Nat BY <2>2
    <3>2. PICK e \in Nat, r \in {0, 1} : d \div 2 = e /\ d % 2 = r /\ d = 2 * e + r BY <1>0
    <3> HIDE DEF z
    <3>3. (2 * z) \div 2 = z /\ (2 * z) % 2 = 0 BY <3>1
    <3>4. carry = r BY <3>2, <3>3
    <3>5. Or[2 * z][d] = IF 2 * z = 0 THEN d ELSE IF d = 0 THEN 2 * z ELSE 2 * Or[z][e] + carry
      <4>1. 2 * z \in Nat BY <3>1
      <4>2. Or[2 * z][d] = IF 2 * z = 0 THEN d ELSE IF d = 0 THEN 2 * z ELSE 2 * Or[(2 * z) \div 2][d \div 2] + carry
        BY <4>1, Ors
      <4> HIDE DEF carry
      <4> QED BY <3>2, <3>3, <4>2
    <3> HIDE DEF carry
    <3>6. e < m BY <2>2, <2>4, <3>2
    <3>7. Or[z][e] = z + e BY <2>3, <3>2, <3>6 DEF z
    <3>8. CASE 2 * z = 0 BY <3>1, <3>5, <3>8
    <3>9. CASE 2 * z # 0 /\ d = 0 BY <3>1, <3>5, <3>9
    <3>10. CASE 2 * z # 0 /\ d # 0
      <4>1. Or[2 * z][d] = 2 * (z + e) + r BY <3>4, <3>5, <3>7, <3>10
      <4> QED BY <3>1, <3>2, <4>1
    <3> QED BY <3>8, <3>9, <3>10
  <2>5. \A c \in Nat, d \in Nat : d < Pow2[i + 1] => Or[Pow2[i + 1] * c][d] = Pow2[i + 1] * c + d
    BY <2>2, <2>4
  <2> QED BY <2>1, <2>5
<1>3. 0 .. k \subseteq T
  <2> HIDE DEF T
  <2> QED BY <1>1, <1>2, UpTo
<1>4. k \in T
  <2> HIDE DEF T
  <2> QED BY <1>3
<1> QED BY <1>4 DEF |

\* Two sequences with the same elements.
LEMMA SameSeq ==
  ASSUME NEW S, NEW a \in Seq(S), NEW b \in Seq(S), Len(a) = Len(b), \A k \in 1 .. Len(a) : a[k] = b[k]
  PROVE a = b
<1>1. a \in [1 .. Len(a) -> S] /\ b \in [1 .. Len(b) -> S] BY LenProperties
<1> QED BY <1>1

\* A beginning of a sequence, and the next one.
LEMMA Grows ==
  ASSUME NEW S, NEW s \in Seq(S)
  PROVE /\ SubSeq(s, 1, 0) = <<>> /\ SubSeq(s, 1, Len(s)) = s
        /\ \A i \in 0 .. Len(s) : /\ SubSeq(s, 1, i) \in Seq(S) /\ Len(SubSeq(s, 1, i)) = i
                                  /\ \A k \in 1 .. i : SubSeq(s, 1, i)[k] = s[k]
        /\ \A i \in 0 .. Len(s) - 1 : SubSeq(s, 1, i + 1) = Append(SubSeq(s, 1, i), s[i + 1])
<1>1. Len(s) \in Nat BY LenProperties
<1>2. ASSUME NEW i \in 0 .. Len(s)
      PROVE SubSeq(s, 1, i) \in Seq(S) /\ Len(SubSeq(s, 1, i)) = i /\ \A k \in 1 .. i : SubSeq(s, 1, i)[k] = s[k]
  <2> DEFINE f == 1
             t == SubSeq(s, f, i)
  <2>1. f \in 1 .. Len(s) + 1 /\ i \in f - 1 .. Len(s) /\ i - f + 1 = i BY <1>1
  <2>2. \A k \in 1 .. i : f + k - 1 = k OBVIOUS
  <2> HIDE DEF f
  <2>3. t \in Seq(S) /\ Len(t) = i - f + 1 /\ \A k \in 1 .. i - f + 1 : t[k] = s[f + k - 1]
    BY <2>1, SubSeqProperties
  <2> HIDE DEF t
  <2>4. Len(t) = i /\ \A k \in 1 .. i : t[k] = s[k] BY <2>1, <2>2, <2>3
  <2> QED BY <2>3, <2>4 DEF t, f
<1>3. SubSeq(s, 1, 0) = <<>>
  <2>1. SubSeq(s, 1, 0) \in Seq(S) /\ Len(SubSeq(s, 1, 0)) = 0 BY <1>1, <1>2
  <2> QED BY <2>1, EmptySeq
<1>4. SubSeq(s, 1, Len(s)) = s
  <2> DEFINE t == SubSeq(s, 1, Len(s))
  <2>1. t \in Seq(S) /\ Len(t) = Len(s) /\ \A k \in 1 .. Len(s) : t[k] = s[k] BY <1>1, <1>2
  <2> HIDE DEF t
  <2>2. t = s BY <2>1, SameSeq
  <2> QED BY <2>2 DEF t
<1>5. ASSUME NEW i \in 0 .. Len(s) - 1 PROVE SubSeq(s, 1, i + 1) = Append(SubSeq(s, 1, i), s[i + 1])
  <2> DEFINE t == SubSeq(s, 1, i + 1)
             u == SubSeq(s, 1, i)
             v == Append(u, s[i + 1])
  <2>1. i + 1 \in 0 .. Len(s) /\ i + 1 \in 1 .. Len(s) /\ i \in 0 .. Len(s) BY <1>1
  <2>2. s[i + 1] \in S BY <2>1, ElementOfSeq
  <2>3. t \in Seq(S) /\ Len(t) = i + 1 /\ \A k \in 1 .. i + 1 : t[k] = s[k] BY <2>1, <1>2
  <2>4. u \in Seq(S) /\ Len(u) = i /\ \A k \in 1 .. i : u[k] = s[k] BY <2>1, <1>2
  <2> HIDE DEF t, u
  <2>5. v \in Seq(S) /\ Len(v) = i + 1 /\ (\A k \in 1 .. i : v[k] = u[k]) /\ v[i + 1] = s[i + 1]
    BY <2>2, <2>4, AppendProperties
  <2> HIDE DEF v
  <2>6. \A k \in 1 .. i + 1 : t[k] = v[k]
    <3> TAKE k \in 1 .. i + 1
    <3>1. CASE k = i + 1 BY <3>1, <2>3, <2>5
    <3>2. CASE k # i + 1
      <4>1. k \in 1 .. i BY <3>2
      <4> QED BY <4>1, <2>3, <2>4, <2>5
    <3> QED BY <3>1, <3>2
  <2>7. t = v BY <2>3, <2>5, <2>6, SameSeq
  <2> QED BY <2>7 DEF t, u, v
<1> QED BY <1>2, <1>3, <1>4, <1>5

\* int() reads a numeral digit by digit.
LEMMA Ints ==
  ASSUME NEW s \in Seq(Symbols), ToSet(s) \subseteq ToSet(Digits)
  PROVE \E int \in [0 .. Len(s) -> Nat] :
          /\ int[0] = 0 /\ IntOf(s) = int[Len(s)]
          /\ \A i \in 1 .. Len(s) : int[i] = 10 * int[i - 1] + DigitOf(s[i])
<1> DEFINE n == Len(s)
           Is(f) == f = [i \in 0 .. n |-> IF i = 0 THEN 0 ELSE 10 * f[i - 1] + DigitOf(s[i])]
           base == {0}
           B == [i \in Nat |-> 0]
           P == [i \in Nat |-> IF i = 0 THEN 0 ELSE i - 1]
           H == [i \in Nat |-> [v \in Nat |-> IF i \in 1 .. n THEN 10 * v + DigitOf(s[i]) ELSE 0]]
<1>1. n \in Nat BY LenProperties
<1>2. ASSUME NEW i \in 1 .. n PROVE DigitOf(s[i]) \in 0 .. 9
  <2>1. s[i] \in ToSet(s)
    <3>1. i \in DOMAIN s BY LenProperties
    <3> QED BY <3>1 DEF ToSet
  <2> QED BY <2>1, DigitIs
<1>3. \E f : Is(f)
  <2>1. base \in SUBSET Nat /\ B \in [Nat -> Nat] /\ P \in [Nat -> Nat] /\ \A i \in Nat \ base : P[i] < i OBVIOUS
  <2>2. H \in [Nat -> [Nat -> Nat]]
    <3>1. ASSUME NEW i \in Nat, NEW v \in Nat PROVE (IF i \in 1 .. n THEN 10 * v + DigitOf(s[i]) ELSE 0) \in Nat
      <4>1. CASE i \in 1 .. n BY <1>2, <4>1
      <4> QED BY <4>1
    <3> HIDE DEF n
    <3> QED BY <3>1
  <2>3. PICK f : Recurs(f, Nat, base, B, P, H)
    <3> HIDE DEF base, B, P, H
    <3> QED BY <2>1, <2>2, Recursion
  <2>4. f \in [Nat -> Nat] /\ \A i \in Nat : f[i] = IF i \in base THEN B[i] ELSE H[i][f[P[i]]]
    BY <2>3 DEF Recurs
  <2> DEFINE g == [i \in 0 .. n |-> f[i]]
  <2>5. ASSUME NEW i \in 0 .. n PROVE g[i] = IF i = 0 THEN 0 ELSE 10 * g[i - 1] + DigitOf(s[i])
    <3>1. i \in Nat /\ g[i] = f[i] BY <1>1
    <3>2. CASE i = 0
      <4>1. f[0] = B[0] BY <2>4
      <4> QED BY <3>1, <3>2, <4>1
    <3>3. CASE i # 0
      <4>1. i - 1 \in Nat /\ P[i] = i - 1 /\ i \in 1 .. n /\ i - 1 \in 0 .. n /\ i \notin base BY <1>1, <3>1, <3>3
      <4>2. f[i] = H[i][f[i - 1]]
        <5> HIDE DEF H, P, B, base
        <5> QED BY <2>4, <3>1, <4>1
      <4>3. f[i - 1] \in Nat BY <2>4, <4>1
      <4>4. H[i][f[i - 1]] = 10 * f[i - 1] + DigitOf(s[i]) BY <3>1, <4>1, <4>3
      <4>5. g[i - 1] = f[i - 1] BY <4>1
      <4> HIDE DEF H, g
      <4> QED BY <3>1, <3>3, <4>2, <4>4, <4>5
    <3> QED BY <3>2, <3>3
  <2>6. Is(g) BY <2>5
  <2> HIDE DEF Is, g
  <2> QED BY <2>6
<1> DEFINE int == CHOOSE f : Is(f)
<1>4. IntOf(s) = int[n] BY DEF IntOf
<1>5. Is(int)
  <2> HIDE DEF Is
  <2> QED BY <1>3
<1> HIDE DEF int
<1>6. \A i \in 0 .. n : int[i] = IF i = 0 THEN 0 ELSE 10 * int[i - 1] + DigitOf(s[i])
  <2> HIDE DEF n
  <2> QED BY <1>5
<1>7. int[0] = 0 BY <1>1, <1>6
<1>8. \A i \in 1 .. n : int[i] = 10 * int[i - 1] + DigitOf(s[i]) BY <1>1, <1>6
<1>9. int \in [0 .. n -> Nat]
  <2> DEFINE T == {i \in Nat : int[i] \in Nat}
  <2>1. 0 \in T BY <1>7
  <2>2. ASSUME NEW i \in 0 .. n - 1, i \in T PROVE i + 1 \in T
    <3>1. i + 1 \in 1 .. n /\ i + 1 - 1 = i /\ i + 1 \in Nat BY <1>1
    <3>2. int[i + 1] = 10 * int[i] + DigitOf(s[i + 1]) BY <1>8, <3>1
    <3>3. DigitOf(s[i + 1]) \in 0 .. 9 BY <1>2, <3>1
    <3> QED BY <2>2, <3>1, <3>2, <3>3
  <2>3. 0 .. n \subseteq T
    <3> HIDE DEF T, n
    <3> QED BY <1>1, <2>1, <2>2, UpTo
  <2>4. \A i \in 0 .. n : int[i] \in Nat BY <2>3
  <2>5. DOMAIN int = 0 .. n BY <1>5
  <2>6. int = [i \in 0 .. n |-> int[i]]
    <3> HIDE DEF n
    <3> QED BY <1>5
  <2> HIDE DEF n
  <2> QED BY <2>4, <2>6
<1> QED BY <1>4, <1>7, <1>8, <1>9

\* A numeral without zeros in front is printed as it was read.
LEMMA PrintsAgain ==
  ASSUME NEW s \in Seq(Symbols), IsNumeral(s), Len(s) > 1 => s[1] # "0"
  PROVE IntOf(s) \in Nat /\ Decimal[IntOf(s)] = s
<1>1. ToSet(s) \subseteq ToSet(Digits) /\ s # <<>> BY DEF IsNumeral
<1>2. PICK int \in [0 .. Len(s) -> Nat] :
          /\ int[0] = 0 /\ IntOf(s) = int[Len(s)]
          /\ \A i \in 1 .. Len(s) : int[i] = 10 * int[i - 1] + DigitOf(s[i])
  BY <1>1, Ints
<1>3. Len(s) \in Nat \ {0} BY <1>1, EmptySeq
<1>4. ASSUME NEW i \in 1 .. Len(s) PROVE DigitOf(s[i]) \in 0 .. 9 /\ Digits[DigitOf(s[i]) + 1] = s[i]
  <2>1. s[i] \in ToSet(s)
    <3>1. i \in DOMAIN s BY LenProperties
    <3> QED BY <3>1 DEF ToSet
  <2> QED BY <1>1, <2>1, DigitIs
<1>5. int[1] = DigitOf(s[1]) /\ int[1] \in 0 .. 9 /\ Decimal[int[1]] = <<s[1]>>
  <2>1. 1 \in 1 .. Len(s) BY <1>3
  <2>2. int[1] = 10 * int[0] + DigitOf(s[1]) BY <1>2, <2>1
  <2>3. int[1] = DigitOf(s[1]) /\ int[1] \in 0 .. 9 BY <2>1, <2>2, <1>2, <1>4
  <2>4. Decimal[int[1]] = <<Digits[int[1] + 1]>>
    <3> DEFINE x == int[1]
    <3>1. x \in Nat /\ x < 10 BY <2>3
    <3> HIDE DEF x
    <3>2. Decimal[x] = <<Digits[x + 1]>> BY <3>1, Decimals
    <3> QED BY <3>2 DEF x
  <2> QED BY <2>1, <2>3, <2>4, <1>4
<1>6. CASE Len(s) = 1
  <2>1. s = <<s[1]>>
    <3>0. 1 \in 1 .. Len(s) BY <1>6
    <3>1. s[1] \in Symbols BY <3>0, ElementOfSeq
    <3> DEFINE t == <<s[1]>>
    <3>2. t \in Seq(Symbols) /\ Len(t) = Len(s) /\ \A k \in 1 .. Len(s) : s[k] = t[k] BY <1>6, <3>1
    <3> HIDE DEF t
    <3>3. t = s BY <3>2, SameSeq
    <3> QED BY <3>3 DEF t
  <2>2. int[Len(s)] = int[1] BY <1>6
  <2> QED BY <2>1, <2>2, <1>2, <1>5
<1>7. CASE Len(s) > 1
  <2> DEFINE T == {i \in Nat : i = 0 \/ (int[i] >= 1 /\ Decimal[int[i]] = SubSeq(s, 1, i))}
  <2>1. int[1] >= 1
    <3>1. Digits[1] = "0" BY DEF Digits
    <3>2. s[1] # "0" BY <1>7
    <3>3. 1 \in 1 .. Len(s) BY <1>3
    <3>4. DigitOf(s[1]) # 0
      <4> SUFFICES ASSUME DigitOf(s[1]) = 0 PROVE FALSE OBVIOUS
      <4>1. Digits[0 + 1] = s[1] BY <1>4, <3>3
      <4> QED BY <3>1, <3>2, <4>1
    <3> QED BY <3>4, <1>5
  <2>2. 0 \in T OBVIOUS
  <2>3. ASSUME NEW i \in 0 .. Len(s) - 1, i \in T PROVE i + 1 \in T
    <3>0. i \in Nat /\ i + 1 \in Nat /\ i \in 0 .. Len(s) /\ i + 1 \in 1 .. Len(s) /\ i + 1 - 1 = i BY <1>3
    <3>1. SubSeq(s, 1, i + 1) = Append(SubSeq(s, 1, i), s[i + 1]) BY Grows
    <3>2. CASE i = 0
      <4>1. SubSeq(s, 1, 0) = <<>> BY Grows
      <4>2. SubSeq(s, 1, 1) = <<s[1]>> BY <3>1, <3>2, <4>1
      <4> QED BY <2>1, <4>2, <1>5, <3>2
    <3>3. CASE i # 0
      <4> DEFINE m == int[i]
                 d == DigitOf(s[i + 1])
      <4>1. m \in Nat /\ m >= 1 /\ d \in 0 .. 9 /\ int[i + 1] = 10 * m + d /\ Decimal[m] = SubSeq(s, 1, i)
        <5>1. int[i + 1] = 10 * int[i] + DigitOf(s[i + 1]) BY <1>2, <3>0
        <5>2. int[i] \in Nat /\ DigitOf(s[i + 1]) \in 0 .. 9 BY <1>2, <1>4, <3>0
        <5> QED BY <5>1, <5>2, <2>3, <3>3
      <4>2. Digits[d + 1] = s[i + 1] BY <1>4, <3>0
      <4> HIDE DEF m, d
      <4>3. 10 * m + d \in Nat /\ 10 * m + d >= 10 /\ (10 * m + d) \div 10 = m /\ (10 * m + d) % 10 = d BY <4>1
      <4>4. Decimal[10 * m + d] = Decimal[m] \o <<Digits[d + 1]>>
        <5> DEFINE x == 10 * m + d
        <5>1. x \in Nat /\ ~(x < 10) /\ x \div 10 = m /\ x % 10 = d BY <4>3
        <5> HIDE DEF x
        <5>2. Decimal[x] = Decimal[x \div 10] \o <<Digits[(x % 10) + 1]>> BY <5>1, Decimals
        <5>3. Decimal[x] = Decimal[m] \o <<Digits[d + 1]>> BY <5>1, <5>2
        <5> QED BY <5>3 DEF x
      <4>5. SubSeq(s, 1, i) \in Seq(Symbols) /\ s[i + 1] \in Symbols BY <3>0, Grows, ElementOfSeq
      <4>6. Decimal[int[i + 1]] = SubSeq(s, 1, i) \o <<s[i + 1]>> BY <4>1, <4>2, <4>4
      <4>7. SubSeq(s, 1, i) \o <<s[i + 1]>> = Append(SubSeq(s, 1, i), s[i + 1]) BY <4>5
      <4>8. int[i + 1] >= 1 BY <4>1
      <4> QED BY <3>0, <3>1, <4>6, <4>7, <4>8
    <3> QED BY <3>2, <3>3
  <2>4. 0 .. Len(s) \subseteq T
    <3>1. Len(s) \in Nat BY <1>3
    <3> HIDE DEF T
    <3> QED BY <3>1, <2>2, <2>3, UpTo
  <2>5. Len(s) \in T
    <3> HIDE DEF T
    <3> QED BY <1>3, <2>4
  <2>6. Decimal[int[Len(s)]] = SubSeq(s, 1, Len(s)) BY <1>3, <2>5
  <2>7. SubSeq(s, 1, Len(s)) = s BY Grows
  <2>8. Len(s) \in 0 .. Len(s) BY <1>3
  <2> QED BY <1>2, <2>6, <2>7, <2>8
<1> QED BY <1>3, <1>6, <1>7

\* And a numeral is a number at any rate.
LEMMA IntIs ==
  ASSUME NEW s \in Seq(Symbols), IsNumeral(s)
  PROVE IntOf(s) \in Nat
<1>1. ToSet(s) \subseteq ToSet(Digits) BY DEF IsNumeral
<1>2. PICK int \in [0 .. Len(s) -> Nat] : IntOf(s) = int[Len(s)] BY <1>1, Ints
<1>3. Len(s) \in 0 .. Len(s) BY LenProperties
<1> QED BY <1>2, <1>3

-----------------------------------------------------------------------------
(* version.py: split                                                       *)

\* The last element, and those in front of it.
LEMMA FrontLast ==
  ASSUME NEW S, NEW s \in Seq(S), s # <<>>
  PROVE /\ Len(s) \in Nat \ {0} /\ Last(s) \in S /\ Last(s) = s[Len(s)]
        /\ Front(s) \in Seq(S) /\ Len(Front(s)) = Len(s) - 1
        /\ \A k \in 1 .. Len(s) - 1 : Front(s)[k] = s[k]
<1>1. Len(s) \in Nat \ {0} BY EmptySeq
<1>2. Len(s) \in 1 .. Len(s) /\ Len(s) - 1 \in 0 .. Len(s) BY <1>1
<1>3. s[Len(s)] \in S BY <1>2, ElementOfSeq
<1>4. Last(s) = s[Len(s)] /\ Front(s) = SubSeq(s, 1, Len(s) - 1) BY DEF Last, Front
<1>5. SubSeq(s, 1, Len(s) - 1) \in Seq(S) /\ Len(SubSeq(s, 1, Len(s) - 1)) = Len(s) - 1
      /\ \A k \in 1 .. Len(s) - 1 : SubSeq(s, 1, Len(s) - 1)[k] = s[k]
  BY <1>2, Grows
<1> QED BY <1>1, <1>3, <1>4, <1>5

Text == Seq(Symbols)
PartLists == Seq(Text) \ {<<>>}

\* What a character more makes of the parts.
Cuts(part, mark) == Len(part) - Len(mark) >= 0 /\ SubSeq(part, Len(part) - Len(mark) + 1, Len(part)) = mark
NextParts(parts, mark, c) ==
  LET part == Append(Last(parts), c)
      rest == Len(part) - Len(mark)
  IN Front(parts) \o
     (IF rest >= 0 /\ SubSeq(part, rest + 1, Len(part)) = mark
      THEN <<SubSeq(part, 1, rest), <<>>>>
      ELSE <<part>>)

\* Either the last part is one longer, or it ended in the mark, which is cut off, and an empty one comes behind it.
LEMMA NextIs ==
  ASSUME NEW parts \in PartLists, NEW mark \in Text, NEW c \in Symbols
  PROVE LET n == Len(parts)
            next == NextParts(parts, mark, c)
            part == Append(parts[n], c)
        IN /\ next \in PartLists /\ n \in Nat \ {0} /\ parts[n] \in Text /\ part \in Text
           /\ \A k \in 1 .. n - 1 : next[k] = parts[k]
           /\ \/ /\ Cuts(part, mark) /\ Len(next) = n + 1 /\ next[n + 1] = <<>>
                 /\ next[n] \in Text /\ next[n] \o mark = part
              \/ ~Cuts(part, mark) /\ Len(next) = n /\ next[n] = part
<1> DEFINE n == Len(parts)
           last == Last(parts)
           front == Front(parts)
           part == Append(last, c)
           rest == Len(part) - Len(mark)
           next == NextParts(parts, mark, c)
<1>1. parts \in Seq(Text) /\ parts # <<>> BY DEF PartLists
<1>2. /\ n \in Nat \ {0} /\ last \in Text /\ last = parts[n] /\ front \in Seq(Text) /\ Len(front) = n - 1
      /\ \A k \in 1 .. n - 1 : front[k] = parts[k]
  BY <1>1, FrontLast
<1> HIDE DEF n, last, front
<1>3. part \in Text /\ Len(part) \in Nat \ {0} /\ Len(mark) \in Nat
  <2>1. part \in Seq(Symbols) /\ Len(part) = Len(last) + 1 BY <1>2, AppendProperties DEF Text
  <2>2. Len(last) \in Nat /\ Len(mark) \in Nat BY <1>2, LenProperties DEF Text
  <2> QED BY <2>1, <2>2 DEF Text
<1> HIDE DEF part
<1>4. next = front \o (IF rest >= 0 /\ SubSeq(part, rest + 1, Len(part)) = mark
                       THEN <<SubSeq(part, 1, rest), <<>>>> ELSE <<part>>)
  BY DEF NextParts, n, last, front, part
<1> HIDE DEF next
<1>5. Cuts(part, mark) <=> rest >= 0 /\ SubSeq(part, rest + 1, Len(part)) = mark BY DEF Cuts
<1>6. CASE Cuts(part, mark)
  <2> DEFINE head == SubSeq(part, 1, rest)
             tail == <<head, <<>>>>
  <2>1. rest \in 0 .. Len(part) /\ rest + 1 \in 1 .. Len(part) + 1 /\ SubSeq(part, rest + 1, Len(part)) = mark
    BY <1>3, <1>5, <1>6
  <2>2. head \in Text /\ Len(head) = rest /\ \A k \in 1 .. rest : head[k] = part[k]
    <3> HIDE DEF rest
    <3> QED BY <1>3, <2>1, Grows DEF Text
  <2>3. head \o mark = part
    <3> DEFINE x == head \o mark
    <3>1. x \in Seq(Symbols) /\ Len(x) = rest + Len(mark)
          /\ (\A k \in 1 .. rest : x[k] = head[k]) /\ (\A k \in 1 .. Len(mark) : x[rest + k] = mark[k])
      <4>1. head \in Seq(Symbols) /\ mark \in Seq(Symbols) BY <2>2 DEF Text
      <4>2. Len(head) = rest BY <2>2
      <4> HIDE DEF head, rest
      <4>3. head \o mark \in Seq(Symbols) /\ Len(head \o mark) = Len(head) + Len(mark)
            /\ (\A k \in 1 .. Len(head) : (head \o mark)[k] = head[k])
            /\ (\A k \in 1 .. Len(mark) : (head \o mark)[Len(head) + k] = mark[k])
        BY <4>1, Concat
      <4> QED BY <4>2, <4>3
    <3>2. rest + Len(mark) = Len(part) BY <1>3
    <3>3. \A k \in 1 .. Len(mark) : mark[k] = part[rest + k]
      <4> DEFINE f == rest + 1
                 y == SubSeq(part, f, Len(part))
      <4>1. f \in 1 .. Len(part) + 1 /\ Len(part) \in f - 1 .. Len(part) /\ Len(part) - f + 1 = Len(mark)
        BY <1>3, <2>1
      <4>2. \A k \in 1 .. Len(mark) : f + k - 1 = rest + k BY <1>3
      <4>3. y = mark BY <2>1
      <4> HIDE DEF f, rest
      <4>4. \A k \in 1 .. Len(part) - f + 1 : y[k] = part[f + k - 1]
        BY <1>3, <4>1, SubSeqProperties DEF Text
      <4> HIDE DEF y
      <4> QED BY <4>1, <4>2, <4>3, <4>4
    <3> HIDE DEF x, head, rest
    <3>4. \A k \in 1 .. Len(part) : x[k] = part[k]
      <4> TAKE k \in 1 .. Len(part)
      <4>1. CASE k <= rest
        <5>1. k \in 1 .. rest BY <4>1, <2>1
        <5> QED BY <5>1, <2>2, <3>1
      <4>2. CASE k > rest
        <5>1. k - rest \in 1 .. Len(mark) /\ rest + (k - rest) = k BY <4>2, <3>2, <2>1, <1>3
        <5>2. x[rest + (k - rest)] = part[rest + (k - rest)] BY <5>1, <3>1, <3>3
        <5> QED BY <5>1, <5>2
      <4> QED BY <4>1, <4>2, <2>1
    <3>5. x = part BY <3>1, <3>2, <3>4, <1>3, SameSeq DEF Text
    <3> QED BY <3>5 DEF x
  <2> HIDE DEF head
  <2>4. tail \in Seq(Text) /\ Len(tail) = 2 /\ tail[1] = head /\ tail[2] = <<>>
    <3>1. <<>> \in Text BY DEF Text
    <3> HIDE DEF head
    <3> QED BY <2>2, <3>1
  <2>5. next = front \o tail BY <1>4, <1>5, <1>6 DEF head
  <2> HIDE DEF tail
  <2>6. /\ next \in Seq(Text) /\ Len(next) = n - 1 + 2 /\ (\A k \in 1 .. n - 1 : next[k] = front[k])
        /\ (\A k \in 1 .. 2 : next[n - 1 + k] = tail[k])
    <3>1. front \in Seq(Text) /\ tail \in Seq(Text) /\ Len(front) = n - 1 /\ Len(tail) = 2 BY <2>4, <1>2
    <3>2. front \o tail \in Seq(Text) /\ Len(front \o tail) = Len(front) + Len(tail)
          /\ (\A k \in 1 .. Len(front) : (front \o tail)[k] = front[k])
          /\ (\A k \in 1 .. Len(tail) : (front \o tail)[Len(front) + k] = tail[k])
      <4> DEFINE V == Text
      <4>1. front \in Seq(V) /\ tail \in Seq(V) BY <3>1
      <4> HIDE DEF V
      <4>2. front \o tail \in Seq(V) BY <4>1, Concat
      <4>3. Len(front \o tail) = Len(front) + Len(tail)
            /\ (\A k \in 1 .. Len(front) : (front \o tail)[k] = front[k])
            /\ (\A k \in 1 .. Len(tail) : (front \o tail)[Len(front) + k] = tail[k])
        BY <4>1, Concat
      <4> QED BY <4>2, <4>3 DEF V
    <3> QED BY <3>1, <3>2, <2>4, <2>5, <1>2
  <2>7. n - 1 + 2 = n + 1 /\ n - 1 + 1 = n BY <1>2
  <2>8. next[n] = head /\ next[n + 1] = <<>>
    <3>1. next[n - 1 + 1] = tail[1] /\ next[n - 1 + 2] = tail[2] BY <2>6
    <3> QED BY <3>1, <2>4, <2>7
  <2>9. next \in PartLists
    <3>1. next # <<>> BY <2>6, <2>7, <1>2, EmptySeq
    <3> QED BY <3>1, <2>6 DEF PartLists
  <2> QED BY <1>2, <1>3, <1>6, <2>2, <2>3, <2>6, <2>7, <2>8, <2>9 DEF n, part, next
<1>7. CASE ~Cuts(part, mark)
  <2> DEFINE tail == <<part>>
  <2>1. tail \in Seq(Text) /\ Len(tail) = 1 /\ tail[1] = part BY <1>3
  <2>2. next = front \o tail BY <1>4, <1>5, <1>7
  <2> HIDE DEF tail
  <2>3. /\ next \in Seq(Text) /\ Len(next) = n - 1 + 1 /\ (\A k \in 1 .. n - 1 : next[k] = front[k])
        /\ (\A k \in 1 .. 1 : next[n - 1 + k] = tail[k])
    <3>1. front \in Seq(Text) /\ tail \in Seq(Text) /\ Len(front) = n - 1 /\ Len(tail) = 1 BY <2>1, <1>2
    <3>2. front \o tail \in Seq(Text) /\ Len(front \o tail) = Len(front) + Len(tail)
          /\ (\A k \in 1 .. Len(front) : (front \o tail)[k] = front[k])
          /\ (\A k \in 1 .. Len(tail) : (front \o tail)[Len(front) + k] = tail[k])
      <4> DEFINE V == Text
      <4>1. front \in Seq(V) /\ tail \in Seq(V) BY <3>1
      <4> HIDE DEF V
      <4>2. front \o tail \in Seq(V) BY <4>1, Concat
      <4>3. Len(front \o tail) = Len(front) + Len(tail)
            /\ (\A k \in 1 .. Len(front) : (front \o tail)[k] = front[k])
            /\ (\A k \in 1 .. Len(tail) : (front \o tail)[Len(front) + k] = tail[k])
        BY <4>1, Concat
      <4> QED BY <4>2, <4>3 DEF V
    <3> QED BY <3>1, <3>2, <2>1, <2>2, <1>2
  <2>4. n - 1 + 1 = n BY <1>2
  <2>5. next[n] = part
    <3>1. next[n - 1 + 1] = tail[1] BY <2>3
    <3> QED BY <3>1, <2>1, <2>4
  <2>6. next \in PartLists
    <3>1. next # <<>> BY <2>3, <2>4, <1>2, EmptySeq
    <3> QED BY <3>1, <2>3 DEF PartLists
  <2> QED BY <1>2, <1>3, <1>7, <2>3, <2>4, <2>5, <2>6 DEF n, part, next
<1> QED BY <1>6, <1>7

\* The parts after each character, and after all.
Splits(s, mark, f) ==
  /\ f \in [0 .. Len(s) -> PartLists] /\ f[0] = <<<<>>>> /\ f[Len(s)] = Split(s, mark)
  /\ \A i \in 1 .. Len(s) : f[i] = NextParts(f[i - 1], mark, s[i])

\* Split goes through a text so.
LEMMA SplitIs ==
  ASSUME NEW s \in Text, NEW mark \in Text
  PROVE \E f : Splits(s, mark, f)
<1> DEFINE n == Len(s)
           Is(f) == f = [i \in 0 .. n |-> IF i = 0 THEN <<<<>>>> ELSE NextParts(f[i - 1], mark, s[i])]
           base == {0}
           B == [i \in Nat |-> <<<<>>>>]
           P == [i \in Nat |-> IF i = 0 THEN 0 ELSE i - 1]
           H == [i \in Nat |-> [v \in PartLists |-> IF i \in 1 .. n THEN NextParts(v, mark, s[i]) ELSE v]]
<1>1. n \in Nat /\ \A i \in 1 .. n : s[i] \in Symbols BY LenProperties, ElementOfSeq DEF Text
<1>2. <<<<>>>> \in PartLists
  <2>1. <<>> \in Text BY DEF Text
  <2> DEFINE x == <<<<>>>>
  <2>2. x \in Seq(Text) /\ Len(x) = 1 BY <2>1
  <2> HIDE DEF x
  <2>3. x # <<>> BY <2>2, EmptySeq
  <2> QED BY <2>2, <2>3 DEF PartLists, x
<1>3. \A v \in PartLists : \A i \in 1 .. n : NextParts(v, mark, s[i]) \in PartLists BY <1>1, NextIs
<1>4. \E f : Is(f)
  <2>1. base \in SUBSET Nat /\ P \in [Nat -> Nat] /\ \A i \in Nat \ base : P[i] < i OBVIOUS
  <2>2. B \in [Nat -> PartLists]
    <3> DEFINE e == <<<<>>>>
    <3>1. e \in PartLists BY <1>2
    <3> HIDE DEF e
    <3>2. [i \in Nat |-> e] \in [Nat -> PartLists] BY <3>1
    <3> QED BY <3>2 DEF e
  <2>3. H \in [Nat -> [PartLists -> PartLists]]
    <3> HIDE DEF n
    <3> QED BY <1>3
  <2>4. PICK f : Recurs(f, PartLists, base, B, P, H)
    <3> HIDE DEF base, B, P, H
    <3> QED BY <2>1, <2>2, <2>3, Recursion
  <2>5. f \in [Nat -> PartLists] /\ \A i \in Nat : f[i] = IF i \in base THEN B[i] ELSE H[i][f[P[i]]]
    BY <2>4 DEF Recurs
  <2> DEFINE g == [i \in 0 .. n |-> f[i]]
  <2>6. ASSUME NEW i \in 0 .. n PROVE g[i] = IF i = 0 THEN <<<<>>>> ELSE NextParts(g[i - 1], mark, s[i])
    <3>1. i \in Nat /\ g[i] = f[i] BY <1>1
    <3>2. CASE i = 0
      <4>1. f[0] = B[0] BY <2>5
      <4>2. B[0] = <<<<>>>> OBVIOUS
      <4> QED BY <3>1, <3>2, <4>1, <4>2
    <3>3. CASE i # 0
      <4>1. i - 1 \in Nat /\ P[i] = i - 1 /\ i \in 1 .. n /\ i - 1 \in 0 .. n /\ i \notin base BY <1>1, <3>1, <3>3
      <4>2. f[i] = H[i][f[i - 1]]
        <5> HIDE DEF H, P, B, base
        <5> QED BY <2>5, <3>1, <4>1
      <4>3. f[i - 1] \in PartLists BY <2>5, <4>1
      <4>4. H[i][f[i - 1]] = NextParts(f[i - 1], mark, s[i]) BY <3>1, <4>1, <4>3
      <4>5. g[i - 1] = f[i - 1] BY <4>1
      <4> HIDE DEF H, g
      <4> QED BY <3>1, <3>3, <4>2, <4>4, <4>5
    <3> QED BY <3>2, <3>3
  <2>7. Is(g) BY <2>6
  <2> HIDE DEF Is, g
  <2> QED BY <2>7
<1> DEFINE f == CHOOSE g : Is(g)
<1>5. Split(s, mark) = f[n] BY DEF Split, NextParts
<1>6. Is(f)
  <2> HIDE DEF Is
  <2> QED BY <1>4
<1> HIDE DEF f
<1>7. f = [i \in 0 .. n |-> f[i]] /\ \A i \in 0 .. n : f[i] = IF i = 0 THEN <<<<>>>> ELSE NextParts(f[i - 1], mark, s[i])
  <2> HIDE DEF n
  <2> QED BY <1>6
<1> HIDE DEF Is
<1>8. f[0] = <<<<>>>> BY <1>1, <1>7
<1>9. ASSUME NEW i \in 1 .. n PROVE f[i] = NextParts(f[i - 1], mark, s[i])
  <2>1. i \in 0 .. n /\ i # 0 BY <1>1
  <2> HIDE DEF n
  <2> QED BY <2>1, <1>7
<1>10. f \in [0 .. n -> PartLists]
  <2> DEFINE T == {i \in Nat : f[i] \in PartLists}
  <2>1. 0 \in T BY <1>2, <1>8
  <2>2. ASSUME NEW i \in 0 .. n - 1, i \in T PROVE i + 1 \in T
    <3>1. i + 1 \in 1 .. n /\ i + 1 - 1 = i /\ i + 1 \in Nat BY <1>1
    <3>2. f[i + 1] = NextParts(f[i], mark, s[i + 1]) BY <1>9, <3>1
    <3>3. f[i] \in PartLists BY <2>2
    <3> HIDE DEF n
    <3> QED BY <1>3, <3>1, <3>2, <3>3
  <2>3. 0 .. n \subseteq T
    <3> HIDE DEF T, n
    <3> QED BY <1>1, <2>1, <2>2, UpTo
  <2>4. \A i \in 0 .. n : f[i] \in PartLists BY <2>3
  <2> HIDE DEF n
  <2> QED BY <2>4, <1>7
<1> QED BY <1>5, <1>8, <1>9, <1>10 DEF Splits

\* The texts up to the end of each part.
Glued(parts, mark, q) ==
  /\ q \in [1 .. Len(parts) -> Text]
  /\ \A k \in 1 .. Len(parts) : q[k] = (IF k = 1 THEN <<>> ELSE q[k - 1] \o mark) \o parts[k]

\* They go on with a character more.
LEMMA GluesOn ==
  ASSUME NEW parts \in PartLists, NEW mark \in Text, NEW c \in Symbols, NEW q, Glued(parts, mark, q)
  PROVE \E r : /\ Glued(NextParts(parts, mark, c), mark, r)
               /\ r[Len(NextParts(parts, mark, c))] = Append(q[Len(parts)], c)
<1> DEFINE n == Len(parts)
           next == NextParts(parts, mark, c)
           part == Append(parts[n], c)
           pre == IF n = 1 THEN <<>> ELSE q[n - 1] \o mark
           all == Append(q[n], c)
<1>1. /\ next \in PartLists /\ n \in Nat \ {0} /\ parts[n] \in Text /\ part \in Text
      /\ \A k \in 1 .. n - 1 : next[k] = parts[k]
      /\ \/ /\ Cuts(part, mark) /\ Len(next) = n + 1 /\ next[n + 1] = <<>>
            /\ next[n] \in Text /\ next[n] \o mark = part
         \/ ~Cuts(part, mark) /\ Len(next) = n /\ next[n] = part
  BY NextIs
<1>2. /\ \A k \in 1 .. n : q[k] \in Text
      /\ \A k \in 1 .. n : q[k] = (IF k = 1 THEN <<>> ELSE q[k - 1] \o mark) \o parts[k]
  BY DEF Glued
<1> HIDE DEF n, next, part
<1>3. n \in 1 .. n /\ (n # 1 => n - 1 \in 1 .. n) BY <1>1
<1>4. q[n] = pre \o parts[n] /\ q[n] \in Text BY <1>2, <1>3
<1>5. pre \in Text
  <2>1. CASE n = 1 BY <2>1 DEF Text
  <2>2. CASE n # 1
    <3>1. q[n - 1] \in Text BY <1>2, <1>3, <2>2
    <3> QED BY <2>2, <3>1, ConcatProperties DEF Text
  <2> QED BY <2>1, <2>2
<1> HIDE DEF pre
<1>6. all = pre \o part /\ all \in Text
  <2>1. pre \in Seq(Symbols) /\ parts[n] \in Seq(Symbols) BY <1>1, <1>5 DEF Text
  <2>2. Append(pre \o parts[n], c) = pre \o Append(parts[n], c)
    <3>1. Append(pre \o parts[n], c) = (pre \o parts[n]) \o <<c>>
      <4>1. pre \o parts[n] \in Seq(Symbols) BY <2>1, ConcatProperties
      <4> QED BY <4>1
    <3>2. Append(parts[n], c) = parts[n] \o <<c>> BY <2>1
    <3>3. <<c>> \in Seq(Symbols) OBVIOUS
    <3>4. (pre \o parts[n]) \o <<c>> = pre \o (parts[n] \o <<c>>)
      <4> DEFINE x == parts[n]
                 y == <<c>>
      <4>1. x \in Seq(Symbols) /\ y \in Seq(Symbols) BY <2>1, <3>3
      <4> HIDE DEF x, y
      <4>2. (pre \o x) \o y = pre \o (x \o y) BY <2>1, <4>1, ConcatAssociative
      <4> QED BY <4>2 DEF x, y
    <3> QED BY <3>1, <3>2, <3>4
  <2>3. all \in Text BY <1>4, AppendProperties DEF Text
  <2> QED BY <1>4, <2>2, <2>3 DEF part
<1>7. CASE Len(next) = n /\ next[n] = part
  <2> DEFINE r == [k \in 1 .. n |-> IF k = n THEN all ELSE q[k]]
  <2>1. ASSUME NEW k \in 1 .. n PROVE r[k] \in Text /\ r[k] = (IF k = 1 THEN <<>> ELSE r[k - 1] \o mark) \o next[k]
    <3>1. CASE k = n
      <4>1. k # 1 => r[k - 1] = q[k - 1] BY <3>1, <1>1
      <4> QED BY <3>1, <4>1, <1>6, <1>7 DEF pre
    <3>2. CASE k # n
      <4>1. k \in 1 .. n - 1 /\ r[k] = q[k] /\ next[k] = parts[k] BY <3>2, <1>1
      <4>2. k # 1 => r[k - 1] = q[k - 1] BY <4>1, <1>1
      <4> HIDE DEF r
      <4> QED BY <4>1, <4>2, <1>2
    <3> QED BY <3>1, <3>2
  <2>2. r \in [1 .. n -> Text] BY <2>1
  <2>3. r[n] = all BY <1>3
  <2> HIDE DEF r
  <2>4. Glued(next, mark, r) BY <1>7, <2>1, <2>2 DEF Glued
  <2> QED BY <1>7, <2>3, <2>4 DEF n, next
<1>8. CASE Len(next) = n + 1 /\ next[n + 1] = <<>> /\ next[n] \in Text /\ next[n] \o mark = part
  <2> DEFINE r == [k \in 1 .. n + 1 |-> IF k = n + 1 THEN all ELSE IF k = n THEN pre \o next[n] ELSE q[k]]
  <2>1. pre \o next[n] \in Text BY <1>5, <1>8, ConcatProperties DEF Text
  <2>2. ASSUME NEW k \in 1 .. n + 1 PROVE r[k] \in Text /\ r[k] = (IF k = 1 THEN <<>> ELSE r[k - 1] \o mark) \o next[k]
    <3>1. CASE k = n + 1
      <4>1. k # 1 /\ r[k - 1] = pre \o next[n] /\ r[k] = all BY <3>1, <1>1
      <4>2. ((pre \o next[n]) \o mark) \o <<>> = pre \o (next[n] \o mark)
        <5>1. pre \in Seq(Symbols) /\ next[n] \in Seq(Symbols) /\ mark \in Seq(Symbols) BY <1>5, <1>8 DEF Text
        <5>2. (pre \o next[n]) \o mark = pre \o (next[n] \o mark)
          <6> DEFINE x == next[n]
          <6>1. x \in Seq(Symbols) BY <5>1
          <6> HIDE DEF x
          <6>2. (pre \o x) \o mark = pre \o (x \o mark) BY <5>1, <6>1, ConcatAssociative
          <6> QED BY <6>2 DEF x
        <5>3. (pre \o next[n]) \o mark \in Seq(Symbols)
          <6>1. pre \o next[n] \in Seq(Symbols) BY <5>1, ConcatProperties
          <6> QED BY <5>1, <6>1, ConcatProperties
        <5> QED BY <5>2, <5>3, ConcatEmptySeq
      <4> HIDE DEF r, all
      <4> QED BY <3>1, <4>1, <4>2, <1>6, <1>8
    <3>2. CASE k = n
      <4>1. k # 1 => r[k - 1] = q[k - 1] BY <3>2, <1>1
      <4>2. r[k] = pre \o next[n] BY <3>2, <1>1
      <4> HIDE DEF r
      <4> QED BY <3>2, <4>1, <4>2, <2>1 DEF pre
    <3>3. CASE k \notin {n, n + 1}
      <4>1. k \in 1 .. n - 1 /\ r[k] = q[k] /\ next[k] = parts[k] BY <3>3, <1>1
      <4>2. k # 1 => r[k - 1] = q[k - 1] BY <4>1, <1>1
      <4> HIDE DEF r
      <4>3. k \in 1 .. n BY <4>1, <1>1
      <4> QED BY <4>1, <4>2, <4>3, <1>2
    <3> QED BY <3>1, <3>2, <3>3
  <2>3. r \in [1 .. n + 1 -> Text] BY <2>2
  <2>4. r[n + 1] = all BY <1>1
  <2> HIDE DEF r
  <2>5. Glued(next, mark, r) BY <1>8, <2>2, <2>3 DEF Glued
  <2> QED BY <1>8, <2>4, <2>5 DEF n, next
<1> QED BY <1>1, <1>7, <1>8

\* The parts with the marks between them are the text.
LEMMA SplitGlues ==
  ASSUME NEW s \in Text, NEW mark \in Text
  PROVE /\ Split(s, mark) \in PartLists
        /\ \E q : Glued(Split(s, mark), mark, q) /\ q[Len(Split(s, mark))] = s
<1>1. PICK f : Splits(s, mark, f) BY SplitIs
<1>2. Len(s) \in Nat BY LenProperties DEF Text
<1> DEFINE Good(i) == \E q : Glued(f[i], mark, q) /\ q[Len(f[i])] = SubSeq(s, 1, i)
           T == {i \in Nat : Good(i)}
<1>3. 0 \in T
  <2> DEFINE x == <<<<>>>>
             q == [k \in 1 .. 1 |-> <<>>]
  <2>1. <<>> \in Text /\ <<>> \o <<>> = <<>> BY DEF Text
  <2>2. Len(x) = 1 /\ x[1] = <<>> OBVIOUS
  <2>3. q \in [1 .. 1 -> Text] /\ q[1] = <<>> BY <2>1
  <2> HIDE DEF x, q
  <2>4. \A k \in 1 .. 1 : q[k] = (IF k = 1 THEN <<>> ELSE q[k - 1] \o mark) \o x[k]
    <3> TAKE k \in 1 .. 1
    <3>1. k = 1 OBVIOUS
    <3>2. (IF k = 1 THEN <<>> ELSE q[k - 1] \o mark) = <<>> BY <3>1
    <3> QED BY <3>1, <3>2, <2>1, <2>2, <2>3
  <2>5. Glued(x, mark, q) BY <2>2, <2>3, <2>4 DEF Glued
  <2>6. f[0] = x BY <1>1 DEF Splits, x
  <2>7. SubSeq(s, 1, 0) = <<>> BY Grows DEF Text
  <2>8. Good(0) BY <2>2, <2>3, <2>5, <2>6, <2>7
  <2> HIDE DEF Good
  <2> QED BY <2>8
<1>4. ASSUME NEW i \in 0 .. Len(s) - 1, i \in T PROVE i + 1 \in T
  <2>1. i + 1 \in 1 .. Len(s) /\ i + 1 - 1 = i /\ i + 1 \in Nat /\ i \in 0 .. Len(s) BY <1>2
  <2>2. PICK q : Glued(f[i], mark, q) /\ q[Len(f[i])] = SubSeq(s, 1, i) BY <1>4
  <2>3. f[i] \in PartLists /\ f[i + 1] = NextParts(f[i], mark, s[i + 1]) BY <1>1, <2>1 DEF Splits
  <2>4. s[i + 1] \in Symbols BY <2>1, ElementOfSeq DEF Text
  <2>5. PICK r : Glued(f[i + 1], mark, r) /\ r[Len(f[i + 1])] = Append(q[Len(f[i])], s[i + 1])
    <3> DEFINE parts == f[i]
               c == s[i + 1]
    <3>1. parts \in PartLists /\ c \in Symbols /\ Glued(parts, mark, q) BY <2>2, <2>3, <2>4
    <3> HIDE DEF parts, c
    <3>2. \E r : /\ Glued(NextParts(parts, mark, c), mark, r)
                 /\ r[Len(NextParts(parts, mark, c))] = Append(q[Len(parts)], c)
      BY <3>1, GluesOn
    <3> QED BY <2>3, <3>2 DEF parts, c
  <2>6. SubSeq(s, 1, i + 1) = Append(SubSeq(s, 1, i), s[i + 1]) BY Grows DEF Text
  <2>7. Good(i + 1) BY <2>2, <2>5, <2>6
  <2> HIDE DEF Good
  <2> QED BY <2>1, <2>7
<1>5. 0 .. Len(s) \subseteq T
  <2> HIDE DEF T
  <2> QED BY <1>2, <1>3, <1>4, UpTo
<1>6. Len(s) \in 0 .. Len(s) BY <1>2
<1>7. Good(Len(s))
  <2> HIDE DEF Good
  <2> QED BY <1>5, <1>6
<1>8. f[Len(s)] = Split(s, mark) /\ f[Len(s)] \in PartLists BY <1>1, <1>6 DEF Splits
<1>9. SubSeq(s, 1, Len(s)) = s BY Grows DEF Text
<1> QED BY <1>7, <1>8, <1>9

\* A mark of one character behind a text.
LEMMA EndsIn ==
  ASSUME NEW h \in Text, NEW d \in Symbols
  PROVE Len(h) \in Nat /\ Len(h \o <<d>>) = Len(h) + 1 /\ (h \o <<d>>)[Len(h) + 1] = d
<1> DEFINE m == <<d>>
<1>1. m \in Seq(Symbols) /\ h \in Seq(Symbols) /\ Len(m) = 1 /\ m[1] = d BY DEF Text
<1> HIDE DEF m
<1>2. /\ Len(h) \in Nat /\ Len(h \o m) = Len(h) + Len(m)
      /\ \A k \in 1 .. Len(m) : (h \o m)[Len(h) + k] = m[k]
  BY <1>1, Concat
<1>3. 1 \in 1 .. Len(m) BY <1>1
<1>4. (h \o m)[Len(h) + 1] = m[1] BY <1>2, <1>3
<1> QED BY <1>1, <1>2, <1>4 DEF m

\* What holds no mark of one character does not add to the parts.
LEMMA SplitsNoFurther ==
  ASSUME NEW a \in Text, NEW b \in Text, NEW d \in Symbols, \A k \in 1 .. Len(b) : b[k] # d
  PROVE Len(Split(a \o b, <<d>>)) = Len(Split(a, <<d>>))
<1> DEFINE s == a \o b
           mark == <<d>>
           n == Len(a)
<1>1. /\ s \in Text /\ n \in Nat /\ Len(b) \in Nat /\ Len(s) = n + Len(b)
      /\ \A k \in 1 .. n : s[k] = a[k]
      /\ \A k \in 1 .. Len(b) : s[n + k] = b[k]
  BY Concat DEF Text
<1>2. mark \in Text /\ Len(mark) = 1 /\ mark[1] = d BY DEF Text
<1> HIDE DEF s, mark, n
<1>3. PICK f : Splits(a, mark, f) BY <1>2, SplitIs
<1>4. PICK g : Splits(s, mark, g) BY <1>1, <1>2, SplitIs
<1>5. /\ \A i \in 1 .. n : f[i] = NextParts(f[i - 1], mark, a[i])
      /\ f[0] = <<<<>>>> /\ f[n] = Split(a, mark)
  BY <1>3 DEF Splits, n
<1>6. /\ \A i \in 1 .. Len(s) : g[i] = NextParts(g[i - 1], mark, s[i])
      /\ \A i \in 0 .. Len(s) : g[i] \in PartLists
      /\ g[0] = <<<<>>>> /\ g[Len(s)] = Split(s, mark)
  BY <1>4 DEF Splits
<1>7. g[n] = f[n]
  <2> DEFINE T == {i \in Nat : g[i] = f[i]}
  <2>1. 0 \in T BY <1>5, <1>6
  <2>2. ASSUME NEW i \in 0 .. n - 1, i \in T PROVE i + 1 \in T
    <3>1. i + 1 \in 1 .. n /\ i + 1 \in 1 .. Len(s) /\ i + 1 - 1 = i /\ i + 1 \in Nat BY <1>1
    <3>2. f[i + 1] = NextParts(f[i], mark, a[i + 1]) BY <1>5, <3>1
    <3>3. g[i + 1] = NextParts(g[i], mark, s[i + 1]) BY <1>6, <3>1
    <3>4. g[i + 1] = f[i + 1] BY <1>1, <2>2, <3>1, <3>2, <3>3
    <3> QED BY <3>1, <3>4
  <2>3. 0 .. n \subseteq T
    <3> HIDE DEF T
    <3> QED BY <1>1, <2>1, <2>2, UpTo
  <2> QED BY <1>1, <2>3
<1>8. ASSUME NEW j \in 0 .. Len(b) - 1 PROVE Len(g[n + j + 1]) = Len(g[n + j])
  <2> DEFINE parts == g[n + j]
             c == s[n + j + 1]
             last == parts[Len(parts)]
             part == Append(last, c)
             next == g[n + j + 1]
             head == next[Len(parts)]
  <2>1. n + j + 1 \in 1 .. Len(s) /\ n + j + 1 - 1 = n + j /\ n + j \in 0 .. Len(s) /\ j + 1 \in 1 .. Len(b)
    BY <1>1
  <2>2. c = b[j + 1] /\ c \in Symbols /\ c # d
    <3>1. n + j + 1 = n + (j + 1) BY <1>1
    <3>2. c = b[j + 1] BY <1>1, <2>1, <3>1
    <3>3. b[j + 1] \in Symbols BY <2>1, ElementOfSeq DEF Text
    <3> QED BY <2>1, <3>2, <3>3
  <2>3. parts \in PartLists /\ next = NextParts(parts, mark, c) BY <1>6, <2>1
  <2> HIDE DEF parts, c, next
  <2>4. /\ last \in Text /\ part \in Text
        /\ \/ head \in Text /\ head \o mark = part
           \/ Len(next) = Len(parts)
    <3>1. /\ last \in Text /\ part \in Text
          /\ \/ /\ Cuts(part, mark) /\ Len(next) = Len(parts) + 1 /\ next[Len(parts) + 1] = <<>>
                /\ head \in Text /\ head \o mark = part
             \/ ~Cuts(part, mark) /\ Len(next) = Len(parts) /\ head = part
      <4>1. parts \in PartLists /\ mark \in Text /\ c \in Symbols BY <1>2, <2>2, <2>3
      <4>2. next = NextParts(parts, mark, c) BY <2>3
      <4> QED BY <4>1, <4>2, NextIs
    <3> QED BY <3>1
  <2>5. Len(next) = Len(parts)
    <3> SUFFICES ASSUME NEW h \in Text, h \o mark = part PROVE FALSE
      BY <2>4
    <3> HIDE DEF last, head
    <3>1. Len(h) \in Nat /\ Len(h \o <<d>>) = Len(h) + 1 /\ (h \o <<d>>)[Len(h) + 1] = d
      BY EndsIn
    <3>2. part[Len(h) + 1] = d /\ Len(part) = Len(h) + 1
      BY <3>1 DEF mark
    <3>3. Len(last) \in Nat /\ Len(part) = Len(last) + 1 /\ part[Len(last) + 1] = c
      BY <2>2, <2>4, AppendProperties, LenProperties DEF Text
    <3>4. Len(h) = Len(last) BY <3>1, <3>2, <3>3
    <3> QED BY <2>2, <3>2, <3>3, <3>4
  <2> QED BY <2>5 DEF parts, next
<1>9. Len(g[n + Len(b)]) = Len(g[n])
  <2> DEFINE T == {j \in Nat : Len(g[n + j]) = Len(g[n])}
  <2>1. 0 \in T
    <3>1. n + 0 = n BY <1>1
    <3> QED BY <3>1
  <2>2. ASSUME NEW j \in 0 .. Len(b) - 1, j \in T PROVE j + 1 \in T
    <3>1. n + (j + 1) = n + j + 1 /\ j + 1 \in Nat BY <1>1
    <3> QED BY <1>8, <2>2, <3>1
  <2>3. 0 .. Len(b) \subseteq T
    <3> HIDE DEF T
    <3> QED BY <1>1, <2>1, <2>2, UpTo
  <2>4. Len(b) \in T
    <3> HIDE DEF T
    <3> QED BY <1>1, <2>3
  <2> QED BY <2>4
<1> QED BY <1>1, <1>5, <1>6, <1>7, <1>9 DEF s, mark

-----------------------------------------------------------------------------
(* version.py: the classes                                                 *)

\* A digit is a numeral of its own.
LEMMA OneNumeral == \A d : IsNumeral(<<d>>) <=> d \in ToSet(Digits)
<1> TAKE d
<1> DEFINE x == <<d>>
<1>1. DOMAIN x = {1} /\ x[1] = d OBVIOUS
<1>2. x # <<>> OBVIOUS
<1> HIDE DEF x
<1>3. ToSet(x) = {d} BY <1>1 DEF ToSet
<1>4. IsNumeral(x) <=> d \in ToSet(Digits) BY <1>2, <1>3 DEF IsNumeral
<1> QED BY <1>4 DEF x

\* The marks are no digits.
LEMMA NoDigits == ToSet(Digits) \cap {".", "-", "r", "M", "RC", "beta"} = {}
<1>1. DOMAIN Digits = 1 .. 10 BY DEF Digits
<1>2. \A i \in 1 .. 10 : Digits[i] \notin {".", "-", "r", "M", "RC", "beta"} BY DEF Digits
<1> QED BY <1>1, <1>2 DEF ToSet

\* A zero in front of a numeral is one in front of a numeral of the text.
LEMMA ZeroIn ==
  ASSUME NEW a \in Text, NEW b \in Text, IsNumeral(b), Len(b) > 1, b[1] = "0",
         a # <<>> => a[Len(a)] \notin ToSet(Digits)
  PROVE LeadingZero(a \o b)
<1> DEFINE s == a \o b
           n == Len(a)
<1>1. /\ n \in Nat /\ Len(b) \in Nat /\ Len(s) = n + Len(b)
      /\ \A k \in 1 .. n : s[k] = a[k]
      /\ \A k \in 1 .. Len(b) : s[n + k] = b[k]
  BY Concat DEF Text
<1> HIDE DEF s
<1>3. n + 1 \in 1 .. Len(s) - 1 BY <1>1
<1>4. 1 \in 1 .. Len(b) /\ 2 \in 1 .. Len(b) BY <1>1
<1>5. s[n + 1] = "0" /\ s[n + 1 + 1] = b[2]
  <2>1. s[n + 1] = b[1] /\ s[n + 2] = b[2] BY <1>1, <1>4
  <2>2. n + 1 + 1 = n + 2 BY <1>1
  <2> QED BY <2>1, <2>2
<1>6. IsNumeral(<<s[n + 1 + 1]>>)
  <2>1. b[2] \in ToSet(Digits)
    <3>1. 2 \in DOMAIN b BY <1>4, LenProperties DEF Text
    <3> QED BY <3>1 DEF IsNumeral, ToSet
  <2> QED BY <1>5, <2>1, OneNumeral
<1>7. n + 1 = 1 \/ ~IsNumeral(<<s[n + 1 - 1]>>)
  <2> SUFFICES ASSUME n + 1 # 1 PROVE ~IsNumeral(<<s[n + 1 - 1]>>)
    OBVIOUS
  <2>1. n # 0 /\ n \in 1 .. n /\ n + 1 - 1 = n BY <1>1
  <2>2. a # <<>>
    <3>1. Len(a) # 0 BY <2>1
    <3> QED BY <3>1, EmptySeq
  <2>3. s[n] = a[n] BY <1>1, <2>1
  <2>4. s[n] \notin ToSet(Digits) BY <2>2, <2>3
  <2>5. ~IsNumeral(<<s[n]>>) BY <2>4, OneNumeral
  <2> DEFINE m == n + 1 - 1
  <2>6. m = n BY <2>1
  <2> HIDE DEF m
  <2>7. ~IsNumeral(<<s[m]>>) BY <2>5, <2>6
  <2> QED BY <2>7 DEF m
<1>8. LeadingZero(s)
  <2> DEFINE i == n + 1
  <2>1. i \in 1 .. Len(s) - 1 /\ s[i] = "0" /\ IsNumeral(<<s[i + 1]>>) /\ (i = 1 \/ ~IsNumeral(<<s[i - 1]>>))
    BY <1>3, <1>5, <1>6, <1>7
  <2> HIDE DEF i
  <2> QED BY <2>1 DEF LeadingZero
<1> QED BY <1>8 DEF s

\* A zero in front of a numeral is one whatever follows.
LEMMA ZeroStays ==
  ASSUME NEW a \in Text, NEW b \in Text, LeadingZero(a)
  PROVE LeadingZero(a \o b)
<1> DEFINE s == a \o b
<1>1. /\ Len(a) \in Nat /\ Len(b) \in Nat /\ Len(s) = Len(a) + Len(b)
      /\ \A k \in 1 .. Len(a) : s[k] = a[k]
  BY Concat DEF Text
<1> HIDE DEF s
<1>2. PICK i \in 1 .. Len(a) - 1 :
        a[i] = "0" /\ IsNumeral(<<a[i + 1]>>) /\ (i = 1 \/ ~IsNumeral(<<a[i - 1]>>))
  BY DEF LeadingZero
<1>3. i \in 1 .. Len(s) - 1 /\ i \in 1 .. Len(a) /\ i + 1 \in 1 .. Len(a) /\ (i # 1 => i - 1 \in 1 .. Len(a))
  BY <1>1
<1>4. s[i] = "0" /\ s[i + 1] = a[i + 1] /\ (i # 1 => s[i - 1] = a[i - 1]) BY <1>1, <1>2, <1>3
<1>5. LeadingZero(s) BY <1>2, <1>3, <1>4 DEF LeadingZero
<1> QED BY <1>5 DEF s

\* Texts behind each other are a text.
LEMMA OnText ==
  ASSUME NEW a \in Text, NEW b \in Text
  PROVE a \o b \in Text /\ a \o <<>> = a /\ <<>> \o a = a
BY Concat, ConcatEmptySeq DEF Text

\* Three texts behind each other.
LEMMA TextAssoc ==
  ASSUME NEW a \in Text, NEW b \in Text, NEW c \in Text
  PROVE (a \o b) \o c = a \o (b \o c)
BY ConcatAssociative DEF Text

\* A number behind a text that does not end in a digit is printed as it was read, or has zeros in front.
LEMMA NumberBehind ==
  ASSUME NEW a \in Text, NEW b \in Text, IsNumeral(b), a # <<>> => a[Len(a)] \notin ToSet(Digits)
  PROVE /\ a \o b \in Text /\ IntOf(b) \in Nat /\ Decimal[IntOf(b)] \in Text
        /\ Decimal[IntOf(b)] = b \/ LeadingZero(a \o b)
<1>1. a \o b \in Text /\ IntOf(b) \in Nat /\ Decimal[IntOf(b)] \in Text
  BY OnText, IntIs, Decimals DEF Text
<1>2. CASE Len(b) > 1 /\ b[1] = "0" BY <1>1, <1>2, ZeroIn
<1>3. CASE ~(Len(b) > 1 /\ b[1] = "0")
  <2>1. Decimal[IntOf(b)] = b BY <1>3, PrintsAgain DEF Text
  <2> QED BY <1>1, <2>1
<1> QED BY <1>2, <1>3

\* A text behind which a mark stands does not end in a digit.
LEMMA MarkedEnd ==
  ASSUME NEW a \in Text, NEW d \in Symbols, d \notin ToSet(Digits)
  PROVE (a \o <<d>>)[Len(a \o <<d>>)] \notin ToSet(Digits)
BY EndsIn

\* What a stable version keeps.
StableOf(s, v, n) ==
  /\ v.class = "Stable" /\ v.base \in [1 .. 3 -> Nat] /\ v.subbuild \in Nat
  /\ n = 3 => v.subbuild = 0
  /\ StableStr(v) \in Text
  /\ StableStr(v) = s \/ LeadingZero(s) \/ (n = 4 /\ v.subbuild = 0)

\* A stable version is printed as it was read, or something of it was dropped.
LEMMA StableAgain ==
  ASSUME NEW s \in Text, ParseStable(s) # Blank
  PROVE StableOf(s, ParseStable(s), Len(Split(s, <<".">>)))
<1> DEFINE mark == <<".">>
           p == Split(s, mark)
           n == Len(p)
           v == ParseStable(s)
<1>1. mark \in Text /\ "." \in Symbols /\ "." \notin ToSet(Digits) BY NoDigits DEF Text, Symbols
<1>2. n \in {3, 4} /\ \A i \in DOMAIN p : IsNumeral(p[i]) BY DEF ParseStable
<1>3. v = [Blank EXCEPT !.class = "Stable", !.base = [i \in 1 .. 3 |-> IntOf(p[i])],
                        !.subbuild = IF n = 4 THEN IntOf(p[4]) ELSE 0]
  BY <1>2 DEF ParseStable
<1>4. v.class = "Stable" /\ v.base = [i \in 1 .. 3 |-> IntOf(p[i])] /\ v.subbuild = IF n = 4 THEN IntOf(p[4]) ELSE 0
  BY <1>3 DEF Blank
<1> HIDE DEF mark, v
<1>5. p \in PartLists /\ \E q : Glued(p, mark, q) /\ q[n] = s BY <1>1, SplitGlues
<1>6. PICK q : Glued(p, mark, q) /\ q[n] = s BY <1>5
<1> HIDE DEF p
<1>7. DOMAIN p = 1 .. n /\ \A i \in 1 .. n : p[i] \in Text /\ IsNumeral(p[i])
  BY <1>2, <1>5, LenProperties, ElementOfSeq DEF PartLists
<1>8. /\ q \in [1 .. n -> Text]
      /\ \A k \in 1 .. n : q[k] = (IF k = 1 THEN <<>> ELSE q[k - 1] \o mark) \o p[k]
  BY <1>6 DEF Glued
<1>9. 1 \in 1 .. n /\ 2 \in 1 .. n /\ 3 \in 1 .. n /\ (n = 4 => 4 \in 1 .. n) BY <1>2
<1>10. /\ q[1] = <<>> \o p[1] /\ q[2] = (q[1] \o mark) \o p[2] /\ q[3] = (q[2] \o mark) \o p[3]
       /\ n = 4 => q[4] = (q[3] \o mark) \o p[4]
  <2>1. ASSUME NEW k \in 1 .. n, k = 1 PROVE q[k] = <<>> \o p[k]
    <3>1. (IF k = 1 THEN <<>> ELSE q[k - 1] \o mark) = <<>> BY <2>1
    <3>2. q[k] = (IF k = 1 THEN <<>> ELSE q[k - 1] \o mark) \o p[k] BY <1>8
    <3> QED BY <3>1, <3>2
  <2>2. ASSUME NEW k \in 1 .. n, NEW j, k # 1, j = k - 1 PROVE q[k] = (q[j] \o mark) \o p[k]
    <3>1. (IF k = 1 THEN <<>> ELSE q[k - 1] \o mark) = q[j] \o mark BY <2>2
    <3>2. q[k] = (IF k = 1 THEN <<>> ELSE q[k - 1] \o mark) \o p[k] BY <1>8
    <3> QED BY <3>1, <3>2
  <2>3. 2 # 1 /\ 3 # 1 /\ 4 # 1 /\ 1 = 2 - 1 /\ 2 = 3 - 1 /\ 3 = 4 - 1 OBVIOUS
  <2>4. q[1] = <<>> \o p[1] BY <1>9, <2>1
  <2>5. q[2] = (q[1] \o mark) \o p[2] BY <1>9, <2>2, <2>3
  <2>6. q[3] = (q[2] \o mark) \o p[3] BY <1>9, <2>2, <2>3
  <2>7. n = 4 => q[4] = (q[3] \o mark) \o p[4] BY <1>9, <2>2, <2>3
  <2> QED BY <2>4, <2>5, <2>6, <2>7
<1> DEFINE D(i) == Decimal[IntOf(p[i])]
<1>11. \A i \in 1 .. n : IntOf(p[i]) \in Nat /\ D(i) \in Text BY <1>7, IntIs, Decimals DEF Text
<1>12. D(1) = p[1] \/ LeadingZero(q[1])
  <2>1. <<>> \in Text BY DEF Text
  <2>2. p[1] \in Text /\ IsNumeral(p[1]) BY <1>7, <1>9
  <2> QED BY <1>10, <2>1, <2>2, NumberBehind
<1>13. ASSUME NEW a \in Text, NEW b \in Text, IsNumeral(b)
       PROVE /\ (a \o mark) \o b \in Text /\ a \o mark \in Text
             /\ LeadingZero(a) => LeadingZero((a \o mark) \o b)
             /\ Decimal[IntOf(b)] = b \/ LeadingZero((a \o mark) \o b)
  <2> DEFINE am == a \o mark
  <2>1. am \in Text BY <1>1, OnText
  <2>2. am[Len(am)] \notin ToSet(Digits) BY <1>1, MarkedEnd DEF mark
  <2>3. LeadingZero(a) => LeadingZero(am) BY <1>1, ZeroStays
  <2> HIDE DEF am
  <2>4. LeadingZero(am) => LeadingZero(am \o b) BY <1>13, <2>1, ZeroStays
  <2>5. am \o b \in Text /\ (Decimal[IntOf(b)] = b \/ LeadingZero(am \o b)) BY <1>13, <2>1, <2>2, NumberBehind
  <2> QED BY <2>1, <2>3, <2>4, <2>5 DEF am
<1>14. \A i \in 1 .. n : q[i] \in Text BY <1>8
<1>15. q[2] \in Text /\ (LeadingZero(q[1]) => LeadingZero(q[2])) /\ (D(2) = p[2] \/ LeadingZero(q[2]))
  BY <1>7, <1>9, <1>10, <1>13, <1>14
<1>16. q[3] \in Text /\ (LeadingZero(q[2]) => LeadingZero(q[3])) /\ (D(3) = p[3] \/ LeadingZero(q[3]))
  BY <1>7, <1>9, <1>10, <1>13, <1>14
<1>17. n = 4 => (LeadingZero(q[3]) => LeadingZero(q[4])) /\ (D(4) = p[4] \/ LeadingZero(q[4]))
  BY <1>7, <1>9, <1>10, <1>13, <1>14
<1>18. n = 3 => q[3] = s BY <1>6
<1>19. n = 4 => q[4] = s BY <1>6
<1> DEFINE three == (((D(1) \o mark) \o D(2)) \o mark) \o D(3)
           rest == IF v.subbuild > 0 THEN mark \o Decimal[v.subbuild] ELSE <<>>
<1>20. three = q[3] \/ LeadingZero(s)
  <2> SUFFICES ASSUME ~LeadingZero(s) PROVE three = q[3]
    OBVIOUS
  <2>1. ~LeadingZero(q[3]) BY <1>2, <1>17, <1>18, <1>19
  <2>2. ~LeadingZero(q[1]) /\ ~LeadingZero(q[2]) BY <2>1, <1>15, <1>16
  <2>3. D(1) = p[1] /\ D(2) = p[2] /\ D(3) = p[3] BY <2>1, <2>2, <1>12, <1>15, <1>16
  <2>4. q[1] = p[1] BY <1>7, <1>9, <1>10, OnText
  <2> QED BY <1>10, <2>3, <2>4
<1>21. StableStr(v) = three \o rest
  <2>1. v.base[1] = IntOf(p[1]) /\ v.base[2] = IntOf(p[2]) /\ v.base[3] = IntOf(p[3]) BY <1>4
  <2> QED BY <2>1 DEF StableStr, mark
<1>22. v.base \in [1 .. 3 -> Nat] /\ v.subbuild \in Nat /\ (n = 3 => v.subbuild = 0)
  <2>1. \A i \in 1 .. 3 : i \in 1 .. n BY <1>9
  <2>2. \A i \in 1 .. 3 : IntOf(p[i]) \in Nat BY <2>1, <1>11
  <2>3. v.subbuild \in Nat BY <1>4, <1>9, <1>11
  <2> QED BY <1>4, <2>2, <2>3
<1>23. three \in Text
  <2>1. D(1) \in Text /\ D(2) \in Text /\ D(3) \in Text BY <1>9, <1>11
  <2> HIDE DEF D
  <2>2. D(1) \o mark \in Text BY <1>1, <2>1, OnText
  <2>3. (D(1) \o mark) \o D(2) \in Text BY <2>1, <2>2, OnText
  <2>4. ((D(1) \o mark) \o D(2)) \o mark \in Text BY <1>1, <2>3, OnText
  <2> QED BY <2>1, <2>4, OnText
<1>24. rest \in Text
  <2>1. Decimal[v.subbuild] \in Text BY <1>22, Decimals DEF Text
  <2>2. mark \o Decimal[v.subbuild] \in Text BY <1>1, <2>1, OnText
  <2>3. <<>> \in Text BY DEF Text
  <2> QED BY <2>2, <2>3
<1>25. three \o rest \in Text
  <2> HIDE DEF three, rest
  <2> QED BY <1>23, <1>24, OnText
<1>26. three \o rest = s \/ LeadingZero(s) \/ (n = 4 /\ v.subbuild = 0)
  <2> SUFFICES ASSUME ~LeadingZero(s), ~(n = 4 /\ v.subbuild = 0) PROVE three \o rest = s
    OBVIOUS
  <2>1. three = q[3] BY <1>20
  <2> HIDE DEF three
  <2>2. CASE n = 3
    <3>1. rest = <<>> BY <2>2, <1>22
    <3>2. q[3] \o <<>> = q[3] BY <1>14, <1>9, OnText
    <3> QED BY <2>1, <2>2, <3>1, <3>2, <1>18
  <2>3. CASE n = 4
    <3>1. v.subbuild = IntOf(p[4]) /\ v.subbuild > 0 BY <2>3, <1>4, <1>22
    <3>2. D(4) = p[4] BY <2>3, <1>17, <1>19
    <3>3. rest = mark \o p[4] BY <3>1, <3>2
    <3>4. (q[3] \o mark) \o p[4] = q[3] \o (mark \o p[4])
      <4>1. q[3] \in Text /\ p[4] \in Text BY <2>3, <1>9, <1>7, <1>14
      <4> QED BY <4>1, <1>1, TextAssoc
    <3> QED BY <2>1, <2>3, <3>3, <3>4, <1>10, <1>19
  <2> QED BY <1>2, <2>2, <2>3
<1>27. StableOf(s, v, n)
  <2> HIDE DEF three, rest, n
  <2> QED BY <1>4, <1>21, <1>22, <1>25, <1>26 DEF StableOf
<1> QED BY <1>27 DEF v, p, mark

\* A release candidate or a beta is printed as it was read, or something of it was dropped.
LEMMA DashedAgain ==
  ASSUME NEW s \in Text, NEW class, NEW word \in {"RC", "beta"},
         NEW v, v = ParseDashed(class, word, s), v # Blank
  PROVE /\ v.class = class /\ v.base \in [1 .. 3 -> Nat]
        /\ StableStr(v) \o <<"-", word>> \o Decimal[v.no] = s \/ Dropped(s, v)
<1> DEFINE mark == <<"-", word>>
           dot == <<".">>
           ver == Split(s, mark)
           a == ver[1]
           b == ver[2]
           u == ParseStable(a)
<1>1. mark \in Text /\ Len(mark) = 2 /\ mark[1] = "-" /\ mark[2] = word
  BY DEF Text, Symbols
<1>2. Len(ver) = 2 /\ IsNumeral(b) /\ u # Blank /\ v = [u EXCEPT !.class = class, !.no = IntOf(b)]
  BY DEF ParseDashed
<1>3. u = [Blank EXCEPT !.class = "Stable", !.base = [i \in 1 .. 3 |-> IntOf(Split(a, dot)[i])],
                        !.subbuild = IF Len(Split(a, dot)) = 4 THEN IntOf(Split(a, dot)[4]) ELSE 0]
  <2> HIDE DEF a
  <2> QED BY <1>2 DEF ParseStable
<1>4. v.class = class /\ v.base = u.base /\ v.subbuild = u.subbuild /\ v.no = IntOf(b)
  <2>1. \A B, n : LET w == [Blank EXCEPT !.class = "Stable", !.base = B, !.subbuild = n]
                      x == [w EXCEPT !.class = class, !.no = IntOf(b)]
                  IN x.class = class /\ x.base = w.base /\ x.subbuild = w.subbuild /\ x.no = IntOf(b)
    <3> HIDE DEF b
    <3> QED BY DEF Blank
  <2> HIDE DEF a, b, dot, u
  <2> QED BY <1>2, <1>3, <2>1
<1> HIDE DEF u
<1>5. ver \in PartLists /\ \E q : Glued(ver, mark, q) /\ q[Len(ver)] = s
  <2> HIDE DEF mark
  <2> QED BY <1>1, SplitGlues
<1>6. PICK q : Glued(ver, mark, q) /\ q[2] = s BY <1>2, <1>5
<1>7. 1 \in 1 .. Len(ver) /\ 2 \in 1 .. Len(ver) BY <1>2
<1>8. a \in Text /\ b \in Text
  <2> HIDE DEF ver
  <2> QED BY <1>5, <1>7, ElementOfSeq DEF PartLists
<1> HIDE DEF ver, mark
<1>9. s = (a \o mark) \o b
  <2>1. \A k \in 1 .. Len(ver) : q[k] = (IF k = 1 THEN <<>> ELSE q[k - 1] \o mark) \o ver[k] BY <1>6 DEF Glued
  <2>2. ASSUME NEW k \in 1 .. Len(ver), k = 1 PROVE q[k] = <<>> \o ver[k]
    <3>1. (IF k = 1 THEN <<>> ELSE q[k - 1] \o mark) = <<>> BY <2>2
    <3> QED BY <2>1, <3>1
  <2>3. ASSUME NEW k \in 1 .. Len(ver), NEW j, k # 1, j = k - 1 PROVE q[k] = (q[j] \o mark) \o ver[k]
    <3>1. (IF k = 1 THEN <<>> ELSE q[k - 1] \o mark) = q[j] \o mark BY <2>3
    <3> QED BY <2>1, <3>1
  <2>4. 2 # 1 /\ 1 = 2 - 1 OBVIOUS
  <2>5. q[1] = <<>> \o a BY <1>7, <2>2
  <2>6. q[2] = (q[1] \o mark) \o b BY <1>7, <2>3, <2>4
  <2>7. q[1] = a
    <3> HIDE DEF a
    <3> QED BY <1>8, <2>5, OnText
  <2> QED BY <1>6, <2>6, <2>7
<1> HIDE DEF a, b, dot
<1> DEFINE am == a \o mark
<1>10. am \in Text /\ s = am \o b BY <1>1, <1>8, <1>9, OnText
<1>11. am[Len(am)] \notin ToSet(Digits)
  <2>1. Len(am) = Len(a) + 2 /\ am[Len(a) + 2] = mark[2]
    <3>1. a \in Seq(Symbols) /\ mark \in Seq(Symbols) BY <1>1, <1>8 DEF Text
    <3>2. 2 \in 1 .. Len(mark) BY <1>1
    <3>3. Len(am) = Len(a) + Len(mark) /\ \A k \in 1 .. Len(mark) : am[Len(a) + k] = mark[k] BY <3>1, Concat
    <3> QED BY <1>1, <3>2, <3>3
  <2> QED BY <1>1, <2>1, NoDigits
<1>12. LeadingZero(a) => LeadingZero(s)
  <2>1. LeadingZero(a) => LeadingZero(am) BY <1>1, <1>8, ZeroStays
  <2> HIDE DEF am
  <2> QED BY <2>1, <1>8, <1>10, ZeroStays
<1>13. Decimal[IntOf(b)] = b \/ LeadingZero(s)
  <2> HIDE DEF am
  <2> QED BY <1>2, <1>8, <1>10, <1>11, NumberBehind
<1>14. StableOf(a, u, Len(Split(a, dot))) BY <1>2, <1>8, StableAgain DEF u, dot
<1>15. Len(Split(s, dot)) = Len(Split(a, dot))
  <2>1. "." \in Symbols BY DEF Symbols
  <2>2. \A k \in 1 .. Len(mark) : mark[k] # "."
    <3> TAKE k \in 1 .. Len(mark)
    <3>1. k = 1 \/ k = 2 BY <1>1
    <3> QED BY <1>1, <3>1
  <2>3. \A k \in 1 .. Len(b) : b[k] # "."
    <3> TAKE k \in 1 .. Len(b)
    <3>1. k \in DOMAIN b BY <1>8, LenProperties DEF Text
    <3>2. b[k] \in ToSet(Digits) BY <1>2, <3>1 DEF IsNumeral, ToSet
    <3> QED BY <3>2, NoDigits
  <2>4. Len(Split(am, <<".">>)) = Len(Split(a, <<".">>))
    BY <1>1, <1>8, <2>1, <2>2, SplitsNoFurther
  <2>5. Len(Split(am \o b, <<".">>)) = Len(Split(am, <<".">>))
    <3> HIDE DEF am
    <3> QED BY <1>8, <1>10, <2>1, <2>3, SplitsNoFurther
  <2> QED BY <1>10, <2>4, <2>5 DEF dot
<1>16. StableStr(v) = StableStr(u) BY <1>4 DEF StableStr
<1>17. StableStr(v) \o mark \o Decimal[v.no] = s \/ Dropped(s, v)
  <2>1. CASE LeadingZero(s) BY <2>1 DEF Dropped
  <2>2. CASE Len(Split(s, dot)) = 4 /\ v.subbuild = 0 BY <2>2 DEF Dropped, dot
  <2>3. CASE ~LeadingZero(s) /\ ~(Len(Split(s, dot)) = 4 /\ v.subbuild = 0)
    <3>1. StableStr(u) = a BY <2>3, <1>4, <1>12, <1>14, <1>15 DEF StableOf
    <3>2. Decimal[v.no] = b BY <2>3, <1>4, <1>13
    <3> QED BY <1>9, <1>16, <3>1, <3>2
  <2> QED BY <2>1, <2>2, <2>3
<1> QED BY <1>4, <1>14, <1>17 DEF StableOf, mark

\* So is a nightly.
LEMMA NightlyAgain ==
  ASSUME NEW s \in Text, NEW v, v = ParseNightly(s), v # Blank
  PROVE /\ v.class = "Nightly"
        /\ \/ <<"r">> \o Decimal[v.rev] \o (IF v.modified THEN <<"M">> ELSE <<>>)
              \o (IF v.branch # <<>> THEN <<"-">> \o v.branch ELSE <<>>) = s
           \/ Dropped(s, v)
<1> DEFINE mark == <<"-">>
           ver == Split(s, mark)
           a == ver[1]
           modified == a # <<>> /\ Last(a) = "M"
           rev == IF modified THEN Front(a) ELSE a
           branch == IF Len(ver) = 2 THEN ver[2] ELSE <<>>
           r == <<"r">>
           m == IF modified THEN <<"M">> ELSE <<>>
<1>1. /\ s # <<>> /\ s[1] = "r" /\ Len(ver) \in {1, 2} /\ IsNumeral(Tail(rev))
      /\ v = [Blank EXCEPT !.class = "Nightly", !.rev = IntOf(Tail(rev)), !.modified = modified, !.branch = branch]
  BY DEF ParseNightly
<1>2. v.class = "Nightly" /\ v.rev = IntOf(Tail(rev)) /\ v.modified = modified /\ v.branch = branch
  <2> HIDE DEF rev, modified, branch
  <2> QED BY <1>1 DEF Blank
<1>3. mark \in Text /\ Len(mark) = 1 /\ mark[1] = "-" /\ r \in Text /\ Len(r) = 1 /\ r[1] = "r" /\ <<>> \in Text /\ <<"M">> \in Text
  BY DEF Text, Symbols
<1>4. ver \in PartLists /\ \E q : Glued(ver, mark, q) /\ q[Len(ver)] = s
  <2> HIDE DEF mark
  <2> QED BY <1>3, SplitGlues
<1>5. PICK q : Glued(ver, mark, q) /\ q[Len(ver)] = s BY <1>4
<1>6. 1 \in 1 .. Len(ver) /\ (Len(ver) = 2 => 2 \in 1 .. Len(ver)) BY <1>1
<1>7. a \in Text /\ (Len(ver) = 2 => ver[2] \in Text)
  <2> HIDE DEF ver
  <2> QED BY <1>4, <1>6, ElementOfSeq DEF PartLists
<1> HIDE DEF ver, mark
<1>8. (Len(ver) = 1 => s = a) /\ (Len(ver) = 2 => s = (a \o mark) \o ver[2])
  <2>1. \A k \in 1 .. Len(ver) : q[k] = (IF k = 1 THEN <<>> ELSE q[k - 1] \o mark) \o ver[k] BY <1>5 DEF Glued
  <2>2. ASSUME NEW k \in 1 .. Len(ver), k = 1 PROVE q[k] = <<>> \o ver[k]
    <3>1. (IF k = 1 THEN <<>> ELSE q[k - 1] \o mark) = <<>> BY <2>2
    <3> QED BY <2>1, <3>1
  <2>3. ASSUME NEW k \in 1 .. Len(ver), NEW j, k # 1, j = k - 1 PROVE q[k] = (q[j] \o mark) \o ver[k]
    <3>1. (IF k = 1 THEN <<>> ELSE q[k - 1] \o mark) = q[j] \o mark BY <2>3
    <3> QED BY <2>1, <3>1
  <2>4. 2 # 1 /\ 1 = 2 - 1 OBVIOUS
  <2>5. q[1] = <<>> \o a BY <1>6, <2>2
  <2>6. Len(ver) = 2 => q[2] = (q[1] \o mark) \o ver[2] BY <1>6, <2>3, <2>4
  <2>7. q[1] = a
    <3> HIDE DEF a
    <3> QED BY <1>7, <2>5, OnText
  <2> QED BY <1>1, <1>5, <2>6, <2>7
<1> DEFINE c == branch
           tail == IF Len(ver) = 2 THEN mark \o c ELSE <<>>
<1>9. c \in Text /\ tail \in Text /\ s = a \o tail
  <2>1. CASE Len(ver) = 1
    <3>1. c = <<>> /\ tail = <<>> BY <2>1
    <3> HIDE DEF a, c, tail
    <3> QED BY <1>3, <1>7, <1>8, <2>1, <3>1, OnText
  <2>2. CASE Len(ver) = 2
    <3>1. c = ver[2] /\ tail = mark \o c BY <2>2
    <3> HIDE DEF a, c, tail
    <3>2. c \in Text BY <1>7, <2>2, <3>1
    <3>3. a \in Text /\ mark \in Text BY <1>3, <1>7
    <3>4. mark \o c \in Text /\ (a \o mark) \o c = a \o (mark \o c)
      <4> HIDE DEF r, rev, m
      <4> QED BY <3>2, <3>3, OnText, TextAssoc
    <3> QED BY <1>8, <2>2, <3>1, <3>2, <3>4
  <2> QED BY <1>1, <2>1, <2>2
<1>10. a # <<>> /\ a[1] = "r"
  <2> HIDE DEF a, c, tail
  <2>1. Len(a) \in Nat /\ (Len(a) >= 1 => s[1] = a[1])
    <3>1. a \in Seq(Symbols) /\ tail \in Seq(Symbols) BY <1>7, <1>9 DEF Text
    <3>2. Len(a) \in Nat /\ \A k \in 1 .. Len(a) : (a \o tail)[k] = a[k] BY <3>1, Concat
    <3> QED BY <1>9, <3>2
  <2>2. a # <<>>
    <3> SUFFICES ASSUME a = <<>> PROVE FALSE
      OBVIOUS
    <3>1. s = tail BY <1>9, OnText
    <3>2. tail = mark \o c BY <3>1, <1>1 DEF tail
    <3>3. c \in Seq(Symbols) /\ mark \in Seq(Symbols) BY <1>3, <1>9 DEF Text
    <3>4. \A k \in 1 .. Len(mark) : (mark \o c)[k] = mark[k] BY <3>3, Concat
    <3>5. 1 \in 1 .. Len(mark) BY <1>3
    <3>6. s[1] = "-" BY <3>1, <3>2, <3>4, <3>5, <1>3
    <3> QED BY <1>1, <3>6
  <2>3. Len(a) # 0 BY <1>7, <2>2, EmptySeq DEF Text
  <2> QED BY <1>1, <2>1, <2>2, <2>3
<1>11. rev \in Text /\ rev # <<>> /\ rev[1] = "r" /\ a = rev \o m /\ m \in Text
  <2> HIDE DEF a
  <2>1. CASE ~modified
    <3>1. rev = a /\ m = <<>> BY <2>1
    <3> QED BY <1>3, <1>7, <1>10, <3>1, OnText
  <2>2. CASE modified
    <3>1. rev = Front(a) /\ m = <<"M">> /\ Last(a) = "M" BY <2>2
    <3>2. /\ Len(a) \in Nat \ {0} /\ Last(a) = a[Len(a)] /\ Front(a) \in Seq(Symbols)
          /\ Len(Front(a)) = Len(a) - 1 /\ \A k \in 1 .. Len(a) - 1 : Front(a)[k] = a[k]
      BY <1>7, <1>10, FrontLast DEF Text
    <3>3. Len(a) # 1 BY <3>1, <3>2, <1>10
    <3> DEFINE f == Front(a)
               x == <<"M">>
    <3>4. f \in Text /\ Len(f) = Len(a) - 1 /\ \A k \in 1 .. Len(a) - 1 : f[k] = a[k] BY <3>2 DEF Text
    <3>5. x \in Text /\ Len(x) = 1 /\ x[1] = "M" BY <1>3
    <3> HIDE DEF f, x
    <3>6. /\ f \o x \in Seq(Symbols) /\ Len(f \o x) = Len(a)
          /\ \A k \in 1 .. Len(a) : (f \o x)[k] = a[k]
      <4>1. f \in Seq(Symbols) /\ x \in Seq(Symbols) BY <3>4, <3>5 DEF Text
      <4>2. /\ f \o x \in Seq(Symbols) /\ Len(f \o x) = Len(f) + Len(x)
            /\ \A k \in 1 .. Len(f) : (f \o x)[k] = f[k]
            /\ \A k \in 1 .. Len(x) : (f \o x)[Len(f) + k] = x[k]
        BY <4>1, Concat
      <4>3. Len(f \o x) = Len(a) BY <4>2, <3>2, <3>4, <3>5
      <4>4. ASSUME NEW k \in 1 .. Len(a) PROVE (f \o x)[k] = a[k]
        <5>1. CASE k \in 1 .. Len(a) - 1
          <6>1. k \in 1 .. Len(f) BY <3>4, <5>1
          <6> QED BY <3>4, <4>2, <5>1, <6>1
        <5>2. CASE k = Len(a)
          <6>1. 1 \in 1 .. Len(x) BY <3>5
          <6>2. (f \o x)[Len(f) + 1] = x[1] BY <4>2, <6>1
          <6>3. Len(f) + 1 = k BY <3>2, <3>4, <5>2
          <6>4. a[k] = "M" BY <3>1, <3>2, <5>2
          <6> QED BY <3>5, <6>2, <6>3, <6>4
        <5>3. k \in 1 .. Len(a) - 1 \/ k = Len(a)
          <6> DEFINE l == Len(a)
          <6>1. l \in Nat /\ k \in 1 .. l BY <3>2
          <6> HIDE DEF l
          <6>2. k \in 1 .. l - 1 \/ k = l BY <6>1
          <6> QED BY <6>2 DEF l
        <5> QED BY <5>1, <5>2, <5>3
      <4> QED BY <4>2, <4>3, <4>4
    <3>7. f \o x = a
      <4> DEFINE y == f \o x
      <4>1. y \in Seq(Symbols) /\ Len(y) = Len(a) /\ \A k \in 1 .. Len(y) : y[k] = a[k] BY <3>6
      <4>2. a \in Seq(Symbols) BY <1>7 DEF Text
      <4> HIDE DEF y
      <4>3. y = a BY <4>1, <4>2, SameSeq
      <4> QED BY <4>3 DEF y
    <3>8. f[1] = "r" /\ f # <<>>
      <4>1. 1 \in 1 .. Len(a) - 1 BY <3>2, <3>3
      <4>2. Len(f) # 0 BY <3>2, <3>3, <3>4
      <4>3. f # <<>> BY <4>2
      <4> QED BY <1>10, <3>4, <4>1, <4>3
    <3> QED BY <3>1, <3>4, <3>5, <3>7, <3>8 DEF f, x
  <2> QED BY <2>1, <2>2
<1> DEFINE t == Tail(rev)
<1> HIDE DEF rev, m
<1>12. t \in Text /\ r \o t = rev
  <2>1. t \in Text /\ Len(t) = Len(rev) - 1 /\ Len(rev) \in Nat /\ Len(rev) # 0 /\ \A i \in 1 .. Len(t) : t[i] = rev[i + 1]
    BY <1>11, HeadTailProperties, LenProperties, EmptySeq DEF Text
  <2> HIDE DEF t, r
  <2> DEFINE y == r \o t
  <2>2. /\ y \in Seq(Symbols) /\ Len(y) = Len(r) + Len(t)
        /\ \A k \in 1 .. Len(r) : y[k] = r[k]
        /\ \A k \in 1 .. Len(t) : y[Len(r) + k] = t[k]
    <3>1. r \in Seq(Symbols) /\ t \in Seq(Symbols) BY <1>3, <2>1 DEF Text
    <3> QED BY <3>1, Concat
  <2>3. rev \in Seq(Symbols) BY <1>11 DEF Text
  <2>4. Len(y) = Len(rev) BY <1>3, <2>1, <2>2
  <2> HIDE DEF y
  <2>5. ASSUME NEW k \in 1 .. Len(y) PROVE y[k] = rev[k]
    <3>1. CASE k = 1
      <4>1. 1 \in 1 .. Len(r) BY <1>3
      <4> QED BY <1>3, <1>11, <2>2, <3>1, <4>1
    <3>2. CASE k # 1
      <4> DEFINE j == k - 1
      <4>1. j \in 1 .. Len(t) /\ j + 1 = k /\ Len(r) + j = k BY <1>3, <2>1, <2>4, <3>2
      <4> HIDE DEF j
      <4>2. y[Len(r) + j] = t[j] /\ t[j] = rev[j + 1] BY <2>1, <2>2, <4>1
      <4> QED BY <4>1, <4>2
    <3> QED BY <3>1, <3>2
  <2>6. y = rev BY <2>2, <2>3, <2>4, <2>5, SameSeq
  <2> QED BY <2>1, <2>6 DEF y
<1>13. IsNumeral(t) BY <1>1
<1>14. Decimal[IntOf(t)] = t \/ LeadingZero(rev)
  <2>1. r # <<>> => r[Len(r)] \notin ToSet(Digits) BY <1>3, NoDigits
  <2> HIDE DEF t, r
  <2>2. Decimal[IntOf(t)] = t \/ LeadingZero(r \o t) BY <1>3, <1>12, <1>13, <2>1, NumberBehind
  <2> QED BY <1>12, <2>2
<1>15. LeadingZero(rev) => LeadingZero(s)
  <2> HIDE DEF a, tail
  <2>1. LeadingZero(rev) => LeadingZero(a) BY <1>11, ZeroStays
  <2> QED BY <1>7, <1>9, <2>1, ZeroStays
<1> DEFINE back == IF c # <<>> THEN mark \o c ELSE <<>>
<1>16. tail = back \/ Last(s) = "-"
  <2>1. CASE Len(ver) = 1 BY <2>1
  <2>2. CASE Len(ver) = 2 /\ c # <<>> BY <2>2
  <2>3. CASE Len(ver) = 2 /\ c = <<>>
    <3> HIDE DEF a, c
    <3>1. tail = mark BY <2>3, <1>3, OnText
    <3> HIDE DEF tail
    <3>2. s = a \o mark BY <1>9, <3>1
    <3>3. Len(a) \in Nat /\ Len(s) = Len(a) + 1 /\ s[Len(a) + 1] = "-"
      <4>1. "-" \in Symbols BY DEF Symbols
      <4> QED BY <1>7, <3>2, <4>1, EndsIn DEF mark
    <3>4. Last(s) = s[Len(s)] BY DEF Last
    <3> QED BY <3>3, <3>4
  <2> QED BY <1>1, <2>1, <2>2, <2>3
<1> HIDE DEF tail
<1>17. \/ ((r \o Decimal[v.rev]) \o m) \o back = s
       \/ Dropped(s, v)
  <2>1. CASE LeadingZero(s) \/ Last(s) = "-" BY <2>1 DEF Dropped
  <2>2. CASE ~(LeadingZero(s) \/ Last(s) = "-")
    <3>1. tail = back BY <2>2, <1>16
    <3>2. Decimal[v.rev] = t BY <2>2, <1>2, <1>14, <1>15
    <3>3. (r \o Decimal[v.rev]) \o m = a BY <3>2, <1>11, <1>12
    <3> QED BY <1>9, <3>1, <3>3
  <2> QED BY <2>1, <2>2
<1>18. m = (IF v.modified THEN <<"M">> ELSE <<>>) BY <1>2 DEF m
<1>19. back = (IF v.branch # <<>> THEN <<"-">> \o v.branch ELSE <<>>) BY <1>2 DEF mark
<1> QED BY <1>2, <1>17, <1>18, <1>19

\* Whichever class took the text of a server, it is printed again, or something of it was dropped.
LEMMA PrintedAgain ==
  ASSUME NEW s \in Text, NEW i \in 1 .. 5, NEW v, v = Parse(VERSION_CLASSES[i], s), v # Blank
  PROVE /\ v.class = VERSION_CLASSES[i]
        /\ HasNumber(v) => v.base \in [1 .. 3 -> Nat]
        /\ VersionStr(v) = s \/ Dropped(s, v)
<1>1. CASE i = 1
  <2>1. VERSION_CLASSES[i] = "Stable" BY <1>1 DEF VERSION_CLASSES
  <2>2. v = ParseStable(s) BY <2>1 DEF Parse
  <2>3. StableOf(s, v, Len(Split(s, <<".">>))) BY <2>2, StableAgain
  <2>4. v.class = "Stable" /\ v.base \in [1 .. 3 -> Nat] BY <2>3 DEF StableOf
  <2>5. VersionStr(v) = StableStr(v) BY <2>4 DEF VersionStr
  <2> QED BY <2>1, <2>3, <2>4, <2>5 DEF StableOf, Dropped
<1>2. CASE i = 2
  <2>1. VERSION_CLASSES[i] = "RC" BY <1>2 DEF VERSION_CLASSES
  <2>2. v = ParseDashed("RC", "RC", s) BY <2>1 DEF Parse
  <2>3. /\ v.class = "RC" /\ v.base \in [1 .. 3 -> Nat]
        /\ StableStr(v) \o <<"-", "RC">> \o Decimal[v.no] = s \/ Dropped(s, v)
    BY <2>2, DashedAgain
  <2>4. VersionStr(v) = StableStr(v) \o <<"-", "RC">> \o Decimal[v.no] BY <2>3 DEF VersionStr
  <2> QED BY <2>1, <2>3, <2>4
<1>3. CASE i = 3
  <2>1. VERSION_CLASSES[i] = "Beta" BY <1>3 DEF VERSION_CLASSES
  <2>2. v = ParseDashed("Beta", "beta", s) BY <2>1 DEF Parse
  <2>3. /\ v.class = "Beta" /\ v.base \in [1 .. 3 -> Nat]
        /\ StableStr(v) \o <<"-", "beta">> \o Decimal[v.no] = s \/ Dropped(s, v)
    BY <2>2, DashedAgain
  <2>4. VersionStr(v) = StableStr(v) \o <<"-", "beta">> \o Decimal[v.no] BY <2>3 DEF VersionStr
  <2> QED BY <2>1, <2>3, <2>4
<1>4. CASE i = 4
  <2>1. VERSION_CLASSES[i] = "Nightly" BY <1>4 DEF VERSION_CLASSES
  <2>2. v = ParseNightly(s) BY <2>1 DEF Parse
  <2>3. /\ v.class = "Nightly"
        /\ \/ <<"r">> \o Decimal[v.rev] \o (IF v.modified THEN <<"M">> ELSE <<>>)
              \o (IF v.branch # <<>> THEN <<"-">> \o v.branch ELSE <<>>) = s
           \/ Dropped(s, v)
    BY <2>2, NightlyAgain
  <2>4. VersionStr(v) = <<"r">> \o Decimal[v.rev] \o (IF v.modified THEN <<"M">> ELSE <<>>)
                        \o (IF v.branch # <<>> THEN <<"-">> \o v.branch ELSE <<>>)
    BY <2>3 DEF VersionStr
  <2> QED BY <2>1, <2>3, <2>4 DEF HasNumber
<1>5. CASE i = 5
  <2>1. VERSION_CLASSES[i] = "Other" BY <1>5 DEF VERSION_CLASSES
  <2>2. v = [Blank EXCEPT !.class = "Other", !.version = s] BY <2>1 DEF Parse
  <2>3. v.class = "Other" /\ v.version = s BY <2>2 DEF Blank
  <2>4. VersionStr(v) = s BY <2>3 DEF VersionStr
  <2> QED BY <2>1, <2>3, <2>4 DEF HasNumber
<1> QED BY <1>1, <1>2, <1>3, <1>4, <1>5

-----------------------------------------------------------------------------
(* version.py: generate_newgrf_version                                     *)

\* Products with a number.
LEMMA TimesOrdered ==
  ASSUME NEW M \in Nat, NEW a \in Nat, NEW b \in Nat
  PROVE a * M \in Nat /\ (a <= b => a * M <= b * M) /\ (a + b) * M = a * M + b * M
<1>1. a * M \in Nat /\ b * M \in Nat /\ (a + b) * M = a * M + b * M OBVIOUS
<1>2. ASSUME a <= b PROVE a * M <= b * M
  <2> DEFINE d == b - a
  <2>1. d \in Nat /\ a + d = b BY <1>2
  <2> HIDE DEF d
  <2>2. (a + d) * M = a * M + d * M /\ d * M \in Nat BY <2>1
  <2> QED BY <1>1, <2>1, <2>2
<1> QED BY <1>1, <1>2

\* What is left of a number.
LEMMA Rests ==
  ASSUME NEW M \in Nat \ {0}, NEW r \in Nat
  PROVE r % M \in 0 .. M - 1 /\ (r < M => r % M = r)
OBVIOUS

\* PartLists that fit into their four bits.
LEMMA SmallParts ==
  ASSUME NEW base \in [1 .. 3 -> Nat], Small(base)
  PROVE base[1] \in 0 .. 15 /\ base[2] \in 0 .. 15 /\ base[3] \in 0 .. 15
<1>1. ASSUME NEW i \in 1 .. 3 PROVE base[i] \in 0 .. 15
  <2>1. base[i] \in Nat /\ base[i] < 16 BY DEF Small
  <2> QED BY <2>1
<1> QED BY <1>1

\* The parts of a version in one number.
Weight(base) == (base[1] * 16 + base[2]) * 16 + base[3]

\* The number of a version of small parts, with the release bit.
LEMMA NewgrfNumberIs ==
  ASSUME NEW base \in [1 .. 3 -> Nat], Small(base), NEW rev \in Nat
  PROVE LET M == Pow2[RevBits] IN
        /\ M \in Nat \ {0} /\ Weight(base) \in Nat
        /\ generate_newgrf_version(base, TRUE, rev) = Weight(base) * (2 * M) + M + (rev % M)
<1> DEFINE M == Pow2[RevBits]
           b1 == base[1]
           b2 == base[2]
           b3 == base[3]
           r == rev % M
<1>1. b1 \in 0 .. 15 /\ b2 \in 0 .. 15 /\ b3 \in 0 .. 15 BY SmallParts
<1>2. RevBits \in Nat BY VersionAssumption DEF VersionAssumption
<1>3. M \in Nat \ {0} BY <1>2, Powers
<1>4. Pow2[RevBits + 1] = 2 * M /\ Pow2[RevBits + 5] = 32 * M /\ Pow2[RevBits + 9] = 512 * M
  <2>1. Pow2[RevBits + 1] = 2 * M BY <1>2, Powers
  <2> DEFINE P(i) == Pow2[RevBits + i]
  <2>2. ASSUME NEW i \in Nat PROVE P(i + 1) = 2 * P(i)
    <3>1. RevBits + i \in Nat /\ RevBits + (i + 1) = (RevBits + i) + 1 BY <1>2
    <3>2. Pow2[(RevBits + i) + 1] = 2 * Pow2[RevBits + i] BY <3>1, Powers
    <3> QED BY <3>1, <3>2
  <2>3. P(1) = 2 * M BY <2>1
  <2> HIDE DEF P, M
  <2>4. P(1 + 1) = 2 * P(1) /\ P(2 + 1) = 2 * P(2) /\ P(3 + 1) = 2 * P(3) /\ P(4 + 1) = 2 * P(4) BY <2>2
  <2>5. P(5 + 1) = 2 * P(5) /\ P(6 + 1) = 2 * P(6) /\ P(7 + 1) = 2 * P(7) /\ P(8 + 1) = 2 * P(8) BY <2>2
  <2>6. 1 + 1 = 2 /\ 2 + 1 = 3 /\ 3 + 1 = 4 /\ 4 + 1 = 5 /\ 5 + 1 = 6 /\ 6 + 1 = 7 /\ 7 + 1 = 8 /\ 8 + 1 = 9 OBVIOUS
  <2>7. P(2) = 4 * M /\ P(3) = 8 * M /\ P(4) = 16 * M /\ P(5) = 32 * M
    BY <1>3, <2>3, <2>4, <2>6
  <2>8. P(6) = 64 * M /\ P(7) = 128 * M /\ P(8) = 256 * M /\ P(9) = 512 * M
    BY <1>3, <2>5, <2>6, <2>7
  <2>9. Pow2[RevBits + 5] = P(5) /\ Pow2[RevBits + 9] = P(9) BY DEF P
  <2> QED BY <2>1, <2>7, <2>8, <2>9
<1>5. r \in Nat /\ r < M
  <2> HIDE DEF M
  <2>1. rev % M \in 0 .. M - 1 BY <1>3, Rests
  <2> QED BY <1>3, <2>1
<1>6. generate_newgrf_version(base, TRUE, rev)
        = ((((b1 * Pow2[RevBits + 9]) | (b2 * Pow2[RevBits + 5])) | (b3 * Pow2[RevBits + 1])) | M) | r
  BY DEF generate_newgrf_version
<1> HIDE DEF M, b1, b2, b3, r
<1> DEFINE p1 == b1 * M
           p2 == b2 * M
           p3 == b3 * M
<1>7. p1 \in Nat /\ p2 \in Nat /\ p3 \in Nat /\ p2 <= 15 * M /\ p3 <= 15 * M
  <2>1. b1 \in Nat /\ b2 \in Nat /\ b3 \in Nat /\ b2 <= 15 /\ b3 <= 15 /\ 15 \in Nat BY <1>1
  <2> QED BY <1>3, <2>1, TimesOrdered
<1>8. b1 * (512 * M) = 512 * p1 /\ b2 * (32 * M) = 32 * p2 /\ b3 * (2 * M) = 2 * p3
  BY <1>1, <1>3
<1>9. (512 * M) * b1 = 512 * p1 BY <1>1, <1>3
<1>10. (32 * M) * (16 * b1 + b2) = 512 * p1 + 32 * p2 BY <1>1, <1>3
<1>11. (2 * M) * ((b1 * 16 + b2) * 16 + b3) = 512 * p1 + 32 * p2 + 2 * p3 BY <1>1, <1>3
<1>12. M * (2 * ((b1 * 16 + b2) * 16 + b3) + 1) = 512 * p1 + 32 * p2 + 2 * p3 + M BY <1>1, <1>3
<1> HIDE DEF p1, p2, p3
<1>13. ((512 * p1) | (32 * p2)) = 512 * p1 + 32 * p2
  <2> DEFINE y == 32 * p2
             k == RevBits + 9
  <2>1. k \in Nat /\ b1 \in Nat /\ y \in Nat /\ y < 512 * M BY <1>1, <1>2, <1>3, <1>7
  <2>2. Pow2[k] = 512 * M BY <1>4
  <2> HIDE DEF y, k
  <2>3. (Pow2[k] * b1 | y) = Pow2[k] * b1 + y BY <2>1, <2>2, OrAdds
  <2>4. Pow2[k] * b1 = 512 * p1 BY <1>9, <2>2
  <2> QED BY <2>3, <2>4 DEF y
<1>14. ((512 * p1 + 32 * p2) | (2 * p3)) = 512 * p1 + 32 * p2 + 2 * p3
  <2> DEFINE y == 2 * p3
             k == RevBits + 5
             x == 16 * b1 + b2
  <2>1. k \in Nat /\ x \in Nat /\ y \in Nat /\ y < 32 * M BY <1>1, <1>2, <1>3, <1>7
  <2>2. Pow2[k] = 32 * M BY <1>4
  <2>3. (32 * M) * x = 512 * p1 + 32 * p2 BY <1>10
  <2> HIDE DEF y, k, x
  <2>4. (Pow2[k] * x | y) = Pow2[k] * x + y BY <2>1, <2>2, OrAdds
  <2>5. Pow2[k] * x = 512 * p1 + 32 * p2 BY <2>2, <2>3
  <2> QED BY <2>4, <2>5 DEF y
<1> DEFINE W == (b1 * 16 + b2) * 16 + b3
<1>15. W \in Nat BY <1>1
<1> DEFINE sum == 512 * p1 + 32 * p2 + 2 * p3
<1>16. (2 * M) * W = sum /\ M * (2 * W + 1) = sum + M BY <1>11, <1>12
<1>17. sum \in Nat BY <1>7
<1> HIDE DEF W, sum
<1>18. (sum | M) = sum + M
  <2> DEFINE k == RevBits + 1
  <2>1. k \in Nat /\ M < 2 * M BY <1>2, <1>3
  <2>2. Pow2[k] = 2 * M BY <1>4
  <2> HIDE DEF k
  <2>3. (Pow2[k] * W | M) = Pow2[k] * W + M BY <1>3, <1>15, <2>1, <2>2, OrAdds
  <2> QED BY <1>16, <2>2, <2>3
<1>19. ((sum + M) | r) = sum + M + r
  <2> DEFINE x == 2 * W + 1
  <2>1. x \in Nat BY <1>15
  <2>2. M * x = sum + M BY <1>16
  <2> HIDE DEF x
  <2>3. (Pow2[RevBits] * x | r) = Pow2[RevBits] * x + r
    <3>1. r < Pow2[RevBits] BY <1>5 DEF M
    <3> QED BY <1>2, <1>5, <2>1, <3>1, OrAdds
  <2>4. Pow2[RevBits] * x = sum + M BY <2>2 DEF M
  <2> QED BY <2>3, <2>4
<1>20. generate_newgrf_version(base, TRUE, rev) = sum + M + r
  <2>1. b1 * Pow2[RevBits + 9] = 512 * p1 /\ b2 * Pow2[RevBits + 5] = 32 * p2 /\ b3 * Pow2[RevBits + 1] = 2 * p3
    BY <1>4, <1>8
  <2>2. generate_newgrf_version(base, TRUE, rev) = ((((512 * p1) | (32 * p2)) | (2 * p3)) | M) | r
    BY <1>6, <2>1
  <2>3. generate_newgrf_version(base, TRUE, rev) = (sum | M) | r
    BY <1>13, <1>14, <2>2 DEF sum
  <2> QED BY <1>18, <1>19, <2>3
<1>21. W * (2 * M) = sum BY <1>3, <1>15, <1>16
<1>22. Weight(base) = W BY DEF Weight, W, b1, b2, b3
<1>23. generate_newgrf_version(base, TRUE, rev) = Weight(base) * (2 * M) + M + r BY <1>20, <1>21, <1>22
<1>24. Weight(base) \in Nat BY <1>15, <1>22
<1> QED BY <1>3, <1>23, <1>24 DEF M, r

\* The numbers of two versions lie as their parts do, whatever the revisions are.
LEMMA WeightOrders ==
  ASSUME NEW a \in [1 .. 3 -> Nat], NEW b \in [1 .. 3 -> Nat], Small(a), Small(b), Below(a, b)
  PROVE Weight(a) + 1 <= Weight(b)
<1>1. a[1] \in 0 .. 15 /\ a[2] \in 0 .. 15 /\ a[3] \in 0 .. 15 BY SmallParts
<1>2. b[1] \in 0 .. 15 /\ b[2] \in 0 .. 15 /\ b[3] \in 0 .. 15 BY SmallParts
<1> DEFINE x1 == a[1]
           x2 == a[2]
           x3 == a[3]
           y1 == b[1]
           y2 == b[2]
           y3 == b[3]
<1>7. /\ x1 \in 0 .. 15 /\ x2 \in 0 .. 15 /\ x3 \in 0 .. 15
      /\ y1 \in 0 .. 15 /\ y2 \in 0 .. 15 /\ y3 \in 0 .. 15
  BY <1>1, <1>2
<1>8. Weight(a) = (x1 * 16 + x2) * 16 + x3 /\ Weight(b) = (y1 * 16 + y2) * 16 + y3 BY DEF Weight
<1>3. PICK i \in 1 .. 3 : a[i] < b[i] /\ \A j \in 1 .. i - 1 : a[j] = b[j] BY DEF Below
<1>4. CASE i = 1
  <2>1. x1 < y1 BY <1>3, <1>4
  <2> HIDE DEF x1, x2, x3, y1, y2, y3
  <2>2. (x1 * 16 + x2) * 16 + x3 + 1 <= (y1 * 16 + y2) * 16 + y3 BY <1>7, <2>1
  <2> QED BY <1>8, <2>2
<1>5. CASE i = 2
  <2>1. x2 < y2 /\ x1 = y1 BY <1>3, <1>5
  <2> HIDE DEF x1, x2, x3, y1, y2, y3
  <2>2. (x1 * 16 + x2) * 16 + x3 + 1 <= (y1 * 16 + y2) * 16 + y3 BY <1>7, <2>1
  <2> QED BY <1>8, <2>2
<1>6. CASE i = 3
  <2>1. x3 < y3 /\ x1 = y1 /\ x2 = y2 BY <1>3, <1>6
  <2> HIDE DEF x1, x2, x3, y1, y2, y3
  <2>2. (x1 * 16 + x2) * 16 + x3 + 1 <= (y1 * 16 + y2) * 16 + y3 BY <1>7, <2>1
  <2> QED BY <1>8, <2>2
<1> QED BY <1>4, <1>5, <1>6

\* What goes with the request for the map.
Request(v, list) ==
  [version |-> v, number |-> get_newgrf_version(v, list), known |-> TagKnown(v, list)]

\* The versions and lists of tags a request may be made of: a class took the text of a server, and
\* of a class that has a number the tags were asked for.
Requests ==
  {Request(Parse(VERSION_CLASSES[q[1]], q[2]), q[3]) :
     q \in {q \in (1 .. 5) \X Texts \X ((SUBSET DOMAIN TagRev) \cup {NoTags}) :
              /\ Parse(VERSION_CLASSES[q[1]], q[2]) # Blank
              /\ HasNumber(Parse(VERSION_CLASSES[q[1]], q[2])) => q[3] \in SUBSET DOMAIN TagRev}}

\* A request, taken apart.
LEMMA RequestIs ==
  ASSUME NEW e \in Requests
  PROVE \E i \in 1 .. 5, s \in Texts, list \in (SUBSET DOMAIN TagRev) \cup {NoTags} :
          LET v == Parse(VERSION_CLASSES[i], s) IN
          /\ v # Blank /\ (HasNumber(v) => list \in SUBSET DOMAIN TagRev)
          /\ e.version = v /\ e.number = get_newgrf_version(v, list) /\ e.known = TagKnown(v, list)
<1> DEFINE Q == {q \in (1 .. 5) \X Texts \X ((SUBSET DOMAIN TagRev) \cup {NoTags}) :
                   /\ Parse(VERSION_CLASSES[q[1]], q[2]) # Blank
                   /\ HasNumber(Parse(VERSION_CLASSES[q[1]], q[2])) => q[3] \in SUBSET DOMAIN TagRev}
<1>1. PICK q \in Q : e = Request(Parse(VERSION_CLASSES[q[1]], q[2]), q[3]) BY DEF Requests
<1>2. q[1] \in 1 .. 5 /\ q[2] \in Texts /\ q[3] \in (SUBSET DOMAIN TagRev) \cup {NoTags} OBVIOUS
<1> DEFINE i == q[1]
           s == q[2]
           list == q[3]
           v == Parse(VERSION_CLASSES[i], s)
<1>3. v # Blank /\ (HasNumber(v) => list \in SUBSET DOMAIN TagRev) OBVIOUS
<1>4. e.version = v /\ e.number = get_newgrf_version(v, list) /\ e.known = TagKnown(v, list)
  <2> HIDE DEF v, list
  <2>1. e = Request(v, list) BY <1>1 DEF v, list
  <2> QED BY <2>1 DEF Request
<1> HIDE DEF Q, i, s, list
<1>5. i \in 1 .. 5 /\ s \in Texts /\ list \in (SUBSET DOMAIN TagRev) \cup {NoTags} BY <1>2 DEF i, s, list
<1> QED BY <1>3, <1>4, <1>5

\* What makes a request.
LEMMA MakesRequest ==
  ASSUME NEW i \in 1 .. 5, NEW s \in Texts, NEW list \in (SUBSET DOMAIN TagRev) \cup {NoTags},
         NEW v, v = Parse(VERSION_CLASSES[i], s), v # Blank, HasNumber(v) => list \in SUBSET DOMAIN TagRev
  PROVE Request(v, list) \in Requests
<1> DEFINE q == <<i, s, list>>
           Good(p) == /\ Parse(VERSION_CLASSES[p[1]], p[2]) # Blank
                      /\ HasNumber(Parse(VERSION_CLASSES[p[1]], p[2])) => p[3] \in SUBSET DOMAIN TagRev
           All == (1 .. 5) \X Texts \X ((SUBSET DOMAIN TagRev) \cup {NoTags})
<1>1. q \in All /\ q[1] = i /\ q[2] = s /\ q[3] = list OBVIOUS
<1> HIDE DEF q, All
<1>2. Good(q) BY <1>1
<1>3. Request(v, list) = Request(Parse(VERSION_CLASSES[q[1]], q[2]), q[3]) BY <1>1
<1>4. q \in {p \in All : Good(p)} BY <1>1, <1>2
<1> QED BY <1>3, <1>4 DEF Requests, All

\* The inductive invariant: which class took which text, what was joined with, which tags are
\* known, and what every request was made of.
SessionInv ==
  /\ announced \in Seq(Texts) /\ trying \in 1 .. 5
  /\ phaseOfV \in {"closed", "parse", "join", "map", "ask"}
  /\ phaseOfV # "closed" => announced # <<>>
  /\ phaseOfV \in {"join", "map", "ask"} =>
       revision = Parse(VERSION_CLASSES[trying], Last(announced)) /\ revision # Blank
  /\ phaseOfV = "map" => joined = VersionStr(revision)
  /\ phaseOfV \in {"join", "map"} => tags = NoTags
  /\ phaseOfV = "ask" => tags \in SUBSET DOMAIN TagRev
  /\ sent \in Seq(Requests)

\* The last class takes every text.
LEMMA OtherTakesAll == \A s : Parse("Other", s) # Blank
<1> TAKE s
<1>1. Parse("Other", s) = [Blank EXCEPT !.class = "Other", !.version = s] BY DEF Parse
<1>2. [Blank EXCEPT !.class = "Other", !.version = s].class = "Other" /\ Blank.class = "ValueError" BY DEF Blank
<1> QED BY <1>1, <1>2

\* The text the server announced last.
LEMMA LastText ==
  ASSUME NEW seq \in Seq(Texts), seq # <<>>
  PROVE Last(seq) \in Texts /\ Last(seq) \in Text
<1>1. Last(seq) \in Texts BY FrontLast
<1>2. Texts \subseteq Text BY OfSymbols, VersionAssumption DEF VersionAssumption, Text
<1> QED BY <1>1, <1>2

\* The invariant holds at first and is kept by every step.
LEMMA SessionKept ==
  /\ VersionInit => SessionInv
  /\ SessionInv /\ [VersionNext]_versionVars => SessionInv'
<1>1. VersionInit => SessionInv BY DEF VersionInit, SessionInv
<1> SUFFICES ASSUME SessionInv, [VersionNext]_versionVars PROVE SessionInv'
  BY <1>1
<1> USE DEF SessionInv
<1>3. ASSUME NEW s \in Texts, Announce(s) PROVE SessionInv'
  <2>1. announced' \in Seq(Texts) /\ announced' # <<>>
    BY <1>3, AppendProperties DEF Announce
  <2> QED BY <1>3, <2>1 DEF Announce
<1>4. CASE TryClass
  <2> DEFINE v == Parse(VERSION_CLASSES[trying], Last(announced))
  <2>1. CASE v = Blank
    <3>1. trying # 5
      <4> SUFFICES ASSUME trying = 5 PROVE FALSE
        OBVIOUS
      <4>1. VERSION_CLASSES[trying] = "Other" BY DEF VERSION_CLASSES
      <4> QED BY <2>1, <4>1, OtherTakesAll
    <3>2. trying' = trying + 1 /\ UNCHANGED <<announced, revision, joined, tags, sent, phaseOfV>> /\ phaseOfV = "parse"
      BY <1>4, <2>1 DEF TryClass
    <3> QED BY <3>1, <3>2
  <2>2. CASE v # Blank
    <3>1. /\ revision' = v /\ phaseOfV' = "join" /\ tags' = NoTags /\ UNCHANGED <<announced, trying, joined, sent>>
          /\ phaseOfV = "parse"
      BY <1>4, <2>2 DEF TryClass
    <3>2. revision' = Parse(VERSION_CLASSES[trying'], Last(announced')) /\ revision' # Blank
      BY <2>2, <3>1
    <3> HIDE DEF v
    <3> QED BY <3>1, <3>2
  <2> QED BY <2>1, <2>2
<1>5. CASE JoinAs BY <1>5 DEF JoinAs
<1>6. CASE GetTags BY <1>6 DEF GetTags
<1>7. CASE GetMap
  <2>1. /\ phaseOfV = "ask" \/ (phaseOfV = "map" /\ ~HasNumber(revision))
        /\ sent' = Append(sent, Request(revision, tags)) /\ phaseOfV' = "closed"
        /\ UNCHANGED <<announced, trying, revision, joined, tags>>
    BY <1>7 DEF GetMap, Request
  <2>2. Request(revision, tags) \in Requests
    <3> DEFINE s == Last(announced)
    <3>1. s \in Texts BY <2>1, LastText
    <3>2. revision = Parse(VERSION_CLASSES[trying], s) /\ revision # Blank /\ trying \in 1 .. 5 BY <2>1
    <3>3. tags \in (SUBSET DOMAIN TagRev) \cup {NoTags} /\ (HasNumber(revision) => tags \in SUBSET DOMAIN TagRev)
      BY <2>1
    <3> HIDE DEF s, SessionInv
    <3> QED BY <3>1, <3>2, <3>3, MakesRequest
  <2>3. sent' \in Seq(Requests) BY <2>1, <2>2, AppendProperties
  <2> QED BY <2>1, <2>3
<1>8. CASE UNCHANGED versionVars BY <1>8 DEF versionVars
<1> QED BY <1>3, <1>4, <1>5, <1>6, <1>7, <1>8 DEF VersionNext

\* A request of a class that has a number, and the number.
LEMMA RequestNumber ==
  ASSUME NEW e \in Requests, HasNumber(e.version), Small(e.version.base)
  PROVE \E s \in Texts, c \in {"Stable", "RC", "Beta"} :
          /\ e.version = Parse(c, s) /\ e.version # Blank /\ e.version.base \in [1 .. 3 -> Nat]
          /\ \E r \in Nat :
               /\ e.number = Weight(e.version.base) * (2 * Pow2[RevBits]) + Pow2[RevBits] + (r % Pow2[RevBits])
               /\ IF e.known THEN VersionStr(e.version) \in DOMAIN TagRev /\ r = TagRev[VersionStr(e.version)]
                  ELSE r = 0
<1>1. PICK i \in 1 .. 5, s \in Texts, list \in (SUBSET DOMAIN TagRev) \cup {NoTags} :
        LET v == Parse(VERSION_CLASSES[i], s) IN
        /\ v # Blank /\ (HasNumber(v) => list \in SUBSET DOMAIN TagRev)
        /\ e.version = v /\ e.number = get_newgrf_version(v, list) /\ e.known = TagKnown(v, list)
  BY RequestIs
<1> DEFINE v == e.version
           c == VERSION_CLASSES[i]
           text == VersionStr(v)
           r == IF TagKnown(v, list) THEN TagRev[text] ELSE 0
<1>2. v = Parse(c, s) /\ v # Blank /\ list \in SUBSET DOMAIN TagRev BY <1>1
<1>3. s \in Text BY OfSymbols, VersionAssumption DEF VersionAssumption, Text
<1>4. v.class = c /\ v.base \in [1 .. 3 -> Nat]
  <2> HIDE DEF v
  <2> QED BY <1>2, <1>3, PrintedAgain DEF v
<1>5. c \in {"Stable", "RC", "Beta"} BY <1>4 DEF HasNumber
<1>6. e.number = generate_newgrf_version(v.base, TRUE, r) /\ e.known = TagKnown(v, list)
  BY <1>1 DEF get_newgrf_version
<1>7. r \in Nat
  <2>1. CASE TagKnown(v, list)
    <3>1. text \in DOMAIN TagRev BY <1>2, <2>1 DEF TagKnown
    <3>2. TagRev[text] \in 1 .. Pow2[RevBits] - 1 BY <3>1, TagsAssumption DEF TagsAssumption
    <3> QED BY <2>1, <3>2
  <2>2. CASE ~TagKnown(v, list) BY <2>2
  <2> QED BY <2>1, <2>2
<1>8. IF e.known THEN text \in DOMAIN TagRev /\ r = TagRev[text] ELSE r = 0
  BY <1>2, <1>6 DEF TagKnown
<1> HIDE DEF r, c, text
<1>9. e.number = Weight(v.base) * (2 * Pow2[RevBits]) + Pow2[RevBits] + (r % Pow2[RevBits])
  <2> DEFINE base == v.base
  <2>1. base \in [1 .. 3 -> Nat] /\ Small(base) BY <1>4
  <2> HIDE DEF base
  <2>2. generate_newgrf_version(base, TRUE, r) = Weight(base) * (2 * Pow2[RevBits]) + Pow2[RevBits] + (r % Pow2[RevBits])
    BY <1>7, <2>1, NewgrfNumberIs
  <2> QED BY <1>6, <2>2 DEF base
<1>10. \E x \in Nat :
         /\ e.number = Weight(v.base) * (2 * Pow2[RevBits]) + Pow2[RevBits] + (x % Pow2[RevBits])
         /\ IF e.known THEN VersionStr(v) \in DOMAIN TagRev /\ x = TagRev[VersionStr(v)] ELSE x = 0
  BY <1>7, <1>8, <1>9 DEF text
<1> QED BY <1>2, <1>4, <1>5, <1>10

\* The invariant says what is joined with and in which order the numbers are.
LEMMA SessionShows == SessionInv => VersionKept
<1> SUFFICES ASSUME SessionInv PROVE VersionKept
  OBVIOUS
<1>1. JoinsAsAnnounced
  <2> SUFFICES ASSUME phaseOfV = "map" PROVE joined = Last(announced) \/ Dropped(Last(announced), revision)
    BY DEF JoinsAsAnnounced
  <2> DEFINE s == Last(announced)
  <2>1. s \in Text BY LastText DEF SessionInv
  <2>2. revision = Parse(VERSION_CLASSES[trying], s) /\ revision # Blank /\ trying \in 1 .. 5 /\ joined = VersionStr(revision)
    BY DEF SessionInv
  <2> HIDE DEF s
  <2>3. VersionStr(revision) = s \/ Dropped(s, revision) BY <2>1, <2>2, PrintedAgain
  <2> QED BY <2>2, <2>3 DEF s
<1>2. NumbersAscend
  <2> SUFFICES ASSUME NEW i \in DOMAIN sent, NEW j \in DOMAIN sent,
                      HasNumber(sent[i].version), HasNumber(sent[j].version),
                      Small(sent[i].version.base), Small(sent[j].version.base),
                      \/ Below(sent[i].version.base, sent[j].version.base)
                      \/ /\ sent[i].version.base = sent[j].version.base /\ sent[j].known
                         /\ sent[i].known =>
                              TagRev[VersionStr(sent[i].version)] < TagRev[VersionStr(sent[j].version)]
               PROVE sent[i].number < sent[j].number
    BY DEF NumbersAscend
  <2> DEFINE d == sent[i]
             e == sent[j]
             M == Pow2[RevBits]
             u == d.version
             v == e.version
             a == u.base
             b == v.base
  <2>1. d \in Requests /\ e \in Requests BY ElementOfSeq, LenProperties DEF SessionInv
  <2>2. M \in Nat \ {0} BY VersionAssumption, Powers DEF VersionAssumption
  <2>3. \/ Below(a, b)
        \/ a = b /\ e.known /\ (d.known => TagRev[VersionStr(u)] < TagRev[VersionStr(v)])
    OBVIOUS
  <2>4. HasNumber(u) /\ HasNumber(v) /\ Small(a) /\ Small(b) OBVIOUS
  <2> HIDE DEF d, e
  <2>5. PICK s \in Texts, c \in {"Stable", "RC", "Beta"} :
          /\ u = Parse(c, s) /\ u # Blank /\ a \in [1 .. 3 -> Nat]
          /\ \E r \in Nat : /\ d.number = Weight(a) * (2 * M) + M + (r % M)
                            /\ IF d.known THEN VersionStr(u) \in DOMAIN TagRev /\ r = TagRev[VersionStr(u)]
                               ELSE r = 0
    BY <2>1, <2>4, RequestNumber
  <2>6. PICK t \in Texts, f \in {"Stable", "RC", "Beta"} :
          /\ v = Parse(f, t) /\ v # Blank /\ b \in [1 .. 3 -> Nat]
          /\ \E r \in Nat : /\ e.number = Weight(b) * (2 * M) + M + (r % M)
                            /\ IF e.known THEN VersionStr(v) \in DOMAIN TagRev /\ r = TagRev[VersionStr(v)]
                               ELSE r = 0
    BY <2>1, <2>4, RequestNumber
  <2>7. PICK x \in Nat :
          /\ d.number = Weight(a) * (2 * M) + M + (x % M)
          /\ IF d.known THEN VersionStr(u) \in DOMAIN TagRev /\ x = TagRev[VersionStr(u)] ELSE x = 0
    BY <2>5
  <2>8. PICK y \in Nat :
          /\ e.number = Weight(b) * (2 * M) + M + (y % M)
          /\ IF e.known THEN VersionStr(v) \in DOMAIN TagRev /\ y = TagRev[VersionStr(v)] ELSE y = 0
    BY <2>6
  <2>9. Weight(a) \in Nat /\ Weight(b) \in Nat BY <2>4, <2>5, <2>6, NewgrfNumberIs
  <2> DEFINE p == x % M
             q == y % M
             wa == Weight(a)
             wb == Weight(b)
  <2>10. p \in 0 .. M - 1 /\ q \in 0 .. M - 1
    <3> HIDE DEF M
    <3> QED BY <2>2, Rests
  <2>11. CASE Below(a, b)
    <3>1. wa + 1 <= wb BY <2>4, <2>5, <2>6, <2>11, WeightOrders
    <3> HIDE DEF M, p, q, wa, wb
    <3> DEFINE N == 2 * M
    <3>2. wa \in Nat /\ wb \in Nat /\ wa + 1 \in Nat BY <2>9 DEF wa, wb
    <3>3. N \in Nat /\ 1 \in Nat BY <2>2
    <3> HIDE DEF N
    <3>4. (wa + 1) * N <= wb * N /\ (wa + 1) * N = wa * N + 1 * N /\ wa * N \in Nat /\ wb * N \in Nat
      BY <3>1, <3>2, <3>3, TimesOrdered
    <3>5. d.number = wa * N + M + p BY <2>7 DEF wa, N, p
    <3>6. e.number = wb * N + M + q BY <2>8 DEF wb, N, q
    <3>7. M + p < N BY <2>2, <2>10 DEF N
    <3> DEFINE A == wa * N
               B == wb * N
    <3>8. A \in Nat /\ B \in Nat /\ A + N <= B BY <3>3, <3>4
    <3> HIDE DEF A, B
    <3>9. A + M + p < B + M + q BY <2>2, <2>10, <3>3, <3>7, <3>8
    <3>10. d.number < e.number BY <3>5, <3>6, <3>9 DEF A, B
    <3> QED BY <3>10 DEF d, e
  <2>12. CASE a = b /\ e.known /\ (d.known => TagRev[VersionStr(u)] < TagRev[VersionStr(v)])
    <3>1. VersionStr(v) \in DOMAIN TagRev /\ y = TagRev[VersionStr(v)] BY <2>8, <2>12
    <3>2. y \in 1 .. M - 1 BY <3>1, TagsAssumption DEF TagsAssumption
    <3>3. x < y
      <4>1. CASE ~d.known BY <2>7, <3>2, <4>1
      <4>2. CASE d.known
        <5>1. VersionStr(u) \in DOMAIN TagRev /\ x = TagRev[VersionStr(u)] BY <2>7, <4>2
        <5>2. TagRev[VersionStr(u)] < TagRev[VersionStr(v)] BY <2>12, <4>2
        <5> HIDE DEF u, v
        <5> QED BY <3>1, <5>1, <5>2
      <4> QED BY <4>1, <4>2
    <3>4. p = x /\ q = y
      <4> HIDE DEF M
      <4>1. x < M /\ y < M /\ y \in Nat BY <2>2, <3>2, <3>3
      <4> QED BY <2>2, <4>1, Rests
    <3>5. d.number = wa * (2 * M) + M + p BY <2>7
    <3>6. e.number = wa * (2 * M) + M + q BY <2>8, <2>12
    <3> DEFINE A == wa * (2 * M)
    <3>7. A \in Nat
      <4> HIDE DEF M, wa
      <4>1. wa \in Nat BY <2>9 DEF wa
      <4> QED BY <2>2, <4>1
    <3> HIDE DEF A, M, p, q
    <3>8. A + M + p < A + M + q BY <2>2, <3>3, <3>4, <3>7
    <3>9. d.number < e.number BY <3>5, <3>6, <3>8 DEF A
    <3> QED BY <3>9 DEF d, e
  <2> QED BY <2>3, <2>11, <2>12
<1> QED BY <1>1, <1>2 DEF VersionKept

\* For any texts servers announce and any tags: the client joins with the very text the server has
\* announced, unless it is written in another way than it is printed; and of two versions with small
\* parts the later base has the greater number, and within a base a beta or candidate the lower one
\* when the other's tag is known and later (version.py:57, :77, :87, :96).
THEOREM VersionsAlwaysKept == VersionSpec => []VersionKept
<1>1. VersionInit => SessionInv BY SessionKept
<1>2. SessionInv /\ [VersionNext]_versionVars => SessionInv' BY SessionKept
<1>3. SessionInv => VersionKept BY SessionShows
<1> QED BY <1>1, <1>2, <1>3, PTL DEF VersionSpec
=============================================================================
