-------------------------- MODULE IrcChannels_proofs --------------------------
(***************************************************************************)
(* The tables of the bot's channel follow the lines of the server: lemmas  *)
(* on the tables, on what a line says, and on the lines that are still on  *)
(* their way.  The theorems about them are in IrcSide_proofs.              *)
(***************************************************************************)
EXTENDS IrcChannels, SequenceTheorems, TLAPS

\* A table whose two parts agree.
Good(d) ==
  /\ d \in Dicts /\ DOMAIN d.canon = {Low[k] : k \in d.data}
  /\ \A k \in d.data : d.canon[Low[k]] = k

GoodChannel(c) == c \in Channels /\ Good(c.users) /\ Good(c.o) /\ Good(c.v)

\* No two of the names are the same in lower case; and k is none of them.
Alone(names) == \A j, k \in names : Low[j] = Low[k] => j = k
Fresh(k, names) == \A j \in names : Low[j] # Low[k]

-----------------------------------------------------------------------------
(* IRCDict: every operation keeps a good table good, and what it holds.    *)

LEMMA NamesLow == /\ \A k \in Nicks : Low[k] \in Range(Low) /\ Low[k] # None /\ LowKey(k) = Low[k]
               /\ LowKey(None) = None /\ None \notin Nicks
  BY NicksAssumption DEF Range, Nicks, LowKey, None

LEMMA MadeGood ==
  ASSUME NEW D \in SUBSET Nicks, NEW f, f \in [{Low[k] : k \in D} -> Nicks], \A k \in D : f[Low[k]] = k
  PROVE  Good([data |-> D, canon |-> f])
  <1>1. {Low[k] : k \in D} \in SUBSET Range(Low)
    BY NamesLow
  <1> QED
    BY <1>1 DEF Good, Dicts

LEMMA GoodIsAlone == ASSUME NEW d, Good(d) PROVE Alone(d.data) /\ d.data \subseteq Nicks
  BY DEF Good, Dicts, Alone

LEMMA HasKeyIs ==
  ASSUME NEW d, Good(d)
  PROVE  /\ \A k \in Nicks : HasKey(d, k) <=> \E n \in d.data : Low[n] = Low[k]
         /\ ~HasKey(d, None)
  BY NamesLow DEF Good, Dicts, HasKey

LEMMA EmptyIs == Good(EmptyDict) /\ EmptyDict.data = {}
  BY MadeGood DEF EmptyDict

LEMMA DelKeyIs ==
  ASSUME NEW d, Good(d), NEW k \in Nicks, HasKey(d, k)
  PROVE  /\ Good(DelKey(d, k))
         /\ \A n : n \in DelKey(d, k).data <=> n \in d.data /\ Low[n] # Low[k]
  <1> DEFINE D == d.data \ {d.canon[LowKey(k)]}  f == Restrict(d.canon, DOMAIN d.canon \ {LowKey(k)})
  <1>1. d.data \subseteq Nicks /\ DOMAIN d.canon = {Low[n] : n \in d.data}
          /\ \A n \in d.data : d.canon[Low[n]] = n
    BY DEF Good, Dicts
  <1>2. PICK m \in d.data : Low[m] = Low[k]
    BY HasKeyIs
  <1>3. LowKey(k) = Low[k] /\ d.canon[LowKey(k)] = m
    BY <1>1, <1>2, NamesLow
  <1>4. \A n : n \in D <=> n \in d.data /\ Low[n] # Low[k]
    BY <1>1, <1>2, <1>3
  <1>5. DOMAIN f = {Low[n] : n \in D} /\ \A x \in DOMAIN f : f[x] = d.canon[x]
    BY <1>1, <1>3, <1>4 DEF Restrict
  <1>6. f = [x \in DOMAIN f |-> f[x]]
    BY DEF Restrict
  <1> HIDE DEF D, f
  <1>7. D \in SUBSET Nicks /\ \A n \in D : f[Low[n]] = n
    BY <1>1, <1>4, <1>5
  <1>8. f \in [{Low[n] : n \in D} -> Nicks]
    BY <1>5, <1>6, <1>7
  <1>9. Good([data |-> D, canon |-> f])
    BY <1>7, <1>8, MadeGood
  <1> QED
    BY <1>4, <1>9 DEF DelKey, D, f

LEMMA SetKeyIs ==
  ASSUME NEW d, Good(d), NEW k \in Nicks
  PROVE  /\ Good(SetKey(d, k))
         /\ \A n : n \in SetKey(d, k).data <=> n = k \/ (n \in d.data /\ Low[n] # Low[k])
  <1> DEFINE r == IF HasKey(d, k) THEN DelKey(d, k) ELSE d
             D == r.data \cup {k}
             f == With(r.canon, LowKey(k), k)
  <1>1. Good(r) /\ \A n : n \in r.data <=> n \in d.data /\ Low[n] # Low[k]
    <2>1. CASE HasKey(d, k)
      BY <2>1, DelKeyIs
    <2>2. CASE ~HasKey(d, k)
      BY <2>2, HasKeyIs
    <2> QED
      BY <2>1, <2>2
  <1>2. SetKey(d, k) = [data |-> D, canon |-> f]
    BY DEF SetKey
  <1> HIDE DEF r
  <1>3. /\ r.data \subseteq Nicks /\ DOMAIN r.canon = {Low[n] : n \in r.data}
        /\ \A n \in r.data : r.canon[Low[n]] = n
    BY <1>1 DEF Good, Dicts
  <1>4. LowKey(k) = Low[k]
    BY NamesLow
  <1>5. /\ DOMAIN f = {Low[n] : n \in D} /\ f[Low[k]] = k
        /\ \A n \in r.data : f[Low[n]] = n
    BY <1>1, <1>3, <1>4 DEF With
  <1>6. f = [x \in DOMAIN f |-> f[x]]
    BY DEF With
  <1>7. D \in SUBSET Nicks /\ \A n \in D : f[Low[n]] = n
    BY <1>3, <1>5
  <1> HIDE DEF f
  <1>8. f \in [{Low[n] : n \in D} -> Nicks]
    BY <1>5, <1>6, <1>7
  <1>9. Good([data |-> D, canon |-> f])
    BY <1>7, <1>8, MadeGood
  <1> QED
    BY <1>1, <1>2, <1>9

LEMMA DiscardIs ==
  ASSUME NEW d, Good(d), NEW k \in Nicks
  PROVE  /\ Good(Discard(d, k))
         /\ \A n : n \in Discard(d, k).data <=> n \in d.data /\ Low[n] # Low[k]
  <1>1. CASE HasKey(d, k)
    BY <1>1, DelKeyIs DEF Discard
  <1>2. CASE ~HasKey(d, k)
    BY <1>2, HasKeyIs DEF Discard
  <1> QED
    BY <1>1, <1>2

LEMMA DiscardNone == ASSUME NEW d, Good(d) PROVE Discard(d, None) = d
  BY HasKeyIs DEF Discard

LEMMA RenamedIs ==
  ASSUME NEW d, Good(d), NEW b \in Nicks, NEW a \in Nicks, HasKey(d, b)
  PROVE  /\ Good(Renamed(d, b, a))
         /\ \A n : n \in Renamed(d, b, a).data <=>
              /\ n = a \/ (n \in d.data /\ Low[n] # Low[a])
              /\ Low[n] # Low[b]
  <1>1. Good(SetKey(d, a)) /\ \A n : n \in SetKey(d, a).data <=> n = a \/ (n \in d.data /\ Low[n] # Low[a])
    BY SetKeyIs
  <1>2. HasKey(SetKey(d, a), b)
    <2>1. \E n \in SetKey(d, a).data : Low[n] = Low[b]
      BY <1>1, HasKeyIs
    <2> QED
      BY <1>1, <2>1, HasKeyIs
  <1> QED
    BY <1>1, <1>2, DelKeyIs DEF Renamed

LEMMA SetKeysIs ==
  ASSUME NEW d, Good(d), NEW ks \in SUBSET Nicks, Alone(ks)
  PROVE  /\ Good(SetKeys(d, ks))
         /\ \A n : n \in SetKeys(d, ks).data <=> n \in ks \/ (n \in d.data /\ Fresh(n, ks))
  <1> DEFINE lows == {Low[k] : k \in ks}
             D == (d.data \ {d.canon[l] : l \in lows \cap DOMAIN d.canon}) \cup ks
             f == [l \in DOMAIN d.canon \cup lows |->
                     IF l \in lows THEN CHOOSE k \in ks : Low[k] = l ELSE d.canon[l]]
  <1>1. d.data \subseteq Nicks /\ DOMAIN d.canon = {Low[n] : n \in d.data}
          /\ \A n \in d.data : d.canon[Low[n]] = n
    BY DEF Good, Dicts
  <1>2. \A n : n \in D <=> n \in ks \/ (n \in d.data /\ Low[n] \notin lows)
    BY <1>1
  <1>3. \A n : Low[n] \notin lows <=> Fresh(n, ks)
    BY DEF Fresh
  <1>4. \A k \in ks : (CHOOSE j \in ks : Low[j] = Low[k]) = k
    BY DEF Alone
  <1>5. DOMAIN f = {Low[n] : n \in D}
    <2>1. DOMAIN f = {Low[n] : n \in d.data} \cup lows
      BY <1>1
    <2> HIDE DEF f, D
    <2>2. \A x : x \in {Low[n] : n \in d.data} \cup lows <=> x \in {Low[n] : n \in D}
      BY <1>2
    <2> QED
      BY <2>1, <2>2
  <1>6. \A n \in D : f[Low[n]] = n
    <2> SUFFICES ASSUME NEW n \in D PROVE f[Low[n]] = n
      OBVIOUS
    <2>1. CASE n \in ks
      BY <1>4, <2>1
    <2>2. CASE n \in d.data /\ Low[n] \notin lows
      BY <1>1, <2>2
    <2> QED
      BY <1>2, <2>1, <2>2
  <1>7. f = [x \in DOMAIN f |-> f[x]]
    OBVIOUS
  <1> HIDE DEF f
  <1>8. D \in SUBSET Nicks
    BY <1>1, <1>2
  <1> HIDE DEF D
  <1>9. f \in [{Low[n] : n \in D} -> Nicks]
    BY <1>5, <1>6, <1>7, <1>8
  <1>10. Good([data |-> D, canon |-> f])
    BY <1>6, <1>8, <1>9, MadeGood
  <1>11. SetKeys(d, ks) = [data |-> D, canon |-> f]
    BY DEF SetKeys, D, f
  <1> QED
    BY <1>2, <1>3, <1>10, <1>11
-----------------------------------------------------------------------------
(* The modes of a line: what _parse_modes makes of it, and _on_mode of that. *)

\* One mode; one character.
OneMode(c, m) == IF m[1] = "+" THEN SetMode(c, m[2], m[3]) ELSE ClearMode(c, m[2], m[3])
ReadMode(acc, ch, args) ==
  LET takes == ch \in Unary /\ acc.used < Len(args) IN
  IF ch \in {"+", "-"} THEN [acc EXCEPT !.sign = ch]
  ELSE [sign |-> acc.sign, used |-> IF takes THEN acc.used + 1 ELSE acc.used,
        out |-> Append(acc.out, <<acc.sign, ch, IF takes THEN args[acc.used + 1] ELSE None>>)]

Unread == [sign |-> "", used |-> 0, out |-> <<>>]
ReadTwo(chars, args) == ReadMode(ReadMode(Unread, chars[1], args), chars[2], args)

LEMMA AppendTwo == ASSUME NEW x, NEW y PROVE Append(<<x>>, y) = <<x, y>>
  <1>1. <<x>> \in Seq({x, y}) /\ <<x, y>> \in Seq({x, y})
    OBVIOUS
  <1>2. Append(<<x>>, y) \in Seq({x, y}) /\ Len(Append(<<x>>, y)) = 2
    BY <1>1, AppendProperties
  <1>3. Append(<<x>>, y)[1] = x /\ Append(<<x>>, y)[2] = y
    BY <1>1, AppendProperties
  <1>4. \A i \in 1 .. 2 : Append(<<x>>, y)[i] = <<x, y>>[i]
    BY <1>3
  <1>5. Len(<<x, y>>) = 2
    OBVIOUS
  <1> QED
    BY <1>1, <1>2, <1>4, <1>5, SeqEqual

LEMMA ApplyIs ==
  ASSUME NEW c, NEW s, Len(s) \in {1, 2}
  PROVE  ApplyModes(c, s) = IF Len(s) = 1 THEN OneMode(c, s[1]) ELSE OneMode(OneMode(c, s[1]), s[2])
  <1> DEFINE F == CHOOSE g : g = [i \in 0 .. Len(s) |-> IF i = 0 THEN c ELSE OneMode(g[i - 1], s[i])]
             w == [i \in 0 .. Len(s) |-> IF i = 0 THEN c ELSE IF i = 1 THEN OneMode(c, s[1])
                                         ELSE OneMode(OneMode(c, s[1]), s[2])]
  <1>1. w = [i \in 0 .. Len(s) |-> IF i = 0 THEN c ELSE OneMode(w[i - 1], s[i])]
    <2>1. ASSUME NEW i \in 0 .. Len(s) PROVE w[i] = IF i = 0 THEN c ELSE OneMode(w[i - 1], s[i])
      <3>1. CASE i = 0
        BY <3>1
      <3>2. CASE i = 1
        BY <3>2
      <3>3. CASE i = 2
        BY <3>3
      <3> QED
        BY <3>1, <3>2, <3>3
    <2> QED
      BY <2>1
  <1>2. F = [i \in 0 .. Len(s) |-> IF i = 0 THEN c ELSE OneMode(F[i - 1], s[i])]
    BY <1>1
  <1>3. ApplyModes(c, s) = F[Len(s)]
    BY DEF ApplyModes, OneMode
  <1> HIDE DEF F
  <1>4. F[0] = c /\ F[1] = OneMode(F[0], s[1]) /\ (Len(s) = 2 => F[2] = OneMode(F[1], s[2]))
    BY <1>2
  <1> QED
    BY <1>3, <1>4

LEMMA ParseIs ==
  ASSUME NEW chars, NEW args, Len(chars) \in {2, 3}, chars # <<>>, Head(chars) \in {"+", "-"}
  PROVE  ParseModes(chars, args) = IF Len(chars) = 2 THEN ReadTwo(chars, args).out
                                   ELSE ReadMode(ReadTwo(chars, args), chars[3], args).out
  <1> DEFINE r0 == Unread
             r1 == ReadMode(r0, chars[1], args)
             r2 == ReadMode(r1, chars[2], args)
             F == CHOOSE g : g = [i \in 0 .. Len(chars) |-> IF i = 0 THEN r0 ELSE ReadMode(g[i - 1], chars[i], args)]
             w == [i \in 0 .. Len(chars) |-> IF i = 0 THEN r0 ELSE IF i = 1 THEN r1 ELSE IF i = 2 THEN r2
                                             ELSE ReadMode(r2, chars[3], args)]
  <1>1. w = [i \in 0 .. Len(chars) |-> IF i = 0 THEN r0 ELSE ReadMode(w[i - 1], chars[i], args)]
    <2> HIDE DEF r0
    <2>1. ASSUME NEW i \in 0 .. Len(chars) PROVE w[i] = IF i = 0 THEN r0 ELSE ReadMode(w[i - 1], chars[i], args)
      <3>1. CASE i = 0
        BY <3>1
      <3>2. CASE i = 1
        BY <3>2
      <3>3. CASE i = 2
        BY <3>3
      <3>4. CASE i = 3
        BY <3>4
      <3> QED
        BY <3>1, <3>2, <3>3, <3>4
    <2> QED
      BY <2>1
  <1>2. F = [i \in 0 .. Len(chars) |-> IF i = 0 THEN r0 ELSE ReadMode(F[i - 1], chars[i], args)]
    BY <1>1
  <1>3. ParseModes(chars, args) = F[Len(chars)].out
    BY DEF ParseModes, ReadMode, Unread
  <1> HIDE DEF F, r0
  <1>4. /\ F[0] = r0 /\ F[1] = ReadMode(F[0], chars[1], args) /\ F[2] = ReadMode(F[1], chars[2], args)
        /\ Len(chars) = 3 => F[3] = ReadMode(F[2], chars[3], args)
    BY <1>2
  <1>5. F[2] = r2 /\ (Len(chars) = 3 => F[3] = ReadMode(r2, chars[3], args))
    BY <1>4
  <1> QED
    BY <1>3, <1>5 DEF r0, ReadTwo

\* A mode alone takes the name; behind a limit that is set it does, too; behind one that is
\* taken it does not.
LEMMA ModeLineIs ==
  ASSUME NEW c \in Channels, NEW k \in Nicks, NEW mode \in {"o", "v"}, NEW sign \in {"+", "-"}
  PROVE  /\ ApplyModes(c, ParseModes(<<sign, mode>>, <<k>>)) = OneMode(c, <<sign, mode, k>>)
         /\ ApplyModes(c, ParseModes(<<"+", "l", mode>>, <<None, k>>)) =
              OneMode([c EXCEPT !.modes = @ \cup {"l"}], <<"+", mode, k>>)
         /\ ApplyModes(c, ParseModes(<<"-", "l", mode>>, <<k>>)) =
              OneMode([c EXCEPT !.modes = @ \ {"l"}], <<"-", mode, None>>)
  <1>1. ApplyModes(c, ParseModes(<<sign, mode>>, <<k>>)) = OneMode(c, <<sign, mode, k>>)
    <2> DEFINE chars == <<sign, mode>>  args == <<k>>
    <2>1. Len(chars) = 2 /\ chars # <<>> /\ Head(chars) = sign /\ chars[1] = sign /\ chars[2] = mode
      OBVIOUS
    <2>2. ReadMode(Unread, sign, args) = [sign |-> sign, used |-> 0, out |-> <<>>]
      BY DEF ReadMode, Unread
    <2>3. ReadMode([sign |-> sign, used |-> 0, out |-> <<>>], mode, args).out = <<<<sign, mode, k>>>>
      BY DEF ReadMode, Unary
    <2> HIDE DEF chars, args
    <2>4. ParseModes(chars, args) = ReadTwo(chars, args).out
      BY <2>1, ParseIs
    <2>5. ReadTwo(chars, args) = ReadMode(ReadMode(Unread, sign, args), mode, args)
      BY <2>1 DEF ReadTwo
    <2>6. ParseModes(chars, args) = <<<<sign, mode, k>>>>
      BY <2>2, <2>3, <2>4, <2>5
    <2> QED
      BY <2>6, ApplyIs DEF chars, args
  <1>2. ApplyModes(c, ParseModes(<<"+", "l", mode>>, <<None, k>>)) =
          OneMode([c EXCEPT !.modes = @ \cup {"l"}], <<"+", mode, k>>)
    <2> DEFINE chars == <<"+", "l", mode>>  args == <<None, k>>
               r2 == [sign |-> "+", used |-> 1, out |-> <<<<"+", "l", None>>>>]
    <2>1. /\ Len(chars) = 3 /\ chars # <<>> /\ Head(chars) = "+"
          /\ chars[1] = "+" /\ chars[2] = "l" /\ chars[3] = mode
      OBVIOUS
    <2>2. ReadMode(Unread, "+", args) = [sign |-> "+", used |-> 0, out |-> <<>>]
      BY DEF ReadMode, Unread
    <2>3. ReadMode([sign |-> "+", used |-> 0, out |-> <<>>], "l", args) = r2
      <3>1. /\ Len(args) = 2 /\ args[1] = None /\ "l" \in Unary /\ "l" \notin {"+", "-"}
            /\ Append(<<>>, <<"+", "l", None>>) = <<<<"+", "l", None>>>>
        BY DEF Unary
      <3> HIDE DEF args
      <3>2. ReadMode([sign |-> "+", used |-> 0, out |-> <<>>], "l", args) =
              [sign |-> "+", used |-> 0 + 1, out |-> Append(<<>>, <<"+", "l", args[0 + 1]>>)]
        BY <3>1 DEF ReadMode
      <3> QED
        BY <3>1, <3>2
    <2>4. ReadMode(r2, mode, args).out = <<<<"+", "l", None>>, <<"+", mode, k>>>>
      <3>1. /\ Len(args) = 2 /\ args[2] = k /\ mode \in Unary /\ mode \notin {"+", "-"}
            /\ r2.sign = "+" /\ r2.used = 1 /\ r2.out = <<<<"+", "l", None>>>>
        BY DEF Unary
      <3>2. Append(<<<<"+", "l", None>>>>, <<"+", mode, k>>) = <<<<"+", "l", None>>, <<"+", mode, k>>>>
        BY AppendTwo
      <3> HIDE DEF args, r2
      <3>3. ReadMode(r2, mode, args).out = Append(r2.out, <<"+", mode, k>>)
        BY <3>1 DEF ReadMode
      <3> QED
        BY <3>1, <3>2, <3>3
    <2> HIDE DEF chars, args, r2
    <2>5. ParseModes(chars, args) = <<<<"+", "l", None>>, <<"+", mode, k>>>>
      BY <2>1, <2>2, <2>3, <2>4, ParseIs DEF ReadTwo
    <2>6. OneMode(c, <<"+", "l", None>>) = [c EXCEPT !.modes = @ \cup {"l"}]
      BY DEF OneMode, SetMode
    <2> QED
      BY <2>5, <2>6, ApplyIs DEF chars, args
  <1>3. ApplyModes(c, ParseModes(<<"-", "l", mode>>, <<k>>)) =
          OneMode([c EXCEPT !.modes = @ \ {"l"}], <<"-", mode, None>>)
    <2> DEFINE chars == <<"-", "l", mode>>  args == <<k>>
               r2 == [sign |-> "-", used |-> 1, out |-> <<<<"-", "l", k>>>>]
    <2>1. /\ Len(chars) = 3 /\ chars # <<>> /\ Head(chars) = "-"
          /\ chars[1] = "-" /\ chars[2] = "l" /\ chars[3] = mode
      OBVIOUS
    <2>2. ReadMode(Unread, "-", args) = [sign |-> "-", used |-> 0, out |-> <<>>]
      BY DEF ReadMode, Unread
    <2>3. ReadMode([sign |-> "-", used |-> 0, out |-> <<>>], "l", args) = r2
      <3>1. Len(args) = 1 /\ args[1] = k /\ "l" \in Unary /\ "l" \notin {"+", "-"}
        BY DEF Unary
      <3> HIDE DEF args
      <3> QED
        BY <3>1 DEF ReadMode
    <2>4. ReadMode(r2, mode, args).out = <<<<"-", "l", k>>, <<"-", mode, None>>>>
      <3>1. /\ Len(args) = 1 /\ mode \in Unary /\ mode \notin {"+", "-"}
            /\ r2.sign = "-" /\ r2.used = 1 /\ r2.out = <<<<"-", "l", k>>>>
        BY DEF Unary
      <3>2. Append(<<<<"-", "l", k>>>>, <<"-", mode, None>>) = <<<<"-", "l", k>>, <<"-", mode, None>>>>
        BY AppendTwo
      <3> HIDE DEF args, r2
      <3>3. ReadMode(r2, mode, args).out = Append(r2.out, <<"-", mode, None>>)
        BY <3>1 DEF ReadMode
      <3> QED
        BY <3>1, <3>2, <3>3
    <2> HIDE DEF chars, args, r2
    <2>5. ParseModes(chars, args) = <<<<"-", "l", k>>, <<"-", mode, None>>>>
      BY <2>1, <2>2, <2>3, <2>4, ParseIs DEF ReadTwo
    <2>6. OneMode(c, <<"-", "l", k>>) = [c EXCEPT !.modes = @ \ {"l"}]
      BY DEF OneMode, ClearMode
    <2> QED
      BY <2>5, <2>6, ApplyIs DEF chars, args
  <1> QED
    BY <1>1, <1>2, <1>3
-----------------------------------------------------------------------------
(* What the bot should know: who is in its channel, under which name and   *)
(* with which modes, and which names (in lower case) are not to be trusted. *)

Views == [in : BOOLEAN, real : Nicks, nicks : SUBSET Nicks, o : SUBSET Nicks, v : SUBSET Nicks,
          off : SUBSET Range(Low)]

Sound(p) ==
  /\ p \in Views /\ Alone(p.nicks) /\ p.o \subseteq p.nicks /\ p.v \subseteq p.nicks
  /\ p.in => p.real \in p.nicks

\* A table holds these names, apart from those that are not to be trusted.
Right(d, names, off) == \A k \in Nicks : Low[k] \notin off => (k \in d.data <=> k \in names)
Agrees(c, p) ==
  /\ GoodChannel(c)
  /\ Right(c.users, p.nicks, p.off) /\ Right(c.o, p.o, p.off) /\ Right(c.v, p.v, p.off)
  /\ c.users.data \subseteq p.nicks

\* What a change of nick, or of mode, makes of a view.
Moved(names, b, a) == IF b \in names THEN (names \ {b}) \cup {a} ELSE names
FollowsNick(p, b, a, q) ==
  /\ b \in p.nicks /\ a \in Nicks /\ (Low[a] = Low[b] \/ Fresh(a, p.nicks))
  /\ q = [in |-> TRUE, real |-> IF b = p.real THEN a ELSE p.real,
          nicks |-> Moved(p.nicks, b, a), o |-> Moved(p.o, b, a), v |-> Moved(p.v, b, a),
          off |-> IF Low[a] = Low[b] \/ Low[b] \in p.off THEN p.off \cup {Low[a], Low[b]} ELSE p.off]

Given(names, sign, k) == IF sign = "+" THEN names \cup {k} ELSE names \ {k}
ModeLine(sign, mode, k, withLimit, l) ==
  /\ l.chars = IF withLimit THEN <<sign, "l", mode>> ELSE <<sign, mode>>
  /\ l.args = IF withLimit /\ sign = "+" THEN <<None, k>> ELSE <<k>>
FollowsMode(p, l, q) ==
  \E k \in p.nicks, mode \in {"o", "v"}, sign \in {"+", "-"}, withLimit \in BOOLEAN :
    /\ ModeLine(sign, mode, k, withLimit, l)
    /\ q = [in |-> TRUE, real |-> p.real, nicks |-> p.nicks,
            o |-> IF mode = "o" THEN Given(p.o, sign, k) ELSE p.o,
            v |-> IF mode = "v" THEN Given(p.v, sign, k) ELSE p.v,
            off |-> IF withLimit /\ sign = "-" THEN p.off \cup {Low[k]} ELSE p.off]

Lists(names, q) ==
  /\ q.nicks = {e.nick : e \in names}
  /\ \A e \in names : Low[e.nick] \notin q.off =>
       (e.nick \in q.o <=> e.prefix = "o") /\ (e.nick \in q.v <=> e.prefix = "v")

FollowsNames(p, names, q) ==
  /\ q.in /\ q.real = p.real /\ p.nicks = {p.real} /\ p.o = {} /\ p.v = {} /\ p.off = {}
  /\ Lists(names, q)

\* What a line of the server makes of a view.
Follows(p, l, q) ==
  \/ /\ l.ev = "join" /\ ~p.in /\ l.nick = p.real
     /\ q = [in |-> TRUE, real |-> p.real, nicks |-> {p.real}, o |-> {}, v |-> {}, off |-> {}]
  \/ /\ l.ev = "join" /\ p.in /\ l.nick \in Nicks /\ Fresh(l.nick, p.nicks)
     /\ q = [in |-> TRUE, real |-> p.real, nicks |-> p.nicks \cup {l.nick}, o |-> p.o, v |-> p.v, off |-> p.off]
  \/ l.ev = "namreply" /\ p.in /\ FollowsNames(p, l.names, q)
  \/ l.ev = "kick" /\ p.in /\ l.nick = p.real /\ ~q.in /\ q.real = p.real
  \/ /\ l.ev \in {"part", "quit", "kick"} /\ p.in /\ l.nick \in p.nicks /\ l.nick # p.real
     /\ q = [in |-> TRUE, real |-> p.real, nicks |-> p.nicks \ {l.nick}, o |-> p.o \ {l.nick},
             v |-> p.v \ {l.nick}, off |-> p.off]
  \/ l.ev = "nick" /\ p.in /\ FollowsNick(p, l.nick, l.after, q)
  \/ l.ev = "mode" /\ p.in /\ FollowsMode(p, l, q)
  \/ l.ev = "say" /\ p.in /\ l.nick \in p.nicks /\ q = p

-----------------------------------------------------------------------------
(* The handlers follow the lines.                                          *)

LEMMA SoundIs ==
  ASSUME NEW p, Sound(p)
  PROVE  /\ p.in \in BOOLEAN /\ p.real \in Nicks /\ p.nicks \in SUBSET Nicks
         /\ p.o \subseteq p.nicks /\ p.v \subseteq p.nicks /\ p.off \subseteq Range(Low)
         /\ \A j, k \in p.nicks : Low[j] = Low[k] => j = k
  BY DEF Sound, Views, Alone

LEMMA AgreesIs ==
  ASSUME NEW c, NEW p, Agrees(c, p)
  PROVE  /\ c \in Channels /\ Good(c.users) /\ Good(c.o) /\ Good(c.v) /\ c # Absent
         /\ c.users \in Dicts /\ c.o \in Dicts /\ c.v \in Dicts
  BY NicksAssumption DEF Agrees, GoodChannel, Good

\* A channel by its parts.
LEMMA MadeChannel ==
  ASSUME NEW c, c \in [users : Dicts, o : Dicts, v : Dicts, modes : SUBSET {"b", "k", "l"}],
         Good(c.users), Good(c.o), Good(c.v)
  PROVE  GoodChannel(c)
  BY DEF GoodChannel, Channels

\* Whoever is alone in lower case leaves alone.
LEMMA RightDiscard ==
  ASSUME NEW d, Good(d), NEW all \in SUBSET Nicks, Alone(all), NEW names \in SUBSET all,
         NEW off, NEW k \in all, Right(d, names, off)
  PROVE  Good(Discard(d, k)) /\ Right(Discard(d, k), names \ {k}, off)
  <1>1. Good(Discard(d, k)) /\ \A n : n \in Discard(d, k).data <=> n \in d.data /\ Low[n] # Low[k]
    BY DiscardIs
  <1>2. \A n \in names : Low[n] = Low[k] => n = k
    BY DEF Alone
  <1> QED
    BY <1>1, <1>2 DEF Right

LEMMA RightSet ==
  ASSUME NEW d, Good(d), NEW all \in SUBSET Nicks, Alone(all), NEW names \in SUBSET all,
         NEW off, NEW k \in all, Right(d, names, off)
  PROVE  Good(SetKey(d, k)) /\ Right(SetKey(d, k), names \cup {k}, off)
  <1>1. Good(SetKey(d, k)) /\ \A n : n \in SetKey(d, k).data <=> n = k \/ (n \in d.data /\ Low[n] # Low[k])
    BY SetKeyIs
  <1>2. \A n \in names : Low[n] = Low[k] => n = k
    BY DEF Alone
  <1> QED
    BY <1>1, <1>2 DEF Right

\* A name and one that nobody has: whoever had the first has the second.
LEMMA RightMove ==
  ASSUME NEW d, Good(d), NEW all \in SUBSET Nicks, Alone(all), NEW names \in SUBSET all,
         NEW off, NEW b \in all, NEW a \in Nicks, Fresh(a, all), Low[b] \notin off, Right(d, names, off)
  PROVE  LET moved == IF HasKey(d, b) THEN Renamed(d, b, a) ELSE d
         IN  Good(moved) /\ Right(moved, Moved(names, b, a), off)
  <1>1. HasKey(d, b) => /\ Good(Renamed(d, b, a))
                        /\ \A n : n \in Renamed(d, b, a).data <=>
                             /\ n = a \/ (n \in d.data /\ Low[n] # Low[a])
                             /\ Low[n] # Low[b]
    BY RenamedIs
  <1>2. Low[a] # Low[b] /\ \A n \in all : Low[n] # Low[a] /\ (Low[n] = Low[b] => n = b)
    BY DEF Fresh, Alone
  <1>3. d.data \subseteq Nicks /\ (HasKey(d, b) <=> \E n \in d.data : Low[n] = Low[b])
    BY GoodIsAlone, HasKeyIs
  <1>4. \A n \in d.data : Low[n] = Low[b] => n \in names
    BY <1>3 DEF Right
  <1>5. HasKey(d, b) <=> b \in names
    BY <1>2, <1>3, <1>4 DEF Right
  <1>6. CASE HasKey(d, b)
    BY <1>1, <1>2, <1>3, <1>5, <1>6 DEF Right, Moved
  <1>7. CASE ~HasKey(d, b)
    BY <1>2, <1>5, <1>7 DEF Right, Moved
  <1> QED
    BY <1>6, <1>7

\* When neither of the two is to be trusted any more, all the others are as before.
LEMMA RightSpoiled ==
  ASSUME NEW d, Good(d), NEW names \in SUBSET Nicks, NEW off, NEW b \in Nicks, NEW a \in Nicks,
         Right(d, names, off), NEW spoilt, off \cup {Low[a], Low[b]} \subseteq spoilt
  PROVE  LET moved == IF HasKey(d, b) THEN Renamed(d, b, a) ELSE d
         IN  Good(moved) /\ Right(moved, Moved(names, b, a), spoilt)
  <1>1. HasKey(d, b) => /\ Good(Renamed(d, b, a))
                        /\ \A n : n \in Renamed(d, b, a).data <=>
                             /\ n = a \/ (n \in d.data /\ Low[n] # Low[a])
                             /\ Low[n] # Low[b]
    BY RenamedIs
  <1> QED
    BY <1>1 DEF Right, Moved

-----------------------------------------------------------------------------

LEMMA OwnJoinFollows ==
  ASSUME NEW k \in Nicks
  PROVE  Agrees(AddUser(NewChannel, k),
                [in |-> TRUE, real |-> k, nicks |-> {k}, o |-> {}, v |-> {}, off |-> {}])
  <1> DEFINE c == AddUser(NewChannel, k)
  <1>1. Good(EmptyDict) /\ EmptyDict.data = {} /\ EmptyDict \in Dicts
    BY EmptyIs DEF Good
  <1>2. Good(SetKey(EmptyDict, k)) /\ \A n : n \in SetKey(EmptyDict, k).data <=> n = k
    BY <1>1, SetKeyIs
  <1>3. SetKey(EmptyDict, k) \in Dicts
    BY <1>2 DEF Good
  <1>4. /\ c.users = SetKey(EmptyDict, k) /\ c.o = EmptyDict /\ c.v = EmptyDict
        /\ c \in [users : Dicts, o : Dicts, v : Dicts, modes : SUBSET {"b", "k", "l"}]
    BY <1>1, <1>3 DEF AddUser, NewChannel
  <1>5. GoodChannel(c)
    BY <1>1, <1>2, <1>4, MadeChannel
  <1> QED
    BY <1>1, <1>2, <1>4, <1>5 DEF Agrees, Right

LEMMA JoinFollows ==
  ASSUME NEW c, NEW p, Sound(p), Agrees(c, p), NEW k \in Nicks, Fresh(k, p.nicks)
  PROVE  Agrees(AddUser(c, k),
                [in |-> TRUE, real |-> p.real, nicks |-> p.nicks \cup {k}, o |-> p.o, v |-> p.v, off |-> p.off])
  <1> DEFINE d == AddUser(c, k)
  <1>1. /\ c \in Channels /\ Good(c.users) /\ Good(c.o) /\ Good(c.v) /\ c.users.data \subseteq p.nicks
        /\ Right(c.users, p.nicks, p.off) /\ Right(c.o, p.o, p.off) /\ Right(c.v, p.v, p.off)
    BY AgreesIs DEF Agrees
  <1>2. Good(SetKey(c.users, k)) /\ SetKey(c.users, k) \in Dicts
    BY <1>1, SetKeyIs DEF Good
  <1>3. \A n : n \in SetKey(c.users, k).data <=> n = k \/ n \in c.users.data
    BY <1>1, SetKeyIs DEF Fresh
  <1>4. /\ d.users = SetKey(c.users, k) /\ d.o = c.o /\ d.v = c.v
        /\ d \in [users : Dicts, o : Dicts, v : Dicts, modes : SUBSET {"b", "k", "l"}]
    BY <1>1, <1>2 DEF AddUser, Channels
  <1>5. GoodChannel(d)
    BY <1>1, <1>2, <1>4, MadeChannel
  <1> QED
    BY <1>1, <1>3, <1>4, <1>5 DEF Agrees, Right

LEMMA RemoveFollows ==
  ASSUME NEW c, NEW p, Sound(p), Agrees(c, p), NEW k \in p.nicks
  PROVE  Agrees(RemoveUser(c, k),
                [in |-> TRUE, real |-> p.real, nicks |-> p.nicks \ {k}, o |-> p.o \ {k}, v |-> p.v \ {k},
                 off |-> p.off])
  <1> DEFINE d == RemoveUser(c, k)
  <1>1. /\ c \in Channels /\ Good(c.users) /\ Good(c.o) /\ Good(c.v) /\ c.users.data \subseteq p.nicks
        /\ Right(c.users, p.nicks, p.off) /\ Right(c.o, p.o, p.off) /\ Right(c.v, p.v, p.off)
    BY AgreesIs DEF Agrees
  <1>2. /\ k \in Nicks /\ p.nicks \in SUBSET Nicks /\ Alone(p.nicks)
        /\ p.o \in SUBSET p.nicks /\ p.v \in SUBSET p.nicks
    BY SoundIs DEF Sound
  <1>3. /\ Good(Discard(c.users, k)) /\ Right(Discard(c.users, k), p.nicks \ {k}, p.off)
        /\ Good(Discard(c.o, k)) /\ Right(Discard(c.o, k), p.o \ {k}, p.off)
        /\ Good(Discard(c.v, k)) /\ Right(Discard(c.v, k), p.v \ {k}, p.off)
    BY <1>1, <1>2, RightDiscard
  <1>4. Discard(c.users, k).data \subseteq p.nicks \ {k}
    BY <1>1, <1>2, DiscardIs
  <1>5. Discard(c.users, k) \in Dicts /\ Discard(c.o, k) \in Dicts /\ Discard(c.v, k) \in Dicts
    BY <1>3 DEF Good
  <1>6. /\ d.users = Discard(c.users, k) /\ d.o = Discard(c.o, k) /\ d.v = Discard(c.v, k)
        /\ d \in [users : Dicts, o : Dicts, v : Dicts, modes : SUBSET {"b", "k", "l"}]
    BY <1>1, <1>5 DEF RemoveUser, Channels
  <1>7. GoodChannel(d)
    BY <1>3, <1>6, MadeChannel
  <1> QED
    BY <1>3, <1>4, <1>6, <1>7 DEF Agrees

\* A quit of somebody the bot has no entry for.
LEMMA UnknownFollows ==
  ASSUME NEW c, NEW p, Sound(p), Agrees(c, p), NEW k \in p.nicks, ~HasKey(c.users, k)
  PROVE  /\ Low[k] \in p.off
         /\ Agrees(c, [in |-> TRUE, real |-> p.real, nicks |-> p.nicks \ {k}, o |-> p.o \ {k}, v |-> p.v \ {k},
                       off |-> p.off])
  <1>1. k \in Nicks /\ k \notin c.users.data
    BY SoundIs, AgreesIs, HasKeyIs
  <1>2. Low[k] \in p.off
    BY <1>1 DEF Agrees, Right
  <1> QED
    BY <1>1, <1>2 DEF Agrees, Right

LEMMA NickFollows ==
  ASSUME NEW c, NEW p, Sound(p), Agrees(c, p), NEW b, NEW a, NEW q, FollowsNick(p, b, a, q)
  PROVE  Agrees(IF ~HasKey(c.users, b) THEN c ELSE ChangeNick(c, b, a), q)
  <1> DEFINE Move(x) == IF HasKey(x, b) THEN Renamed(x, b, a) ELSE x
  <1>1. /\ c \in Channels /\ Good(c.users) /\ Good(c.o) /\ Good(c.v) /\ c.users.data \subseteq p.nicks
        /\ Right(c.users, p.nicks, p.off) /\ Right(c.o, p.o, p.off) /\ Right(c.v, p.v, p.off)
    BY AgreesIs DEF Agrees
  <1>2. /\ b \in p.nicks /\ b \in Nicks /\ a \in Nicks /\ p.nicks \in SUBSET Nicks /\ Alone(p.nicks)
        /\ p.o \in SUBSET p.nicks /\ p.v \in SUBSET p.nicks /\ p.o \in SUBSET Nicks /\ p.v \in SUBSET Nicks
    BY SoundIs DEF Sound, FollowsNick
  <1>3. /\ q.nicks = Moved(p.nicks, b, a) /\ q.o = Moved(p.o, b, a) /\ q.v = Moved(p.v, b, a)
        /\ q.off = IF Low[a] = Low[b] \/ Low[b] \in p.off THEN p.off \cup {Low[a], Low[b]} ELSE p.off
    BY DEF FollowsNick
  <1>4. CASE ~HasKey(c.users, b)
    <2>1. b \notin c.users.data /\ Low[b] \in p.off
      BY <1>1, <1>2, <1>4, HasKeyIs, UnknownFollows
    <2>2. q.off = p.off \cup {Low[a], Low[b]}
      BY <1>3, <2>1
    <2>3. Right(c.users, q.nicks, q.off) /\ Right(c.o, q.o, q.off) /\ Right(c.v, q.v, q.off)
      BY <1>1, <1>3, <2>2 DEF Right, Moved
    <2>4. c.users.data \subseteq q.nicks
      BY <1>1, <1>3, <2>1 DEF Moved
    <2> QED
      BY <1>4, <2>3, <2>4 DEF Agrees
  <1>5. CASE HasKey(c.users, b)
    <2>1. /\ Good(Move(c.users)) /\ Right(Move(c.users), q.nicks, q.off)
          /\ Good(Move(c.o)) /\ Right(Move(c.o), q.o, q.off)
          /\ Good(Move(c.v)) /\ Right(Move(c.v), q.v, q.off)
      <3>1. CASE Low[a] = Low[b] \/ Low[b] \in p.off
        <4>1. p.off \cup {Low[a], Low[b]} \subseteq q.off
          BY <1>3, <3>1
        <4>2. Good(Move(c.users)) /\ Right(Move(c.users), Moved(p.nicks, b, a), q.off)
          BY <1>1, <1>2, <4>1, RightSpoiled
        <4>3. Good(Move(c.o)) /\ Right(Move(c.o), Moved(p.o, b, a), q.off)
          BY <1>1, <1>2, <4>1, RightSpoiled
        <4>4. Good(Move(c.v)) /\ Right(Move(c.v), Moved(p.v, b, a), q.off)
          BY <1>1, <1>2, <4>1, RightSpoiled
        <4> QED
          BY <1>3, <4>2, <4>3, <4>4
      <3>2. CASE ~(Low[a] = Low[b] \/ Low[b] \in p.off)
        <4>1. q.off = p.off /\ Low[b] \notin p.off /\ Fresh(a, p.nicks)
          BY <1>3, <3>2 DEF FollowsNick
        <4> QED
          BY <1>1, <1>2, <1>3, <4>1, RightMove
      <3> QED
        BY <3>1, <3>2
    <2>2. Renamed(c.users, b, a).data \subseteq q.nicks
      <3>1. \A n : n \in Renamed(c.users, b, a).data => (n = a \/ n \in c.users.data) /\ Low[n] # Low[b]
        BY <1>1, <1>2, <1>5, RenamedIs
      <3> QED
        BY <1>1, <1>2, <1>3, <3>1 DEF Moved
    <2> DEFINE d == ChangeNick(c, b, a)
    <2>3. Move(c.users) \in Dicts /\ Move(c.o) \in Dicts /\ Move(c.v) \in Dicts
      BY <2>1 DEF Good
    <2>4. /\ d.users = Move(c.users) /\ d.o = Move(c.o) /\ d.v = Move(c.v)
          /\ d \in [users : Dicts, o : Dicts, v : Dicts, modes : SUBSET {"b", "k", "l"}]
      BY <1>1, <1>5, <2>3 DEF ChangeNick, Channels
    <2>5. GoodChannel(d)
      BY <2>1, <2>4, MadeChannel
    <2> HIDE DEF d
    <2>6. Agrees(d, q)
      BY <1>5, <2>1, <2>2, <2>4, <2>5 DEF Agrees
    <2> QED
      BY <1>5, <2>6 DEF d
  <1> QED
    BY <1>4, <1>5

\* The mode that a user is given or loses, in a channel whose limit may have changed as well.
LEMMA SetModeFollows ==
  ASSUME NEW c, NEW p, Sound(p), Agrees(c, p), NEW k \in p.nicks, NEW mode \in {"o", "v"},
         NEW sign \in {"+", "-"}
  PROVE  Agrees(OneMode(c, <<sign, mode, k>>),
                [in |-> TRUE, real |-> p.real, nicks |-> p.nicks,
                 o |-> IF mode = "o" THEN Given(p.o, sign, k) ELSE p.o,
                 v |-> IF mode = "v" THEN Given(p.v, sign, k) ELSE p.v, off |-> p.off])
  <1> DEFINE d == OneMode(c, <<sign, mode, k>>)
             Change(x) == IF sign = "+" THEN SetKey(x, k) ELSE Discard(x, k)
  <1>1. /\ c \in Channels /\ Good(c.users) /\ Good(c.o) /\ Good(c.v) /\ c.users.data \subseteq p.nicks
        /\ Right(c.users, p.nicks, p.off) /\ Right(c.o, p.o, p.off) /\ Right(c.v, p.v, p.off)
        /\ c.users \in Dicts /\ c.o \in Dicts /\ c.v \in Dicts
    BY AgreesIs DEF Agrees
  <1>2. /\ p.nicks \in SUBSET Nicks /\ Alone(p.nicks) /\ p.o \in SUBSET p.nicks /\ p.v \in SUBSET p.nicks
    BY SoundIs DEF Sound
  <1>3. Good(Change(c.o)) /\ Right(Change(c.o), Given(p.o, sign, k), p.off)
    BY <1>1, <1>2, RightSet, RightDiscard DEF Given
  <1>4. Good(Change(c.v)) /\ Right(Change(c.v), Given(p.v, sign, k), p.off)
    BY <1>1, <1>2, RightSet, RightDiscard DEF Given
  <1>5. Change(c.o) \in Dicts /\ Change(c.v) \in Dicts
    BY <1>3, <1>4 DEF Good
  <1>6. d = IF sign = "+" THEN [c EXCEPT ![mode] = SetKey(c[mode], k)] ELSE [c EXCEPT ![mode] = Discard(c[mode], k)]
    BY DEF OneMode, SetMode, ClearMode
  <1> HIDE DEF d
  <1>7. CASE mode = "o"
    <2>1. /\ d.users = c.users /\ d.o = Change(c.o) /\ d.v = c.v
          /\ d \in [users : Dicts, o : Dicts, v : Dicts, modes : SUBSET {"b", "k", "l"}]
      BY <1>1, <1>5, <1>6, <1>7 DEF Channels
    <2>2. GoodChannel(d)
      BY <1>1, <1>3, <2>1, MadeChannel
    <2> QED
      BY <1>1, <1>3, <1>7, <2>1, <2>2 DEF Agrees, d
  <1>8. CASE mode = "v"
    <2>1. /\ d.users = c.users /\ d.o = c.o /\ d.v = Change(c.v)
          /\ d \in [users : Dicts, o : Dicts, v : Dicts, modes : SUBSET {"b", "k", "l"}]
      BY <1>1, <1>5, <1>6, <1>8 DEF Channels
    <2>2. GoodChannel(d)
      BY <1>1, <1>4, <2>1, MadeChannel
    <2> QED
      BY <1>1, <1>4, <1>8, <2>1, <2>2 DEF Agrees, d
  <1> QED
    BY <1>7, <1>8

LEMMA LimitAgrees ==
  ASSUME NEW c, NEW p, Agrees(c, p)
  PROVE  Agrees([c EXCEPT !.modes = @ \cup {"l"}], p) /\ Agrees([c EXCEPT !.modes = @ \ {"l"}], p)
  <1>1. ASSUME NEW modes \in SUBSET {"b", "k", "l"} PROVE Agrees([c EXCEPT !.modes = modes], p)
    <2> DEFINE d == [c EXCEPT !.modes = modes]
    <2>1. /\ d.users = c.users /\ d.o = c.o /\ d.v = c.v
          /\ d \in [users : Dicts, o : Dicts, v : Dicts, modes : SUBSET {"b", "k", "l"}]
      BY AgreesIs DEF Channels
    <2>2. GoodChannel(d)
      BY <2>1, AgreesIs, MadeChannel
    <2> HIDE DEF d
    <2>3. Agrees(d, p)
      BY <2>1, <2>2 DEF Agrees
    <2> QED
      BY <2>3 DEF d
  <1>2. c.modes \in SUBSET {"b", "k", "l"}
    BY AgreesIs DEF Channels
  <1> QED
    BY <1>1, <1>2

LEMMA ModeFollows ==
  ASSUME NEW c, NEW p, Sound(p), Agrees(c, p), NEW l, NEW q, FollowsMode(p, l, q)
  PROVE  Agrees(ApplyModes(c, ParseModes(l.chars, l.args)), q)
  <1>1. PICK k \in p.nicks, mode \in {"o", "v"}, sign \in {"+", "-"}, withLimit \in BOOLEAN :
          /\ ModeLine(sign, mode, k, withLimit, l)
          /\ q = [in |-> TRUE, real |-> p.real, nicks |-> p.nicks,
                  o |-> IF mode = "o" THEN Given(p.o, sign, k) ELSE p.o,
                  v |-> IF mode = "v" THEN Given(p.v, sign, k) ELSE p.v,
                  off |-> IF withLimit /\ sign = "-" THEN p.off \cup {Low[k]} ELSE p.off]
    BY DEF FollowsMode
  <1>2. c \in Channels /\ k \in Nicks
    BY AgreesIs, SoundIs
  <1>3. CASE ~withLimit
    <2>1. l.chars = <<sign, mode>> /\ l.args = <<k>>
      BY <1>1, <1>3 DEF ModeLine
    <2>2. ApplyModes(c, ParseModes(<<sign, mode>>, <<k>>)) = OneMode(c, <<sign, mode, k>>)
      BY <1>2, ModeLineIs
    <2> QED
      BY <1>1, <1>3, <2>1, <2>2, SetModeFollows
  <1>4. CASE withLimit /\ sign = "+"
    <2>1. l.chars = <<"+", "l", mode>> /\ l.args = <<None, k>>
      BY <1>1, <1>4 DEF ModeLine
    <2> DEFINE d == [c EXCEPT !.modes = @ \cup {"l"}]
    <2>2. ApplyModes(c, ParseModes(<<"+", "l", mode>>, <<None, k>>)) = OneMode(d, <<"+", mode, k>>)
      BY <1>2, ModeLineIs
    <2>3. Agrees(d, p)
      BY LimitAgrees
    <2> HIDE DEF d
    <2> QED
      BY <1>1, <1>4, <2>1, <2>2, <2>3, SetModeFollows
  <1>5. CASE withLimit /\ sign = "-"
    <2>1. l.chars = <<"-", "l", mode>> /\ l.args = <<k>>
      BY <1>1, <1>5 DEF ModeLine
    <2> DEFINE d == [c EXCEPT !.modes = @ \ {"l"}]
    <2>2. ApplyModes(c, ParseModes(<<"-", "l", mode>>, <<k>>)) = OneMode(d, <<"-", mode, None>>)
      BY <1>2, ModeLineIs
    <2>3. Agrees(d, p)
      BY LimitAgrees
    <2> HIDE DEF d
    <2>4. OneMode(d, <<"-", mode, None>>) = [d EXCEPT ![mode] = d[mode]]
      <3>1. Good(d.o) /\ Good(d.v)
        BY <2>3, AgreesIs
      <3>2. Discard(d[mode], None) = d[mode]
        BY <3>1, DiscardNone
      <3> QED
        BY <3>2 DEF OneMode, ClearMode
    <2>5. [d EXCEPT ![mode] = d[mode]] = d
      BY <2>3, AgreesIs DEF Channels
    <2>6. Agrees(d, q)
      <3>1. /\ q.nicks = p.nicks /\ q.off = p.off \cup {Low[k]}
            /\ q.o = (IF mode = "o" THEN p.o \ {k} ELSE p.o) /\ q.v = (IF mode = "v" THEN p.v \ {k} ELSE p.v)
        BY <1>1, <1>5 DEF Given
      <3> QED
        BY <2>3, <3>1 DEF Agrees, Right
    <2> QED
      BY <2>1, <2>2, <2>4, <2>5, <2>6
  <1> QED
    BY <1>3, <1>4, <1>5

\* Names listed into a table that is empty.
LEMMA SetKeysFirst ==
  ASSUME NEW d, Good(d), d.data = {}, NEW ks \in SUBSET Nicks, Alone(ks)
  PROVE  Good(SetKeys(d, ks)) /\ \A n : n \in SetKeys(d, ks).data <=> n \in ks
  BY SetKeysIs

LEMMA NamesFill ==
  ASSUME NEW c, GoodChannel(c), NEW names, NEW q, Sound(q), q.in, Lists(names, q),
         c.users.data \subseteq {q.real}, c.o.data = {}, c.v.data = {}
  PROVE  Agrees(NamReply(c, names), q) /\ c.users.data \subseteq NamReply(c, names).users.data
  <1> DEFINE d == NamReply(c, names)
             Listed(x) == {e.nick : e \in {y \in names : y.prefix = x}}
             all == {e.nick : e \in names}
  <1>1. /\ c \in Channels /\ Good(c.users) /\ Good(c.o) /\ Good(c.v)
    BY DEF GoodChannel
  <1>2. /\ all \in SUBSET Nicks /\ Alone(all) /\ q.nicks = all /\ q.real \in all
        /\ q.o \subseteq all /\ q.v \subseteq all
        /\ \A e \in names : Low[e.nick] \notin q.off =>
             (e.nick \in q.o <=> e.prefix = "o") /\ (e.nick \in q.v <=> e.prefix = "v")
    BY SoundIs DEF Sound, Lists
  <1>3. Listed("o") \in SUBSET Nicks /\ Alone(Listed("o")) /\ Listed("v") \in SUBSET Nicks /\ Alone(Listed("v"))
    BY <1>2 DEF Alone
  <1>4. c.o.data = {} /\ c.v.data = {} /\ c.users.data \subseteq {q.real}
    OBVIOUS
  <1>5. /\ Good(SetKeys(c.users, all)) /\ \A n : n \in SetKeys(c.users, all).data <=> n \in all
        /\ Good(SetKeys(c.o, Listed("o"))) /\ \A n : n \in SetKeys(c.o, Listed("o")).data <=> n \in Listed("o")
        /\ Good(SetKeys(c.v, Listed("v"))) /\ \A n : n \in SetKeys(c.v, Listed("v")).data <=> n \in Listed("v")
    <2>1. Good(SetKeys(c.users, all)) /\ \A n : n \in SetKeys(c.users, all).data <=> n \in all
      <3> HIDE DEF all
      <3>1. /\ Good(SetKeys(c.users, all))
            /\ \A n : n \in SetKeys(c.users, all).data <=> n \in all \/ (n \in c.users.data /\ Fresh(n, all))
        BY <1>1, <1>2, SetKeysIs
      <3> QED
        BY <1>2, <1>4, <3>1 DEF Fresh
    <2>2. Good(SetKeys(c.o, Listed("o"))) /\ \A n : n \in SetKeys(c.o, Listed("o")).data <=> n \in Listed("o")
      BY <1>1, <1>3, <1>4, SetKeysFirst
    <2>3. Good(SetKeys(c.v, Listed("v"))) /\ \A n : n \in SetKeys(c.v, Listed("v")).data <=> n \in Listed("v")
      BY <1>1, <1>3, <1>4, SetKeysFirst
    <2> QED
      BY <2>1, <2>2, <2>3
  <1>6. \A n \in Nicks : Low[n] \notin q.off =>
          (n \in Listed("o") <=> n \in q.o) /\ (n \in Listed("v") <=> n \in q.v)
    <2> SUFFICES ASSUME NEW n \in Nicks, Low[n] \notin q.off
                 PROVE  (n \in Listed("o") <=> n \in q.o) /\ (n \in Listed("v") <=> n \in q.v)
      OBVIOUS
    <2>1. CASE n \notin all
      BY <1>2, <2>1
    <2>2. CASE n \in all
      <3>1. PICK e \in names : e.nick = n
        BY <2>2
      <3>2. \A y \in names : y.nick = n => (y.prefix = "o" <=> n \in q.o) /\ (y.prefix = "v" <=> n \in q.v)
        BY <1>2
      <3> QED
        BY <3>1, <3>2
    <2> QED
      BY <2>1, <2>2
  <1>7. /\ SetKeys(c.users, all) \in Dicts /\ SetKeys(c.o, Listed("o")) \in Dicts
        /\ SetKeys(c.v, Listed("v")) \in Dicts
    BY <1>5 DEF Good
  <1>8. /\ d.users = SetKeys(c.users, all) /\ d.o = SetKeys(c.o, Listed("o")) /\ d.v = SetKeys(c.v, Listed("v"))
        /\ d \in [users : Dicts, o : Dicts, v : Dicts, modes : SUBSET {"b", "k", "l"}]
    BY <1>1, <1>7 DEF NamReply, Channels
  <1> HIDE DEF d, Listed, all
  <1>9. GoodChannel(d)
    BY <1>5, <1>8, MadeChannel
  <1>10. Agrees(d, q)
    <2>1. Right(d.users, q.nicks, q.off) /\ d.users.data \subseteq q.nicks
      BY <1>2, <1>5, <1>8 DEF Right
    <2>2. Right(d.o, q.o, q.off) /\ Right(d.v, q.v, q.off)
      BY <1>5, <1>6, <1>8 DEF Right
    <2> QED
      BY <1>9, <2>1, <2>2 DEF Agrees
  <1>11. c.users.data \subseteq d.users.data
    BY <1>2, <1>4, <1>5, <1>8
  <1> QED
    BY <1>10, <1>11 DEF d

LEMMA NamesFollow ==
  ASSUME NEW c, NEW p, Sound(p), Agrees(c, p), NEW names, NEW q, Sound(q), FollowsNames(p, names, q)
  PROVE  Agrees(NamReply(c, names), q) /\ c.users.data \subseteq NamReply(c, names).users.data
  <1>1. GoodChannel(c) /\ Right(c.users, {p.real}, {}) /\ Right(c.o, {}, {}) /\ Right(c.v, {}, {})
    BY DEF Agrees, FollowsNames
  <1>2. c.o.data \subseteq Nicks /\ c.v.data \subseteq Nicks /\ c.users.data \subseteq Nicks
    BY <1>1, GoodIsAlone DEF GoodChannel
  <1>3. c.o.data = {} /\ c.v.data = {} /\ c.users.data \subseteq {p.real}
    BY <1>1, <1>2 DEF Right
  <1>4. q.in /\ q.real = p.real /\ Lists(names, q)
    BY DEF FollowsNames, Lists
  <1> QED
    BY <1>1, <1>3, <1>4, NamesFill

-----------------------------------------------------------------------------
(* The lines on their way: P[i] is what the bot should know after i of them. *)

Leads(P, lines) ==
  /\ \A i \in 0 .. Len(lines) : Sound(P[i])
  /\ \A i \in 1 .. Len(lines) : Follows(P[i - 1], lines[i], P[i])
  /\ \A i \in 1 .. Len(lines) - 1 : P[i].in

LEMMA LeadsAppend ==
  ASSUME NEW S, NEW s \in Seq(S), NEW l, NEW P, Leads(P, s), NEW q, Sound(q), Follows(P[Len(s)], l, q),
         s = <<>> \/ P[Len(s)].in
  PROVE  \E Q : Leads(Q, Append(s, l)) /\ Q[0] = P[0] /\ Q[Len(Append(s, l))] = q
  <1> DEFINE t == Append(s, l)  n == Len(s)
             Q == [i \in 0 .. n + 1 |-> IF i <= n THEN P[i] ELSE q]
  <1>1. n \in Nat /\ Len(t) = n + 1 /\ \A i \in 1 .. n + 1 : t[i] = IF i <= n THEN s[i] ELSE l
    <2>1. s \in Seq(S \cup {l}) /\ l \in S \cup {l}
      BY SeqMonotonic
    <2> QED
      BY <2>1, AppendProperties, LenProperties
  <1>2. s = <<>> => n = 0
    BY EmptySeq
  <1> HIDE DEF t, n
  <1>3. \A i \in 0 .. n + 1 : Q[i] = IF i <= n THEN P[i] ELSE q
    OBVIOUS
  <1> HIDE DEF Q
  <1>4. \A i \in 0 .. Len(t) : Sound(Q[i])
    BY <1>1, <1>3 DEF Leads, n
  <1>5. ASSUME NEW i \in 1 .. Len(t) PROVE Follows(Q[i - 1], t[i], Q[i])
    <2>1. CASE i <= n
      BY <1>1, <1>3, <2>1 DEF Leads, n
    <2>2. CASE i = n + 1
      <3>1. Q[i - 1] = P[n] /\ t[i] = l /\ Q[i] = q
        BY <1>1, <1>3, <2>2
      <3> QED
        BY <3>1 DEF n
    <2> QED
      BY <1>1, <2>1, <2>2
  <1>6. ASSUME NEW i \in 1 .. Len(t) - 1 PROVE Q[i].in
    <2>1. i \in 1 .. n /\ Q[i] = P[i]
      BY <1>1, <1>3
    <2>2. CASE i <= n - 1
      BY <1>1, <2>1, <2>2 DEF Leads, n
    <2>3. CASE i = n
      BY <1>1, <1>2, <2>1, <2>3 DEF n
    <2> QED
      BY <1>1, <2>1, <2>2, <2>3
  <1>7. Leads(Q, t) /\ Q[0] = P[0] /\ Q[Len(t)] = q
    BY <1>1, <1>3, <1>4, <1>5, <1>6 DEF Leads
  <1> QED
    BY <1>7 DEF t

LEMMA LeadsTail ==
  ASSUME NEW S, NEW s \in Seq(S), s # <<>>, NEW P, Leads(P, s)
  PROVE  /\ Sound(P[0]) /\ Sound(P[1]) /\ Follows(P[0], Head(s), P[1])
         /\ Tail(s) # <<>> => P[1].in
         /\ \E Q : Leads(Q, Tail(s)) /\ Q[0] = P[1] /\ Q[Len(Tail(s))] = P[Len(s)]
  <1> DEFINE t == Tail(s)  n == Len(t)
             Q == [i \in 0 .. n |-> P[i + 1]]
  <1>1. n \in Nat /\ Len(s) = n + 1 /\ Head(s) = s[1] /\ \A i \in 1 .. n : t[i] = s[i + 1]
    BY HeadTailProperties, LenProperties, EmptySeq
  <1>2. t # <<>> => n # 0
    BY HeadTailProperties, EmptySeq
  <1> HIDE DEF t, n
  <1>3. \A i \in 0 .. n : Q[i] = P[i + 1]
    OBVIOUS
  <1> HIDE DEF Q
  <1>4. \A i \in 0 .. Len(t) : Sound(Q[i])
    BY <1>1, <1>3 DEF Leads, n
  <1>5. ASSUME NEW i \in 1 .. Len(t) PROVE Follows(Q[i - 1], t[i], Q[i])
    <2>1. i \in 1 .. n /\ i - 1 \in 0 .. n /\ i + 1 \in 1 .. Len(s) /\ i \in 0 .. n
      BY <1>1 DEF n
    <2>2. Q[i - 1] = P[i] /\ t[i] = s[i + 1] /\ Q[i] = P[i + 1]
      BY <1>1, <1>3, <2>1
    <2>3. Follows(P[(i + 1) - 1], s[i + 1], P[i + 1])
      BY <2>1 DEF Leads
    <2> QED
      BY <2>1, <2>2, <2>3
  <1>6. ASSUME NEW i \in 1 .. Len(t) - 1 PROVE Q[i].in
    BY <1>1, <1>3 DEF Leads, n
  <1>7. Leads(Q, t) /\ Q[0] = P[1] /\ Q[Len(t)] = P[Len(s)]
    BY <1>1, <1>3, <1>4, <1>5, <1>6 DEF Leads, n
  <1>8. /\ Sound(P[0]) /\ Sound(P[1]) /\ Follows(P[0], Head(s), P[1])
        /\ t # <<>> => P[1].in
    BY <1>1, <1>2 DEF Leads
  <1> QED
    BY <1>7, <1>8 DEF t

LEMMA LeadsNowhere ==
  ASSUME NEW p, Sound(p)
  PROVE  \E Q : Leads(Q, <<>>) /\ Q[0] = p /\ Q[Len(<<>>)] = p
  <1> DEFINE Q == [i \in {0} |-> p]
  <1>1. Len(<<>>) = 0
    OBVIOUS
  <1>2. Q[0] = p /\ \A i \in 0 .. 0 : i = 0
    OBVIOUS
  <1> HIDE DEF Q
  <1> QED
    BY <1>1, <1>2 DEF Leads

Pending == batch \o wire

\* Every line is something.
AreLines == \E S : batch \in Seq(S) /\ wire \in Seq(S)

LEMMA PendingAppend ==
  ASSUME AreLines, NEW l
  PROVE  /\ \E S : Pending \in Seq(S)
         /\ batch \o Append(wire, l) = Append(Pending, l)
         /\ \E S : batch \in Seq(S) /\ Append(wire, l) \in Seq(S)
  <1>1. PICK S : batch \in Seq(S) /\ wire \in Seq(S)
    BY DEF AreLines
  <1> DEFINE T == S \cup {l}
  <1>2. batch \in Seq(T) /\ wire \in Seq(T) /\ l \in T
    BY <1>1, SeqMonotonic
  <1> HIDE DEF T
  <1>3. Pending \in Seq(T) /\ Append(wire, l) \in Seq(T) /\ <<l>> \in Seq(T)
    BY <1>2, ConcatProperties, AppendProperties DEF Pending
  <1>4. Append(wire, l) = wire \o <<l>> /\ Append(Pending, l) = Pending \o <<l>>
    BY <1>2, <1>3, AppendIsConcat
  <1>5. batch \o (wire \o <<l>>) = (batch \o wire) \o <<l>>
    BY <1>2, <1>3, ConcatAssociative
  <1> QED
    BY <1>2, <1>3, <1>4, <1>5 DEF Pending

LEMMA PendingTail ==
  ASSUME AreLines, batch # <<>>
  PROVE  /\ \E S : Pending \in Seq(S)
         /\ Pending # <<>> /\ Head(Pending) = Head(batch) /\ Tail(batch) \o wire = Tail(Pending)
         /\ \E S : Tail(batch) \in Seq(S) /\ wire \in Seq(S)
  <1>1. PICK S : batch \in Seq(S) /\ wire \in Seq(S)
    BY DEF AreLines
  <1>2. Pending \in Seq(S) /\ Tail(batch) \in Seq(S) /\ Pending # <<>>
    BY <1>1, ConcatProperties, HeadTailProperties, ConcatEqualIffEmpty DEF Pending
  <1> DEFINE b == Len(batch)  w == Len(wire)  t == Tail(batch)
  <1>3. b \in Nat \ {0} /\ w \in Nat
    BY <1>1, EmptySeq, LenProperties
  <1>4. /\ Len(Pending) = b + w /\ Len(t) = b - 1 /\ Len(t \o wire) = b - 1 + w
             /\ Len(Tail(Pending)) = b + w - 1
        /\ t \o wire \in Seq(S) /\ Tail(Pending) \in Seq(S)
    BY <1>1, <1>2, ConcatProperties, HeadTailProperties DEF Pending
  <1>5. Head(Pending) = Head(batch)
    <2>1. Head(Pending) = Pending[1] /\ Head(batch) = batch[1]
      OBVIOUS
    <2>2. Pending[1] = batch[1]
      BY <1>1, <1>3, ConcatProperties DEF Pending
    <2> QED
      BY <2>1, <2>2
  <1>6. ASSUME NEW i \in 1 .. b - 1 + w PROVE (t \o wire)[i] = Tail(Pending)[i]
    <2>1. (t \o wire)[i] = IF i <= b - 1 THEN t[i] ELSE wire[i - (b - 1)]
      BY <1>1, <1>2, <1>3, <1>4, ConcatProperties
    <2>2. Tail(Pending)[i] = Pending[i + 1]
      BY <1>2, <1>3, <1>4, HeadTailProperties
    <2>3. Pending[i + 1] = IF i + 1 <= b THEN batch[i + 1] ELSE wire[(i + 1) - b]
      BY <1>1, <1>3, ConcatProperties DEF Pending
    <2>4. i <= b - 1 => t[i] = batch[i + 1]
      BY <1>1, <1>3, <1>4, HeadTailProperties
    <2> HIDE DEF t, b, w
    <2>5. i - (b - 1) = (i + 1) - b /\ (i <= b - 1 <=> i + 1 <= b)
      BY <1>3
    <2> QED
      BY <2>1, <2>2, <2>3, <2>4, <2>5
  <1>7. t \o wire = Tail(Pending)
    BY <1>3, <1>4, <1>6, SeqEqual
  <1> QED
    BY <1>1, <1>2, <1>5, <1>7

-----------------------------------------------------------------------------
(* What the server has done: who is in the channel, as the bot should see it. *)

NicksWith(mem, l) == {mem[m].nick : m \in {x \in DOMAIN mem : l \in mem[x].modes}}
ViewOf(mem, nick, off) ==
  [in |-> TRUE, real |-> nick, nicks |-> {mem[m].nick : m \in DOMAIN mem},
   o |-> NicksWith(mem, "o"), v |-> NicksWith(mem, "v"), off |-> off]

Members(mem) ==
  /\ DOMAIN mem \subseteq Users \cup {Me}
  /\ \A m \in DOMAIN mem : mem[m] \in [nick : Nicks, modes : SUBSET {"o", "v"}]

\* No two have the same nick in lower case, and nobody has the bot's.
NicksOfOne(mem, nick) ==
  /\ \A m, k \in DOMAIN mem : Low[mem[m].nick] = Low[mem[k].nick] => m = k
  /\ \A m \in DOMAIN mem : m # Me => Low[mem[m].nick] # Low[nick]
  /\ Me \in DOMAIN mem => mem[Me].nick = nick

Peopled(mem, nick) == Members(mem) /\ NicksOfOne(mem, nick)

\* One member more, one less, and one with another nick or other modes.
Added(mem, u, k, mem2) ==
  /\ u \notin DOMAIN mem /\ DOMAIN mem2 = DOMAIN mem \cup {u} /\ \A m \in DOMAIN mem : mem2[m] = mem[m]
  /\ mem2[u] \in [nick : Nicks, modes : SUBSET {"o", "v"}] /\ mem2[u].nick = k /\ mem2[u].modes = {}
Removed(mem, u, mem2) ==
  u \in DOMAIN mem /\ DOMAIN mem2 = DOMAIN mem \ {u} /\ \A m \in DOMAIN mem2 : mem2[m] = mem[m]
Changed(mem, u, k, modes, mem2) ==
  /\ u \in DOMAIN mem /\ DOMAIN mem2 = DOMAIN mem /\ \A m \in DOMAIN mem \ {u} : mem2[m] = mem[m]
  /\ mem2[u] \in [nick : Nicks, modes : SUBSET {"o", "v"}] /\ mem2[u].nick = k /\ mem2[u].modes = modes

LEMMA ViewSound ==
  ASSUME NEW mem, NEW nick \in Nicks, NEW off \in SUBSET Range(Low), Peopled(mem, nick), Me \in DOMAIN mem
  PROVE  Sound(ViewOf(mem, nick, off))
  <1> DEFINE p == ViewOf(mem, nick, off)
  <1>1. /\ p.nicks \in SUBSET Nicks /\ p.o \subseteq p.nicks /\ p.v \subseteq p.nicks
        /\ p.in /\ p.real = nick /\ p.off = off /\ nick \in p.nicks
    BY DEF ViewOf, NicksWith, Peopled, Members, NicksOfOne
  <1>2. Alone(p.nicks)
    BY DEF ViewOf, Peopled, NicksOfOne, Alone
  <1>3. p \in Views
    BY <1>1 DEF ViewOf, Views
  <1> HIDE DEF p
  <1>4. Sound(p)
    BY <1>1, <1>2, <1>3 DEF Sound
  <1> QED
    BY <1>4 DEF p

LEMMA JoinsView ==
  ASSUME NEW mem, NEW nick \in Nicks, NEW off, Peopled(mem, nick), NEW u \in Users,
         NEW k \in Nicks, Low[k] # Low[nick], \A m \in DOMAIN mem : Low[mem[m].nick] # Low[k],
         NEW mem2, Added(mem, u, k, mem2), NEW l, l.ev = "join", l.nick = k
  PROVE  /\ Peopled(mem2, nick) /\ (Me \in DOMAIN mem2 <=> Me \in DOMAIN mem)
         /\ Me \in DOMAIN mem => Follows(ViewOf(mem, nick, off), l, ViewOf(mem2, nick, off))
  <1>0. u # Me
    BY NicksAssumption
  <1>1. /\ DOMAIN mem2 = DOMAIN mem \cup {u} /\ u # Me
        /\ \A m \in DOMAIN mem : mem2[m] = mem[m]
        /\ mem2[u] \in [nick : Nicks, modes : SUBSET {"o", "v"}] /\ mem2[u].nick = k /\ mem2[u].modes = {}
    BY <1>0 DEF Added
  <1>2. Members(mem2)
    BY <1>1 DEF Peopled, Members
  <1>3. NicksOfOne(mem2, nick)
    <2>1. ASSUME NEW m \in DOMAIN mem2, NEW j \in DOMAIN mem2, Low[mem2[m].nick] = Low[mem2[j].nick]
          PROVE  m = j
      <3>1. CASE m = u
        BY <1>1, <2>1, <3>1
      <3>2. CASE j = u
        BY <1>1, <2>1, <3>2
      <3>3. CASE m # u /\ j # u
        BY <1>1, <2>1, <3>3 DEF Peopled, NicksOfOne
      <3> QED
        BY <3>1, <3>2, <3>3
    <2> QED
      BY <1>1, <2>1 DEF Peopled, NicksOfOne
  <1>4. {mem2[m].nick : m \in DOMAIN mem2} = {mem[m].nick : m \in DOMAIN mem} \cup {k}
    <2>1. \A m \in DOMAIN mem2 : m = u \/ (m \in DOMAIN mem /\ mem2[m] = mem[m])
      BY <1>1
    <2> QED
      BY <1>1, <2>1
  <1>5. ASSUME NEW x PROVE NicksWith(mem2, x) = NicksWith(mem, x)
    BY <1>1 DEF NicksWith
  <1>6. ViewOf(mem2, nick, off) =
          [in |-> TRUE, real |-> nick, nicks |-> {mem[m].nick : m \in DOMAIN mem} \cup {k},
           o |-> NicksWith(mem, "o"), v |-> NicksWith(mem, "v"), off |-> off]
    BY <1>4, <1>5 DEF ViewOf
  <1>7. Fresh(k, {mem[m].nick : m \in DOMAIN mem})
    BY DEF Fresh
  <1>8. Follows(ViewOf(mem, nick, off), l, ViewOf(mem2, nick, off))
    BY <1>6, <1>7 DEF Follows, ViewOf
  <1> QED
    BY <1>1, <1>2, <1>3, <1>8 DEF Peopled

LEMMA LeavesView ==
  ASSUME NEW mem, NEW nick \in Nicks, NEW off, Peopled(mem, nick), NEW u \in DOMAIN mem, u # Me,
         NEW mem2, Removed(mem, u, mem2),
         NEW l, l.ev \in {"part", "quit", "kick"}, l.nick = mem[u].nick
  PROVE  /\ Peopled(mem2, nick) /\ (Me \in DOMAIN mem2 <=> Me \in DOMAIN mem)
         /\ Me \in DOMAIN mem => Follows(ViewOf(mem, nick, off), l, ViewOf(mem2, nick, off))
  <1>1. DOMAIN mem2 = DOMAIN mem \ {u} /\ \A m \in DOMAIN mem2 : mem2[m] = mem[m]
    BY DEF Removed
  <1>2. Members(mem2)
    BY <1>1 DEF Peopled, Members
  <1>3. NicksOfOne(mem2, nick)
    BY <1>1 DEF Peopled, NicksOfOne
  <1>4. \A m, k \in DOMAIN mem : mem[m].nick = mem[k].nick => m = k
    BY DEF Peopled, NicksOfOne
  <1>5. {mem2[m].nick : m \in DOMAIN mem2} = {mem[m].nick : m \in DOMAIN mem} \ {mem[u].nick}
    BY <1>1, <1>4
  <1>6. ASSUME NEW x PROVE NicksWith(mem2, x) = NicksWith(mem, x) \ {mem[u].nick}
    BY <1>1, <1>4 DEF NicksWith
  <1>7. ViewOf(mem2, nick, off) =
          [in |-> TRUE, real |-> nick, nicks |-> {mem[m].nick : m \in DOMAIN mem} \ {mem[u].nick},
           o |-> NicksWith(mem, "o") \ {mem[u].nick}, v |-> NicksWith(mem, "v") \ {mem[u].nick}, off |-> off]
    BY <1>5, <1>6 DEF ViewOf
  <1>8. mem[u].nick # nick
    BY DEF Peopled, NicksOfOne
  <1>9. Follows(ViewOf(mem, nick, off), l, ViewOf(mem2, nick, off))
    BY <1>7, <1>8 DEF Follows, ViewOf
  <1> QED
    BY <1>1, <1>2, <1>3, <1>9 DEF Peopled

\* The names that a change of nick spoils.
Spoils(off, b, k) == IF Low[k] = Low[b] \/ Low[b] \in off THEN off \cup {Low[k], Low[b]} ELSE off

NickAfter(nick, u, k) == IF u = Me THEN k ELSE nick

\* A change of nick, of a user or of the bot.
LEMMA RenamesView ==
  ASSUME NEW mem, NEW nick \in Nicks, NEW off, Peopled(mem, nick), NEW u \in DOMAIN mem, NEW k \in Nicks,
         Low[k] = Low[mem[u].nick] \/ \A m \in DOMAIN mem : Low[mem[m].nick] # Low[k],
         u = Me \/ Low[k] # Low[nick],
         NEW mem2, Changed(mem, u, k, mem[u].modes, mem2), NEW l, l.ev = "nick", l.nick = mem[u].nick, l.after = k
  PROVE  /\ Peopled(mem2, NickAfter(nick, u, k))
         /\ Me \in DOMAIN mem =>
              Follows(ViewOf(mem, nick, off), l, ViewOf(mem2, NickAfter(nick, u, k), Spoils(off, mem[u].nick, k)))
  <1> USE DEF Changed
  <1> DEFINE nick2 == NickAfter(nick, u, k)  off2 == Spoils(off, mem[u].nick, k)
  <1>0. nick2 = IF u = Me THEN k ELSE nick
    BY DEF NickAfter
  <1> HIDE DEF nick2
  <1> DEFINE b == mem[u].nick  names == {mem[m].nick : m \in DOMAIN mem}
  <1>1. \A m, j \in DOMAIN mem : Low[mem[m].nick] = Low[mem[j].nick] => m = j
    BY DEF Peopled, NicksOfOne
  <1>2. \A m \in DOMAIN mem \ {u} : Low[mem[m].nick] # Low[k] /\ Low[mem[m].nick] # Low[b]
    BY <1>1
  <1>3. Members(mem2)
    BY DEF Peopled, Members
  <1>4. NicksOfOne(mem2, nick2)
    <2>1. ASSUME NEW m \in DOMAIN mem, NEW j \in DOMAIN mem, Low[mem2[m].nick] = Low[mem2[j].nick]
          PROVE  m = j
      <3>1. CASE m = u
        BY <1>2, <2>1, <3>1
      <3>2. CASE j = u
        BY <1>2, <2>1, <3>2
      <3>3. CASE m # u /\ j # u
        BY <1>1, <2>1, <3>3
      <3> QED
        BY <3>1, <3>2, <3>3
    <2>2. ASSUME NEW m \in DOMAIN mem, m # Me PROVE Low[mem2[m].nick] # Low[nick2]
      <3>1. CASE m = u
        BY <1>0, <2>2, <3>1
      <3>2. CASE m # u /\ u = Me
        BY <1>0, <1>2, <3>2
      <3>3. CASE m # u /\ u # Me
        BY <1>0, <2>2, <3>3 DEF Peopled, NicksOfOne
      <3> QED
        BY <3>1, <3>2, <3>3
    <2>3. Me \in DOMAIN mem => mem2[Me].nick = nick2
      BY <1>0 DEF Peopled, NicksOfOne
    <2> QED
      BY <2>1, <2>2, <2>3 DEF NicksOfOne
  <1>5. ASSUME Me \in DOMAIN mem
        PROVE  Follows(ViewOf(mem, nick, off), l, ViewOf(mem2, nick2, off2))
    <2>1. b \in names /\ (Low[k] = Low[b] \/ Fresh(k, names))
      BY DEF Fresh
    <2>2. {mem2[m].nick : m \in DOMAIN mem2} = Moved(names, b, k)
      <3>1. \A m \in DOMAIN mem \ {u} : mem2[m].nick = mem[m].nick /\ mem[m].nick # b
        BY <1>2
      <3> HIDE DEF b
      <3>2. {mem2[m].nick : m \in DOMAIN mem} = (names \ {b}) \cup {k}
        BY <3>1 DEF b
      <3> QED
        BY <2>1, <3>2 DEF Moved
    <2>3. ASSUME NEW x PROVE NicksWith(mem2, x) = Moved(NicksWith(mem, x), b, k)
      <3>1. \A m \in DOMAIN mem \ {u} : mem2[m].nick = mem[m].nick /\ mem[m].nick # b /\ mem2[m].modes = mem[m].modes
        BY <1>2
      <3>2. b \in NicksWith(mem, x) <=> x \in mem[u].modes
        BY <3>1 DEF NicksWith
      <3> HIDE DEF b
      <3>3. CASE x \in mem[u].modes
        <4>1. NicksWith(mem2, x) = (NicksWith(mem, x) \ {b}) \cup {k}
          BY <3>1, <3>3 DEF NicksWith, b
        <4> QED
          BY <3>2, <3>3, <4>1 DEF Moved
      <3>4. CASE x \notin mem[u].modes
        <4>1. NicksWith(mem2, x) = NicksWith(mem, x)
          BY <3>1, <3>4 DEF NicksWith
        <4> QED
          BY <3>2, <3>4, <4>1 DEF Moved
      <3> QED
        BY <3>3, <3>4
    <2>4. nick2 = IF b = nick THEN k ELSE nick
      BY <1>0, <1>5 DEF Peopled, NicksOfOne
    <2>10. l.ev = "nick" /\ l.nick = b /\ l.after = k
      OBVIOUS
    <2>5. off2 = IF Low[k] = Low[b] \/ Low[b] \in off THEN off \cup {Low[k], Low[b]} ELSE off
      BY DEF Spoils
    <2> HIDE DEF b, names, off2
    <2> DEFINE p == ViewOf(mem, nick, off)  q == ViewOf(mem2, nick2, off2)
    <2>6. p.in /\ p.real = nick /\ p.nicks = names /\ p.o = NicksWith(mem, "o") /\ p.v = NicksWith(mem, "v")
            /\ p.off = off
      BY DEF ViewOf, names
    <2>7. q = [in |-> TRUE, real |-> nick2, nicks |-> Moved(names, b, k),
               o |-> Moved(NicksWith(mem, "o"), b, k), v |-> Moved(NicksWith(mem, "v"), b, k), off |-> off2]
      BY <2>2, <2>3 DEF ViewOf
    <2> HIDE DEF p, q
    <2>8. FollowsNick(p, b, k, q)
      BY <2>1, <2>4, <2>5, <2>6, <2>7 DEF FollowsNick
    <2>9. Follows(p, l, q)
      BY <2>6, <2>8, <2>10 DEF Follows
    <2> QED
      BY <2>9 DEF p, q
  <1> QED
    BY <1>3, <1>4, <1>5 DEF Peopled, nick2

\* The name that a limit spoils.
LimitSpoils(off, withLimit, sign, k) == IF withLimit /\ sign = "-" THEN off \cup {Low[k]} ELSE off

\* Somebody gives or takes a mode.
LEMMA ModeView ==
  ASSUME NEW mem, NEW nick \in Nicks, NEW off, Peopled(mem, nick), NEW u \in DOMAIN mem,
         NEW mode \in {"o", "v"}, NEW sign \in {"+", "-"}, NEW withLimit \in BOOLEAN,
         NEW mem2, Changed(mem, u, mem[u].nick, Given(mem[u].modes, sign, mode), mem2),
         NEW l, l.ev = "mode", ModeLine(sign, mode, mem[u].nick, withLimit, l)
  PROVE  /\ Peopled(mem2, nick)
         /\ Me \in DOMAIN mem =>
              Follows(ViewOf(mem, nick, off), l, ViewOf(mem2, nick, LimitSpoils(off, withLimit, sign, mem[u].nick)))
  <1> USE DEF Changed
  <1> DEFINE off2 == LimitSpoils(off, withLimit, sign, mem[u].nick)
             k == mem[u].nick  names == {mem[m].nick : m \in DOMAIN mem}
  <1>1. \A m \in DOMAIN mem : mem2[m].nick = mem[m].nick
    OBVIOUS
  <1>2. Members(mem2)
    BY DEF Peopled, Members
  <1>3. NicksOfOne(mem2, nick)
    BY <1>1 DEF Peopled, NicksOfOne
  <1>4. \A m \in DOMAIN mem : mem[m].nick = k => m = u
    BY DEF Peopled, NicksOfOne
  <1>5. {mem2[m].nick : m \in DOMAIN mem2} = names /\ k \in names
    BY <1>1
  <1>6. /\ off2 = IF withLimit /\ sign = "-" THEN off \cup {Low[k]} ELSE off
        /\ ModeLine(sign, mode, k, withLimit, l)
    BY DEF LimitSpoils
  <1>7. ASSUME NEW x PROVE NicksWith(mem2, x) = IF x = mode THEN Given(NicksWith(mem, x), sign, k) ELSE NicksWith(mem, x)
    <2>1. \A m \in DOMAIN mem : x \in mem2[m].modes <=> IF m = u /\ x = mode THEN sign = "+" ELSE x \in mem[m].modes
      BY DEF Given
    <2> QED
      BY <1>1, <1>4, <2>1 DEF NicksWith, Given
  <1> HIDE DEF k, names, off2
  <1> DEFINE p == ViewOf(mem, nick, off)  q == ViewOf(mem2, nick, off2)
  <1>8. p.in /\ p.real = nick /\ p.nicks = names /\ p.o = NicksWith(mem, "o") /\ p.v = NicksWith(mem, "v")
          /\ p.off = off
    BY DEF ViewOf, names
  <1>9. q = [in |-> TRUE, real |-> nick, nicks |-> names,
             o |-> IF mode = "o" THEN Given(NicksWith(mem, "o"), sign, k) ELSE NicksWith(mem, "o"),
             v |-> IF mode = "v" THEN Given(NicksWith(mem, "v"), sign, k) ELSE NicksWith(mem, "v"), off |-> off2]
    BY <1>5, <1>7 DEF ViewOf
  <1> HIDE DEF p, q
  <1>10. FollowsMode(p, l, q)
    <2>1. /\ k \in p.nicks /\ ModeLine(sign, mode, k, withLimit, l)
          /\ q = [in |-> TRUE, real |-> p.real, nicks |-> p.nicks,
                  o |-> IF mode = "o" THEN Given(p.o, sign, k) ELSE p.o,
                  v |-> IF mode = "v" THEN Given(p.v, sign, k) ELSE p.v,
                  off |-> IF withLimit /\ sign = "-" THEN p.off \cup {Low[k]} ELSE p.off]
      BY <1>5, <1>6, <1>8, <1>9
    <2> QED
      BY <2>1 DEF FollowsMode
  <1>11. Follows(p, l, q)
    BY <1>8, <1>10 DEF Follows
  <1> QED
    BY <1>2, <1>3, <1>11 DEF Peopled, p, q, off2

\* The bot joins, and is told the names.
LEMMA NamesView ==
  ASSUME NEW mem, NEW nick \in Nicks, Peopled(mem, nick),
         NEW mem2, Added(mem, Me, nick, mem2),
         NEW names, \A e \in names : \E m \in DOMAIN mem2 : e.nick = mem2[m].nick /\ e.prefix = Prefix(mem2[m]),
         \A m \in DOMAIN mem2 : \E e \in names : e.nick = mem2[m].nick,
         NEW off2 \in SUBSET Range(Low),
         \A m \in DOMAIN mem2 : {"o", "v"} \subseteq mem2[m].modes => Low[mem2[m].nick] \in off2,
         NEW p, p.nicks = {nick}, p.o = {}, p.v = {}, p.off = {}, p.real = nick
  PROVE  /\ Peopled(mem2, nick)
         /\ FollowsNames(p, names, ViewOf(mem2, nick, off2))
  <1> USE DEF Added
  <1>1. Members(mem2)
    BY DEF Peopled, Members
  <1>2. NicksOfOne(mem2, nick)
    <2>1. ASSUME NEW m \in DOMAIN mem2, NEW j \in DOMAIN mem2, Low[mem2[m].nick] = Low[mem2[j].nick]
          PROVE  m = j
      <3>1. CASE m = Me
        BY <2>1, <3>1 DEF Peopled, NicksOfOne
      <3>2. CASE j = Me
        BY <2>1, <3>2 DEF Peopled, NicksOfOne
      <3>3. CASE m # Me /\ j # Me
        BY <2>1, <3>3 DEF Peopled, NicksOfOne
      <3> QED
        BY <3>1, <3>2, <3>3
    <2> QED
      BY <2>1 DEF Peopled, NicksOfOne
  <1>3. {e.nick : e \in names} = {mem2[m].nick : m \in DOMAIN mem2}
    OBVIOUS
  <1>4. ASSUME NEW e \in names, Low[e.nick] \notin off2
        PROVE  (e.nick \in NicksWith(mem2, "o") <=> e.prefix = "o") /\ (e.nick \in NicksWith(mem2, "v") <=> e.prefix = "v")
    <2>1. PICK m \in DOMAIN mem2 : e.nick = mem2[m].nick /\ e.prefix = Prefix(mem2[m])
      OBVIOUS
    <2>2. ~({"o", "v"} \subseteq mem2[m].modes)
      BY <1>4, <2>1
    <2>3. \A j \in DOMAIN mem2 : mem2[j].nick = e.nick => j = m
      BY <1>2, <2>1 DEF NicksOfOne
    <2>4. \A l : e.nick \in NicksWith(mem2, l) <=> l \in mem2[m].modes
      BY <2>1, <2>3 DEF NicksWith
    <2> QED
      BY <2>1, <2>2, <2>4 DEF Prefix
  <1>5. FollowsNames(p, names, ViewOf(mem2, nick, off2))
    <2> DEFINE q == ViewOf(mem2, nick, off2)
    <2>1. /\ q.in /\ q.real = nick /\ q.nicks = {mem2[m].nick : m \in DOMAIN mem2} /\ q.off = off2
          /\ q.o = NicksWith(mem2, "o") /\ q.v = NicksWith(mem2, "v")
      BY DEF ViewOf
    <2> HIDE DEF q
    <2>2. FollowsNames(p, names, q)
      BY <1>3, <1>4, <2>1 DEF FollowsNames, Lists
    <2> QED
      BY <2>2 DEF q
  <1> QED
    BY <1>1, <1>2, <1>5 DEF Peopled

-----------------------------------------------------------------------------
(* The invariant.                                                          *)

View == ViewOf(member, myNick, spoiled)

IrcTypes ==
  /\ inst \in Instances /\ link \in {"down", "registering", "up", "unloaded"}
  /\ AreLines /\ dead \in BOOLEAN /\ cut \in BOOLEAN
  /\ myNick \in Nicks /\ spoiled \subseteq Range(Low) /\ Peopled(member, myNick)

\* What the bot has and what the server has, at both ends of the lines.
Starts(p) ==
  /\ p.real = real /\ (p.in => Agrees(channel, p))
  /\ ~cut /\ ~p.in => channel = Absent
Ends(p) ==
  /\ p.in = Watched /\ p.real = myNick /\ (Watched => p = View)
InSession == \E P : Leads(P, Pending) /\ Starts(P[0]) /\ Ends(P[Len(Pending)])

Offline ==
  /\ wire = <<>> /\ ~Watched /\ sent = "none"
  /\ (batch # <<>> => cut) /\ (~cut => channel = Absent)

Registering ==
  /\ ~Watched /\ (~cut => channel = Absent)
  /\ \/ sent \in Nicks /\ Pending = <<>>
     \/ sent = "none" /\ Pending = <<[ev |-> "inuse"]>>
     \/ sent = "none" /\ Pending = <<[ev |-> "welcome", nick |-> myNick]>>

Connected ==
  /\ sent = "none" \/ (sent = "join" /\ ~Watched /\ Pending = <<>>)
  /\ InSession

SessionInv ==
  ~dead => /\ Gone => Offline
           /\ link = "registering" => Registering
           /\ link = "up" => Connected

IrcInv == IrcTypes /\ SessionInv

-----------------------------------------------------------------------------
(* The server.                                                             *)

\* A line to the bot, which makes q of what the bot should know.
LEMMA Speaks ==
  ASSUME IrcInv, ~dead, Watched, UNCHANGED <<link, real, channel, batch, dead, sent, cut>>,
         NEW l, wire' = Append(wire, l), NEW q, Sound(q), Follows(View, l, q),
         q.in = Watched', q.real = myNick', Watched' => q = View'
  PROVE  link = "up" /\ AreLines' /\ SessionInv'
  <1>1. link = "up" /\ sent = "none" /\ InSession
    BY DEF IrcInv, IrcTypes, SessionInv, Offline, Registering, Connected, Gone
  <1>2. PICK P : Leads(P, Pending) /\ Starts(P[0]) /\ Ends(P[Len(Pending)])
    BY <1>1 DEF InSession
  <1>3. Pending' = Append(Pending, l) /\ AreLines' /\ \E S : Pending \in Seq(S)
    BY PendingAppend DEF IrcInv, IrcTypes, AreLines, Pending
  <1>4. P[Len(Pending)] = View /\ View.in
    BY <1>2 DEF Ends, View, ViewOf
  <1>5. PICK Q : Leads(Q, Append(Pending, l)) /\ Q[0] = P[0] /\ Q[Len(Append(Pending, l))] = q
    BY <1>2, <1>3, <1>4, LeadsAppend
  <1>6. Starts(Q[0])'
    BY <1>2, <1>5 DEF Starts
  <1>7. Ends(q)'
    BY DEF Ends
  <1>8. InSession'
    BY <1>3, <1>5, <1>6, <1>7 DEF InSession
  <1> QED
    BY <1>1, <1>3, <1>8 DEF SessionInv, Connected, Gone

\* The server does something in a channel that the bot is not in.
LEMMA Unheard ==
  ASSUME IrcInv, ~Watched, UNCHANGED <<link, real, channel, batch, dead, myNick, sent, cut, wire>>, ~Watched'
  PROVE  AreLines' /\ SessionInv'
  <1>1. AreLines' /\ Pending' = Pending /\ (Gone' <=> Gone)
    BY DEF IrcInv, IrcTypes, AreLines, Pending, Gone
  <1>2. ASSUME ~dead, link = "up" PROVE Connected'
    <2>1. PICK P : Leads(P, Pending) /\ Starts(P[0]) /\ Ends(P[Len(Pending)])
      BY <1>2 DEF IrcInv, SessionInv, Connected, InSession
    <2>2. Starts(P[0])'
      BY <2>1 DEF Starts
    <2>3. Ends(P[Len(Pending)])'
      BY <1>1, <2>1 DEF Ends, Watched
    <2>4. InSession'
      BY <1>1, <2>1, <2>2, <2>3 DEF InSession
    <2> QED
      BY <1>1, <1>2, <2>4 DEF IrcInv, SessionInv, Connected
  <1>3. Gone => (Offline => Offline')
    BY DEF Offline
  <1>4. Registering => Registering'
    BY <1>1 DEF Registering
  <1> QED
    BY <1>1, <1>2, <1>3, <1>4 DEF IrcInv, SessionInv

\* A change of the channel that the bot hears of if it is there: what is to be shown of it.
LEMMA ServerKeeps ==
  ASSUME IrcInv, ~dead, UNCHANGED <<inst, link, real, channel, batch, dead, sent, cut>>,
         NEW l, ToBot(l), Peopled(member', myNick'), myNick' \in Nicks, spoiled' \subseteq Range(Low),
         Watched' <=> Watched, Watched => Follows(View, l, View'), Watched \/ UNCHANGED myNick
  PROVE  IrcInv'
  <1>1. Watched' => Sound(View')
    <2>1. View' = ViewOf(member', myNick', spoiled')
      BY DEF View
    <2> QED
      BY <2>1, ViewSound DEF Watched
  <1>2. Watched' => View'.in /\ View'.real = myNick'
    BY DEF View, ViewOf
  <1>3. AreLines' /\ SessionInv'
    <2>1. CASE Watched
      <3>1. wire' = Append(wire, l)
        BY <2>1 DEF ToBot
      <3> QED
        BY <1>1, <1>2, <2>1, <3>1, Speaks
    <2>2. CASE ~Watched
      <3>1. wire' = wire /\ myNick' = myNick
        BY <2>2 DEF ToBot
      <3> QED
        BY <2>2, <3>1, Unheard
    <2> QED
      BY <2>1, <2>2
  <1> QED
    BY <1>3 DEF IrcInv, IrcTypes

LEMMA Taken ==
  ASSUME IrcInv, NEW u \in Users
  PROVE  u # Me /\ MayTake[u] \subseteq Nicks /\ Letters \subseteq {"o", "v"}
  BY NicksAssumption DEF IrcInv, IrcTypes, MayTake, Letters

LEMMA UserJoinsKeeps ==
  ASSUME IrcInv, ~dead, UNCHANGED inst, NEW u \in Users, UserJoins(u)
  PROVE  IrcInv'
  <1>1. PICK k \in MayTake[u] :
          /\ ~NickInUse(k) /\ Low[k] # Low[myNick] /\ member' = With(member, u, [nick |-> k, modes |-> {}])
          /\ ToBot([ev |-> "join", nick |-> k])
    BY DEF UserJoins
  <1>2. /\ u \notin DOMAIN member /\ UNCHANGED <<link, real, channel, batch, dead, myNick, sent, cut, spoiled>>
    BY DEF UserJoins, Outside
  <1>3. k \in Nicks /\ u # Me /\ \A m \in DOMAIN member : Low[member[m].nick] # Low[k]
    BY <1>1, Taken DEF NickInUse
  <1>4. Added(member, u, k, member')
    BY <1>1, <1>2, <1>3 DEF With, Added
  <1>5. /\ Peopled(member', myNick) /\ (Me \in DOMAIN member' <=> Me \in DOMAIN member)
        /\ Me \in DOMAIN member => Follows(ViewOf(member, myNick, spoiled), [ev |-> "join", nick |-> k],
                                           ViewOf(member', myNick, spoiled))
    <2>1. Peopled(member, myNick) /\ myNick \in Nicks
      BY DEF IrcInv, IrcTypes
    <2> QED
      BY <1>1, <1>2, <1>3, <1>4, <2>1, JoinsView
  <1>6. View' = ViewOf(member', myNick, spoiled)
    BY <1>2 DEF View
  <1> QED
    BY <1>1, <1>2, <1>5, <1>6, ServerKeeps DEF IrcInv, IrcTypes, Watched, View

LEMMA UserLeavesKeeps ==
  ASSUME IrcInv, ~dead, UNCHANGED inst, NEW u \in Users, UserLeaves(u)
  PROVE  IrcInv'
  <1>1. PICK ev \in {"part", "quit", "kick"} : ToBot([ev |-> ev, nick |-> member[u].nick])
    BY DEF UserLeaves
  <1>2. /\ u \in DOMAIN member /\ UNCHANGED <<link, real, channel, batch, dead, myNick, sent, cut, spoiled>>
        /\ member' = Restrict(member, DOMAIN member \ {u}) /\ u # Me
    BY Taken DEF UserLeaves, Outside
  <1>3. /\ Peopled(member', myNick) /\ (Me \in DOMAIN member' <=> Me \in DOMAIN member)
        /\ Me \in DOMAIN member => Follows(ViewOf(member, myNick, spoiled), [ev |-> ev, nick |-> member[u].nick],
                                           ViewOf(member', myNick, spoiled))
    <2>1. Peopled(member, myNick) /\ myNick \in Nicks
      BY DEF IrcInv, IrcTypes
    <2>2. Removed(member, u, member')
      BY <1>2 DEF Removed, Restrict
    <2> QED
      BY <1>1, <1>2, <2>1, <2>2, LeavesView
  <1>4. View' = ViewOf(member', myNick, spoiled)
    BY <1>2 DEF View
  <1> QED
    BY <1>1, <1>2, <1>3, <1>4, ServerKeeps DEF IrcInv, IrcTypes, Watched, View

LEMMA UserRenamesKeeps ==
  ASSUME IrcInv, ~dead, UNCHANGED inst, NEW u \in Users, UserRenames(u)
  PROVE  IrcInv'
  <1> DEFINE b == member[u].nick
  <1>1. PICK k \in MayTake[u] :
          /\ NickInUse(k) => Low[k] = Low[b]
          /\ Low[k] # Low[myNick] /\ member' = [member EXCEPT ![u].nick = k]
          /\ ToBot([ev |-> "nick", nick |-> b, after |-> k])
          /\ spoiled' = IF Watched /\ (Low[k] = Low[b] \/ Low[b] \in spoiled)
                        THEN spoiled \cup {Low[b], Low[k]} ELSE spoiled
    BY DEF UserRenames
  <1>2. u \in DOMAIN member /\ u # Me /\ k \in Nicks
          /\ UNCHANGED <<link, real, channel, batch, dead, myNick, sent, cut>>
    BY Taken DEF UserRenames, Outside
  <1>3. /\ Peopled(member, myNick) /\ myNick \in Nicks /\ spoiled \subseteq Range(Low)
        /\ member[u] \in [nick : Nicks, modes : SUBSET {"o", "v"}]
    BY <1>2 DEF IrcInv, IrcTypes, Peopled, Members
  <1>4. Changed(member, u, k, member[u].modes, member')
    BY <1>1, <1>2, <1>3 DEF Changed
  <1>5. Low[k] = Low[b] \/ \A m \in DOMAIN member : Low[member[m].nick] # Low[k]
    BY <1>1 DEF NickInUse
  <1> DEFINE off2 == Spoils(spoiled, b, k)
  <1>6. /\ Peopled(member', myNick)
        /\ Me \in DOMAIN member => Follows(ViewOf(member, myNick, spoiled), [ev |-> "nick", nick |-> b, after |-> k],
                                           ViewOf(member', myNick, off2))
    <2> DEFINE l == [ev |-> "nick", nick |-> b, after |-> k]
    <2>1. l.ev = "nick" /\ l.nick = b /\ l.after = k
      OBVIOUS
    <2>2. NickAfter(myNick, u, k) = myNick
      BY <1>2 DEF NickAfter
    <2> HIDE DEF l
    <2>3. /\ Peopled(member', myNick)
          /\ Me \in DOMAIN member => Follows(ViewOf(member, myNick, spoiled), l, ViewOf(member', myNick, off2))
      BY <1>1, <1>2, <1>3, <1>4, <1>5, <2>1, <2>2, RenamesView
    <2> QED
      BY <2>3 DEF l
  <1>7. Watched => spoiled' = off2
    BY <1>1 DEF Spoils
  <1>8. spoiled' \subseteq Range(Low)
    BY <1>1, <1>2, <1>3, NamesLow
  <1>9. View' = ViewOf(member', myNick, spoiled')
    BY <1>2 DEF View
  <1> QED
    BY <1>1, <1>2, <1>3, <1>4, <1>6, <1>7, <1>8, <1>9, ServerKeeps DEF Watched, View

LEMMA UserModeKeeps ==
  ASSUME IrcInv, ~dead, UNCHANGED inst, NEW u \in Users, UserMode(u)
  PROVE  IrcInv'
  <1> DEFINE k == member[u].nick
             Sign(l) == IF Has(u, l) THEN "-" ELSE "+"
             Said(l, withLimit) ==
               [ev |-> "mode", chars |-> IF withLimit THEN <<Sign(l), "l", l>> ELSE <<Sign(l), l>>,
                args |-> IF withLimit /\ Sign(l) = "+" THEN <<None, k>> ELSE <<k>>]
  <1>1. PICK mode \in Letters, withLimit \in BOOLEAN :
          /\ member' = [member EXCEPT ![u].modes = IF Sign(mode) = "+" THEN @ \cup {mode} ELSE @ \ {mode}]
          /\ ToBot(Said(mode, withLimit))
          /\ spoiled' = IF Watched /\ withLimit /\ Sign(mode) = "-" THEN spoiled \cup {Low[k]} ELSE spoiled
    BY DEF UserMode
  <1> DEFINE sign == Sign(mode)  l == Said(mode, withLimit)
  <1>2. /\ u \in DOMAIN member /\ u # Me /\ mode \in {"o", "v"} /\ sign \in {"+", "-"}
        /\ UNCHANGED <<link, real, channel, batch, dead, myNick, sent, cut>>
    BY Taken DEF UserMode, Outside
  <1>3. l.ev = "mode" /\ ModeLine(sign, mode, k, withLimit, l)
    BY DEF ModeLine
  <1>4. /\ Peopled(member, myNick) /\ myNick \in Nicks /\ spoiled \subseteq Range(Low)
        /\ member[u] \in [nick : Nicks, modes : SUBSET {"o", "v"}]
    BY <1>2 DEF IrcInv, IrcTypes, Peopled, Members
  <1>5. /\ member' = [member EXCEPT ![u].modes = Given(member[u].modes, sign, mode)] /\ ToBot(l)
        /\ spoiled' = IF Watched /\ withLimit /\ sign = "-" THEN spoiled \cup {Low[k]} ELSE spoiled
    BY <1>1 DEF Given
  <1> HIDE DEF sign, l
  <1>6. Given(member[u].modes, sign, mode) \subseteq {"o", "v"}
    BY <1>2, <1>4 DEF Given
  <1>7. Changed(member, u, member[u].nick, Given(member[u].modes, sign, mode), member')
    BY <1>2, <1>4, <1>5, <1>6 DEF Changed
  <1> DEFINE off2 == LimitSpoils(spoiled, withLimit, sign, k)
  <1>8. /\ Peopled(member', myNick)
        /\ Me \in DOMAIN member => Follows(ViewOf(member, myNick, spoiled), l, ViewOf(member', myNick, off2))
    BY <1>2, <1>3, <1>4, <1>7, ModeView
  <1>9. Watched => spoiled' = off2
    BY <1>5 DEF LimitSpoils
  <1>10. spoiled' \subseteq Range(Low) /\ DOMAIN member' = DOMAIN member
    BY <1>4, <1>5, NamesLow
  <1>11. View' = ViewOf(member', myNick, spoiled')
    BY <1>2 DEF View
  <1> QED
    BY <1>2, <1>4, <1>5, <1>8, <1>9, <1>10, <1>11, ServerKeeps DEF Watched, View

\* After its own kick the bot should know nothing.
Nothing(nick) == [in |-> FALSE, real |-> nick, nicks |-> {}, o |-> {}, v |-> {}, off |-> {}]

LEMMA NothingIs ==
  ASSUME NEW nick \in Nicks
  PROVE  Sound(Nothing(nick)) /\ ~Nothing(nick).in /\ Nothing(nick).real = nick
  BY DEF Nothing, Sound, Views, Alone

LEMMA KickBotKeeps ==
  ASSUME IrcInv, ~dead, UNCHANGED inst, KickBot
  PROVE  IrcInv'
  <1> DEFINE l == [ev |-> "kick", nick |-> myNick]  q == Nothing(myNick)
  <1>1. /\ Watched /\ wire' = Append(wire, l) /\ spoiled' = {}
        /\ UNCHANGED <<link, real, channel, batch, dead, myNick, sent, cut>>
        /\ DOMAIN member' = DOMAIN member \ {Me} /\ \A m \in DOMAIN member' : member'[m] = member[m]
    BY DEF KickBot, ToBot, Outside, Restrict
  <1>2. Peopled(member, myNick) /\ myNick \in Nicks
    BY DEF IrcInv, IrcTypes
  <1>3. Peopled(member', myNick') /\ ~Watched'
    BY <1>1, <1>2 DEF Peopled, Members, NicksOfOne, Watched
  <1>4. View.in /\ View.real = myNick /\ Sound(q) /\ ~q.in /\ q.real = myNick
    BY <1>2, NothingIs DEF View, ViewOf
  <1>5. l.ev = "kick" /\ l.nick = myNick
    OBVIOUS
  <1> HIDE DEF l, q
  <1>6. Follows(View, l, q)
    BY <1>4, <1>5 DEF Follows
  <1>7. q.in = Watched'
    <2>1. q.in = FALSE
      BY DEF q, Nothing
    <2>2. Watched' = FALSE
      BY <1>1 DEF Watched
    <2> QED
      BY <2>1, <2>2
  <1>8. AreLines' /\ SessionInv'
    BY <1>1, <1>3, <1>4, <1>6, <1>7, Speaks
  <1> QED
    BY <1>1, <1>2, <1>3, <1>8 DEF IrcInv, IrcTypes

LEMMA RenameBotKeeps ==
  ASSUME IrcInv, ~dead, UNCHANGED inst, RenameBot
  PROVE  IrcInv'
  <1>1. PICK k \in {MyNick, MyNick2} :
          /\ ~NickInUse(k) /\ myNick' = k /\ member' = [member EXCEPT ![Me].nick = k]
          /\ ToBot([ev |-> "nick", nick |-> myNick, after |-> k])
          /\ spoiled' = IF Low[myNick] \in spoiled THEN spoiled \cup {Low[k]} ELSE spoiled
    BY DEF RenameBot
  <1>2. Watched /\ UNCHANGED <<link, real, channel, batch, dead, sent, cut>> /\ k \in Nicks
    BY NicksAssumption DEF RenameBot
  <1>3. /\ Peopled(member, myNick) /\ myNick \in Nicks /\ spoiled \subseteq Range(Low) /\ Me \in DOMAIN member
        /\ member[Me] \in [nick : Nicks, modes : SUBSET {"o", "v"}] /\ member[Me].nick = myNick
    BY <1>2 DEF IrcInv, IrcTypes, Peopled, Members, NicksOfOne, Watched
  <1>4. Changed(member, Me, k, member[Me].modes, member')
    BY <1>1, <1>2, <1>3 DEF Changed
  <1>5. \A m \in DOMAIN member : Low[member[m].nick] # Low[k]
    BY <1>1 DEF NickInUse
  <1> DEFINE l == [ev |-> "nick", nick |-> myNick, after |-> k]
  <1>6. l.ev = "nick" /\ l.nick = member[Me].nick /\ l.after = k
    BY <1>3
  <1>7. NickAfter(myNick, Me, k) = k /\ Spoils(spoiled, member[Me].nick, k) = spoiled'
    BY <1>1, <1>3, <1>5 DEF NickAfter, Spoils
  <1>8. ToBot(l)
    BY <1>1
  <1> HIDE DEF l
  <1>9. /\ Peopled(member', NickAfter(myNick, Me, k))
        /\ Me \in DOMAIN member =>
             Follows(ViewOf(member, myNick, spoiled), l,
                     ViewOf(member', NickAfter(myNick, Me, k), Spoils(spoiled, member[Me].nick, k)))
    BY <1>2, <1>3, <1>4, <1>5, <1>6, RenamesView
  <1>10. View' = ViewOf(member', k, spoiled') /\ (Watched' <=> Watched) /\ spoiled' \subseteq Range(Low)
    BY <1>1, <1>2, <1>3, <1>4, NamesLow DEF View, Changed, Watched
  <1>11. Peopled(member', myNick') /\ myNick' \in Nicks
    BY <1>1, <1>2, <1>7, <1>9
  <1>12. Follows(View, l, View')
    BY <1>3, <1>7, <1>9, <1>10 DEF View
  <1> QED
    BY <1>2, <1>8, <1>10, <1>11, <1>12, ServerKeeps

LEMMA ServeNickKeeps ==
  ASSUME IrcInv, ~dead, UNCHANGED inst, ServeNick
  PROVE  IrcInv'
  <1>1. /\ link = "registering" /\ sent \in Nicks /\ sent' = "none" /\ sent # "none"
        /\ UNCHANGED <<link, real, channel, batch, dead, member, spoiled, cut>>
    BY NicksAssumption DEF ServeNick
  <1>2. ~Watched /\ (~cut => channel = Absent) /\ Pending = <<>>
    BY <1>1 DEF IrcInv, SessionInv, Registering
  <1>3. ASSUME NEW l, wire' = Append(wire, l) PROVE AreLines' /\ Pending' = <<l>>
    <2>1. AreLines' /\ Pending' = Append(Pending, l)
      BY <1>1, <1>3, PendingAppend DEF IrcInv, IrcTypes, AreLines, Pending
    <2> QED
      BY <1>2, <2>1
  <1>4. ~Watched' /\ ~Gone'
    BY <1>1, <1>2 DEF Watched, Gone
  <1>5. CASE NickInUse(sent)
    <2>1. wire' = Append(wire, [ev |-> "inuse"]) /\ myNick' = myNick
      BY <1>5 DEF ServeNick
    <2>2. AreLines' /\ Pending' = <<[ev |-> "inuse"]>>
      BY <1>3, <2>1
    <2>3. Registering'
      BY <1>1, <1>2, <1>4, <2>2 DEF Registering
    <2> QED
      BY <1>1, <1>4, <2>1, <2>2, <2>3 DEF IrcInv, IrcTypes, SessionInv
  <1>6. CASE ~NickInUse(sent)
    <2>1. wire' = Append(wire, [ev |-> "welcome", nick |-> sent]) /\ myNick' = sent
      BY <1>6 DEF ServeNick
    <2>2. AreLines' /\ Pending' = <<[ev |-> "welcome", nick |-> sent]>>
      BY <1>3, <2>1
    <2>3. Registering'
      BY <1>1, <1>2, <1>4, <2>1, <2>2 DEF Registering
    <2>4. Peopled(member', myNick')
      BY <1>1, <1>2, <1>6, <2>1 DEF IrcInv, IrcTypes, Peopled, Members, NicksOfOne, NickInUse, Watched
    <2> QED
      BY <1>1, <1>4, <2>1, <2>2, <2>3, <2>4 DEF IrcInv, IrcTypes, SessionInv
  <1> QED
    BY <1>5, <1>6

LEMMA LeadsTwo ==
  ASSUME NEW p, Sound(p), NEW l1, NEW q, Sound(q), q.in, Follows(p, l1, q),
         NEW l2, NEW r, Sound(r), Follows(q, l2, r)
  PROVE  \E Q : Leads(Q, <<l1, l2>>) /\ Q[0] = p /\ Q[Len(<<l1, l2>>)] = r
  <1> DEFINE Q == [i \in 0 .. 2 |-> IF i = 0 THEN p ELSE IF i = 1 THEN q ELSE r]  t == <<l1, l2>>
  <1>1. Len(t) = 2 /\ t[1] = l1 /\ t[2] = l2 /\ Q[0] = p /\ Q[1] = q /\ Q[2] = r
    OBVIOUS
  <1> HIDE DEF Q, t
  <1>2. \A i \in 0 .. 2 : Sound(Q[i])
    <2> SUFFICES ASSUME NEW i \in 0 .. 2 PROVE Sound(Q[i])
      OBVIOUS
    <2>1. i = 0 \/ i = 1 \/ i = 2
      OBVIOUS
    <2> QED
      BY <1>1, <2>1
  <1>3. \A i \in 1 .. 2 : Follows(Q[i - 1], t[i], Q[i])
    <2> SUFFICES ASSUME NEW i \in 1 .. 2 PROVE Follows(Q[i - 1], t[i], Q[i])
      OBVIOUS
    <2>1. CASE i = 1
      BY <1>1, <2>1
    <2>2. CASE i = 2
      BY <1>1, <2>2
    <2> QED
      BY <2>1, <2>2
  <1>4. \A i \in 1 .. 1 : Q[i].in
    BY <1>1
  <1>5. Len(t) - 1 = 1
    BY <1>1
  <1>6. Leads(Q, t)
    BY <1>1, <1>2, <1>3, <1>4, <1>5 DEF Leads
  <1> QED
    BY <1>1, <1>6 DEF t

LEMMA ServeJoinKeeps ==
  ASSUME IrcInv, ~dead, UNCHANGED inst, ServeJoin
  PROVE  IrcInv'
  <1> DEFINE names == {[prefix |-> Prefix(m), nick |-> m.nick] : m \in Range(member')}
             l1 == [ev |-> "join", nick |-> myNick]
             l2 == [ev |-> "namreply", names |-> names]
             joined == [in |-> TRUE, real |-> myNick, nicks |-> {myNick}, o |-> {}, v |-> {}, off |-> {}]
  <1>1. /\ sent = "join" /\ sent' = "none" /\ wire' = wire \o <<l1, l2>>
        /\ member' = With(member, Me, [nick |-> myNick, modes |-> {}])
        /\ spoiled' = BothModes(member')
        /\ UNCHANGED <<link, real, channel, batch, dead, myNick, cut>>
    <2>1. sent = "join" /\ sent' = "none" /\ UNCHANGED <<link, real, channel, batch, dead, myNick, cut>>
      BY DEF ServeJoin
    <2>2. member' = With(member, Me, [nick |-> myNick, modes |-> {}])
      BY DEF ServeJoin
    <2>3. spoiled' = BothModes(member')
      BY DEF ServeJoin
    <2>4. wire' = wire \o <<l1, l2>>
      BY DEF ServeJoin
    <2> QED
      BY <2>1, <2>2, <2>3, <2>4
  <1>2. link = "up" /\ ~Watched /\ Pending = <<>> /\ InSession
    BY <1>1, NicksAssumption DEF IrcInv, IrcTypes, SessionInv, Offline, Registering, Connected, Gone
  <1>3. Peopled(member, myNick) /\ myNick \in Nicks
    BY DEF IrcInv, IrcTypes
  <1>4. Added(member, Me, myNick, member')
    BY <1>1, <1>2, <1>3 DEF Added, With, Watched
  <1>5. /\ \A e \in names : \E m \in DOMAIN member' : e.nick = member'[m].nick /\ e.prefix = Prefix(member'[m])
        /\ \A m \in DOMAIN member' : \E e \in names : e.nick = member'[m].nick
    <2>1. \A x : x \in Range(member') <=> \E m \in DOMAIN member' : x = member'[m]
      BY DEF Range
    <2>2. \A e \in names : \E x \in Range(member') : e.nick = x.nick /\ e.prefix = Prefix(x)
      OBVIOUS
    <2>3. ASSUME NEW x \in Range(member') PROVE \E e \in names : e.nick = x.nick
      <3>1. [prefix |-> Prefix(x), nick |-> x.nick] \in names
        OBVIOUS
      <3> QED
        BY <3>1
    <2> QED
      BY <2>1, <2>2, <2>3
  <1>6. /\ \A m \in DOMAIN member' : {"o", "v"} \subseteq member'[m].modes => Low[member'[m].nick] \in spoiled'
        /\ spoiled' \subseteq {Low[member'[m].nick] : m \in DOMAIN member'}
    BY <1>1 DEF BothModes
  <1>7. spoiled' \in SUBSET Range(Low)
    <2>1. \A m \in DOMAIN member' : member'[m].nick \in Nicks
      BY <1>3, <1>4 DEF Added, Peopled, Members
    <2> QED
      BY <1>6, <2>1, NamesLow
  <1>8. /\ joined.in /\ joined.real = myNick /\ joined.nicks = {myNick} /\ joined.o = {} /\ joined.v = {}
        /\ joined.off = {} /\ Sound(joined)
    BY <1>3 DEF Sound, Views, Alone
  <1>9. l1.ev = "join" /\ l1.nick = myNick /\ l2.ev = "namreply" /\ l2.names = names
    OBVIOUS
  <1>10. joined = [in |-> TRUE, real |-> myNick, nicks |-> {myNick}, o |-> {}, v |-> {}, off |-> {}]
    OBVIOUS
  <1> HIDE DEF names, l1, l2, joined
  <1>11. Peopled(member', myNick) /\ FollowsNames(joined, names, ViewOf(member', myNick, spoiled'))
    BY <1>3, <1>4, <1>5, <1>6, <1>7, <1>8, NamesView
  <1> DEFINE q == ViewOf(member', myNick, spoiled')
  <1>12. Watched' /\ Sound(q) /\ q = View' /\ q.in /\ q.real = myNick
    <2>1. Me \in DOMAIN member'
      BY <1>4 DEF Added
    <2>2. Sound(q)
      BY <1>3, <1>7, <1>11, <2>1, ViewSound
    <2> QED
      BY <1>1, <2>1, <2>2 DEF View, ViewOf, Watched
  <1> HIDE DEF q
  <1>13. PICK P : Leads(P, Pending) /\ Starts(P[0]) /\ Ends(P[Len(Pending)])
    BY <1>2 DEF InSession
  <1>14. Len(Pending) = 0 /\ ~P[0].in /\ P[0].real = myNick
    <2>1. Len(Pending) = 0
      BY <1>2
    <2>2. Ends(P[0])
      BY <1>13, <2>1
    <2> QED
      BY <1>2, <2>1, <2>2 DEF Ends, Watched
  <1>15. Follows(P[0], l1, joined) /\ Follows(joined, l2, q)
    BY <1>8, <1>9, <1>10, <1>11, <1>14 DEF Follows, q
  <1>16. AreLines' /\ Pending' = <<l1, l2>>
    <2>1. PICK S : batch \in Seq(S) /\ wire \in Seq(S)
      BY DEF IrcInv, IrcTypes, AreLines
    <2> DEFINE T == S \cup {l1, l2}
    <2>2. batch \in Seq(T) /\ wire \in Seq(T) /\ <<l1, l2>> \in Seq(T)
      BY <2>1, SeqMonotonic
    <2> HIDE DEF T
    <2>3. wire' \in Seq(T) /\ batch \o wire' = (batch \o wire) \o <<l1, l2>>
      BY <1>1, <2>2, ConcatProperties, ConcatAssociative
    <2>4. <<>> \o <<l1, l2>> = <<l1, l2>>
      BY <2>2, ConcatEmptySeq
    <2> QED
      BY <1>1, <1>2, <2>2, <2>3, <2>4 DEF AreLines, Pending
  <1>17. Sound(P[0])
    BY <1>13, <1>14 DEF Leads
  <1>18. PICK R : Leads(R, <<l1, l2>>) /\ R[0] = P[0] /\ R[Len(<<l1, l2>>)] = q
    BY <1>8, <1>12, <1>15, <1>17, LeadsTwo
  <1>19. Leads(R, Pending') /\ R[2] = q /\ Len(Pending') = 2
    <2>1. Len(<<l1, l2>>) = 2
      OBVIOUS
    <2> QED
      BY <1>16, <1>18, <2>1
  <1>20. Starts(R[0])' /\ Ends(R[2])'
    <2>1. Starts(R[0])'
      BY <1>1, <1>13, <1>18 DEF Starts
    <2>2. R[2].in = TRUE /\ Watched' = TRUE
      BY <1>12, <1>19 DEF Watched, q, ViewOf
    <2>3. R[2] = View' /\ R[2].real = myNick'
      BY <1>1, <1>12, <1>19
    <2>4. Ends(R[2])'
      BY <2>2, <2>3 DEF Ends
    <2> QED
      BY <2>1, <2>4
  <1>21. InSession'
    BY <1>19, <1>20 DEF InSession
  <1>22. ~Gone'
    BY <1>1, <1>2 DEF Gone
  <1>23. IrcTypes'
    BY <1>1, <1>3, <1>7, <1>11, <1>16 DEF IrcInv, IrcTypes
  <1>24. Connected'
    BY <1>1, <1>21 DEF Connected
  <1> QED
    BY <1>1, <1>2, <1>22, <1>23, <1>24 DEF IrcInv, SessionInv

-----------------------------------------------------------------------------
(* The bot's thread.                                                       *)

\* What the bot has fits what it should know before and after a line.
Fits(c, r, p) == p.real = r /\ (p.in => Agrees(c, p)) /\ (~cut /\ ~p.in => c = Absent)

\* The line that is handled next: one of a session, or of one that was cut off.
LEMMA Meets ==
  ASSUME IrcInv, ~dead, batch # <<>>
  PROVE  /\ Gone => cut /\ Offline
         /\ link = "registering" => Pending = <<Line>> /\ Line.ev \in {"inuse", "welcome"} /\ Registering
         /\ link = "up" =>
              /\ sent = "none"
              /\ \E p, q : Sound(p) /\ Sound(q) /\ Fits(channel, real, p) /\ Follows(p, Line, q)
  <1>1. /\ \E S : Pending \in Seq(S)
        /\ Pending # <<>> /\ Head(Pending) = Line
    BY PendingTail DEF IrcInv, IrcTypes, Line
  <1>2. ASSUME link = "registering" PROVE Pending = <<Line>> /\ Line.ev \in {"inuse", "welcome"} /\ Registering
    <2>1. Registering
      BY <1>2 DEF IrcInv, SessionInv
    <2>2. CASE Pending = <<[ev |-> "inuse"]>>
      BY <1>1, <2>1, <2>2
    <2>3. CASE Pending = <<[ev |-> "welcome", nick |-> myNick]>>
      BY <1>1, <2>1, <2>3
    <2> QED
      BY <1>1, <2>1, <2>2, <2>3 DEF Registering
  <1>3. ASSUME link = "up"
        PROVE  /\ sent = "none"
               /\ \E p, q : Sound(p) /\ Sound(q) /\ Fits(channel, real, p) /\ Follows(p, Line, q)
    <2>1. Connected
      BY <1>3 DEF IrcInv, SessionInv
    <2>2. PICK P : Leads(P, Pending) /\ Starts(P[0])
      BY <2>1 DEF Connected, InSession
    <2>3. Sound(P[0]) /\ Sound(P[1]) /\ Follows(P[0], Line, P[1])
      BY <1>1, <2>2, LeadsTail
    <2>4. Fits(channel, real, P[0])
      BY <2>2 DEF Starts, Fits
    <2> QED
      BY <1>1, <2>1, <2>3, <2>4 DEF Connected
  <1> QED
    BY <1>2, <1>3 DEF IrcInv, SessionInv, Offline

\* A handler that does to the table and the nick what the line says.
LEMMA LineKeeps ==
  ASSUME IrcInv, ~dead, batch # <<>>, UNCHANGED inst, Gone \/ link = "up",
         NEW ch, NEW r, NEW request, Done(ch, r, request),
         request # "none" => ~Gone /\ request = "join" /\ Line.ev = "kick" /\ Line.nick = real,
         \A p, q : /\ link = "up" /\ Sound(p) /\ Sound(q) /\ Fits(channel, real, p) /\ Follows(p, Line, q)
                   => Fits(ch, r, q)
  PROVE  IrcInv'
  <1>1. /\ \E S : Pending \in Seq(S)
        /\ Pending # <<>> /\ Head(Pending) = Line /\ Tail(batch) \o wire = Tail(Pending)
        /\ \E S : Tail(batch) \in Seq(S) /\ wire \in Seq(S)
    BY PendingTail DEF IrcInv, IrcTypes, Line
  <1>2. /\ channel' = ch /\ real' = r /\ batch' = Tail(batch)
        /\ sent' = IF request = "none" THEN sent ELSE request
        /\ UNCHANGED <<link, dead, member, myNick, wire, spoiled, cut>>
    BY DEF Done
  <1>3. Pending' = Tail(Pending) /\ AreLines'
    BY <1>1, <1>2 DEF Pending, AreLines
  <1>4. IrcTypes'
    BY <1>2, <1>3 DEF IrcInv, IrcTypes
  <1>5. ASSUME Gone PROVE SessionInv'
    <2>1. Offline /\ cut /\ Gone' /\ (Watched' <=> Watched)
      BY <1>2, <1>5 DEF IrcInv, SessionInv, Offline, Gone, Watched
    <2>2. Offline'
      BY <1>2, <1>5, <2>1 DEF Offline
    <2> QED
      BY <2>1, <2>2 DEF SessionInv, Gone
  <1>6. ASSUME link = "up" PROVE SessionInv'
    <2>1. sent = "none" /\ InSession
      BY <1>1, <1>6 DEF IrcInv, SessionInv, Connected
    <2>2. PICK P : Leads(P, Pending) /\ Starts(P[0]) /\ Ends(P[Len(Pending)])
      BY <2>1 DEF InSession
    <2>3. /\ Sound(P[0]) /\ Sound(P[1]) /\ Follows(P[0], Line, P[1])
          /\ Tail(Pending) # <<>> => P[1].in
          /\ \E Q : Leads(Q, Tail(Pending)) /\ Q[0] = P[1] /\ Q[Len(Tail(Pending))] = P[Len(Pending)]
      BY <1>1, <2>2, LeadsTail
    <2>4. PICK Q : Leads(Q, Tail(Pending)) /\ Q[0] = P[1] /\ Q[Len(Tail(Pending))] = P[Len(Pending)]
      BY <2>3
    <2>5. Fits(channel, real, P[0])
      BY <2>2 DEF Starts, Fits
    <2>6. Fits(ch, r, P[1])
      BY <1>6, <2>3, <2>5
    <2>7. Starts(Q[0])'
      BY <1>2, <2>4, <2>6 DEF Starts, Fits
    <2>8. Watched' = Watched
      BY <1>2 DEF Watched
    <2>9. Ends(Q[Len(Pending)])'
      <3>1. PICK n : n = Len(Tail(Pending))
        OBVIOUS
      <3>2. Ends(Q[n])
        BY <2>2, <2>4, <3>1
      <3>3. Ends(Q[n])'
        BY <1>2, <2>8, <3>2 DEF Ends, View
      <3> QED
        BY <1>3, <3>1, <3>3
    <2>10. InSession'
      BY <1>3, <2>4, <2>7, <2>9 DEF InSession
    <2>11. CASE request = "none"
      BY <1>2, <1>6, <2>1, <2>10, <2>11 DEF SessionInv, Connected, Gone
    <2>12. CASE request # "none"
      <3>1. ~P[1].in
        BY <2>3, <2>5, <2>12 DEF Follows, Fits
      <3>2. Tail(Pending) = <<>> /\ Len(Tail(Pending)) = 0
        BY <2>3, <3>1
      <3>3. ~Watched'
        BY <2>2, <2>4, <2>8, <3>1, <3>2 DEF Ends, Watched
      <3> QED
        BY <1>2, <1>3, <1>6, <2>10, <2>12, <3>2, <3>3 DEF SessionInv, Connected, Gone
    <2> QED
      BY <2>11, <2>12
  <1> QED
    BY <1>4, <1>5, <1>6 DEF IrcInv

LEMMA DiesKeeps ==
  ASSUME IrcInv, UNCHANGED inst, Dies
  PROVE  IrcInv' /\ dead' /\ UNCHANGED cut
  <1>1. AreLines'
    <2>1. PICK S : wire \in Seq(S)
      BY DEF IrcInv, IrcTypes, AreLines
    <2> QED
      BY <2>1 DEF AreLines, Dies, server
  <1> QED
    BY <1>1 DEF IrcInv, IrcTypes, SessionInv, Dies, server

\* What every handler of a line is to show.
Keeps == IrcInv' /\ (dead' => cut')

LEMMA HandleWelcomeKeeps ==
  ASSUME IrcInv, UNCHANGED inst, HandleWelcome
  PROVE  Keeps
  <1>1. ~dead /\ batch # <<>> /\ Line.ev = "welcome"
    BY DEF HandleWelcome, Handling
  <1>2. CASE Gone
    BY <1>1, <1>2, Meets, DiesKeeps DEF HandleWelcome, Keeps
  <1>3. CASE ~Gone
    <2>1. /\ channel' = channel /\ real' = Line.nick /\ batch' = Tail(batch)
          /\ sent' = "join" /\ link' = "up"
          /\ UNCHANGED <<dead, member, myNick, wire, spoiled, cut>>
      BY <1>3 DEF HandleWelcome
    <2>2. link = "registering"
      <3>1. ASSUME link = "up" PROVE FALSE
        <4>1. \E p, q : Follows(p, Line, q)
          BY <1>1, <3>1, Meets
        <4> QED
          BY <1>1, <4>1 DEF Follows
      <3> QED
        BY <1>3, <3>1 DEF IrcInv, IrcTypes, Gone
    <2>3. Pending = <<Line>> /\ Registering
      BY <1>1, <2>2, Meets
    <2>4. ~Watched /\ (~cut => channel = Absent) /\ Line.nick = myNick
      <3>1. Pending # <<>> /\ Pending # <<[ev |-> "inuse"]>>
        BY <1>1, <2>3
      <3>2. Pending = <<[ev |-> "welcome", nick |-> myNick]>>
        BY <2>3, <3>1 DEF Registering
      <3> QED
        BY <2>3, <3>2 DEF Registering
    <2>5. Pending' = <<>> /\ AreLines'
      <3>1. Tail(batch) \o wire = Tail(Pending) /\ \E S : Tail(batch) \in Seq(S) /\ wire \in Seq(S)
        BY <1>1, PendingTail DEF IrcInv, IrcTypes
      <3>2. Tail(Pending) = <<>>
        BY <2>3
      <3> QED
        BY <2>1, <3>1, <3>2 DEF Pending, AreLines
    <2>6. IrcTypes'
      BY <2>1, <2>5 DEF IrcInv, IrcTypes
    <2>7. myNick \in Nicks
      BY DEF IrcInv, IrcTypes
    <2>8. PICK P : Leads(P, <<>>) /\ P[0] = Nothing(myNick) /\ P[Len(<<>>)] = Nothing(myNick)
      BY <2>7, NothingIs, LeadsNowhere
    <2>9. Starts(P[0])'
      BY <2>1, <2>4, <2>7, <2>8, NothingIs DEF Starts
    <2>10. Watched' = FALSE /\ Nothing(myNick).in = FALSE
      BY <2>1, <2>4 DEF Watched, Nothing
    <2>11. Ends(P[0])'
      BY <2>1, <2>7, <2>8, <2>10, NothingIs DEF Ends
    <2>12. InSession'
      <3>1. Len(<<>>) = 0
        OBVIOUS
      <3> QED
        BY <2>5, <2>8, <2>9, <2>11, <3>1 DEF InSession
    <2>13. Connected'
      BY <2>1, <2>4, <2>5, <2>12 DEF Connected, Watched
    <2> QED
      BY <1>1, <2>1, <2>6, <2>13 DEF IrcInv, SessionInv, Gone, Keeps
  <1> QED
    BY <1>2, <1>3

LEMMA HandleInUseKeeps ==
  ASSUME IrcInv, UNCHANGED inst, HandleInUse
  PROVE  Keeps
  <1>1. ~dead /\ batch # <<>> /\ Line.ev = "inuse"
    BY DEF HandleInUse, Handling
  <1>2. CASE Gone
    BY <1>1, <1>2, Meets, DiesKeeps DEF HandleInUse, Keeps
  <1>3. CASE ~Gone
    <2>1. Done(channel, real, MyNick2)
      BY <1>3 DEF HandleInUse
    <2>2. link = "registering"
      <3>1. ASSUME link = "up" PROVE FALSE
        <4>1. \E p, q : Follows(p, Line, q)
          BY <1>1, <3>1, Meets
        <4> QED
          BY <1>1, <4>1 DEF Follows
      <3> QED
        BY <1>3, <3>1 DEF IrcInv, IrcTypes, Gone
    <2>3. Pending = <<Line>> /\ Registering
      BY <1>1, <2>2, Meets
    <2>4. /\ channel' = channel /\ real' = real /\ batch' = Tail(batch) /\ sent' = MyNick2 /\ MyNick2 \in Nicks
          /\ UNCHANGED <<link, dead, member, myNick, wire, spoiled, cut>>
      BY <2>1, NicksAssumption DEF Done
    <2>5. Pending' = <<>> /\ AreLines'
      <3>1. Tail(batch) \o wire = Tail(Pending) /\ \E S : Tail(batch) \in Seq(S) /\ wire \in Seq(S)
        BY <1>1, PendingTail DEF IrcInv, IrcTypes
      <3>2. Tail(Pending) = <<>>
        BY <2>3
      <3> QED
        BY <2>4, <3>1, <3>2 DEF Pending, AreLines
    <2>6. IrcTypes'
      BY <2>4, <2>5 DEF IrcInv, IrcTypes
    <2>7. Registering'
      BY <2>3, <2>4, <2>5 DEF Registering, Watched
    <2> QED
      BY <1>1, <2>2, <2>4, <2>6, <2>7 DEF IrcInv, SessionInv, Gone, Keeps
  <1> QED
    BY <1>2, <1>3

\* Any other line: not while the bot registers.
LEMMA InTouch ==
  ASSUME IrcInv, ~dead, batch # <<>>, Line.ev \notin {"inuse", "welcome"}
  PROVE  Gone \/ link = "up"
  BY Meets DEF IrcInv, IrcTypes, Gone

LEMMA HandleJoinKeeps ==
  ASSUME IrcInv, UNCHANGED inst, HandleJoin
  PROVE  Keeps
  <1> DEFINE ch == AddUser(IF Line.nick = real THEN NewChannel ELSE channel, Line.nick)
  <1>1. ~dead /\ batch # <<>> /\ Line.ev = "join"
    BY DEF HandleJoin, Handling
  <1>2. Gone \/ link = "up"
    BY <1>1, InTouch
  <1>3. CASE channel = Absent /\ Line.nick # real
    <2>1. Dies
      BY <1>3 DEF HandleJoin
    <2>2. ASSUME link = "up", ~cut PROVE FALSE
      <3>1. PICK p, q : Fits(channel, real, p) /\ Follows(p, Line, q)
        BY <1>1, <2>2, Meets
      <3>2. ~p.in
        BY <1>3, <3>1, AgreesIs DEF Fits
      <3> QED
        BY <1>1, <1>3, <3>1, <3>2 DEF Follows, Fits
    <2> QED
      BY <1>1, <1>2, <2>1, <2>2, DiesKeeps, Meets DEF Keeps
  <1>4. CASE ~(channel = Absent /\ Line.nick # real)
    <2>1. Done(ch, real, "none")
      BY <1>4 DEF HandleJoin
    <2>2. ASSUME NEW p, NEW q, Sound(p), Sound(q), Fits(channel, real, p), Follows(p, Line, q)
          PROVE  Fits(ch, real, q)
      <3>1. CASE /\ ~p.in /\ Line.nick = p.real
                 /\ q = [in |-> TRUE, real |-> p.real, nicks |-> {p.real}, o |-> {}, v |-> {}, off |-> {}]
        <4>1. Line.nick = real /\ real \in Nicks /\ q.in /\ q.real = real
          BY <2>2, <3>1, SoundIs DEF Fits
        <4>2. Agrees(AddUser(NewChannel, real), q)
          BY <2>2, <3>1, <4>1, OwnJoinFollows DEF Fits
        <4> QED
          BY <4>1, <4>2 DEF Fits
      <3>2. CASE /\ p.in /\ Line.nick \in Nicks /\ Fresh(Line.nick, p.nicks)
                 /\ q = [in |-> TRUE, real |-> p.real, nicks |-> p.nicks \cup {Line.nick},
                         o |-> p.o, v |-> p.v, off |-> p.off]
        <4>1. Line.nick # real
          BY <2>2, <3>2 DEF Fits, Sound, Fresh
        <4>2. Agrees(AddUser(channel, Line.nick), q)
          BY <2>2, <3>2, JoinFollows DEF Fits
        <4>3. q.in /\ q.real = real
          BY <2>2, <3>2 DEF Fits
        <4> QED
          BY <4>1, <4>2, <4>3 DEF Fits
      <3> QED
        BY <1>1, <2>2, <3>1, <3>2 DEF Follows
    <2> HIDE DEF ch
    <2>3. IrcInv'
      BY <1>1, <1>2, <2>1, <2>2, LineKeeps
    <2> QED
      BY <1>1, <2>1, <2>3 DEF Done, Keeps
  <1> QED
    BY <1>3, <1>4

\* When somebody else goes, by whatever line.
LEMMA OthersLeave ==
  ASSUME NEW p, NEW q, Sound(p), Sound(q), Fits(channel, real, p), Follows(p, Line, q),
         Line.ev \in {"part", "quit", "kick"}, ~(Line.ev = "kick" /\ Line.nick = real)
  PROVE  /\ p.in /\ Line.nick \in p.nicks /\ Line.nick # real /\ channel # Absent
         /\ Fits(RemoveUser(channel, Line.nick), real, q)
         /\ ~HasKey(channel.users, Line.nick) => Fits(channel, real, q)
  <1>1. /\ p.in /\ Line.nick \in p.nicks /\ Line.nick # p.real
        /\ q = [in |-> TRUE, real |-> p.real, nicks |-> p.nicks \ {Line.nick}, o |-> p.o \ {Line.nick},
                v |-> p.v \ {Line.nick}, off |-> p.off]
    BY DEF Follows, Fits
  <1>2. Agrees(channel, p) /\ p.real = real /\ channel # Absent
    BY <1>1, AgreesIs DEF Fits
  <1>3. Agrees(RemoveUser(channel, Line.nick), q) /\ q.in /\ q.real = real
    BY <1>1, <1>2, RemoveFollows
  <1>4. ~HasKey(channel.users, Line.nick) => Agrees(channel, q)
    BY <1>1, <1>2, UnknownFollows
  <1> QED
    BY <1>1, <1>2, <1>3, <1>4 DEF Fits

\* A handler that needs the table and does not find it.
LEMMA TableThere ==
  ASSUME IrcInv, ~dead, batch # <<>>, Line.ev \in {"part", "kick", "mode", "namreply"}, channel = Absent
  PROVE  cut
  <1> SUFFICES ASSUME ~cut PROVE FALSE
    OBVIOUS
  <1>1. link = "up"
    BY Meets, InTouch
  <1>2. PICK p, q : Fits(channel, real, p) /\ Follows(p, Line, q)
    BY <1>1, Meets
  <1>3. p.in
    BY <1>2 DEF Follows
  <1> QED
    BY <1>2, <1>3, AgreesIs DEF Fits

LEMMA DiesCut ==
  ASSUME IrcInv, UNCHANGED inst, Dies, cut
  PROVE  Keeps
  BY DiesKeeps DEF Keeps

LEMMA HandleKickKeeps ==
  ASSUME IrcInv, UNCHANGED inst, HandleKick
  PROVE  Keeps
  <1>1. ~dead /\ batch # <<>> /\ Line.ev = "kick"
    BY DEF HandleKick, Handling
  <1>2. Gone \/ link = "up"
    BY <1>1, InTouch
  <1>3. CASE channel = Absent \/ (Line.nick = real /\ Gone)
    <2>1. Dies
      BY <1>3 DEF HandleKick
    <2>2. cut
      BY <1>1, <1>3, TableThere, Meets
    <2> QED
      BY <2>1, <2>2, DiesCut
  <1>4. CASE channel # Absent /\ Line.nick = real /\ ~Gone
    <2>1. Done(Absent, real, "join")
      BY <1>4 DEF HandleKick
    <2>2. ASSUME NEW p, NEW q, Sound(p), Sound(q), Fits(channel, real, p), Follows(p, Line, q)
          PROVE  Fits(Absent, real, q)
      BY <1>1, <1>4, <2>2 DEF Follows, Fits
    <2>3. IrcInv'
      BY <1>1, <1>2, <1>4, <2>1, <2>2, LineKeeps
    <2> QED
      BY <1>1, <2>1, <2>3 DEF Done, Keeps
  <1>5. CASE channel # Absent /\ Line.nick # real
    <2>1. Done(RemoveUser(channel, Line.nick), real, "none")
      BY <1>5 DEF HandleKick
    <2>2. ASSUME NEW p, NEW q, Sound(p), Sound(q), Fits(channel, real, p), Follows(p, Line, q)
          PROVE  Fits(RemoveUser(channel, Line.nick), real, q)
      BY <1>1, <1>5, <2>2, OthersLeave
    <2>3. IrcInv'
      BY <1>1, <1>2, <2>1, <2>2, LineKeeps
    <2> QED
      BY <1>1, <2>1, <2>3 DEF Done, Keeps
  <1> QED
    BY <1>3, <1>4, <1>5

LEMMA HandlePartKeeps ==
  ASSUME IrcInv, UNCHANGED inst, HandlePart
  PROVE  Keeps
  <1>1. ~dead /\ batch # <<>> /\ Line.ev = "part"
    BY DEF HandlePart, Handling
  <1>2. Gone \/ link = "up"
    BY <1>1, InTouch
  <1>3. CASE channel = Absent
    <2>1. Dies
      BY <1>3 DEF HandlePart
    <2> QED
      BY <1>1, <1>3, <2>1, TableThere, DiesCut
  <1>4. CASE channel # Absent
    <2> DEFINE ch == IF Line.nick = real THEN Absent ELSE RemoveUser(channel, Line.nick)
    <2>1. Done(ch, real, "none")
      BY <1>4 DEF HandlePart
    <2>2. ASSUME NEW p, NEW q, Sound(p), Sound(q), Fits(channel, real, p), Follows(p, Line, q)
          PROVE  Fits(ch, real, q)
      <3>1. Line.nick # real /\ Fits(RemoveUser(channel, Line.nick), real, q)
        BY <1>1, <2>2, OthersLeave
      <3> QED
        BY <3>1
    <2> HIDE DEF ch
    <2>3. IrcInv'
      BY <1>1, <1>2, <2>1, <2>2, LineKeeps
    <2> QED
      BY <1>1, <2>1, <2>3 DEF Done, Keeps
  <1> QED
    BY <1>3, <1>4

LEMMA HandleQuitKeeps ==
  ASSUME IrcInv, UNCHANGED inst, HandleQuit
  PROVE  Keeps
  <1> DEFINE ch == IF channel = Absent \/ ~HasKey(channel.users, Line.nick) THEN channel
                   ELSE RemoveUser(channel, Line.nick)
  <1>1. ~dead /\ batch # <<>> /\ Line.ev = "quit" /\ Done(ch, real, "none")
    BY DEF HandleQuit, Handling
  <1>2. Gone \/ link = "up"
    BY <1>1, InTouch
  <1>3. ASSUME NEW p, NEW q, Sound(p), Sound(q), Fits(channel, real, p), Follows(p, Line, q)
        PROVE  Fits(ch, real, q)
    <2>1. /\ channel # Absent /\ Fits(RemoveUser(channel, Line.nick), real, q)
          /\ ~HasKey(channel.users, Line.nick) => Fits(channel, real, q)
      BY <1>1, <1>3, OthersLeave
    <2> QED
      BY <2>1
  <1> HIDE DEF ch
  <1>4. IrcInv'
    BY <1>1, <1>2, <1>3, LineKeeps
  <1> QED
    BY <1>1, <1>4 DEF Done, Keeps

LEMMA HandleNickKeeps ==
  ASSUME IrcInv, UNCHANGED inst, HandleNick
  PROVE  Keeps
  <1> DEFINE ch == IF channel = Absent \/ ~HasKey(channel.users, Line.nick) THEN channel
                   ELSE ChangeNick(channel, Line.nick, Line.after)
             r == IF Line.nick = real THEN Line.after ELSE real
  <1>1. ~dead /\ batch # <<>> /\ Line.ev = "nick" /\ Done(ch, r, "none")
    BY DEF HandleNick, Handling
  <1>2. Gone \/ link = "up"
    BY <1>1, InTouch
  <1>3. ASSUME NEW p, NEW q, Sound(p), Sound(q), Fits(channel, real, p), Follows(p, Line, q)
        PROVE  Fits(ch, r, q)
    <2>1. p.in /\ FollowsNick(p, Line.nick, Line.after, q)
      BY <1>1, <1>3 DEF Follows
    <2>2. Agrees(channel, p) /\ channel # Absent
      BY <1>3, <2>1, AgreesIs DEF Fits
    <2>3. Agrees(IF ~HasKey(channel.users, Line.nick) THEN channel
                 ELSE ChangeNick(channel, Line.nick, Line.after), q)
      BY <1>3, <2>1, <2>2, NickFollows
    <2>4. q.in /\ q.real = r
      BY <1>3, <2>1 DEF FollowsNick, Fits
    <2>5. ch = IF ~HasKey(channel.users, Line.nick) THEN channel
               ELSE ChangeNick(channel, Line.nick, Line.after)
      BY <2>2
    <2> QED
      BY <2>3, <2>4, <2>5 DEF Fits
  <1> HIDE DEF ch, r
  <1>4. IrcInv'
    BY <1>1, <1>2, <1>3, LineKeeps
  <1> QED
    BY <1>1, <1>4 DEF Done, Keeps

LEMMA HandleModeKeeps ==
  ASSUME IrcInv, UNCHANGED inst, HandleMode
  PROVE  Keeps
  <1> DEFINE ch == ApplyModes(channel, ParseModes(Line.chars, Line.args))
  <1>1. ~dead /\ batch # <<>> /\ Line.ev = "mode"
    BY DEF HandleMode, Handling
  <1>2. Gone \/ link = "up"
    BY <1>1, InTouch
  <1>3. CASE channel = Absent
    <2>1. Dies
      BY <1>3 DEF HandleMode
    <2> QED
      BY <1>1, <1>3, <2>1, TableThere, DiesCut
  <1>4. CASE channel # Absent
    <2>1. Done(ch, real, "none")
      BY <1>4 DEF HandleMode
    <2>2. ASSUME NEW p, NEW q, Sound(p), Sound(q), Fits(channel, real, p), Follows(p, Line, q)
          PROVE  Fits(ch, real, q)
      <3>1. p.in /\ FollowsMode(p, Line, q)
        BY <1>1, <2>2 DEF Follows
      <3>2. Agrees(ch, q)
        BY <2>2, <3>1, ModeFollows DEF Fits
      <3>3. q.in /\ q.real = real
        BY <2>2, <3>1 DEF FollowsMode, Fits
      <3> QED
        BY <3>2, <3>3 DEF Fits
    <2> HIDE DEF ch
    <2>3. IrcInv'
      BY <1>1, <1>2, <2>1, <2>2, LineKeeps
    <2> QED
      BY <1>1, <2>1, <2>3 DEF Done, Keeps
  <1> QED
    BY <1>3, <1>4

LEMMA HandleNamReplyKeeps ==
  ASSUME IrcInv, UNCHANGED inst, HandleNamReply
  PROVE  Keeps
  <1> DEFINE ch == NamReply(channel, Line.names)
  <1>1. ~dead /\ batch # <<>> /\ Line.ev = "namreply"
    BY DEF HandleNamReply, Handling
  <1>2. Gone \/ link = "up"
    BY <1>1, InTouch
  <1>3. CASE channel = Absent
    <2>1. Dies
      BY <1>3 DEF HandleNamReply
    <2> QED
      BY <1>1, <1>3, <2>1, TableThere, DiesCut
  <1>4. CASE channel # Absent
    <2>1. Done(ch, real, "none")
      BY <1>4 DEF HandleNamReply
    <2>2. ASSUME NEW p, NEW q, Sound(p), Sound(q), Fits(channel, real, p), Follows(p, Line, q)
          PROVE  Fits(ch, real, q)
      <3>1. p.in /\ FollowsNames(p, Line.names, q)
        BY <1>1, <2>2 DEF Follows
      <3>2. Agrees(ch, q)
        BY <2>2, <3>1, NamesFollow DEF Fits
      <3>3. q.in /\ q.real = real
        BY <2>2, <3>1 DEF FollowsNames, Fits
      <3> QED
        BY <3>2, <3>3 DEF Fits
    <2> HIDE DEF ch
    <2>3. IrcInv'
      BY <1>1, <1>2, <2>1, <2>2, LineKeeps
    <2> QED
      BY <1>1, <2>1, <2>3 DEF Done, Keeps
  <1> QED
    BY <1>3, <1>4

-----------------------------------------------------------------------------
(* The connection.                                                         *)

LEMMA ConnectKeeps ==
  ASSUME IrcInv, UNCHANGED inst, Connect
  PROVE  IrcInv' /\ UNCHANGED <<dead, cut>>
  <1>1. /\ link = "down" /\ ~dead /\ batch = <<>>
        /\ link' = "registering" /\ sent' = MyNick /\ MyNick \in Nicks
        /\ UNCHANGED <<channel, batch, dead, member, myNick, wire, spoiled, cut>>
    BY NicksAssumption DEF Connect
  <1>2. wire = <<>> /\ ~Watched /\ (~cut => channel = Absent)
    BY <1>1 DEF IrcInv, SessionInv, Gone, Offline
  <1>3. Pending' = <<>>
    BY <1>1, <1>2 DEF Pending
  <1>4. Registering'
    BY <1>1, <1>2, <1>3 DEF Registering, Watched
  <1>5. IrcTypes'
    BY <1>1 DEF IrcInv, IrcTypes, AreLines
  <1> QED
    BY <1>1, <1>4, <1>5 DEF IrcInv, SessionInv, Gone

LEMMA ReceiveKeeps ==
  ASSUME IrcInv, UNCHANGED inst, Receive
  PROVE  IrcInv' /\ UNCHANGED <<dead, cut>>
  <1>1. PICK k \in 1 .. Len(wire) : batch' = SubSeq(wire, 1, k) /\ wire' = SubSeq(wire, k + 1, Len(wire))
    BY DEF Receive
  <1>2. /\ ~dead /\ batch = <<>> /\ link # "down" /\ wire # <<>>
        /\ UNCHANGED <<link, real, channel, dead, member, myNick, sent, spoiled, cut>>
    BY DEF Receive
  <1>3. PICK S : wire \in Seq(S)
    BY DEF IrcInv, IrcTypes, AreLines
  <1>4. AreLines' /\ Pending' = Pending
    <2>1. k \in Nat /\ Len(wire) \in Nat /\ 1 <= k /\ k <= Len(wire)
      BY <1>3, LenProperties
    <2>2. /\ batch' \in Seq(S) /\ Len(batch') = k /\ \A i \in 1 .. k : batch'[i] = wire[i]
      BY <1>1, <1>3, <2>1, SubSeqProperties
    <2>3. /\ wire' \in Seq(S) /\ Len(wire') = Len(wire) - k
               /\ \A i \in 1 .. Len(wire) - k : wire'[i] = wire[i + k]
      BY <1>1, <1>3, <2>1, SubSeqProperties
    <2>4. /\ Len(batch' \o wire') = Len(wire) /\ batch' \o wire' \in Seq(S)
          /\ \A i \in 1 .. Len(wire) : (batch' \o wire')[i] = IF i <= k THEN batch'[i] ELSE wire'[i - k]
      <3>. batch' \in Seq(S) /\ wire' \in Seq(S)
        BY <2>2, <2>3
      <3>1. /\ Len(batch' \o wire') = Len(batch') + Len(wire') /\ batch' \o wire' \in Seq(S)
            /\ \A i \in 1 .. Len(batch') + Len(wire') :
                 (batch' \o wire')[i] = IF i <= Len(batch') THEN batch'[i] ELSE wire'[i - Len(batch')]
        BY ConcatProperties, Zenon
      <3>2. Len(batch') + Len(wire') = Len(wire)
        BY <2>1, <2>2, <2>3
      <3> QED
        BY <2>2, <3>1, <3>2
    <2>5. ASSUME NEW i \in 1 .. Len(wire) PROVE (batch' \o wire')[i] = wire[i]
      <3>1. CASE i <= k
        BY <2>1, <2>2, <2>4, <3>1
      <3>2. CASE ~(i <= k)
        <4>1. i - k \in 1 .. Len(wire) - k /\ (i - k) + k = i
          BY <2>1, <3>2
        <4> QED
          BY <2>3, <2>4, <3>2, <4>1
      <3> QED
        BY <3>1, <3>2
    <2>6. batch' \o wire' = wire
      BY <1>3, <2>4, <2>5, SeqEqual
    <2>7. batch \o wire = wire
      BY <1>2, <1>3, ConcatEmptySeq
    <2> QED
      BY <2>2, <2>3, <2>6, <2>7 DEF AreLines, Pending
  <1>5. ~Gone
    BY <1>2 DEF IrcInv, SessionInv, Offline, Gone
  <1>6. Registering => Registering'
    BY <1>2, <1>4 DEF Registering, Watched
  <1>7. Connected => Connected'
    <2> SUFFICES ASSUME Connected PROVE Connected'
      OBVIOUS
    <2>1. PICK P : Leads(P, Pending) /\ Starts(P[0]) /\ Ends(P[Len(Pending)])
      BY DEF Connected, InSession
    <2>2. PICK n : n = Len(Pending)
      OBVIOUS
    <2>3. Starts(P[0])'
      BY <1>2, <2>1 DEF Starts
    <2>4. Ends(P[n])'
      BY <1>2, <2>1, <2>2 DEF Ends, View, Watched
    <2> QED
      BY <1>2, <1>4, <2>1, <2>2, <2>3, <2>4 DEF Connected, InSession, Watched
  <1> QED
    BY <1>2, <1>4, <1>5, <1>6, <1>7 DEF IrcInv, IrcTypes, SessionInv, Gone

\* The connection is lost, or taken down by the command.
LEMMA LostKeeps ==
  ASSUME IrcInv, UNCHANGED inst, link' \in {"down", "unloaded"}, channel' = Absent, wire' = <<>>, sent' = "none",
         member' = Restrict(member, DOMAIN member \ {Me}), cut' = (cut \/ batch # <<>>), spoiled' = {},
         UNCHANGED <<batch, dead, myNick>>
  PROVE  IrcInv'
  <1>1. DOMAIN member' = DOMAIN member \ {Me} /\ \A m \in DOMAIN member' : member'[m] = member[m]
    BY DEF Restrict
  <1>2. Peopled(member, myNick) /\ cut \in BOOLEAN /\ dead \in BOOLEAN
    BY DEF IrcInv, IrcTypes
  <1>3. Peopled(member', myNick) /\ ~Watched'
    BY <1>1, <1>2 DEF Peopled, Members, NicksOfOne, Watched
  <1>4. AreLines'
    <2>1. PICK S : batch \in Seq(S)
      BY DEF IrcInv, IrcTypes, AreLines
    <2> QED
      BY <2>1 DEF AreLines
  <1>5. Offline'
    BY <1>2, <1>3 DEF Offline
  <1> QED
    BY <1>2, <1>3, <1>4, <1>5 DEF IrcInv, IrcTypes, SessionInv, Gone

-----------------------------------------------------------------------------
(* The tables.                                                             *)

\* Nothing is on its way: the bot has what the server has.
LEMMA BotKnows ==
  ASSUME IrcInv, InStep
  PROVE  Agrees(channel, View)
  <1>1. link = "up" /\ ~dead /\ Watched /\ batch = <<>> /\ wire = <<>>
    BY DEF InStep, Watched
  <1>2. PICK P : Leads(P, Pending) /\ Starts(P[0]) /\ Ends(P[Len(Pending)])
    BY <1>1 DEF IrcInv, SessionInv, Connected, InSession
  <1>3. Len(Pending) = 0
    <2>1. Pending = <<>>
      BY <1>1 DEF Pending
    <2> QED
      BY <2>1
  <1>4. P[0] = View /\ P[0].in
    BY <1>1, <1>2, <1>3 DEF Ends, View, ViewOf
  <1> QED
    BY <1>2, <1>4 DEF Starts

LEMMA IrcInvTables == IrcInv => TablesAgree
  <1> SUFFICES ASSUME IrcInv, InStep, NEW k \in Nicks, Low[k] \notin spoiled
               PROVE  /\ k \in channel.users.data <=> \E m \in DOMAIN member : member[m].nick = k
                      /\ \A l \in Letters :
                           k \in channel[l].data <=> \E m \in DOMAIN member : member[m].nick = k /\ Has(m, l)
    BY DEF TablesAgree
  <1>1. Agrees(channel, View)
    BY BotKnows
  <1>2. /\ Right(channel.users, View.nicks, spoiled) /\ Right(channel.o, View.o, spoiled)
        /\ Right(channel.v, View.v, spoiled)
    BY <1>1 DEF Agrees, View, ViewOf
  <1>3. /\ View.nicks = {member[m].nick : m \in DOMAIN member}
        /\ View.o = NicksWith(member, "o") /\ View.v = NicksWith(member, "v")
    BY DEF View, ViewOf
  <1>4. k \in channel.users.data <=> \E m \in DOMAIN member : member[m].nick = k
    BY <1>2, <1>3 DEF Right
  <1>5. ASSUME NEW l \in Letters
        PROVE  k \in channel[l].data <=> \E m \in DOMAIN member : member[m].nick = k /\ Has(m, l)
    <2>1. l = "o" \/ l = "v"
      BY NicksAssumption DEF Letters, IrcInv, IrcTypes
    <2>2. k \in channel[l].data <=> k \in NicksWith(member, l)
      BY <1>2, <1>3, <2>1 DEF Right
    <2> QED
      BY <2>2 DEF NicksWith, Has
  <1> QED
    BY <1>4, <1>5

-----------------------------------------------------------------------------
(* The initial state.                                                      *)

\* Late, everybody is in the channel, without modes, and the bot has been told.
LEMMA LateBegins ==
  ASSUME IrcInit, Late
  PROVE  /\ link = "up" /\ batch = <<>> /\ wire = <<>> /\ sent = "none" /\ ~dead /\ ~cut
         /\ Peopled(member, MyNick) /\ Watched /\ Agrees(channel, View)
  <1> DEFINE names == {[prefix |-> "", nick |-> m.nick] : m \in Range(member)}
  <1>1. /\ link = "up" /\ member \in [Users \cup {Me} -> [nick : Nicks, modes : {{}}]]
        /\ member[Me].nick = MyNick
        /\ \A m, k \in DOMAIN member : Low[member[m].nick] = Low[member[k].nick] => m = k
        /\ channel = NamReply(NewChannel, names)
        /\ batch = <<>> /\ dead = FALSE /\ myNick = MyNick /\ sent = "none" /\ wire = <<>>
        /\ spoiled = {} /\ cut = FALSE
    BY DEF IrcInit
  <1>2. DOMAIN member = Users \cup {Me}
          /\ \A m \in DOMAIN member : member[m].nick \in Nicks /\ member[m].modes = {}
    BY <1>1
  <1>3. \A m \in DOMAIN member : member[m] \in [nick : Nicks, modes : SUBSET {"o", "v"}]
    BY <1>1
  <1>4. Peopled(member, MyNick)
    BY <1>1, <1>2, <1>3 DEF Peopled, Members, NicksOfOne
  <1>5. MyNick \in Nicks
    BY NicksAssumption
  <1>6. Sound(View)
    BY <1>1, <1>2, <1>4, <1>5, ViewSound DEF View
  <1>7. View.in /\ View.real = MyNick /\ View.off = {} /\ View.nicks = {member[m].nick : m \in DOMAIN member}
    BY <1>1 DEF View, ViewOf
  <1>8. View.o = {} /\ View.v = {}
    BY <1>2 DEF View, ViewOf, NicksWith
  <1>9. Lists(names, View)
    <2>1. \A x : x \in Range(member) <=> \E m \in DOMAIN member : x = member[m]
      BY DEF Range
    <2>2. ASSUME NEW e \in names PROVE e.prefix = "" /\ \E x \in Range(member) : e.nick = x.nick
      <3>1. PICK x \in Range(member) : e = [prefix |-> "", nick |-> x.nick]
        OBVIOUS
      <3> QED
        BY <3>1
    <2>3. ASSUME NEW x \in Range(member) PROVE \E e \in names : e.nick = x.nick
      <3>1. [prefix |-> "", nick |-> x.nick] \in names
        OBVIOUS
      <3> QED
        BY <3>1
    <2> HIDE DEF names
    <2>4. \A k : k \in View.nicks <=> k \in {e.nick : e \in names}
      <3>1. ASSUME NEW k \in View.nicks PROVE \E e \in names : e.nick = k
        BY <1>7, <2>1, <2>3
      <3>2. ASSUME NEW e \in names PROVE e.nick \in View.nicks
        <4>1. PICK x \in Range(member) : e.nick = x.nick
          BY <2>2
        <4>2. PICK m \in DOMAIN member : x = member[m]
          BY <2>1
        <4> QED
          BY <1>7, <4>1, <4>2
      <3> QED
        BY <3>1, <3>2
    <2>5. \A e \in names : e.prefix # "o" /\ e.prefix # "v"
      BY <2>2
    <2> QED
      BY <1>8, <2>4, <2>5 DEF Lists
  <1>10. GoodChannel(NewChannel) /\ NewChannel.users.data = {} /\ NewChannel.o.data = {}
           /\ NewChannel.v.data = {}
    <2>1. Good(EmptyDict) /\ EmptyDict.data = {} /\ EmptyDict \in Dicts
      BY EmptyIs DEF Good
    <2> QED
      BY <2>1, MadeChannel DEF NewChannel
  <1> HIDE DEF names
  <1>11. Agrees(channel, View)
    BY <1>1, <1>6, <1>7, <1>9, <1>10, NamesFill
  <1> QED
    BY <1>1, <1>2, <1>4, <1>11 DEF Watched

LEMMA IrcInvBegins == IrcInit => IrcInv /\ ~dead
  <1> SUFFICES ASSUME IrcInit PROVE IrcInv /\ ~dead
    OBVIOUS
  <1>1. /\ inst \in Instances /\ real = MyNick /\ batch = <<>> /\ dead = FALSE
        /\ myNick = MyNick /\ sent = "none" /\ wire = <<>> /\ spoiled = {} /\ cut = FALSE
    BY DEF IrcInit
  <1>2. AreLines /\ Pending = <<>> /\ MyNick \in Nicks
    <2>1. <<>> \in Seq({}) /\ <<>> \o <<>> = <<>>
      OBVIOUS
    <2> QED
      BY <1>1, <2>1, NicksAssumption DEF AreLines, Pending
  <1>3. CASE Late
    <2>1. link = "up" /\ Peopled(member, MyNick) /\ Watched /\ Agrees(channel, View)
      BY <1>3, LateBegins
    <2>2. View.in /\ View.real = MyNick /\ Sound(View)
      BY <1>1, <1>2, <2>1, ViewSound DEF View, ViewOf, Watched
    <2>3. PICK P : Leads(P, <<>>) /\ P[0] = View /\ P[Len(<<>>)] = View
      BY <2>2, LeadsNowhere
    <2>4. Starts(P[0])
      BY <1>1, <2>1, <2>2, <2>3 DEF Starts
    <2>5. Ends(P[Len(<<>>)])
      <3>1. View.in = TRUE /\ Watched = TRUE
        BY <2>1 DEF View, ViewOf, Watched
      <3> QED
        BY <1>1, <2>2, <2>3, <3>1 DEF Ends
    <2>6. Connected
      BY <1>1, <1>2, <2>3, <2>4, <2>5 DEF Connected, InSession
    <2> QED
      BY <1>1, <1>2, <2>1, <2>6 DEF IrcInv, IrcTypes, SessionInv, Gone
  <1>4. CASE ~Late
    <2>1. link = "down" /\ channel = Absent /\ member = [m \in {} |-> None]
      BY <1>4 DEF IrcInit
    <2>2. Peopled(member, MyNick) /\ ~Watched
      BY <2>1 DEF Peopled, Members, NicksOfOne, Watched
    <2> QED
      BY <1>1, <1>2, <2>1, <2>2 DEF IrcInv, IrcTypes, SessionInv, Gone, Offline
  <1> QED
    BY <1>3, <1>4

-----------------------------------------------------------------------------
(* Whom the bot still knows after a line.                                  *)

LEMMA ModeUsers ==
  ASSUME NEW c, NEW p, Sound(p), Agrees(c, p), NEW l, NEW q, FollowsMode(p, l, q)
  PROVE  ApplyModes(c, ParseModes(l.chars, l.args)).users = c.users
  <1>1. PICK k \in p.nicks, mode \in {"o", "v"}, sign \in {"+", "-"}, withLimit \in BOOLEAN :
          ModeLine(sign, mode, k, withLimit, l)
    BY DEF FollowsMode
  <1>2. c \in Channels /\ k \in Nicks
    BY AgreesIs, SoundIs
  <1>3. \A d \in Channels : \A x, s : OneMode(d, <<s, mode, x>>).users = d.users
    BY DEF OneMode, SetMode, ClearMode, Channels
  <1>4. \A modes \in SUBSET {"b", "k", "l"} :
          [c EXCEPT !.modes = modes] \in Channels /\ [c EXCEPT !.modes = modes].users = c.users
    BY <1>2 DEF Channels
  <1>5. c.modes \cup {"l"} \in SUBSET {"b", "k", "l"} /\ c.modes \ {"l"} \in SUBSET {"b", "k", "l"}
    BY <1>2 DEF Channels
  <1>6. CASE ~withLimit
    <2>1. l.chars = <<sign, mode>> /\ l.args = <<k>>
      BY <1>1, <1>6 DEF ModeLine
    <2>2. ApplyModes(c, ParseModes(<<sign, mode>>, <<k>>)) = OneMode(c, <<sign, mode, k>>)
      BY <1>2, ModeLineIs
    <2> QED
      BY <1>2, <1>3, <2>1, <2>2
  <1>7. CASE withLimit /\ sign = "+"
    <2>1. l.chars = <<"+", "l", mode>> /\ l.args = <<None, k>>
      BY <1>1, <1>7 DEF ModeLine
    <2> DEFINE d == [c EXCEPT !.modes = c.modes \cup {"l"}]
    <2>2. ApplyModes(c, ParseModes(<<"+", "l", mode>>, <<None, k>>)) = OneMode(d, <<"+", mode, k>>)
      BY <1>2, ModeLineIs
    <2>3. d \in Channels /\ d.users = c.users
      BY <1>4, <1>5
    <2> HIDE DEF d
    <2> QED
      BY <1>3, <2>1, <2>2, <2>3
  <1>8. CASE withLimit /\ sign = "-"
    <2>1. l.chars = <<"-", "l", mode>> /\ l.args = <<k>>
      BY <1>1, <1>8 DEF ModeLine
    <2> DEFINE d == [c EXCEPT !.modes = c.modes \ {"l"}]
    <2>2. ApplyModes(c, ParseModes(<<"-", "l", mode>>, <<k>>)) = OneMode(d, <<"-", mode, None>>)
      BY <1>2, ModeLineIs
    <2>3. d \in Channels /\ d.users = c.users
      BY <1>4, <1>5
    <2> HIDE DEF d
    <2> QED
      BY <1>3, <2>1, <2>2, <2>3
  <1> QED
    BY <1>6, <1>7, <1>8

\* Only who goes is taken off the table, and only who had the nick.
LEMMA RemoveUsers ==
  ASSUME NEW c, NEW p, Sound(p), Agrees(c, p), NEW k \in p.nicks
  PROVE  /\ \A n \in c.users.data : n = k \/ n \in RemoveUser(c, k).users.data
         /\ RemoveUser(c, k) # Absent
  <1>1. c \in Channels /\ Good(c.users) /\ c.users.data \subseteq p.nicks /\ k \in Nicks
    BY AgreesIs, SoundIs DEF Agrees
  <1>2. \A n : n \in Discard(c.users, k).data <=> n \in c.users.data /\ Low[n] # Low[k]
    BY <1>1, DiscardIs
  <1>3. \A n \in p.nicks : Low[n] = Low[k] => n = k
    BY SoundIs
  <1>4. RemoveUser(c, k).users = Discard(c.users, k)
    BY <1>1 DEF RemoveUser, Channels
  <1>5. RemoveUser(c, k) # Absent
    <2> DEFINE r == [in |-> TRUE, real |-> p.real, nicks |-> p.nicks \ {k}, o |-> p.o \ {k}, v |-> p.v \ {k},
                     off |-> p.off]
    <2>1. Agrees(RemoveUser(c, k), r)
      BY RemoveFollows
    <2> HIDE DEF r
    <2> QED
      BY <2>1, AgreesIs
  <1> QED
    BY <1>1, <1>2, <1>3, <1>4, <1>5

LEMMA NickUsers ==
  ASSUME NEW c, NEW p, Sound(p), Agrees(c, p), NEW b, NEW a, NEW q, FollowsNick(p, b, a, q), HasKey(c.users, b)
  PROVE  \A n \in c.users.data : n = b \/ n \in ChangeNick(c, b, a).users.data
  <1>1. /\ c \in Channels /\ Good(c.users) /\ c.users.data \subseteq p.nicks
        /\ b \in p.nicks /\ b \in Nicks /\ a \in Nicks
        /\ Low[a] = Low[b] \/ Fresh(a, p.nicks)
    BY AgreesIs, SoundIs DEF Agrees, FollowsNick
  <1>2. \A n : n \in Renamed(c.users, b, a).data <=>
          /\ n = a \/ (n \in c.users.data /\ Low[n] # Low[a])
          /\ Low[n] # Low[b]
    BY <1>1, RenamedIs
  <1>3. \A n \in p.nicks : Low[n] = Low[b] => n = b
    BY <1>1, SoundIs
  <1>4. ChangeNick(c, b, a).users = Renamed(c.users, b, a)
    BY <1>1 DEF ChangeNick, Channels
  <1> QED
    BY <1>1, <1>2, <1>3, <1>4 DEF Fresh

LEMMA JoinUsers ==
  ASSUME NEW c, NEW p, Sound(p), Agrees(c, p), NEW k \in Nicks, Fresh(k, p.nicks)
  PROVE  \A n \in c.users.data : n \in AddUser(c, k).users.data
  <1>1. c \in Channels /\ Good(c.users) /\ c.users.data \subseteq p.nicks
    BY AgreesIs DEF Agrees
  <1>2. \A n : n \in SetKey(c.users, k).data <=> n = k \/ (n \in c.users.data /\ Low[n] # Low[k])
    BY <1>1, SetKeyIs
  <1>3. AddUser(c, k).users = SetKey(c.users, k)
    BY <1>1 DEF AddUser, Channels
  <1> QED
    BY <1>1, <1>2, <1>3 DEF Fresh
=============================================================================
