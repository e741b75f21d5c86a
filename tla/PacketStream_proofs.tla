------------------------- MODULE PacketStream_proofs -------------------------
(***************************************************************************)
(* Both directions of PacketStream implement PacketChannel (its safety     *)
(* part), for every value of the constants.  The invariant says where each *)
(* packet lies in the bytes of its direction (Framed) and that a receiver  *)
(* always stands at the offset behind the last packet it has received.     *)
(***************************************************************************)
EXTENDS PacketStream, SequenceTheorems, TLAPS

\* Packet p is written at offset i of b.
Lies(p, b, i) ==
  /\ i + HeaderSize + p.size <= Len(b)
  /\ SizeAt(b, i) = HeaderSize + p.size
  /\ b[i + 3] = p.command
  /\ \A j \in 1 .. p.size : b[i + 3 + j] = p.data[j]

\* The offset behind the first k packets.
Offset(b, start, k) == IF k = Len(start) THEN Len(b) ELSE start[k + 1]

Framed(s, b, start) ==
  /\ Len(start) = Len(s)
  /\ \A i \in 1 .. Len(s) :
       /\ Lies(s[i], b, start[i])
       /\ Offset(b, start, i) = start[i] + HeaderSize + s[i].size

\* r is the beginning of s.
Beginning(r, s) == Len(r) <= Len(s) /\ \A i \in 1 .. Len(r) : r[i] = s[i]

UpInv ==
  /\ Framed(upSent, upBytes, upStart)
  /\ Beginning(upReceived, upSent)
  /\ low = Offset(upBytes, upStart, Len(upReceived))

DownInv ==
  /\ Framed(downSent, downBytes, downStart)
  /\ Beginning(downReceived, downSent)
  /\ from = Offset(downBytes, downStart, Len(downReceived))
  /\ want # HeaderSize =>
       got >= HeaderSize /\ want = SizeAt(downBytes, from) /\ want > HeaderSize

-----------------------------------------------------------------------------
\* What is cut out of a sequence between two offsets.
LEMMA Cut ==
  ASSUME NEW S, NEW s \in Seq(S), NEW m \in 0 .. Len(s), NEW k \in m .. Len(s)
  PROVE  /\ SubSeq(s, m + 1, k) \in Seq(S)
         /\ Len(SubSeq(s, m + 1, k)) = k - m
         /\ \A i \in 1 .. k - m : SubSeq(s, m + 1, k)[i] = s[m + i]
<1> DEFINE f == m + 1
<1>1. f \in Int /\ k \in Int /\ m \in Int /\ f = m + 1 /\ m <= k
  BY LenProperties
<1>2. ASSUME NEW j \in f .. k PROVE s[j] \in S
  <2>1. j \in 1 .. Len(s)
    BY <1>1, LenProperties
  <2> QED BY <2>1, ElementOfSeq
<1> HIDE DEF f
<1>3. /\ SubSeq(s, f, k) \in Seq(S)
      /\ Len(SubSeq(s, f, k)) = IF f <= k THEN k - f + 1 ELSE 0
      /\ \A i \in 1 .. k - f + 1 : SubSeq(s, f, k)[i] = s[f + i - 1]
  <2>1. f \in Int /\ k \in Int
    BY <1>1
  <2>2. \A j \in f .. k : s[j] \in S
    BY <1>2
  <2> QED BY <2>1, <2>2, SubSeqProperties
<1>4. Len(SubSeq(s, f, k)) = k - m
  BY <1>1, <1>3
<1>5. ASSUME NEW i \in 1 .. k - m PROVE SubSeq(s, f, k)[i] = s[m + i]
  <2>1. i \in 1 .. k - f + 1 /\ f + i - 1 = m + i
    BY <1>1
  <2>2. SubSeq(s, f, k)[i] = s[f + i - 1]
    BY <1>3, <2>1, Zenon
  <2> QED BY <2>1, <2>2, Zenon
<1> QED BY <1>1, <1>3, <1>4, <1>5, Zenon

\* A sequence behind another one.
LEMMA Joined ==
  ASSUME NEW S, NEW b \in Seq(S), NEW e \in Seq(S) 
  PROVE /\ b \o e \in Seq(S)
        /\ Len(b \o e) = Len(b) + Len(e)
        /\ \A i \in 1 .. Len(b) : (b \o e)[i] = b[i]
        /\ \A i \in 1 .. Len(e) : (b \o e)[Len(b) + i] = e[i]
<1>1. /\ b \o e \in Seq(S) /\ Len(b \o e) = Len(b)+Len(e) 
      /\ \A i \in 1..Len(b)+Len(e) : (b \o e)[i] = IF i <= Len(b) THEN b[i] ELSE e[i - Len(b)]
  BY ConcatProperties, Zenon
<1>2. Len(b) \in Nat /\ Len(e) \in Nat 
  BY LenProperties
<1>3. ASSUME NEW i \in 1 .. Len(e) PROVE (b \o e)[Len(b) + i] = e[i]
  <2>1. Len(b) + i \in 1 .. Len(b) + Len(e) /\ ~(Len(b) + i <= Len(b)) /\ Len(b) + i - Len(b) = i
    BY <1>2
  <2> QED BY <1>1, <2>1
<1>4. ASSUME NEW i \in 1 .. Len(b) PROVE (b \o e)[i] = b[i]
  <2>1. i \in 1 .. Len(b) + Len(e) /\ i <= Len(b)
    BY <1>2
  <2> QED BY <1>1, <2>1, Zenon
<1> QED BY <1>1, <1>3, <1>4, Zenon

LEMMA BehindHeader == \A x, y \in Nat : x + 3 + y = x + (3 + y)
OBVIOUS

LEMMA PacketType ==
  ASSUME NEW p \in Packets
  PROVE  /\ p = [size |-> p.size, command |-> p.command, data |-> p.data]
         /\ p.size \in Nat /\ p.command \in Byte
         /\ p.data \in Seq(Byte) /\ p.data \in Payloads /\ Len(p.data) = p.size
<1>1. PICK c \in Commands, d \in {e \in Payloads : Fits(e)} : p = Packet(c, d)
  BY DEF Packets
<1>2. d \in Seq(Byte) /\ c \in Byte
  BY BytesAssumption DEF Byte
<1> QED BY <1>1, <1>2, LenProperties DEF Packet

\* Dividing by Base and multiplying again.
LEMMA DivMod ==
  ASSUME NEW m \in Nat, m < Base * Base
  PROVE  /\ m % Base \in Byte /\ m \div Base \in Byte
         /\ (m % Base) + Base * (m \div Base) = m
<1>1. m % Base \in 0 .. Base - 1 /\ m \div Base \in Nat
  BY BaseAssumption, Z3
<1>2. (m % Base) + Base * (m \div Base) = m
  BY BaseAssumption, Z3
<1>3. m \div Base < Base
  <2> DEFINE q == m \div Base
  <2>0. q \in Nat
    BY <1>1
  <2>1. SUFFICES ASSUME q >= Base PROVE FALSE
    BY <1>1, BaseAssumption
  <2>2. Base * q >= Base * Base
    BY <2>1, <1>1, BaseAssumption, Z3
  <2>3. m >= Base * q
    BY <1>1, <1>2, BaseAssumption
  <2> HIDE DEF q
  <2> QED BY <2>0, <2>2, <2>3, BaseAssumption
<1> QED BY <1>1, <1>2, <1>3, BaseAssumption DEF Byte

\* What createPacketHeader and the payload look like on the wire.
LEMMA EncodeProperties ==
  ASSUME NEW c \in Commands, NEW d \in Payloads, Fits(d)
  PROVE  /\ Encode(c, d) \in Seq(Byte) /\ Len(Encode(c, d)) = HeaderSize + Len(d)
         /\ SizeAt(Encode(c, d), 0) = HeaderSize + Len(d)
         /\ Encode(c, d)[3] = c
         /\ \A j \in 1 .. Len(d) : Encode(c, d)[3 + j] = d[j]
<1> DEFINE n == PacketSize(d)
           h == <<n % Base, n \div Base, c>>
<1>1. d \in Seq(Byte) /\ c \in Byte /\ Len(d) \in Nat /\ n = 3 + Len(d)
  BY BytesAssumption, LenProperties DEF Byte, PacketSize, HeaderSize
<1>2. n % Base \in Byte /\ n \div Base \in Byte /\ (n % Base) + Base * (n \div Base) = n
  <2>1. n \in Nat /\ n < Base * Base
    BY <1>1 DEF Fits
  <2> HIDE DEF n
  <2> QED BY <2>1, DivMod
<1> HIDE DEF n
<1>3. h \in Seq(Byte) /\ Len(h) = 3 /\ h[1] = n % Base /\ h[2] = n \div Base /\ h[3] = c
  BY <1>1, <1>2
<1>4. Encode(c, d) = h \o d
  BY DEF Encode, n, h
<1> HIDE DEF h
<1>5. /\ h \o d \in Seq(Byte) /\ Len(h \o d) = Len(h) + Len(d)
      /\ \A i \in 1 .. Len(h) : (h \o d)[i] = h[i]
      /\ \A j \in 1 .. Len(d) : (h \o d)[Len(h) + j] = d[j]
  <2>1. h \in Seq(Byte) /\ d \in Seq(Byte)
    BY <1>1, <1>3
  <2> QED BY <2>1, Joined
<1>6. (h \o d)[1] = n % Base /\ (h \o d)[2] = n \div Base /\ (h \o d)[3] = c
  <2>1. 1 \in 1 .. 3 /\ 2 \in 1 .. 3 /\ 3 \in 1 .. 3
    OBVIOUS
  <2> QED BY <2>1, <1>3, <1>5, Zenon
<1>7. \A j \in 1 .. Len(d) : (h \o d)[3 + j] = d[j]
  BY <1>3, <1>5
<1>8. SizeAt(h \o d, 0) = n
  <2>1. 0 + 1 = 1 /\ 0 + 2 = 2
    OBVIOUS
  <2>2. SizeAt(h \o d, 0) = (h \o d)[1] + Base * (h \o d)[2]
    BY <2>1 DEF SizeAt
  <2> QED BY <2>2, <1>6, <1>2
<1>9. Len(h \o d) = 3 + Len(d)
  BY <1>3, <1>5
<1> QED BY <1>1, <1>4, <1>5, <1>6, <1>7, <1>8, <1>9, Zenon DEF HeaderSize

-----------------------------------------------------------------------------
\* Sending keeps the frame, moves no packet, and puts the new one behind the last byte.
LEMMA SendFrames ==
  ASSUME NEW s \in Seq(Packets), NEW b \in Seq(Byte), NEW start \in Seq(Nat),
         Framed(s, b, start),
         NEW c \in Commands, NEW d \in Payloads, Fits(d)
  PROVE  /\ Packet(c, d) \in Packets
         /\ b \o Encode(c, d) \in Seq(Byte) /\ Append(start, Len(b)) \in Seq(Nat)
         /\ Len(b \o Encode(c, d)) = Len(b) + HeaderSize + Len(d)
         /\ \A i \in 1 .. Len(b) : (b \o Encode(c, d))[i] = b[i]
         /\ Framed(Append(s, Packet(c, d)), b \o Encode(c, d), Append(start, Len(b)))
         /\ \A k \in 0 .. Len(s) :
              Offset(b \o Encode(c, d), Append(start, Len(b)), k) = Offset(b, start, k)
<1> DEFINE e == Encode(c, d)
           b1 == b \o e
           p == Packet(c, d)
           s1 == Append(s, p)
           start1 == Append(start, Len(b))
<1>1. /\ e \in Seq(Byte) /\ Len(e) = 3 + Len(d) /\ SizeAt(e, 0) = 3 + Len(d)
      /\ e[3] = c /\ \A j \in 1 .. Len(d) : e[3 + j] = d[j]
  BY EncodeProperties DEF HeaderSize
<1> HIDE DEF e
<1>2. Len(d) \in Nat /\ Len(b) \in Nat /\ Len(s) \in Nat /\ Len(start) = Len(s)
  BY BytesAssumption, LenProperties DEF Framed
<1>3. /\ b1 \in Seq(Byte) /\ Len(b1) = Len(b) + Len(e)
      /\ \A i \in 1 .. Len(b) : b1[i] = b[i]
      /\ \A i \in 1 .. Len(e) : b1[Len(b) + i] = e[i]
  <2>1. e \in Seq(Byte)
    BY <1>1
  <2> QED BY <2>1, Joined
<1> HIDE DEF b1
<1>4. p \in Packets /\ p.size = Len(d) /\ p.command = c /\ p.data = d
  BY DEF Packets, Packet
<1> HIDE DEF p
<1>5. /\ s1 \in Seq(Packets) /\ Len(s1) = Len(s) + 1 /\ s1[Len(s) + 1] = p
      /\ \A i \in 1 .. Len(s) : s1[i] = s[i]
  BY <1>2, <1>4, AppendProperties
<1>6. /\ start1 \in Seq(Nat) /\ Len(start1) = Len(s) + 1 /\ start1[Len(s) + 1] = Len(b)
      /\ \A i \in 1 .. Len(s) : start1[i] = start[i] /\ start1[i] \in Nat
  BY <1>2, AppendProperties
<1> HIDE DEF s1, start1
<1>7. \A k \in 0 .. Len(s) : Offset(b1, start1, k) = Offset(b, start, k)
  BY <1>2, <1>6, SMTT(30) DEF Offset
<1>8. Lies(p, b1, Len(b))
  <2>1. b1[Len(b) + 1] = e[1] /\ b1[Len(b) + 2] = e[2] /\ b1[Len(b) + 3] = e[3]
    <3>1. 1 \in 1 .. Len(e) /\ 2 \in 1 .. Len(e) /\ 3 \in 1 .. Len(e)
      BY <1>1, <1>2
    <3> QED BY <3>1, <1>3, Zenon
  <2>2. SizeAt(b1, Len(b)) = SizeAt(e, 0)
    <3>1. 0 + 1 = 1 /\ 0 + 2 = 2
      OBVIOUS
    <3> QED BY <2>1, <3>1 DEF SizeAt
  <2>3. ASSUME NEW j \in 1 .. Len(d) PROVE b1[Len(b) + 3 + j] = d[j]
    <3>1. 3 + j \in 1 .. Len(e) /\ Len(b) + 3 + j = Len(b) + (3 + j)
      BY <1>1, <1>2
    <3> QED BY <3>1, <1>1, <1>3, Zenon
  <2> QED BY <1>1, <1>2, <1>3, <1>4, <2>1, <2>2, <2>3 DEF Lies, HeaderSize
<1>9. ASSUME NEW i \in 1 .. Len(s) PROVE Lies(s1[i], b1, start1[i])
  <2>1. s1[i] = s[i] /\ start1[i] = start[i] /\ start[i] \in Nat /\ s[i] \in Packets
    BY <1>5, <1>6, ElementOfSeq
  <2>2. Lies(s[i], b, start[i])
    BY DEF Framed
  <2>3. s[i].size \in Nat
    BY <2>1, PacketType
  <2>4. start[i] + 3 + s[i].size <= Len(b)
    BY <2>2 DEF Lies, HeaderSize
  <2>5. ASSUME NEW k \in 1 .. 3 + s[i].size PROVE b1[start[i] + k] = b[start[i] + k]
    <3>1. start[i] + k \in 1 .. Len(b)
      BY <1>2, <2>1, <2>3, <2>4, SMTT(30)
    <3> QED BY <3>1, <1>3, Zenon
  <2>6. b1[start[i] + 1] = b[start[i] + 1] /\ b1[start[i] + 2] = b[start[i] + 2] /\ b1[start[i] + 3] = b[start[i] + 3]
    <3>1. 1 \in 1 .. 3 + s[i].size /\ 2 \in 1 .. 3 + s[i].size /\ 3 \in 1 .. 3 + s[i].size
      BY <2>3
    <3> QED BY <3>1, <2>5, Zenon
  <2>7. SizeAt(b1, start[i]) = SizeAt(b, start[i])
    BY <2>6 DEF SizeAt
  <2>8. ASSUME NEW j \in 1 .. s[i].size PROVE b1[start[i] + 3 + j] = s[i].data[j]
    <3>1. 3 + j \in 1 .. 3 + s[i].size /\ start[i] + 3 + j = start[i] + (3 + j)
      <4>1. start[i] \in Nat /\ j \in Nat /\ 3 + j \in 1 .. 3 + s[i].size
        BY <2>1, <2>3
      <4> QED BY <4>1, BehindHeader, Zenon
    <3>2. b[start[i] + 3 + j] = s[i].data[j]
      BY <2>2 DEF Lies
    <3> QED BY <3>1, <3>2, <2>5, Zenon
  <2>9. /\ start[i] + 3 + s[i].size <= Len(b1) /\ SizeAt(b1, start[i]) = 3 + s[i].size
        /\ b1[start[i] + 3] = s[i].command
    <3>1. SizeAt(b, start[i]) = 3 + s[i].size /\ b[start[i] + 3] = s[i].command
      BY <2>2 DEF Lies, HeaderSize
    <3>2. Len(b) <= Len(b1)
      BY <1>1, <1>2, <1>3
    <3>3. Len(b1) \in Nat
      BY <1>3, LenProperties
    <3>4. start[i] + 3 + s[i].size <= Len(b1)
      BY <3>2, <3>3, <1>2, <2>1, <2>3, <2>4
    <3> QED BY <3>1, <3>4, <2>6, <2>7
  <2> QED BY <2>1, <2>8, <2>9 DEF Lies, HeaderSize
<1>10. ASSUME NEW i \in 1 .. Len(s1)
       PROVE /\ Lies(s1[i], b1, start1[i])
             /\ Offset(b1, start1, i) = start1[i] + HeaderSize + s1[i].size
  <2>1. CASE i = Len(s) + 1
    <3>1. s1[i] = p /\ start1[i] = Len(b) /\ i = Len(start1)
      BY <2>1, <1>5, <1>6
    <3>2. Offset(b1, start1, i) = Len(b1)
      BY <3>1 DEF Offset
    <3>3. Len(b1) = Len(b) + 3 + Len(d)
      BY <1>1, <1>2, <1>3
    <3> QED BY <3>1, <3>2, <3>3, <1>4, <1>8 DEF HeaderSize
  <2>2. CASE i \in 1 .. Len(s)
    <3>1. Offset(b, start, i) = start[i] + HeaderSize + s[i].size
      BY <2>2 DEF Framed
    <3> QED BY <2>2, <3>1, <1>5, <1>6, <1>7, <1>9
  <2> QED BY <2>1, <2>2, <1>2, <1>5
<1>11. Framed(s1, b1, start1)
  BY <1>5, <1>6, <1>10 DEF Framed
<1> QED
  BY <1>1, <1>2, <1>3, <1>4, <1>6, <1>7, <1>11 DEF b1, s1, start1, p, e, HeaderSize

\* What a receiver cuts out behind the first k packets is packet k + 1.
LEMMA CutPacket ==
  ASSUME NEW s \in Seq(Packets), NEW b \in Seq(Byte), NEW start \in Seq(Nat),
         Framed(s, b, start), NEW k \in 0 .. Len(s) - 1,
         NEW i, i = Offset(b, start, k)
  PROVE  /\ i \in Nat /\ SizeAt(b, i) \in Nat /\ SizeAt(b, i) >= HeaderSize
         /\ i + SizeAt(b, i) <= Len(b)
         /\ i + SizeAt(b, i) = Offset(b, start, k + 1)
         /\ Decode(Part(b, i, i + SizeAt(b, i))) = s[k + 1]
<1> DEFINE p == s[k + 1]
           n == SizeAt(b, i)
           w == Part(b, i, i + n)
<1>1. Len(s) \in Nat /\ Len(b) \in Nat /\ Len(start) = Len(s) /\ k + 1 \in 1 .. Len(s)
  BY LenProperties DEF Framed
<1>2. p \in Packets /\ i = start[k + 1] /\ i \in Nat
  BY <1>1, ElementOfSeq DEF Offset
<1>3. /\ p = [size |-> p.size, command |-> p.command, data |-> p.data]
      /\ p.size \in Nat /\ p.data \in Seq(Byte) /\ Len(p.data) = p.size
  BY <1>2, PacketType
<1>4. Lies(p, b, i) /\ Offset(b, start, k + 1) = i + 3 + p.size
  BY <1>1, <1>2 DEF Framed, HeaderSize
<1> HIDE DEF p
<1>5. /\ n = 3 + p.size /\ i + 3 + p.size <= Len(b) /\ b[i + 3] = p.command
      /\ \A j \in 1 .. p.size : b[i + 3 + j] = p.data[j]
  BY <1>4 DEF Lies, HeaderSize
<1>6. n \in Nat /\ n = 3 + p.size /\ p.size \in Nat /\ i + n <= Len(b)
  BY <1>2, <1>3, <1>4, SMTT(30) DEF Lies, HeaderSize
<1> HIDE DEF n
<1>7. /\ w \in Seq(Byte) /\ Len(w) = n
      /\ \A j \in 1 .. n : w[j] = b[i + j]
  <2>1. i \in 0 .. Len(b) /\ i + n \in i .. Len(b) /\ (i + n) - i = n
    BY <1>1, <1>2, <1>6, SMTT(30)
  <2>2. /\ SubSeq(b, i + 1, i + n) \in Seq(Byte)
        /\ Len(SubSeq(b, i + 1, i + n)) = (i + n) - i
        /\ \A j \in 1 .. (i + n) - i : SubSeq(b, i + 1, i + n)[j] = b[i + j]
    BY <2>1, Cut
  <2> QED BY <2>1, <2>2, Zenon DEF Part
<1> HIDE DEF w
<1>8. SizeAt(w, 0) = n /\ w[3] = p.command
  <2>1. w[1] = b[i + 1] /\ w[2] = b[i + 2] /\ w[3] = b[i + 3]
    <3>1. 1 \in 1 .. n /\ 2 \in 1 .. n /\ 3 \in 1 .. n
      BY <1>6
    <3> QED BY <3>1, <1>7, Zenon
  <2> QED BY <2>1, <1>5 DEF SizeAt, n
<1>9. SubSeq(w, 4, n) = p.data
  <2>1. 3 \in 0 .. Len(w) /\ n \in 3 .. Len(w) /\ n - 3 = p.size /\ 3 + 1 = 4
    <3>1. Len(w) = n
      BY <1>7
    <3> QED BY <3>1, <1>6
  <2>2. /\ SubSeq(w, 4, n) \in Seq(Byte) /\ Len(SubSeq(w, 4, n)) = p.size
        /\ \A j \in 1 .. p.size : SubSeq(w, 4, n)[j] = w[3 + j]
    <3>1. /\ SubSeq(w, 3 + 1, n) \in Seq(Byte) /\ Len(SubSeq(w, 3 + 1, n)) = n - 3
          /\ \A j \in 1 .. n - 3 : SubSeq(w, 3 + 1, n)[j] = w[3 + j]
      BY <2>1, <1>7, Cut
    <3> QED BY <3>1, <2>1, Zenon
  <2>3. ASSUME NEW j \in 1 .. p.size PROVE SubSeq(w, 4, n)[j] = p.data[j]
    <3>1. 3 + j \in 1 .. n /\ i + 3 + j = i + (3 + j)
      <4>1. i \in Nat /\ j \in Nat
        BY <1>2, <1>6
      <4>2. 3 + j \in 1 .. n
        BY <1>6
      <4> QED BY <4>1, <4>2, BehindHeader, Zenon
    <3> QED BY <3>1, <2>2, <1>5, <1>7, Zenon
  <2> QED BY <2>2, <2>3, <1>3, SeqEqual
<1>10. Decode(w) = p
  BY <1>3, <1>5, <1>7, <1>8, <1>9 DEF Decode, HeaderSize
<1> QED
  <2>1. n >= 3 /\ i + n = i + 3 + p.size
    <3>1. n >= 3
      BY <1>6
    <3> QED BY <3>1, <1>2, <1>6, BehindHeader, Zenon
  <2> QED BY <2>1, <1>2, <1>4, <1>6, <1>10, Zenon DEF w, n, p, HeaderSize

-----------------------------------------------------------------------------
Inv == StreamTypeOK /\ UpInv /\ DownInv /\ NothingHeldBack

LEMMA InitInv == StreamInit => Inv
<1> SUFFICES ASSUME StreamInit PROVE Inv
  OBVIOUS
<1>1. Len(<<>>) = 0 /\ <<>> \in Seq(Packets) /\ <<>> \in Seq(Byte) /\ <<>> \in Seq(Nat)
  OBVIOUS
<1>2. StreamTypeOK
  <2>1. low \in 0 .. high /\ high \in 0 .. Len(upBytes) /\ parsing \in BOOLEAN
    <3>1. low = 0 /\ high = 0 /\ Len(upBytes) = 0 /\ parsing = FALSE
      BY <1>1 DEF StreamInit
    <3>2. low \in 0 .. high /\ high \in 0 .. Len(upBytes)
      BY <3>1
    <3> QED BY <3>1, <3>2, Zenon
  <2>2. from \in Nat /\ got \in 0 .. want /\ want \in Nat /\ from + got <= Len(downBytes)
    BY <1>1 DEF StreamInit, HeaderSize
  <2>3. /\ upSent \in Seq(Packets) /\ upReceived \in Seq(Packets) /\ upBytes \in Seq(Byte)
        /\ downSent \in Seq(Packets) /\ downReceived \in Seq(Packets) /\ downBytes \in Seq(Byte)
        /\ upStart \in Seq(Nat) /\ downStart \in Seq(Nat)
    BY <1>1 DEF StreamInit
  <2> QED BY <2>1, <2>2, <2>3 DEF StreamTypeOK
<1>3. UpInv /\ DownInv
  BY <1>1 DEF StreamInit, UpInv, DownInv, Framed, Beginning, Offset
<1>4. NothingHeldBack
  BY DEF StreamInit, NothingHeldBack, Whole, SizeSize
<1> QED BY <1>2, <1>3, <1>4 DEF Inv

\* The next packet the server takes out of its buffer is the next one that was sent.
LEMMA UpParseTakesNext ==
  ASSUME Inv, UpParse
  PROVE  /\ Len(upReceived) < Len(upSent)
         /\ upReceived' = Append(upReceived, upSent[Len(upReceived) + 1])
         /\ low' = Offset(upBytes, upStart, Len(upReceived) + 1)
         /\ low' \in 0 .. high
<1> USE DEF Inv
<1> DEFINE k == Len(upReceived)
<1>1. /\ upSent \in Seq(Packets) /\ upBytes \in Seq(Byte) /\ upStart \in Seq(Nat)
      /\ k \in Nat /\ Len(upSent) \in Nat /\ Len(upBytes) \in Nat
      /\ low \in 0 .. high /\ high \in 0 .. Len(upBytes)
  BY LenProperties DEF StreamTypeOK
<1>2. Framed(upSent, upBytes, upStart) /\ k <= Len(upSent) /\ low = Offset(upBytes, upStart, k)
  BY DEF UpInv, Beginning
<1>3. high - low >= 2 /\ SizeAt(upBytes, low) <= high - low
  BY DEF UpParse, Whole, SizeSize
<1>4. k # Len(upSent)
  <2>1. ASSUME k = Len(upSent) PROVE FALSE
    <3>1. Len(upStart) = Len(upSent)
      BY <1>2 DEF Framed
    <3>2. low = Len(upBytes)
      BY <1>2, <2>1, <3>1 DEF Offset
    <3> QED BY <3>2, <1>1, <1>3
  <2> QED BY <2>1
<1>5. k \in 0 .. Len(upSent) - 1
  BY <1>1, <1>2, <1>4
<1>6. /\ low \in Nat /\ SizeAt(upBytes, low) \in Nat /\ SizeAt(upBytes, low) >= HeaderSize
      /\ low + SizeAt(upBytes, low) <= Len(upBytes)
      /\ low + SizeAt(upBytes, low) = Offset(upBytes, upStart, k + 1)
      /\ Decode(Part(upBytes, low, low + SizeAt(upBytes, low))) = upSent[k + 1]
  BY <1>1, <1>2, <1>5, CutPacket
<1>7. low' = low + SizeAt(upBytes, low)
  BY DEF UpParse
<1>8. low + SizeAt(upBytes, low) \in 0 .. high
  BY <1>1, <1>3, <1>6
<1> QED BY <1>1, <1>5, <1>6, <1>7, <1>8 DEF UpParse

\* receive_bytes stands in a packet once it has got a byte.
LEMMA DownInside ==
  ASSUME Inv, got > 0
  PROVE  /\ Len(downReceived) \in 0 .. Len(downSent) - 1
         /\ from \in Nat /\ SizeAt(downBytes, from) \in Nat
         /\ SizeAt(downBytes, from) >= HeaderSize
         /\ from + SizeAt(downBytes, from) <= Len(downBytes)
         /\ from + SizeAt(downBytes, from) = Offset(downBytes, downStart, Len(downReceived) + 1)
         /\ Decode(Part(downBytes, from, from + SizeAt(downBytes, from)))
              = downSent[Len(downReceived) + 1]
<1> USE DEF Inv
<1> DEFINE k == Len(downReceived)
<1>1. /\ downSent \in Seq(Packets) /\ downBytes \in Seq(Byte) /\ downStart \in Seq(Nat)
      /\ k \in Nat /\ Len(downSent) \in Nat /\ Len(downBytes) \in Nat
      /\ from \in Nat /\ got \in Nat /\ from + got <= Len(downBytes)
  BY LenProperties DEF StreamTypeOK
<1>2. /\ Framed(downSent, downBytes, downStart) /\ k <= Len(downSent)
      /\ from = Offset(downBytes, downStart, k)
  BY DEF DownInv, Beginning
<1>3. k # Len(downSent)
  <2>1. ASSUME k = Len(downSent) PROVE FALSE
    <3>1. Len(downStart) = Len(downSent)
      BY <1>2 DEF Framed
    <3>2. from = Len(downBytes)
      BY <1>2, <2>1, <3>1 DEF Offset
    <3> QED BY <3>2, <1>1
  <2> QED BY <2>1
<1>4. k \in 0 .. Len(downSent) - 1
  BY <1>1, <1>2, <1>3
<1> QED BY <1>1, <1>2, <1>4, CutPacket

\* What receiveMsg_TCP returns is the next packet that was sent.
LEMMA DownReturnsNext ==
  ASSUME Inv, DownReturn
  PROVE  /\ Len(downReceived) < Len(downSent)
         /\ downReceived' = Append(downReceived, downSent[Len(downReceived) + 1])
         /\ from' = Offset(downBytes, downStart, Len(downReceived) + 1)
         /\ from' \in Nat /\ from' <= Len(downBytes)
<1> USE DEF Inv
<1>1. got \in Nat /\ want \in Nat /\ got = want /\ Len(downReceived) \in Nat /\ Len(downSent) \in Nat
  BY LenProperties DEF DownReturn, StreamTypeOK
<1>2. want >= HeaderSize
  BY <1>1 DEF DownInv, HeaderSize
<1>3. got > 0
  BY <1>1, <1>2 DEF HeaderSize
<1>4. /\ Len(downReceived) \in 0 .. Len(downSent) - 1
      /\ from \in Nat /\ SizeAt(downBytes, from) \in Nat
      /\ SizeAt(downBytes, from) >= HeaderSize
      /\ from + SizeAt(downBytes, from) <= Len(downBytes)
      /\ from + SizeAt(downBytes, from) = Offset(downBytes, downStart, Len(downReceived) + 1)
      /\ Decode(Part(downBytes, from, from + SizeAt(downBytes, from)))
           = downSent[Len(downReceived) + 1]
  BY <1>3, DownInside
<1>5. got = SizeAt(downBytes, from)
  <2>1. CASE want = HeaderSize
    BY <2>1, <1>1, <1>4 DEF DownReturn, HeaderSize
  <2>2. CASE want # HeaderSize
    BY <2>2, <1>1 DEF DownInv
  <2> QED BY <2>1, <2>2
<1> QED BY <1>1, <1>4, <1>5 DEF DownReturn

-----------------------------------------------------------------------------
(* Every step keeps the part of the invariant about its own direction.     *)

UpPart ==
  /\ upSent \in Seq(Packets) /\ upReceived \in Seq(Packets) /\ upBytes \in Seq(Byte)
  /\ upStart \in Seq(Nat)
  /\ low \in 0 .. high /\ high \in 0 .. Len(upBytes) /\ parsing \in BOOLEAN
  /\ UpInv /\ NothingHeldBack

DownPart ==
  /\ downSent \in Seq(Packets) /\ downReceived \in Seq(Packets) /\ downBytes \in Seq(Byte)
  /\ downStart \in Seq(Nat)
  /\ from \in Nat /\ got \in 0 .. want /\ want \in Nat /\ from + got <= Len(downBytes)
  /\ DownInv

LEMMA InvParts == Inv <=> UpPart /\ DownPart
BY DEF Inv, UpPart, DownPart, StreamTypeOK

\* Appending the packet that is next keeps r the beginning of s.
LEMMA BeginningGrows ==
  ASSUME NEW s \in Seq(Packets), NEW r \in Seq(Packets), Beginning(r, s), Len(r) < Len(s)
  PROVE  /\ Append(r, s[Len(r) + 1]) \in Seq(Packets)
         /\ Len(Append(r, s[Len(r) + 1])) = Len(r) + 1
         /\ Beginning(Append(r, s[Len(r) + 1]), s)
<1>1. Len(r) \in Nat /\ Len(s) \in Nat /\ Len(r) + 1 \in 1 .. Len(s)
  BY LenProperties
<1>2. s[Len(r) + 1] \in Packets
  BY <1>1, ElementOfSeq
<1> DEFINE x == s[Len(r) + 1]
<1> HIDE DEF x
<1>3. /\ Append(r, x) \in Seq(Packets) /\ Len(Append(r, x)) = Len(r) + 1
      /\ \A i \in 1 .. Len(r) : Append(r, x)[i] = r[i]
      /\ Append(r, x)[Len(r) + 1] = x
  BY <1>2, AppendProperties DEF x
<1>4. ASSUME NEW i \in 1 .. Len(r) + 1 PROVE Append(r, x)[i] = s[i]
  <2>1. CASE i \in 1 .. Len(r)
    BY <2>1, <1>3 DEF Beginning
  <2>2. CASE i = Len(r) + 1
    BY <2>2, <1>3 DEF x
  <2> QED BY <2>1, <2>2, <1>1
<1>5. Beginning(Append(r, x), s)
  BY <1>1, <1>3, <1>4 DEF Beginning
<1> QED BY <1>3, <1>5 DEF x

\* Sending leaves r the beginning of s.
LEMMA BeginningStays ==
  ASSUME NEW s \in Seq(Packets), NEW r \in Seq(Packets), Beginning(r, s), NEW p \in Packets
  PROVE  /\ Append(s, p) \in Seq(Packets) /\ Len(Append(s, p)) = Len(s) + 1
         /\ Beginning(r, Append(s, p))
<1>1. Len(r) \in Nat /\ Len(s) \in Nat /\ Len(r) <= Len(s)
  BY LenProperties DEF Beginning
<1>2. /\ Append(s, p) \in Seq(Packets) /\ Len(Append(s, p)) = Len(s) + 1
      /\ \A i \in 1 .. Len(s) : Append(s, p)[i] = s[i]
  BY AppendProperties
<1>3. ASSUME NEW i \in 1 .. Len(r) PROVE r[i] = Append(s, p)[i]
  <2>1. i \in 1 .. Len(s)
    BY <1>1
  <2> QED BY <2>1, <1>2 DEF Beginning
<1> QED BY <1>1, <1>2, <1>3 DEF Beginning

LEMMA UpStep ==
  ASSUME Inv, UpSend \/ UpReceiver
  PROVE  UpPart'
<1> USE DEF Inv
<1>0. /\ upSent \in Seq(Packets) /\ upReceived \in Seq(Packets) /\ upBytes \in Seq(Byte)
      /\ upStart \in Seq(Nat) /\ low \in 0 .. high /\ high \in 0 .. Len(upBytes)
      /\ parsing \in BOOLEAN /\ Len(upBytes) \in Nat
  BY LenProperties DEF StreamTypeOK
<1>1. CASE UpSend
  <2>1. PICK c \in Commands, d \in Payloads :
          /\ Fits(d)
          /\ upSent' = Append(upSent, Packet(c, d))
          /\ upBytes' = upBytes \o Encode(c, d)
          /\ upStart' = Append(upStart, Len(upBytes))
          /\ UNCHANGED <<low, high, parsing, upReceived>>
    BY <1>1 DEF UpSend
  <2>2. Framed(upSent, upBytes, upStart) /\ Beginning(upReceived, upSent)
    BY DEF UpInv
  <2>3. /\ Packet(c, d) \in Packets
        /\ upBytes' \in Seq(Byte) /\ upStart' \in Seq(Nat)
        /\ Len(upBytes') = Len(upBytes) + HeaderSize + Len(d)
        /\ \A i \in 1 .. Len(upBytes) : upBytes'[i] = upBytes[i]
        /\ Framed(upSent', upBytes', upStart')
        /\ \A k \in 0 .. Len(upSent) : Offset(upBytes', upStart', k) = Offset(upBytes, upStart, k)
    <3>1. /\ Packet(c, d) \in Packets
          /\ upBytes \o Encode(c, d) \in Seq(Byte)
          /\ Append(upStart, Len(upBytes)) \in Seq(Nat)
          /\ Len(upBytes \o Encode(c, d)) = Len(upBytes) + HeaderSize + Len(d)
          /\ \A i \in 1 .. Len(upBytes) : (upBytes \o Encode(c, d))[i] = upBytes[i]
          /\ Framed(Append(upSent, Packet(c, d)), upBytes \o Encode(c, d),
                    Append(upStart, Len(upBytes)))
          /\ \A k \in 0 .. Len(upSent) :
               Offset(upBytes \o Encode(c, d), Append(upStart, Len(upBytes)), k)
                 = Offset(upBytes, upStart, k)
      <4>1. /\ upSent \in Seq(Packets) /\ upBytes \in Seq(Byte) /\ upStart \in Seq(Nat)
            /\ Framed(upSent, upBytes, upStart) /\ Fits(d)
        BY <1>0, <2>1, <2>2
      <4> QED BY <4>1, SendFrames
    <3> QED BY <2>1, <3>1, Zenon
  <2>4. upSent' \in Seq(Packets) /\ Beginning(upReceived', upSent')
    BY <1>0, <2>1, <2>2, <2>3, BeginningStays
  <2>5. Len(upReceived) \in 0 .. Len(upSent)
    BY <1>0, <2>2, LenProperties DEF Beginning
  <2>6. UpInv'
    BY <2>1, <2>3, <2>4, <2>5 DEF UpInv
  <2>7. Len(upBytes) <= Len(upBytes') /\ Len(upBytes') \in Nat
    <3>1. Len(d) \in Nat
      BY BytesAssumption, LenProperties
    <3> QED BY <3>1, <1>0, <2>3 DEF HeaderSize
  <2>8. Whole' => Whole
    <3>1. SUFFICES ASSUME high - low >= 2 PROVE SizeAt(upBytes', low) = SizeAt(upBytes, low)
      BY <2>1 DEF Whole, SizeSize
    <3>2. low + 1 \in 1 .. Len(upBytes) /\ low + 2 \in 1 .. Len(upBytes)
      BY <1>0, <3>1
    <3> QED BY <2>3, <3>2 DEF SizeAt
  <2>9. NothingHeldBack'
    BY <2>1, <2>8 DEF NothingHeldBack
  <2>10. high' \in 0 .. Len(upBytes')
    BY <1>0, <2>1, <2>7
  <2> QED BY <1>0, <2>1, <2>3, <2>4, <2>6, <2>9, <2>10 DEF UpPart
<1>2. CASE UpRecv
  <2>1. /\ parsing' = TRUE /\ high' \in high + 1 .. Len(upBytes)
        /\ UNCHANGED <<upSent, upBytes, low, upReceived, upStart>>
    BY <1>2 DEF UpRecv
  <2>2. UpInv'
    BY <2>1 DEF UpInv, Framed, Lies, Offset, Beginning, SizeAt
  <2>3. low' \in 0 .. high' /\ high' \in 0 .. Len(upBytes')
    BY <1>0, <2>1
  <2>4. NothingHeldBack'
    BY <2>1 DEF NothingHeldBack
  <2> QED BY <1>0, <2>1, <2>2, <2>3, <2>4 DEF UpPart
<1>3. CASE UpParse
  <2>1. UNCHANGED <<upSent, upBytes, high, parsing, upStart>> /\ parsing = TRUE
    BY <1>0, <1>3 DEF UpParse
  <2>2. /\ Len(upReceived) < Len(upSent)
        /\ upReceived' = Append(upReceived, upSent[Len(upReceived) + 1])
        /\ low' = Offset(upBytes, upStart, Len(upReceived) + 1)
        /\ low' \in 0 .. high
    BY <1>3, UpParseTakesNext
  <2>3. /\ upReceived' \in Seq(Packets) /\ Len(upReceived') = Len(upReceived) + 1
        /\ Beginning(upReceived', upSent)
    BY <1>0, <2>2, BeginningGrows DEF UpInv
  <2>4. UpInv'
    BY <2>1, <2>2, <2>3 DEF UpInv, Framed, Lies, Offset, Beginning, SizeAt
  <2>5. NothingHeldBack'
    BY <2>1 DEF NothingHeldBack
  <2> QED BY <1>0, <2>1, <2>2, <2>3, <2>4, <2>5 DEF UpPart
<1>4. CASE UpParsed
  <2>1. ~Whole /\ parsing' = FALSE /\ UNCHANGED <<upSent, upBytes, low, high, upReceived, upStart>>
    BY <1>4 DEF UpParsed
  <2>2. UpInv' /\ NothingHeldBack'
    BY <2>1 DEF UpInv, Framed, Lies, Offset, Beginning, SizeAt, NothingHeldBack, Whole
  <2> QED BY <1>0, <2>1, <2>2 DEF UpPart
<1> QED BY <1>1, <1>2, <1>3, <1>4 DEF UpReceiver

LEMMA DownStep ==
  ASSUME Inv, DownSend \/ DownReceiver
  PROVE  DownPart'
<1> USE DEF Inv
<1>0. /\ downSent \in Seq(Packets) /\ downReceived \in Seq(Packets) /\ downBytes \in Seq(Byte)
      /\ downStart \in Seq(Nat) /\ from \in Nat /\ got \in 0 .. want /\ want \in Nat
      /\ from + got <= Len(downBytes) /\ Len(downBytes) \in Nat
  BY LenProperties DEF StreamTypeOK
<1>1. CASE DownSend
  <2>1. PICK c \in Commands, d \in Payloads :
          /\ Fits(d)
          /\ downSent' = Append(downSent, Packet(c, d))
          /\ downBytes' = downBytes \o Encode(c, d)
          /\ downStart' = Append(downStart, Len(downBytes))
          /\ UNCHANGED <<from, got, want, downReceived>>
    BY <1>1 DEF DownSend
  <2>2. Framed(downSent, downBytes, downStart) /\ Beginning(downReceived, downSent)
    BY DEF DownInv
  <2>3. /\ Packet(c, d) \in Packets
        /\ downBytes' \in Seq(Byte) /\ downStart' \in Seq(Nat)
        /\ Len(downBytes') = Len(downBytes) + HeaderSize + Len(d)
        /\ \A i \in 1 .. Len(downBytes) : downBytes'[i] = downBytes[i]
        /\ Framed(downSent', downBytes', downStart')
        /\ \A k \in 0 .. Len(downSent) :
             Offset(downBytes', downStart', k) = Offset(downBytes, downStart, k)
    <3>1. /\ Packet(c, d) \in Packets
          /\ downBytes \o Encode(c, d) \in Seq(Byte)
          /\ Append(downStart, Len(downBytes)) \in Seq(Nat)
          /\ Len(downBytes \o Encode(c, d)) = Len(downBytes) + HeaderSize + Len(d)
          /\ \A i \in 1 .. Len(downBytes) : (downBytes \o Encode(c, d))[i] = downBytes[i]
          /\ Framed(Append(downSent, Packet(c, d)), downBytes \o Encode(c, d),
                    Append(downStart, Len(downBytes)))
          /\ \A k \in 0 .. Len(downSent) :
               Offset(downBytes \o Encode(c, d), Append(downStart, Len(downBytes)), k)
                 = Offset(downBytes, downStart, k)
      <4>1. /\ downSent \in Seq(Packets) /\ downBytes \in Seq(Byte) /\ downStart \in Seq(Nat)
            /\ Framed(downSent, downBytes, downStart) /\ Fits(d)
        BY <1>0, <2>1, <2>2
      <4> QED BY <4>1, SendFrames
    <3> QED BY <2>1, <3>1, Zenon
  <2>4. downSent' \in Seq(Packets) /\ Beginning(downReceived', downSent')
    BY <1>0, <2>1, <2>2, <2>3, BeginningStays
  <2>5. Len(downReceived) \in 0 .. Len(downSent)
    BY <1>0, <2>2, LenProperties DEF Beginning
  <2>6. want # HeaderSize => SizeAt(downBytes', from) = SizeAt(downBytes, from)
    <3>1. SUFFICES ASSUME want # HeaderSize PROVE SizeAt(downBytes', from) = SizeAt(downBytes, from)
      OBVIOUS
    <3>2. got >= 3
      BY <3>1 DEF DownInv, HeaderSize
    <3>3. from + 1 \in 1 .. Len(downBytes) /\ from + 2 \in 1 .. Len(downBytes)
      BY <1>0, <3>2
    <3> QED BY <2>3, <3>3 DEF SizeAt
  <2>7. DownInv'
    BY <2>1, <2>3, <2>4, <2>5, <2>6 DEF DownInv
  <2>8. from' + got' <= Len(downBytes')
    <3>1. Len(d) \in Nat
      BY BytesAssumption, LenProperties
    <3>2. Len(downBytes) <= Len(downBytes') /\ Len(downBytes') \in Nat
      BY <3>1, <1>0, <2>3 DEF HeaderSize
    <3> QED BY <3>2, <1>0, <2>1
  <2> QED BY <1>0, <2>1, <2>3, <2>4, <2>7, <2>8 DEF DownPart
<1>2. CASE DownRecv
  <2>1. /\ got' \in got + 1 .. want /\ from + got' <= Len(downBytes)
        /\ UNCHANGED <<downSent, downBytes, from, want, downReceived, downStart>>
    BY <1>2 DEF DownRecv
  <2>2. got' \in 0 .. want /\ (got >= 3 => got' >= 3)
    BY <1>0, <2>1
  <2>3. DownInv'
    BY <2>1, <2>2 DEF DownInv, Framed, Lies, Offset, Beginning, SizeAt, HeaderSize
  <2> QED BY <1>0, <2>1, <2>2, <2>3 DEF DownPart
<1>3. CASE DownHeader
  <2>1. /\ got = 3 /\ SizeAt(downBytes, from) > 3 /\ want' = SizeAt(downBytes, from)
        /\ UNCHANGED <<downSent, downBytes, from, got, downReceived, downStart>>
    BY <1>3 DEF DownHeader, HeaderSize
  <2>2. got > 0
    BY <2>1
  <2>3. SizeAt(downBytes, from) \in Nat
    BY <2>2, DownInside
  <2>4. want' \in Nat /\ got' \in 0 .. want' /\ got' >= 3 /\ want' > 3
    BY <2>1, <2>3
  <2>5. DownInv'
    BY <2>1, <2>4 DEF DownInv, Framed, Lies, Offset, Beginning, SizeAt, HeaderSize
  <2> QED BY <1>0, <2>1, <2>4, <2>5 DEF DownPart
<1>4. CASE DownReturn
  <2>1. UNCHANGED <<downSent, downBytes, downStart>> /\ got' = 0 /\ want' = HeaderSize
    BY <1>4 DEF DownReturn
  <2>2. /\ Len(downReceived) < Len(downSent)
        /\ downReceived' = Append(downReceived, downSent[Len(downReceived) + 1])
        /\ from' = Offset(downBytes, downStart, Len(downReceived) + 1)
        /\ from' \in Nat /\ from' <= Len(downBytes)
    BY <1>4, DownReturnsNext
  <2>3. /\ downReceived' \in Seq(Packets) /\ Len(downReceived') = Len(downReceived) + 1
        /\ Beginning(downReceived', downSent)
    BY <1>0, <2>2, BeginningGrows DEF DownInv
  <2>4. DownInv'
    BY <2>1, <2>2, <2>3 DEF DownInv, Framed, Lies, Offset, Beginning, SizeAt
  <2>5. got' \in 0 .. want' /\ want' \in Nat /\ from' + got' <= Len(downBytes')
    BY <1>0, <2>1, <2>2 DEF HeaderSize
  <2> QED BY <1>0, <2>1, <2>2, <2>3, <2>4, <2>5 DEF DownPart
<1> QED BY <1>1, <1>2, <1>3, <1>4 DEF DownReceiver

-----------------------------------------------------------------------------
LEMMA StepInv == Inv /\ [StreamNext]_streamVars => Inv'
<1> SUFFICES ASSUME Inv, [StreamNext]_streamVars PROVE Inv'
  OBVIOUS
<1>0. UpPart /\ DownPart
  BY InvParts
<1>1. UNCHANGED up => UpPart'
  BY <1>0 DEF up, UpPart, UpInv, NothingHeldBack, Whole
<1>2. UNCHANGED down => DownPart'
  BY <1>0 DEF down, DownPart, DownInv
<1>3. CASE UpSend \/ UpReceiver
  <2>1. UNCHANGED down
    BY <1>3 DEF UpSend, UpReceiver, UpRecv, UpParse, UpParsed
  <2> QED BY <1>2, <1>3, <2>1, UpStep, InvParts, PTL
<1>4. CASE DownSend \/ DownReceiver
  <2>1. UNCHANGED up
    BY <1>4 DEF DownSend, DownReceiver, DownRecv, DownHeader, DownReturn
  <2> QED BY <1>1, <1>4, <2>1, DownStep, InvParts, PTL
<1>5. CASE UNCHANGED streamVars
  <2>1. UNCHANGED up /\ UNCHANGED down
    BY <1>5 DEF streamVars
  <2> QED BY <1>1, <1>2, <2>1, InvParts, PTL
<1> QED BY <1>3, <1>4, <1>5 DEF StreamNext

\* In every reachable state both directions are framed as they were written, and the
\* variables have their types: stringReceived and receiveMsg_TCP never lose their place.
THEOREM InFrame == StreamSpec => []Inv
BY InitInv, StepInv, PTL DEF StreamSpec

\* The types of the buffers and of everything received (what is received is a packet).
THEOREM TypeCorrect == StreamSpec => []StreamTypeOK
<1>1. Inv => StreamTypeOK
  BY DEF Inv
<1> QED BY <1>1, InFrame, PTL

\* stringReceived leaves no whole packet in its buffer.
THEOREM NoPacketHeldBack == StreamSpec => []NothingHeldBack
<1>1. Inv => NothingHeldBack
  BY DEF Inv
<1> QED BY <1>1, InFrame, PTL

\* The server's receiver: each packet a client sends is received once, whole and in order.
THEOREM UpRefines == StreamSpec => UpChannel!Spec
<1>1. StreamInit => UpChannel!Init
  BY DEF StreamInit, UpChannel!Init
<1>2. Inv /\ [StreamNext]_streamVars => [UpChannel!Next]_<<upSent, upReceived>>
  <2> SUFFICES ASSUME Inv, [StreamNext]_streamVars
               PROVE  UpChannel!Next \/ UNCHANGED <<upSent, upReceived>>
    OBVIOUS
  <2>1. CASE UpSend
    <3>1. PICK c \in Commands, d \in Payloads :
            Fits(d) /\ upSent' = Append(upSent, Packet(c, d)) /\ UNCHANGED upReceived
      BY <2>1 DEF UpSend
    <3>2. Packet(c, d) \in Packets
      BY <3>1 DEF Packets
    <3> QED BY <3>1, <3>2 DEF UpChannel!Next, UpChannel!Send
  <2>2. CASE UpParse
    <3>1. UNCHANGED upSent
      BY <2>2 DEF UpParse
    <3> QED BY <2>2, <3>1, UpParseTakesNext DEF UpChannel!Next, UpChannel!Receive
  <2>3. CASE UpRecv \/ UpParsed \/ DownSend \/ DownReceiver \/ UNCHANGED streamVars
    BY <2>3 DEF UpRecv, UpParsed, DownSend, DownReceiver, DownRecv, DownHeader, DownReturn, streamVars, up
  <2> QED BY <2>1, <2>2, <2>3 DEF StreamNext, UpReceiver
<1> QED BY <1>1, <1>2, InFrame, PTL DEF StreamSpec, UpChannel!Spec

\* The client's receiver: each packet the server sends is received once, whole and in order.
THEOREM DownRefines == StreamSpec => DownChannel!Spec
<1>1. StreamInit => DownChannel!Init
  BY DEF StreamInit, DownChannel!Init
<1>2. Inv /\ [StreamNext]_streamVars => [DownChannel!Next]_<<downSent, downReceived>>
  <2> SUFFICES ASSUME Inv, [StreamNext]_streamVars
               PROVE  DownChannel!Next \/ UNCHANGED <<downSent, downReceived>>
    OBVIOUS
  <2>1. CASE DownSend
    <3>1. PICK c \in Commands, d \in Payloads :
            Fits(d) /\ downSent' = Append(downSent, Packet(c, d)) /\ UNCHANGED downReceived
      BY <2>1 DEF DownSend
    <3>2. Packet(c, d) \in Packets
      BY <3>1 DEF Packets
    <3> QED BY <3>1, <3>2 DEF DownChannel!Next, DownChannel!Send
  <2>2. CASE DownReturn
    <3>1. UNCHANGED downSent
      BY <2>2 DEF DownReturn
    <3> QED BY <2>2, <3>1, DownReturnsNext DEF DownChannel!Next, DownChannel!Receive
  <2>3. CASE DownRecv \/ DownHeader \/ UpSend \/ UpReceiver \/ UNCHANGED streamVars
    BY <2>3 DEF DownRecv, DownHeader, UpSend, UpReceiver, UpRecv, UpParse, UpParsed, streamVars, down
  <2> QED BY <2>1, <2>2, <2>3 DEF StreamNext, DownReceiver
<1> QED BY <1>1, <1>2, InFrame, PTL DEF StreamSpec, DownChannel!Spec
=============================================================================
