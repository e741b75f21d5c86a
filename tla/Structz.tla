------------------------------ MODULE Structz ------------------------------
(***************************************************************************)
(* openttd/structz.py, on which every packet's payload rests (packet.py):  *)
(* values are packed by a format, fixed fields and strings that end with a *)
(* zero byte, and read from bytes that may be cut short, or have others    *)
(* behind them.  A format is what split("z") makes of it, the pieces       *)
(* before, between and behind the strings, each a sequence of fields; a    *)
(* value is its bytes, all below 128; a text holds no zero byte, and an s  *)
(* is as long as the format counts.                                        *)
(***************************************************************************)
EXTENDS Naturals, Sequences, SequencesExt

CONSTANTS
  Formats, \* sequences of pieces
  Values,  \* per format: the values it is used with
  Behind,  \* bytes that follow a value in a packet
  MaxCut   \* bytes cut off at most

Width == [s |-> 1, B |-> 1, H |-> 2]
Piece == Seq([count : 0 .. 99, code : DOMAIN Width])   \* 0: no count is written
FormatAssumption == Formats \subseteq Seq(Piece) \ {<<>>} /\ Behind \in Seq(Nat) /\ MaxCut \in Nat
ASSUME FormatAssumption

VARIABLES
  fmt, argv,
  packed,  \* the bytes packed so far
  cutoff,  \* bytes cut off of them
  exact,   \* unpack, not unpack_from
  ind,     \* the piece whose turn it is
  offs,    \* in the values when packing, in the bytes when unpacking
  unp,     \* the values read so far
  work     \* pack, unpack, done, raised and where

structzVars == <<fmt, argv, packed, cutoff, exact, ind, offs, unp, work>>

-----------------------------------------------------------------------------
(* struct.Struct                                                           *)

Times(f) == IF f.count = 0 THEN 1 ELSE f.count
SizeOf(f) == Times(f) * Width[f.code]

\* The sizes of the values of a piece: a counted s is one value.
Fields(piece) ==
  FlattenSeq([j \in DOMAIN piece |->
    IF piece[j].code = "s" THEN <<SizeOf(piece[j])>> ELSE [i \in 1 .. Times(piece[j]) |-> Width[piece[j].code]]])
TotalSize(sizes) ==
  LET sum[i \in 0 .. Len(sizes)] == IF i = 0 THEN 0 ELSE sum[i - 1] + sizes[i] IN sum[Len(sizes)]
Takes(sizes, values) == Len(values) = Len(sizes) /\ \A i \in DOMAIN sizes : Len(values[i]) = sizes[i]
Cut(sizes, bytes) ==
  [i \in DOMAIN sizes |-> SubSeq(bytes, TotalSize(SubSeq(sizes, 1, i - 1)) + 1, TotalSize(SubSeq(sizes, 1, i)))]

\* len(f): the characters of a piece.
Chars(piece) ==
  TotalSize([j \in DOMAIN piece |-> IF piece[j].count = 0 THEN 1 ELSE IF piece[j].count < 10 THEN 2 ELSE 3])

\* The sizes of the values of each piece, and 0 for the string behind it.
Slots(f) == [i \in DOMAIN f |-> Fields(f[i]) \o (IF i = Len(f) THEN <<>> ELSE <<0>>)]
Fit(values, f) ==
  LET sizes == FlattenSeq(Slots(f)) IN
  /\ Len(values) = Len(sizes)
  /\ \A k \in DOMAIN sizes :
       IF sizes[k] = 0 THEN \A j \in DOMAIN values[k] : values[k][j] # 0 ELSE Len(values[k]) = sizes[k]
ValuesAssumption == \A f \in Formats : \A values \in Values[f] : values \in Seq(Seq(Nat)) /\ Fit(values, f)
ASSUME ValuesAssumption

-----------------------------------------------------------------------------
(* pack: a piece gets as many values as it has characters, then comes a string. *)

LastPiece == ind = Len(fmt)

mak_zstring(str) == str \o <<0>>

PackPiece ==
  /\ work = "pack" /\ ind <= Len(fmt)
  /\ LET behind == IF Len(fmt) = 1 THEN Len(argv) ELSE offs + Chars(fmt[ind])
         values == SubSeq(argv, offs + 1, IF behind < Len(argv) THEN behind ELSE Len(argv))
     IN IF \/ (fmt[ind] # <<>> \/ Len(fmt) = 1) /\ ~Takes(Fields(fmt[ind]), values)
           \/ ~LastPiece /\ behind >= Len(argv)
        THEN work' = "packing raised" /\ UNCHANGED <<packed, ind, offs>>
        ELSE /\ packed' = packed \o FlattenSeq(values) \o (IF LastPiece THEN <<>> ELSE mak_zstring(argv[behind + 1]))
             /\ offs' = behind + 1 /\ ind' = ind + 1 /\ UNCHANGED work
  /\ UNCHANGED <<fmt, argv, cutoff, exact, unp>>

\* The bytes reach a reader: unpack takes all of a packet, unpack_from what it wants of it.
Handed == IF exact THEN SubSeq(packed, 1, Len(packed) - cutoff) ELSE packed \o Behind

HandOver ==
  /\ work = "pack" /\ ind > Len(fmt) /\ work' = "unpack"
  /\ exact' \in BOOLEAN
  /\ cutoff' \in IF exact' THEN 0 .. (IF MaxCut < Len(packed) THEN MaxCut ELSE Len(packed)) ELSE {0}
  /\ ind' = 1 /\ offs' = 0
  /\ UNCHANGED <<fmt, argv, packed, unp>>

-----------------------------------------------------------------------------
(* unpack, unpack_from                                                     *)

\* Mutant: the zero byte is left to the next field.
get_zstring_short(bytes) ==
  LET zero == SelectInSeq(bytes, LAMBDA b : b = 0) IN
  IF zero = 0 THEN [size |-> 0, str |-> SubSeq(bytes, 1, Len(bytes) - 1)]
  ELSE [size |-> zero - 1, str |-> SubSeq(bytes, 1, zero - 1)]

\* Without a zero byte find() gives -1: the string lacks its last byte and takes no room.
get_zstring(bytes) ==
  LET zero == SelectInSeq(bytes, LAMBDA b : b = 0) IN
  IF zero = 0 THEN [size |-> 0, str |-> SubSeq(bytes, 1, Len(bytes) - 1)]
  ELSE [size |-> zero, str |-> SubSeq(bytes, 1, zero - 1)]

\* A format without strings that has to match in length raises at once when it does not.
TooShort(piece) ==
  \/ offs + TotalSize(Fields(piece)) > Len(Handed)
  \/ Len(fmt) = 1 /\ exact /\ TotalSize(Fields(piece)) # Len(Handed)

UnpackPiece ==
  /\ work = "unpack" /\ ind <= Len(fmt)
  /\ IF TooShort(fmt[ind]) /\ (fmt[ind] # <<>> \/ Len(fmt) = 1)
     THEN work' = "unpacking raised" /\ UNCHANGED <<unp, offs, ind>>
     ELSE LET sizes == Fields(fmt[ind])
              at == offs + TotalSize(sizes)
              z == get_zstring(SubSeq(Handed, at + 1, Len(Handed)))
              fixed == unp \o Cut(sizes, SubSeq(Handed, offs + 1, at))
          IN /\ unp' = IF LastPiece THEN fixed ELSE Append(fixed, z.str)
             /\ offs' = IF LastPiece THEN at ELSE at + z.size
             /\ ind' = ind + 1 /\ UNCHANGED work
  /\ UNCHANGED <<fmt, argv, packed, cutoff, exact>>

UnpackEnds ==
  /\ work = "unpack" /\ ind > Len(fmt)
  /\ work' = IF exact /\ offs # Len(Handed) THEN "unpacking raised" ELSE "done"
  /\ UNCHANGED <<fmt, argv, packed, cutoff, exact, ind, offs, unp>>

StructzBegins ==
  /\ packed = <<>> /\ cutoff = 0 /\ exact = TRUE /\ ind = 1 /\ offs = 0 /\ unp = <<>> /\ work = "pack"
StructzInit == fmt \in Formats /\ argv \in Values[fmt] /\ StructzBegins

StructzNext == PackPiece \/ HandOver \/ UnpackPiece \/ UnpackEnds
StructzSpec == StructzInit /\ [][StructzNext]_structzVars

-----------------------------------------------------------------------------
(* Properties                                                              *)

\* The byte behind which the last string of the format ends.
LastString == Len(packed) - TotalSize(Fields(fmt[Len(fmt)]))

\* What was packed is read back, and unpack_from stops right behind it.  Packing raises only for a
\* format with strings: for a counted field in front of one, and behind the last for a piece of
\* more fields than characters.  Bytes that were cut short make unpack raise, unless the
\* zero byte of a string is among those cut off, when the fields behind may be read from the
\* string's own bytes (structz.py:75, :120, :147).
StructzReadsBack ==
  /\ work = "packing raised" => Len(fmt) > 1 /\
       \/ \E i \in 1 .. Len(fmt) - 1 : Chars(fmt[i]) # Len(Fields(fmt[i]))
       \/ Chars(fmt[Len(fmt)]) < Len(Fields(fmt[Len(fmt)]))
  /\ work \in {"done", "unpacking raised"} /\ cutoff = 0 =>
       work = "done" /\ unp = argv /\ offs = Len(packed)
  /\ work = "done" /\ cutoff > 0 => Len(fmt) > 1 /\ Len(Handed) < LastString
=============================================================================
