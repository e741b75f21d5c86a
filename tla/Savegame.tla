------------------------------ MODULE Savegame ------------------------------
(***************************************************************************)
(* openttd/savegame.py: a savegame is read to bytes, its chunks are loaded *)
(* one item at a time, the handlers of the map's layers take them, and the *)
(* file may be written again in another format.  The writer of the game is *)
(* the other side: it writes what the reader's layout says.                *)
(***************************************************************************)
EXTENDS Naturals, Sequences, SequencesExt

CONSTANTS
  Saves,      \* the files, cut bytes missing at the end, and what the tool is called with
  Batch,      \* tiles read at once: 4096
  DefaultMap  \* [x, y] without a MAPS chunk: 256 x 256

VARIABLES
  save,       \* [format, word, chunks, cut, and lzo: it is installed, skipmap: --skip-maparray, output]
  raw,        \* the uncompressed bytes: dp.data
  offset,     \* dp.offset
  phase,      \* where main() is
  name, found,\* the chunk being loaded, and what it holds so far
  chunks,     \* the chunks loaded
  handled,    \* chunks handled
  mapsize,
  layers,     \* entries per layer of map_array; <<>> before MAPT makes it
  written     \* the file written

saveVars == <<save, raw, offset, phase, name, found, chunks, handled, mapsize, layers, written>>

RIFF == 0
ARRAY == 1
SPARSE == 2
Nothing == [type |-> RIFF, items |-> <<>>]

MAPS == <<77, 65, 80, 83>>
MAPT == <<77, 65, 80, 84>>
MAPO == <<77, 65, 80, 79>>
MAP2 == <<77, 65, 80, 50>>
M3LO == <<77, 51, 76, 79>>
M3HI == <<77, 51, 72, 73>>
MAP5 == <<77, 65, 80, 53>>
MAPE == <<77, 65, 80, 69>>
MAP7 == <<77, 65, 80, 55>>
Layers == {MAPT, MAPO, MAP2, M3LO, M3HI, MAP5, MAPE, MAP7}

-----------------------------------------------------------------------------
(* The writer                                                              *)

Two16 == 256 * 256
Two24 == 256 * Two16
MaxGamma == 16 * Two24 - 1
GammaBytes(n) ==
  IF n < 128 THEN <<n>>
  ELSE IF n < 64 * 256 THEN <<128 + n \div 256, n % 256>>
  ELSE IF n < 32 * Two16 THEN <<192 + n \div Two16, (n \div 256) % 256, n % 256>>
  ELSE <<224 + n \div Two24, (n \div Two16) % 256, (n \div 256) % 256, n % 256>>

Word(n) == <<n \div Two24, (n \div Two16) % 256, (n \div 256) % 256, n % 256>>

\* The items are a sequence of [index, data]; a length counts itself one more, and with the index.
ItemBytes(type, item) ==
  IF type = ARRAY THEN GammaBytes(Len(item.data) + 1) \o item.data
  ELSE GammaBytes(Len(item.data) + Len(GammaBytes(item.index)) + 1) \o GammaBytes(item.index) \o item.data

\* The highest bits of a plain chunk's length go with its type.
ChunkBytes(c) ==
  IF c.type = RIFF
  THEN LET leng == Len(c.items[1].data) IN
       c.name \o <<RIFF + 16 * (leng \div Two24)>> \o Tail(Word(leng)) \o c.items[1].data
  ELSE c.name \o <<c.type>> \o FlattenSeq([j \in DOMAIN c.items |-> ItemBytes(c.type, c.items[j])]) \o <<0>>

Bytes(s) == FlattenSeq([i \in DOMAIN s.chunks |-> ChunkBytes(s.chunks[i])]) \o Word(0)

Number(bytes) == ((bytes[1] * 256 + bytes[2]) * 256 + bytes[3]) * 256 + bytes[4]

\* The tiles of the map of a file, and the bytes a layer has for them.
VersionOf(s) == s.word \div Two16
SizesIn(s) == {i \in DOMAIN s.chunks : s.chunks[i].name = MAPS}
MapSize(s) ==
  IF SizesIn(s) = {} THEN DefaultMap
  ELSE LET d == s.chunks[CHOOSE i \in SizesIn(s) : TRUE].items[1].data
       IN [x |-> Number(SubSeq(d, 1, 4)), y |-> Number(SubSeq(d, 5, 8))]
TilesOf(s) == MapSize(s).x * MapSize(s).y
LayerBytes(layer, version, tiles) ==
  CASE layer = MAPE /\ version <= 42 -> tiles \div 4
    [] layer = MAP2 /\ version > 5 -> 2 * tiles
    [] OTHER -> tiles

Byte == 0 .. 255
Chunk == [name : Seq(Byte), type : {RIFF, ARRAY, SPARSE}, items : Seq([index : 0 .. MaxGamma, data : Seq(Byte)])]

\* A name has four letters, a length fits, an index of a sparse array is there once.
WellFormed(c) ==
  /\ Len(c.name) = 4 /\ c.name # Word(0)
  /\ \A j \in DOMAIN c.items : Len(c.items[j].data) + 5 <= MaxGamma
  /\ c.type = RIFF => Len(c.items) = 1
  /\ c.type = SPARSE => \A i, j \in DOMAIN c.items : c.items[i].index = c.items[j].index => i = j

\* The size of the map comes before its layers, and MAPT before the other layers; each layer has the
\* bytes for the tiles, in old versions whole batches.
MapChunkAt(s, i) ==
  LET c == s.chunks[i]
      Before(chunk) == \E j \in 1 .. i - 1 : s.chunks[j].name = chunk
  IN /\ c.type = RIFF
     /\ c.name \in {MAPS, MAPT} => ~Before(c.name)
     /\ c.name = MAPS => VersionOf(s) >= 6 /\ Len(c.items[1].data) = 8
     /\ c.name \in Layers =>
          /\ VersionOf(s) >= 6 => Before(MAPS)
          /\ c.name # MAPT => Before(MAPT)
          /\ Len(c.items[1].data) = LayerBytes(c.name, VersionOf(s), TilesOf(s))
     /\ c.name = MAPE /\ VersionOf(s) <= 42 => TilesOf(s) % Batch = 0 /\ TilesOf(s) % 4 = 0

SavesAssumption ==
  /\ Batch \in Nat \ {0} /\ DefaultMap \in [x : Nat, y : Nat]
  /\ \A s \in Saves :
       /\ s.word \in Nat /\ s.skipmap \in BOOLEAN
       /\ s.chunks \in Seq(Chunk) /\ \A i \in DOMAIN s.chunks : WellFormed(s.chunks[i])
       /\ s.cut \in 0 .. Len(Bytes(s))
       /\ \A i \in DOMAIN s.chunks : s.chunks[i].name \in Layers \cup {MAPS} => MapChunkAt(s, i)
ASSUME SavesAssumption

\* f, with v at k: what d[k] = v makes of a table.
With(f, k, v) == [x \in DOMAIN f \cup {k} |-> IF x = k THEN v ELSE f[x]]

-----------------------------------------------------------------------------
(* CDataPacket                                                             *)

Has(n) == offset + n <= Len(raw)
At(i) == raw[i + 1]
Slice(from, to) == SubSeq(raw, from + 1, IF to < Len(raw) THEN to ELSE Len(raw))

\* read_OTTDSimpleGamma: as many bytes follow as the first has leading ones, up to three.
Follow(b) == IF b < 128 THEN 0 ELSE IF b < 192 THEN 1 ELSE IF b < 224 THEN 2 ELSE IF b < 240 THEN 3 ELSE 4
GammaFits(at) == at < Len(raw) /\ Follow(At(at)) <= 3 /\ at + Follow(At(at)) < Len(raw)
GammaNext(at) == at + 1 + Follow(At(at))
GammaValue(at) ==
  LET n == Follow(At(at)) IN
  CASE n = 0 -> At(at)
    [] n = 1 -> (At(at) % 64) * 256 + At(at + 1)
    [] n = 2 -> ((At(at) % 32) * 256 + At(at + 1)) * 256 + At(at + 2)
    [] n = 3 -> (((At(at) % 16) * 256 + At(at + 1)) * 256 + At(at + 2)) * 256 + At(at + 3)

-----------------------------------------------------------------------------
(* main(): the header                                                      *)

Fail ==
  /\ phase' = "failed"
  /\ UNCHANGED <<save, raw, offset, name, found, chunks, handled, mapsize, layers, written>>

Major == save.word \div Two16
Minor == (save.word \div 256) % 256

\* readsaveheader and uncompress: an unknown format, a missing lzo and compressed data that is cut
\* off raise.
Readable == save.format \in {"OTTN", "OTTZ"} \/ (save.format = "OTTD" /\ save.lzo)
Uncompress ==
  /\ phase = "header"
  /\ IF Readable /\ (save.cut = 0 \/ save.format = "OTTN")
     THEN /\ LET all == Bytes(save) IN raw' = SubSeq(all, 1, Len(all) - save.cut)
          /\ phase' = "id"
          /\ UNCHANGED <<save, offset, name, found, chunks, handled, mapsize, layers, written>>
     ELSE Fail

-----------------------------------------------------------------------------
(* loadChunks                                                              *)

Load(to, where, what) ==
  /\ offset' = to /\ phase' = where /\ found' = what
  /\ UNCHANGED <<save, raw, handled, mapsize, layers, written>>

End(to, what) ==
  /\ chunks' = Append(chunks, [name |-> name, type |-> what.type, items |-> what.items])
  /\ Load(to, "id", Nothing) /\ UNCHANGED name

ReadId ==
  /\ phase = "id"
  /\ IF ~Has(4) THEN Fail
     ELSE IF Slice(offset, offset + 4) = Word(0)
     THEN Load(offset + 4, "handle", Nothing) /\ UNCHANGED <<name, chunks>>
     ELSE IF ~Has(5) THEN Fail
     ELSE /\ name' = Slice(offset, offset + 4)
          /\ LET m == At(offset + 4) IN
             IF m \in {ARRAY, SPARSE}
             THEN Load(offset + 5, "items", [type |-> m, items |-> <<>>]) /\ UNCHANGED chunks
             ELSE Load(offset + 5, IF m % 16 = RIFF THEN "riff" ELSE "failed", Nothing) /\ UNCHANGED chunks

\* A slice beyond the end is short, and the next read raises.
ReadRiff ==
  /\ phase = "riff"
  /\ IF ~Has(3) THEN Fail
     ELSE LET leng == (At(offset - 1) \div 16) * Two24 + At(offset) * Two16 + At(offset + 1) * 256 + At(offset + 2)
              end == offset + 3 + leng
          IN End(end, [type |-> RIFF, items |-> Slice(offset + 3, end)])

ReadArrayItem ==
  /\ phase = "items" /\ found.type = ARRAY
  /\ IF ~GammaFits(offset) THEN Fail
     ELSE LET leng == GammaValue(offset)  from == GammaNext(offset)  end == from + leng - 1 IN
          IF leng = 0 THEN End(from, found)
          ELSE Load(end, "items", [found EXCEPT !.items = Append(@, Slice(from, end))]) /\ UNCHANGED <<name, chunks>>

\* Mutant: the end of the element counts from behind its length.
ReadSparseItemFar ==
  /\ phase = "items" /\ found.type = SPARSE
  /\ IF ~GammaFits(offset) THEN Fail
     ELSE LET leng == GammaValue(offset)  at == GammaNext(offset)  end == at + leng IN
          IF leng = 0 THEN End(at, found)
          ELSE IF ~GammaFits(at) THEN Fail
          ELSE /\ Load(end, "items", [found EXCEPT !.items = With(@, GammaValue(at), Slice(GammaNext(at), end))])
               /\ UNCHANGED <<name, chunks>>

\* The end of an element counts from before its length.
ReadSparseItem ==
  /\ phase = "items" /\ found.type = SPARSE
  /\ IF ~GammaFits(offset) THEN Fail
     ELSE LET leng == GammaValue(offset)  at == GammaNext(offset)  end == offset + leng IN
          IF leng = 0 THEN End(at, found)
          ELSE IF ~GammaFits(at) THEN Fail
          ELSE /\ Load(end, "items", [found EXCEPT !.items = With(@, GammaValue(at), Slice(GammaNext(at), end))])
               /\ UNCHANGED <<name, chunks>>

-----------------------------------------------------------------------------
(* handleChunks: MAPS and the layers; the other handlers keep to themselves. *)

Total == mapsize.x * mapsize.y
Tiles == Batch * ((Total + Batch - 1) \div Batch)   \* what the loops ask for, batch by batch

\* Mutant: version 42 has whole bytes already.
EntriesBefore42(layer, size) ==
  CASE layer = MAP2 /\ Major > 5 -> (IF size < 2 * Tiles THEN size ELSE 2 * Tiles) \div 2
    [] layer = MAPE /\ Major < 42 -> Tiles
    [] OTHER -> IF size < Tiles THEN size ELSE Tiles

\* The entries a handler gets of a chunk of a size.
Entries(layer, size) ==
  CASE layer = MAP2 /\ Major > 5 -> (IF size < 2 * Tiles THEN size ELSE 2 * Tiles) \div 2
    [] layer = MAPE /\ Major <= 42 -> Tiles
    [] OTHER -> IF size < Tiles THEN size ELSE Tiles

\* Half an entry, a quarter that is not there, and a layer before MAPT has made the table raise.
Raises(layer, size) ==
  \/ layer = MAP2 /\ Major > 5 /\ size < 2 * Tiles /\ size % 2 = 1
  \/ layer = MAPE /\ Major <= 42 /\ 4 * size < Tiles
  \/ layer # MAPT /\ layers = <<>>

HandleChunk ==
  /\ phase = "handle" /\ handled < Len(chunks)
  /\ LET c == chunks[handled + 1]  size == Len(c.items) IN
     IF c.type # RIFF THEN UNCHANGED <<phase, mapsize, layers>>
     ELSE IF c.name = MAPS
     THEN /\ phase' = IF Major >= 6 /\ size < 8 THEN "failed" ELSE phase
          /\ mapsize' = IF Major >= 6 /\ size >= 8
                        THEN [x |-> Number(SubSeq(c.items, 1, 4)), y |-> Number(SubSeq(c.items, 5, 8))]
                        ELSE mapsize
          /\ UNCHANGED layers
     ELSE IF c.name \in Layers /\ ~save.skipmap
     THEN IF Raises(c.name, size) THEN phase' = "failed" /\ UNCHANGED <<mapsize, layers>>
          ELSE /\ layers' = With(IF c.name = MAPT THEN <<>> ELSE layers, c.name, Entries(c.name, size))
               /\ UNCHANGED <<phase, mapsize>>
     ELSE UNCHANGED <<phase, mapsize, layers>>
  /\ handled' = handled + 1
  /\ UNCHANGED <<save, raw, offset, name, found, chunks, written>>

-----------------------------------------------------------------------------
(* The file is written again.                                              *)

\* The formats by the names of the command line.
Format == [LZO |-> "OTTD", uncompressed |-> "OTTN", ZLIB |-> "OTTZ"]

Recompress ==
  /\ phase = "handle" /\ handled = Len(chunks)
  /\ IF save.output \notin DOMAIN Format THEN phase' = "done" /\ UNCHANGED written
     ELSE IF save.output = "LZO" /\ ~save.lzo THEN phase' = "failed" /\ UNCHANGED written
     ELSE /\ written' = [format |-> Format[save.output], word |-> Major * Two16 + Minor * 256, data |-> raw]
          /\ phase' = "done"
  /\ UNCHANGED <<save, raw, offset, name, found, chunks, handled, mapsize, layers>>

SaveBegins ==
  /\ raw = <<>> /\ offset = 0 /\ phase = "header" /\ name = <<>> /\ found = Nothing
  /\ chunks = <<>> /\ handled = 0 /\ mapsize = DefaultMap /\ layers = <<>>
  /\ written = [format |-> "none", word |-> 0, data |-> <<>>]

SaveInit == save \in Saves /\ SaveBegins

SaveNext ==
  \/ Uncompress \/ ReadId \/ ReadRiff \/ ReadArrayItem \/ ReadSparseItem
  \/ HandleChunk \/ Recompress

SaveSpec == SaveInit /\ [][SaveNext]_saveVars

-----------------------------------------------------------------------------
(* Properties                                                              *)

Loaded == phase \in {"handle", "done"}

\* An element of a sparse array so long that its length takes two bytes.
LongSparse ==
  \E i \in DOMAIN save.chunks : \E j \in DOMAIN save.chunks[i].items :
    /\ save.chunks[i].type = SPARSE
    /\ Len(save.chunks[i].items[j].data) + Len(GammaBytes(save.chunks[i].items[j].index)) + 1 >= 128

\* What the reader makes of a chunk the writer was given.
Read(c) ==
  [name |-> c.name, type |-> c.type, items |->
     CASE c.type = RIFF -> c.items[1].data
       [] c.type = ARRAY -> [j \in DOMAIN c.items |-> c.items[j].data]
       [] c.type = SPARSE ->
            [k \in {c.items[j].index : j \in DOMAIN c.items} |->
               LET j == CHOOSE j \in DOMAIN c.items : c.items[j].index = k IN c.items[j].data]]

\* A file that loads is whole, and its chunks are those that were saved, to the byte - unless it
\* has a long element in a sparse array, whose end is misjudged by a byte (savegame.py:387);
\* a short one, cut anywhere, is always noticed (savegame.py:357).
LoadsWhatWasSaved ==
  Loaded /\ ~LongSparse => save.cut = 0 /\ chunks = [i \in DOMAIN save.chunks |-> Read(save.chunks[i])]

\* A map of the game ends up with one entry per tile in every layer it was saved with, for every
\* version's width of a layer, unless the file was misread for such an element; and the file written
\* again carries the same bytes and reads back as the same version (savegame.py:455, :496, :205).
LayersWhole ==
  phase = "done" =>
    /\ ~LongSparse =>
         /\ \A l \in DOMAIN layers : layers[l] = TilesOf(save)
         /\ ~save.skipmap => {save.chunks[i].name : i \in DOMAIN save.chunks} \cap Layers = DOMAIN layers
    /\ written.format # "none" =>
         /\ written.data = raw /\ written.format = Format[save.output]
         /\ written.word \div Two16 = Major /\ (written.word \div 256) % 256 = Minor
=============================================================================
