----------------------------- MODULE MCLibrary -----------------------------
(***************************************************************************)
(* The instance for TLC of the parts that share no state with the rest:    *)
(* the plugins and their registry, the savegame reader, the statistics of  *)
(* all servers, version numbers and payloads.  A behaviour is one of one   *)
(* part; the others stay as they begin.                                    *)
(***************************************************************************)
EXTENDS Plugins, PlayerInfo, Rcon, TimeWarning, WebServer, StatsWriter, ServerStats, Savegame,
        VersionNumbers, Structz

CONSTANT sendToIRC

VARIABLE part

allVars == <<part, pluginVars, infoVars, rconVars, timeVars, webVars, statsVars, serverVars, saveVars,
             versionVars, structzVars>>

-----------------------------------------------------------------------------
(* Plugins: both want the loop, one command and one event.                 *)

MCBuiltIn == <<sendToIRC>>
MCScript ==
  [p |-> <<[kind |-> "callback", key |-> "loop"], [kind |-> "command", key |-> "x"],
           [kind |-> "event", key |-> "chat"]>>,
   q |-> <<[kind |-> "callback", key |-> "loop"], [kind |-> "command", key |-> "x"]>>]

(* TimeWarning: -1 is no time running, 0 one that is always over.          *)
MCRuntimes == {-1, 0, 2}

(* ServerStats: two servers share a NewGRF, two others have one id and two sums. *)
Grf(id, md5) == [id |-> id, md5 |-> md5]
MCGrfsOf ==
  [h1 |-> <<Grf("i1", "m1"), Grf("i2", "m2")>>, h2 |-> <<Grf("i1", "m3"), Grf("i2", "m2")>>,
   h3 |-> <<Grf("tram", "m1")>>]

-----------------------------------------------------------------------------
(* Savegame: pairs of chunks with empty, short and long items, cut at the   *)
(* end; and maps of four versions and two sizes.                           *)

PLYR == <<80, 76, 89, 82>>
Long(n) == [i \in 1 .. n |-> i % 3]
Short == {<<>>, <<0>>, <<5, 0, 129>>}
Item(index, data) == [index |-> index, data |-> data]
ChunkOf(chunk, type, items) == [name |-> chunk, type |-> type, items |-> items]
One(chunk, data) == ChunkOf(chunk, RIFF, <<Item(0, data)>>)

MCChunks ==
  {One(PLYR, d) : d \in Short \cup {Long(300)}}
  \cup {ChunkOf(PLYR, ARRAY, s) : s \in {<<>>, <<Item(0, <<0>>), Item(1, <<>>)>>, <<Item(0, <<>>), Item(1, <<5, 0, 129>>)>>}
                                  \cup {<<Item(0, Long(n))>> : n \in {126, 127, 200}}}
  \cup {ChunkOf(PLYR, SPARSE, s) : s \in {<<>>, <<Item(0, <<0>>), Item(130, <<5, 0, 129>>)>>}
                                   \cup {<<Item(i, Long(n))>> : i \in {0, 200}, n \in {0, 3, 125, 126, 200}}}

File(format, word, list, cutOff, hasLzo, noMap, to) ==
  [format |-> format, word |-> word, chunks |-> list, cut |-> cutOff, lzo |-> hasLzo, skipmap |-> noMap, output |-> to]

MapChunks(v, mx, my) ==
  (IF v >= 6 THEN <<One(MAPS, Word(mx) \o Word(my))>> ELSE <<>>)
  \o [i \in 1 .. 8 |-> LET l == <<MAPT, MAPO, MAP2, M3LO, M3HI, MAP5, MAPE, MAP7>>[i] IN
                       One(l, Long(LayerBytes(l, v, mx * my)))]

MCDefaultMap == [x |-> 2, y |-> 4]
MCSmall == File("OTTN", 0, <<One(PLYR, <<>>), One(PLYR, <<>>)>>, 0, FALSE, FALSE, "ZLIB")
MCSaves ==
  {MCSmall} \cup {File("OTTN", 65536 * 43 + 256 * 2 + 7, <<a, b>>, k, FALSE, FALSE, "ZLIB") :
     a, b \in MCChunks, k \in {0, 1, 4, 5, 9}}
  \cup {File(format, 65536 * v + 3, MapChunks(v, IF v < 6 THEN 2 ELSE mx, 4), k, hasLzo, noMap, to) :
     format \in {"OTTN", "OTTZ", "OTTD", "OTTX"}, v \in {5, 6, 42, 43}, mx \in {2, 8}, k \in {0, 3},
     hasLzo, noMap \in BOOLEAN, to \in {"LZO", "ZLIB", "bz2"}}

-----------------------------------------------------------------------------
(* Versions: texts of every class, and texts that only look like one.      *)

R100 == <<"1", ".", "0", ".", "0">>
R101 == <<"1", ".", "0", ".", "1">>
Beta1 == R100 \o <<"-", "beta", "1">>
RC1 == R100 \o <<"-", "RC", "1">>
Nightly(marks) == <<"r", "1", "2">> \o marks
MCTexts ==
  {R100, R101, Beta1, RC1, R100 \o <<".", "1">>, R100 \o <<".", "0">>, <<"0">> \o R100, <<"1", ".", "2">>,
   <<"1", ".", "1", ".", "1", "7">>, Beta1 \o <<"-", "beta", "1">>, RC1 \o <<"-", "beta", "2">>,
   Nightly(<<>>), Nightly(<<"M", "-", "x">>), Nightly(<<"-", "x", "-", "x">>), Nightly(<<"-">>),
   Nightly(<<"-", "RC", "1">>), <<"r", "0", "1", "2", "M">>, <<"r">>, <<"r", "M">>, <<"x">>}
MCTagRev == (Beta1 :> 3) @@ (RC1 :> 4) @@ (R100 :> 5) @@ (R101 :> 9)

(* Structz: formats with strings in front, between and behind, none, or two *)
(* in a row; numbers with zero bytes in them.                               *)
Field(n, code) == [count |-> n, code |-> code]
B == Field(0, "B")
H == Field(0, "H")
MCFormats ==
  {<<<<>>, <<>>>>, <<<<>>, <<>>, <<B, B>>, <<>>>>, <<<<H, B>>, <<>>>>, <<<<B, H>>, <<H>>>>, <<<<H, H>>>>,
   <<<<Field(2, "s")>>>>, <<<<Field(2, "s")>>, <<>>>>, <<<<>>, <<Field(2, "s")>>>>,
   <<<<>>, <<Field(2, "B")>>>>, <<<<>>, <<Field(4, "B")>>>>, <<<<Field(2, "B")>>, <<H>>>>}
ValuesOf(size) ==
  CASE size = 0 -> {<<>>, <<97>>, <<97, 98>>}
    [] size = 1 -> {<<0>>, <<97>>}
    [] size = 2 -> {<<0, 0>>, <<1, 0>>, <<98, 97>>}
MCValues ==
  [f \in MCFormats |-> LET sizes == FlattenSeq(Slots(f)) IN
     {v \in [DOMAIN sizes -> UNION {ValuesOf(n) : n \in 0 .. 2}] : \A i \in DOMAIN sizes : v[i] \in ValuesOf(sizes[i])}]
MCBehind == <<7, 0>>
MCFormat == <<<<>>, <<>>>>

-----------------------------------------------------------------------------

Parts == {"plugins", "info", "rcon", "time", "web", "stats", "servers", "save", "versions", "structz"}

\* What a part begins with is open in its own behaviours only.
MCInit ==
  /\ part \in Parts
  /\ save \in IF part = "save" THEN Saves ELSE {MCSmall}
  /\ loaded \in IF part = "servers" THEN SUBSET Sums ELSE {{}}
  /\ cache \in IF part = "stats" THEN {NoFile, Torn} ELSE {NoFile}
  /\ runtime \in IF part = "time" THEN Runtimes ELSE {2}
  /\ start \in IF part = "time" THEN {0, 2} ELSE {0}
  /\ fmt \in IF part = "structz" THEN Formats ELSE {MCFormat}
  /\ argv \in IF part = "structz" THEN Values[fmt] ELSE {<<<<>>>>}
  /\ PluginsInit /\ InfoInit /\ RconInit /\ TimeInit /\ WebInit /\ StatsInit /\ StatsToolInit /\ SaveBegins
  /\ VersionInit /\ StructzBegins

MCNext ==
  /\ part' = part
  /\ \/ part = "plugins" /\ PluginsNext
        /\ UNCHANGED <<infoVars, rconVars, timeVars, webVars, statsVars, serverVars, saveVars, versionVars, structzVars>>
     \/ part = "info" /\ InfoNext
        /\ UNCHANGED <<pluginVars, rconVars, timeVars, webVars, statsVars, serverVars, saveVars, versionVars, structzVars>>
     \/ part = "rcon" /\ RconNext
        /\ UNCHANGED <<pluginVars, infoVars, timeVars, webVars, statsVars, serverVars, saveVars, versionVars, structzVars>>
     \/ part = "time" /\ TimeNext
        /\ UNCHANGED <<pluginVars, infoVars, rconVars, webVars, statsVars, serverVars, saveVars, versionVars, structzVars>>
     \/ part = "web" /\ WebNext
        /\ UNCHANGED <<pluginVars, infoVars, rconVars, timeVars, statsVars, serverVars, saveVars, versionVars, structzVars>>
     \/ part = "stats" /\ StatsNext
        /\ UNCHANGED <<pluginVars, infoVars, rconVars, timeVars, webVars, serverVars, saveVars, versionVars, structzVars>>
     \/ part = "servers" /\ StatsToolNext
        /\ UNCHANGED <<pluginVars, infoVars, rconVars, timeVars, webVars, statsVars, saveVars, versionVars, structzVars>>
     \/ part = "save" /\ SaveNext
        /\ UNCHANGED <<pluginVars, infoVars, rconVars, timeVars, webVars, statsVars, serverVars, versionVars, structzVars>>
     \/ part = "versions" /\ VersionNext
        /\ UNCHANGED <<pluginVars, infoVars, rconVars, timeVars, webVars, statsVars, serverVars, saveVars, structzVars>>
     \/ part = "structz" /\ StructzNext
        /\ UNCHANGED <<pluginVars, infoVars, rconVars, timeVars, webVars, statsVars, serverVars, saveVars, versionVars>>

MCSpec == MCInit /\ [][MCNext]_allVars
=============================================================================
