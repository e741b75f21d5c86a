---------------------------- MODULE ServerStats ----------------------------
(***************************************************************************)
(* ottd-serverstats.py with openttd/grfdb.py: one thread per server of the *)
(* master's list asks for the game's state and for the names of the        *)
(* NewGRFs nobody knows yet; all share the table of names and that of the  *)
(* servers.  When all have ended the main thread counts.                   *)
(***************************************************************************)
EXTENDS Naturals, Sequences, FiniteSets, Functions

CONSTANTS
  Hosts,      \* servers of the list
  Ids,        \* ids of NewGRFs
  GrfsOf,     \* per host: its NewGRFs, [id, md5]
  Versions,   \* game_info_version of an answer
  Sums,       \* md5 sums; the name a server gives a NewGRF is that of its sum
  Tram,       \* id of the generic tram NewGRF
  Unknown     \* no name

ServerStatsAssumption ==
  /\ Unknown \notin Sums /\ Versions \subseteq Nat
  /\ GrfsOf \in [Hosts -> Seq([id : Ids, md5 : Sums])]
  /\ \A h \in Hosts : \A i, j \in DOMAIN GrfsOf[h] :
       GrfsOf[h][i].id = GrfsOf[h][j].id => i = j   \* no duplicates in one server (grfdb.py:132)
ASSUME ServerStatsAssumption

VARIABLES
  main,      \* where the main thread is
  query,     \* per host: where its thread is
  version,   \* per host: of its answer
  SERVERS,   \* hosts that have answered
  newgrfs,   \* info.newgrfs, [id, md5, name]
  unknown,   \* unknowngrfs: the set of those asked for, then of those answered
  omitted,   \* sums asked for that the answer left out
  cut,       \* the second answer was lost, or something else came
  database,  \* GrfDB: name per sum
  loaded,    \* sums of the file
  counted    \* what main() makes of it: servers and newgrf_servers

serverVars == <<main, query, version, SERVERS, newgrfs, unknown, omitted, cut, database, loaded, counted>>

HasGrf(md5) == database[md5] # Unknown

\* getServerList: an answer of another version or none at all ends the program.
GetServerList ==
  /\ main = "list"
  /\ \/ main' = "failed" /\ UNCHANGED query
     \/ main' = "wait" /\ query' = [h \in Hosts |-> "info"]
  /\ UNCHANGED <<version, SERVERS, newgrfs, unknown, omitted, cut, database, loaded, counted>>

\* getGameInfo: the host is entered before its NewGRFs are known; below version 4 it has no field
\* for them, and the thread dies.
GameInfoOf(h) ==
  /\ query[h] = "info"
  /\ \/ query' = [query EXCEPT ![h] = "end"] /\ UNCHANGED <<version, SERVERS>>
     \/ \E v \in Versions :
          /\ version' = [version EXCEPT ![h] = v] /\ SERVERS' = SERVERS \cup {h}
          /\ query' = [query EXCEPT ![h] = IF v < 4 \/ GrfsOf[h] = <<>> THEN "end" ELSE "look"]
  /\ UNCHANGED <<main, newgrfs, unknown, omitted, cut, database, loaded, counted>>

GetGrfsNotInList(h) ==
  /\ query[h] = "look"
  /\ unknown' = [unknown EXCEPT ![h] = {g \in Range(GrfsOf[h]) : ~HasGrf(g.md5)}]
  /\ query' = [query EXCEPT ![h] = IF unknown'[h] = {} THEN "name" ELSE "ask"]
  /\ UNCHANGED <<main, version, SERVERS, newgrfs, omitted, cut, database, loaded, counted>>

\* getGRFInfo: the server names some of them; or the answer is lost; or the first one comes again.
GetGRFInfo(h) ==
  /\ query[h] = "ask"
  /\ \/ \E named \in SUBSET unknown[h] :
          /\ unknown' = [unknown EXCEPT ![h] = named]
          /\ omitted' = [omitted EXCEPT ![h] = {g.md5 : g \in unknown[h] \ named}]
          /\ query' = [query EXCEPT ![h] = "name"] /\ UNCHANGED cut
     \/ query' = [query EXCEPT ![h] = "end"] /\ cut' = cut \cup {h} /\ UNCHANGED <<unknown, omitted>>
  /\ UNCHANGED <<main, version, SERVERS, newgrfs, database, loaded, counted>>

\* Mutant: the first of the list is taken for the one that is looked for.
AddFirstInList(list, grfid) ==
  IF list = {} THEN UNCHANGED database
  ELSE LET first == CHOOSE g \in list : TRUE IN
       database' = [database EXCEPT ![first.md5] = first.md5]

\* At most one of the list has the id, so its order makes no difference.
AddGrfInList(list, grfid) ==
  LET those == {g \in list : g.id = grfid} IN
  IF those = {} THEN UNCHANGED database
  ELSE LET found == CHOOSE g \in those : TRUE IN
       database' = [database EXCEPT ![found.md5] = found.md5]

GetGrfName(md5) == database'[md5]

NameGrf(h) ==
  /\ query[h] = "name" /\ Len(newgrfs[h]) < Len(GrfsOf[h])
  /\ LET grf == GrfsOf[h][Len(newgrfs[h]) + 1] IN
     /\ IF HasGrf(grf.md5) THEN UNCHANGED database ELSE AddGrfInList(unknown[h], grf.id)
     /\ newgrfs' = [newgrfs EXCEPT ![h] = Append(@, [id |-> grf.id, md5 |-> grf.md5, name |-> GetGrfName(grf.md5)])]
  /\ query' = [query EXCEPT ![h] = IF Len(newgrfs'[h]) = Len(GrfsOf[h]) THEN "end" ELSE "name"]
  /\ UNCHANGED <<main, version, SERVERS, unknown, omitted, cut, loaded, counted>>

IsNewgrfServer(h) == newgrfs[h] # <<>> /\ ~(Len(newgrfs[h]) = 1 /\ newgrfs[h][1].id = Tram)

\* The counts, once every thread has ended; a host without the fields of version 2, or no host at
\* all, makes it raise.
Count ==
  /\ main = "wait" /\ \A h \in Hosts : query[h] = "end"
  /\ main' = IF SERVERS = {} \/ \E h \in SERVERS : version[h] < 2 THEN "failed" ELSE "counted"
  /\ counted' = [servers |-> Cardinality(SERVERS), newgrf |-> Cardinality({h \in SERVERS : IsNewgrfServer(h)})]
  /\ UNCHANGED <<query, version, SERVERS, newgrfs, unknown, omitted, cut, database, loaded>>

StatsToolInit ==
  /\ main = "list" /\ query = [h \in Hosts |-> "none"] /\ version = [h \in Hosts |-> 0]
  /\ SERVERS = {} /\ newgrfs = [h \in Hosts |-> <<>>] /\ unknown = [h \in Hosts |-> {}]
  /\ omitted = [h \in Hosts |-> {}] /\ cut = {}
  /\ loaded \in SUBSET Sums
  /\ database = [m \in Sums |-> IF m \in loaded THEN m ELSE Unknown]
  /\ counted = [servers |-> 0, newgrf |-> 0]

StatsToolNext ==
  \/ GetServerList \/ Count
  \/ \E h \in Hosts : GameInfoOf(h) \/ GetGrfsNotInList(h) \/ GetGRFInfo(h) \/ NameGrf(h)

StatsToolSpec == StatsToolInit /\ [][StatsToolNext]_serverVars

\* A NewGRF is listed without its name only if its own server was asked for it and left it out,
\* and with no other NewGRF's name, whatever the threads add to the table meanwhile; a server
\* with NewGRFs is counted as one, unless its second answer did not come or its version is too
\* old to tell (ottd-serverstats.py:53, :55, :188).
CountHonest ==
  /\ \A h \in Hosts : \A i \in DOMAIN newgrfs[h] :
       LET g == newgrfs[h][i] IN g.name = g.md5 \/ (g.name = Unknown /\ g.md5 \in omitted[h])
  /\ main = "counted" =>
       counted.newgrf = Cardinality({h \in SERVERS \ cut :
         /\ version[h] >= 4 /\ GrfsOf[h] # <<>>
         /\ ~(Len(GrfsOf[h]) = 1 /\ GrfsOf[h][1].id = Tram)})
=============================================================================
