--------------------------- MODULE Plugins_proofs ---------------------------
(***************************************************************************)
(* The plugins and their registry, for any number of plugins, callbacks,   *)
(* companies, requests, threads, servers and sessions: the tables of the   *)
(* registry agree and a round of callbacks calls as it should; the news of *)
(* playerinfo alternate; the warnings of timewarning keep their distance   *)
(* and their range; the lines of an rcon answer go to the one who asked;   *)
(* the web server's thread is the one the plugin knows.  And the two       *)
(* statistics: those of the web server are one map's, each entry with the  *)
(* answers to its own questions; those of ottd-serverstats name no NewGRF  *)
(* wrongly and count the servers that tell of theirs.                      *)
(***************************************************************************)
EXTENDS Plugins, PlayerInfo, TimeWarning, Rcon, WebServer, StatsWriter, ServerStats, SequenceTheorems,
        FiniteSetTheorems, TLAPS

-----------------------------------------------------------------------------
(* playerinfo.py                                                           *)

Everyone == Companies \cup {Spectators}

Alternates(news) == \A i \in DOMAIN news : news[i] = IF i % 2 = 1 THEN "idle" ELSE "back"

InfoTypes ==
  /\ now \in Nat /\ setBack \in BOOLEAN /\ raised \in Nat
  /\ last \in [Everyone -> Nat \cup {Unset}]
  /\ idling \subseteq Known
  /\ said \in [Everyone -> Seq({"idle", "back"})]
  /\ asking \in [left : SUBSET Everyone, size : Nat]

\* While the clock goes forward, who is in the list has been quiet for longer than the time.
Quiet == setBack \/ \A c \in idling : now - last[c] > IdleTime

\* The failed walks are as few as the companies a walk under way began with.
FewRaised ==
  /\ asking # NotAsking => raised <= asking.size /\ asking.size <= Cardinality(Known)
  /\ raised <= Cardinality(Known)

InfoInv == InfoTypes /\ Quiet /\ (setBack \/ NewsAlternate) /\ FewRaised

\* The numbers of pieces of news are odd and even in turn.
LEMMA Parity == \A n \in Nat : n % 2 \in {0, 1} /\ ((n + 1) % 2 = 1 <=> n % 2 = 0)
  OBVIOUS

\* The companies that have acted can be counted.
LEMMA KnownFinite == InfoTypes => IsFiniteSet(Known) /\ Cardinality(Known) \in Nat
  <1> SUFFICES ASSUME InfoTypes PROVE IsFiniteSet(Known)
    BY FS_CardinalityType
  <1>1. IsFiniteSet(Everyone)
    BY PlayerInfoAssumption, FS_AddElement DEF PlayerInfoAssumption, Everyone
  <1> QED
    BY <1>1, FS_Subset DEF Known, InfoTypes

\* What one more piece of news does to a company's.
LEMMA SayKeeps ==
  ASSUME InfoTypes, NEW c \in Everyone, NEW what \in {"idle", "back"}
  PROVE  LET told == Append(said[c], what) IN
         /\ told \in Seq({"idle", "back"}) /\ Len(said[c]) \in Nat /\ Len(told) = Len(said[c]) + 1
         /\ DOMAIN told = 1 .. Len(told) /\ DOMAIN said[c] = 1 .. Len(said[c])
         /\ told[Len(told)] = what /\ \A i \in DOMAIN said[c] : told[i] = said[c][i]
  <1>1. said[c] \in Seq({"idle", "back"})
    BY DEF InfoTypes
  <1> QED
    BY <1>1, AppendProperties, LenProperties

\* One more piece of news goes on alternating, when it is the one that is due.
LEMMA NewsGoesOn ==
  ASSUME InfoTypes, NEW c \in Everyone, NEW what \in {"idle", "back"},
         Alternates(said[c]), what = "idle" <=> Len(said[c]) % 2 = 0
  PROVE  LET told == Append(said[c], what) IN
         /\ Alternates(told)
         /\ what = "idle" <=> Len(told) % 2 = 1
  <1> DEFINE told == Append(said[c], what)
  <1>1. /\ Len(said[c]) \in Nat /\ Len(told) = Len(said[c]) + 1
        /\ DOMAIN told = 1 .. Len(told) /\ DOMAIN said[c] = 1 .. Len(said[c])
        /\ told[Len(told)] = what /\ \A i \in DOMAIN said[c] : told[i] = said[c][i]
    BY SayKeeps
  <1> HIDE DEF told
  <1>2. Len(said[c]) % 2 = 0 <=> Len(told) % 2 = 1
    <2>1. \A n, m \in Nat : m = n + 1 => (n % 2 = 0 <=> m % 2 = 1)
      BY Parity
    <2>2. Len(told) \in Nat
      BY <1>1
    <2> QED
      BY <1>1, <2>1, <2>2
  <1>3. \A i \in DOMAIN told : i \in DOMAIN said[c] \/ i = Len(told)
    BY <1>1
  <1>4. told[Len(told)] = IF Len(told) % 2 = 1 THEN "idle" ELSE "back"
    BY <1>1, <1>2
  <1>5. Alternates(told)
    BY <1>1, <1>3, <1>4 DEF Alternates
  <1>6. /\ Alternates(told)
        /\ what = "idle" <=> Len(told) % 2 = 1
    BY <1>2, <1>5
  <1> QED
    BY <1>6 DEF told

\* A command: its company is noted as known, and told back when it was in the list.
LEMMA CommandKeeps ==
  ASSUME InfoInv, NEW c \in Everyone, Command(c)
  PROVE  InfoInv'
  <1> USE DEF InfoInv
  <1>1. /\ last' = [last EXCEPT ![c] = now] /\ idling' = idling \ {c}
        /\ UNCHANGED <<now, setBack, asking, asks, raised>>
    BY DEF Command
  <1>2. Known' = Known \cup {c} /\ Known \subseteq Everyone
    BY <1>1, PlayerInfoAssumption DEF PlayerInfoAssumption, Known, InfoTypes
  <1>3. /\ Cardinality(Known) <= Cardinality(Known')
        /\ Cardinality(Known) \in Nat /\ Cardinality(Known') \in Nat
    <2>1. IsFiniteSet(Known) /\ IsFiniteSet(Known')
      BY <1>2, KnownFinite, FS_AddElement
    <2> QED
      BY <1>2, <2>1, FS_Subset, FS_CardinalityType
  <1>4. \/ said' = said /\ ~(c \in idling /\ now > last[c] /\ now - last[c] > IdleTime)
        \/ said' = Say(c, "back") /\ c \in idling
    BY DEF Command
  <1>5. said' \in [Everyone -> Seq({"idle", "back"})]
    BY <1>4, SayKeeps DEF InfoTypes, Say
  <1>6. InfoTypes'
    BY <1>1, <1>2, <1>5 DEF InfoTypes
  <1>7. Quiet'
    BY <1>1 DEF Quiet, InfoTypes
  <1>8. FewRaised'
    BY <1>1, <1>3 DEF FewRaised, InfoTypes
  <1>9. ASSUME ~setBack PROVE NewsAlternate'
    <2>1. CASE said' = said /\ c \notin idling
      BY <1>1, <1>9, <2>1 DEF NewsAlternate
    <2>2. CASE said' = Say(c, "back") /\ c \in idling
      <3>1. DOMAIN said = Everyone /\ DOMAIN said' = Everyone
        BY <1>5 DEF InfoTypes
      <3>2. said'[c] = Append(said[c], "back") /\ \A d \in Everyone \ {c} : said'[d] = said[d]
        BY <2>2, <3>1 DEF Say
      <3>3. /\ Alternates(said[c])
            /\ ~(Len(said[c]) % 2 = 0)
        BY <1>9, <2>2, <3>1 DEF NewsAlternate, Alternates
      <3>4. /\ Alternates(said'[c])
            /\ ~(Len(said'[c]) % 2 = 1)
        BY <3>2, <3>3, NewsGoesOn
      <3> QED
        BY <1>1, <1>9, <3>1, <3>2, <3>4 DEF NewsAlternate, Alternates
    <2>3. c \in idling => now > last[c] /\ now - last[c] > IdleTime
      BY <1>9, PlayerInfoAssumption DEF PlayerInfoAssumption, Quiet, InfoTypes, Known
    <2> QED
      BY <1>4, <2>1, <2>2, <2>3
  <1> QED
    BY <1>1, <1>6, <1>7, <1>8, <1>9

\* The check of the main loop: who has been quiet too long is told idle, each once.
LEMMA CheckKeeps ==
  ASSUME InfoInv, CheckForIdling
  PROVE  InfoInv'
  <1> USE DEF InfoInv
  <1> DEFINE new == {c \in (Known \ {Spectators}) \ idling : now > last[c] /\ now - last[c] > IdleTime}
  <1>1. /\ idling' = idling \cup new
        /\ said' = [c \in DOMAIN said |-> IF c \in new THEN Append(said[c], "idle") ELSE said[c]]
        /\ UNCHANGED <<now, setBack, last, asking, asks, raised>>
    BY DEF CheckForIdling
  <1>2. /\ new \subseteq Known /\ new \cap idling = {} /\ Known \subseteq Everyone
        /\ \A c \in new : now - last[c] > IdleTime
    BY DEF InfoTypes, Known
  <1> HIDE DEF new
  <1>3. DOMAIN said = Everyone /\ DOMAIN said' = Everyone
    BY <1>1 DEF InfoTypes
  <1>4. said' \in [Everyone -> Seq({"idle", "back"})]
    BY <1>1, <1>3, SayKeeps DEF InfoTypes
  <1>5. InfoTypes' /\ Known' = Known
    BY <1>1, <1>2, <1>4 DEF InfoTypes, Known
  <1>6. Quiet'
    BY <1>1, <1>2 DEF Quiet
  <1>7. FewRaised'
    BY <1>1, <1>5 DEF FewRaised
  <1>8. ASSUME ~setBack PROVE NewsAlternate'
    <2> SUFFICES ASSUME NEW c \in Everyone
                 PROVE  /\ Alternates(said'[c])
                        /\ c \in idling' <=> Len(said'[c]) % 2 = 1
      BY <1>3 DEF NewsAlternate, Alternates
    <2>1. /\ Alternates(said[c])
          /\ c \in idling <=> Len(said[c]) % 2 = 1
      BY <1>3, <1>8 DEF NewsAlternate, Alternates
    <2>2. CASE c \in new
      <3>1. said'[c] = Append(said[c], "idle") /\ c \notin idling /\ c \in idling' /\ Len(said[c]) \in Nat
        BY <1>1, <1>2, <1>3, <2>2, SayKeeps
      <3>2. Len(said[c]) % 2 = 0
        BY <2>1, <3>1, Parity
      <3> QED
        BY <2>1, <3>1, <3>2, NewsGoesOn
    <2>3. CASE c \notin new
      BY <1>1, <1>3, <2>1, <2>3
    <2> QED
      BY <2>2, <2>3
  <1> QED
    BY <1>1, <1>5, <1>6, <1>7, <1>8

LEMMA InfoBegins == InfoInit => InfoInv
  <1> SUFFICES ASSUME InfoInit PROVE InfoInv
    OBVIOUS
  <1>1. Known = {} /\ asking = NotAsking /\ asking.size = 0
    BY DEF InfoInit, Known, NotAsking
  <1>2. /\ said = [c \in Everyone |-> <<>>]
        /\ <<>> \in Seq({"idle", "back"}) /\ Len(<<>>) = 0 /\ DOMAIN <<>> = {}
    BY EmptySeq DEF InfoInit, Everyone
  <1>3. InfoTypes
    <2>1. last \in [Everyone -> Nat \cup {Unset}] /\ said \in [Everyone -> Seq({"idle", "back"})]
      BY <1>2 DEF InfoInit, Everyone
    <2>2. asking \in [left : SUBSET Everyone, size : Nat]
      BY <1>1 DEF NotAsking
    <2> QED
      BY <2>1, <2>2 DEF InfoInit, InfoTypes
  <1>4. Quiet /\ NewsAlternate
    <2>1. 0 % 2 = 0
      OBVIOUS
    <2>2. DOMAIN said = Everyone /\ \A c \in Everyone : said[c] = <<>>
      BY <1>2
    <2>3. Alternates(<<>>) /\ ~(Len(<<>>) % 2 = 1)
      BY <1>2, <2>1 DEF Alternates
    <2>4. NewsAlternate
      BY <2>2, <2>3 DEF InfoInit, NewsAlternate, Alternates
    <2> QED
      BY <2>4 DEF InfoInit, Quiet
  <1>5. FewRaised
    BY <1>1, FS_EmptySet DEF InfoInit, FewRaised
  <1> QED
    BY <1>3, <1>4, <1>5 DEF InfoInv

LEMMA InfoStepKeeps == InfoInv /\ [InfoNext]_infoVars => InfoInv'
  <1> SUFFICES ASSUME InfoInv, [InfoNext]_infoVars PROVE InfoInv'
    OBVIOUS
  <1> USE DEF InfoInv
  <1>1. ASSUME NEW c \in Everyone, Command(c) PROVE InfoInv'
    BY <1>1, CommandKeeps
  <1>2. CASE CheckForIdling
    BY <1>2, CheckKeeps
  <1>3. CASE BeginIdleInfo
    BY <1>3, KnownFinite DEF BeginIdleInfo, InfoTypes, Known, Quiet, NewsAlternate, FewRaised
  <1>4. CASE IdleInfo
    <2>1. UNCHANGED <<now, setBack, last, idling, said>> /\ Known' = Known /\ asking # NotAsking
      BY <1>4 DEF IdleInfo, Known
    <2>2. Quiet' /\ (setBack \/ NewsAlternate)' /\ Cardinality(Known) \in Nat
      BY <2>1, KnownFinite DEF Quiet, NewsAlternate
    <2>3. \/ Cardinality(Known) # asking.size /\ asking' = NotAsking /\ raised' = raised + 1
          \/ UNCHANGED raised
             /\ \/ asking' = NotAsking
                \/ asking' \in [left : SUBSET Everyone, size : Nat] /\ asking'.size = asking.size
      BY <1>4 DEF IdleInfo, InfoTypes
    <2>4. InfoTypes'
      <3>1. NotAsking \in [left : SUBSET Everyone, size : Nat]
        BY DEF NotAsking
      <3> QED
        BY <2>1, <2>3, <3>1 DEF InfoTypes
    <2>5. FewRaised'
      BY <2>1, <2>2, <2>3 DEF FewRaised, InfoTypes
    <2> QED
      BY <2>2, <2>4, <2>5
  <1>5. CASE Tick
    <2>1. now' = now + 1 /\ UNCHANGED <<setBack, last, idling, said, asking, raised>> /\ Known' = Known
      BY <1>5 DEF Tick, Known
    <2>2. \A c \in idling : last[c] \in Nat
      BY DEF InfoTypes, Known
    <2>3. InfoTypes' /\ Quiet'
      BY <2>1, <2>2, PlayerInfoAssumption DEF PlayerInfoAssumption, InfoTypes, Quiet
    <2> QED
      BY <2>1, <2>3 DEF NewsAlternate, FewRaised
  <1>6. CASE SetBack
    BY <1>6 DEF SetBack, InfoTypes, Known, Quiet, NewsAlternate, FewRaised
  <1>7. CASE UNCHANGED infoVars
    BY <1>7 DEF infoVars, InfoTypes, Known, Quiet, NewsAlternate, FewRaised
  <1> QED
    BY <1>1, <1>2, <1>3, <1>4, <1>5, <1>6, <1>7 DEF InfoNext, Everyone

\* Whatever companies act and whoever asks, "is now idling" and "is back" alternate until the
\* clock is set back, and idleinfo fails no more often than there are companies that have acted
\* (playerinfo.py:50, :78, :95).
THEOREM NewsAlwaysAlternate == InfoSpec => []IdleNews
  <1>1. InfoInv => IdleNews
    BY DEF InfoInv, FewRaised, IdleNews
  <1> QED
    BY InfoBegins, InfoStepKeeps, <1>1, PTL DEF InfoSpec

-----------------------------------------------------------------------------
(* timewarning.py                                                          *)

TimeTypes ==
  /\ clock \in Int /\ start \in Int /\ lastwarn \in Int /\ runtime \in Int
  /\ file \in Int \cup {Missing}
  /\ left \in Seq(Int) /\ warnings \in Seq(Int)
  /\ warped \in BOOLEAN

\* What was said is positive, and more than the time running only when the start lay ahead.
SaidInTime ==
  /\ "unset" \in failed => runtime = 0
  /\ \A i \in 1 .. Len(left) : left[i] > 0 /\ (left[i] > runtime => warped)

\* While the clock only goes forward nothing lies ahead of it, and the last warning is noted.
Forward ==
  warped \/
    /\ start <= clock
    /\ \A i \in 1 .. Len(warnings) - 1 : warnings[i + 1] - warnings[i] > Interval
    /\ Len(warnings) > 0 => lastwarn = warnings[Len(warnings)]

TimeInv == TimeTypes /\ SaidInTime /\ Forward

\* A file that is read as new gives the time of the clock, or what it was; nothing else is written.
LEMMA ReadAnew ==
  ASSUME TimeTypes, NEW r \in ReadTimeFile(TRUE)
  PROVE  /\ r.start \in Int /\ r.file \in Int \cup {Missing}
         /\ ~r.raised => r.start = clock
         /\ r.start = clock \/ r.start = start
  <1>1. CASE r = [start |-> clock, file |-> clock, raised |-> FALSE]
    BY <1>1 DEF TimeTypes
  <1>2. CASE r \in [start : {start}, file : {file, Missing}, raised : {TRUE}]
    BY <1>2 DEF TimeTypes
  <1> QED
    BY <1>1, <1>2 DEF ReadTimeFile

\* One more answer in its range.
LEMMA OneMoreSaid ==
  ASSUME TimeTypes, SaidInTime, NEW answer \in Int, answer > 0, answer > runtime => warped,
         left' = Append(left, answer), UNCHANGED <<warped, runtime>>, "unset" \notin failed' \ failed
  PROVE  left' \in Seq(Int) /\ SaidInTime'
  <1>1. /\ left' \in Seq(Int) /\ Len(left') = Len(left) + 1 /\ Len(left) \in Nat
        /\ \A i \in 1 .. Len(left) : left'[i] = left[i]
        /\ left'[Len(left) + 1] = answer
    BY AppendProperties, LenProperties DEF TimeTypes
  <1> QED
    BY <1>1 DEF SaidInTime

\* The question keeps what is known of the answers and of the start, however it ends.
LEMMA TimeLeftKeeps ==
  ASSUME TimeInv, NEW end \in Ends, TimeLeft(end), UNCHANGED <<clock, warped, runtime>>
  PROVE  /\ start' \in Int /\ file' \in Int \cup {Missing} /\ left' \in Seq(Int)
         /\ SaidInTime' /\ (warped \/ start' <= clock')
  <1> USE DEF TimeInv
  <1>1. failed' = failed \cup ({end} \ {"well"})
    BY DEF TimeLeft
  <1>2. CASE end = "well" /\ UNCHANGED <<file, start, left>>
    BY <1>1, <1>2 DEF TimeTypes, SaidInTime, Forward
  <1>3. CASE /\ end = "well" /\ LeftFrom(start) > 0 /\ left' = Append(left, LeftFrom(start))
             /\ UNCHANGED <<file, start>>
    <2>1. LeftFrom(start) \in Int /\ (LeftFrom(start) > runtime => warped)
      BY DEF LeftFrom, Forward, TimeTypes
    <2>2. left' \in Seq(Int) /\ SaidInTime'
      BY <1>1, <1>3, <2>1, OneMoreSaid
    <2> QED
      BY <1>3, <2>2 DEF TimeTypes, Forward
  <1>4. ASSUME NEW r \in ReadTimeFile(TRUE), start' = r.start, runtime >= 0,
               \/ r.raised /\ end = "write" /\ UNCHANGED left /\ file' = r.file
               \/ /\ ~r.raised /\ LeftFrom(r.start) > 0 /\ end = "well"
                  /\ left' = Append(left, LeftFrom(r.start)) /\ file' = r.file
               \/ /\ ~r.raised /\ LeftFrom(r.start) <= 0 /\ UNCHANGED left
                  /\ \/ end = "unset" /\ file' = r.file
                     \/ end = "write" /\ MaxDepth > 0 /\ file' \in {r.file, Missing}
        PROVE  /\ start' \in Int /\ file' \in Int \cup {Missing} /\ left' \in Seq(Int)
               /\ SaidInTime' /\ (warped \/ start' <= clock')
    <2> DEFINE began == r.start
    <2>1. /\ began \in Int /\ r.file \in Int \cup {Missing}
          /\ ~r.raised => began = clock
          /\ began = clock \/ began = start
      BY <1>4, ReadAnew
    <2>2. start' = began /\ file' \in {r.file, Missing}
      BY <1>4
    <2> HIDE DEF began
    <2>3. start' \in Int /\ file' \in Int \cup {Missing} /\ (warped \/ start' <= clock')
      BY <2>1, <2>2 DEF TimeTypes, Forward
    <2>4. ~r.raised => LeftFrom(r.start) = runtime
      BY <2>1 DEF began, LeftFrom, TimeTypes
    <2>5. CASE r.raised /\ end = "write" /\ UNCHANGED left
      BY <1>1, <2>3, <2>5 DEF TimeTypes, SaidInTime
    <2>6. CASE ~r.raised /\ LeftFrom(r.start) > 0 /\ end = "well" /\ left' = Append(left, LeftFrom(r.start))
      <3>1. LeftFrom(r.start) \in Int /\ (LeftFrom(r.start) > runtime => warped)
        BY <2>4, <2>6 DEF TimeTypes
      <3> QED
        BY <1>1, <2>3, <2>6, <3>1, OneMoreSaid
    <2>7. CASE ~r.raised /\ LeftFrom(r.start) <= 0 /\ UNCHANGED left /\ end \in {"unset", "write"}
      <3>1. runtime = 0
        BY <1>4, <2>4, <2>7 DEF TimeTypes
      <3> QED
        BY <2>3, <2>7, <3>1 DEF TimeTypes, SaidInTime
    <2> QED
      BY <1>4, <2>5, <2>6, <2>7
  <1> QED
    BY <1>2, <1>3, <1>4 DEF TimeLeft

LEMMA TimeBegins == TimeInit => TimeInv
  <1> SUFFICES ASSUME TimeInit PROVE TimeInv
    OBVIOUS
  <1>1. left = <<>> /\ warnings = <<>> /\ Len(left) = 0 /\ Len(warnings) = 0
    BY EmptySeq DEF TimeInit
  <1>2. TimeTypes
    <2>1. start \in Int /\ file = start /\ clock = 2 /\ runtime \in Int /\ lastwarn = 0
      BY TimeWarningAssumption DEF TimeWarningAssumption, TimeInit
    <2>2. left \in Seq(Int) /\ warnings \in Seq(Int)
      BY <1>1, EmptySeq
    <2>3. warped \in BOOLEAN
      BY DEF TimeInit
    <2> QED
      BY <2>1, <2>2, <2>3 DEF TimeTypes
  <1>3. SaidInTime
    BY <1>1 DEF TimeInit, SaidInTime
  <1>4. Forward
    BY <1>1 DEF TimeInit, Forward
  <1> QED
    BY <1>2, <1>3, <1>4 DEF TimeInv

LEMMA TimeStepKeeps == TimeInv /\ [TimeNext]_timeVars => TimeInv'
  <1> SUFFICES ASSUME TimeInv, [TimeNext]_timeVars PROVE TimeInv'
    OBVIOUS
  <1> USE TimeWarningAssumption DEF TimeWarningAssumption, TimeInv
  <1>1. CASE Asked
    <2>1. UNCHANGED <<clock, warped, runtime, lastwarn, warnings>> /\ \E end \in Ends : TimeLeft(end)
      BY <1>1 DEF Asked
    <2> QED
      BY <2>1, TimeLeftKeeps DEF TimeTypes, Forward
  <1>2. CASE OnMainLoop
    <2>1. UNCHANGED <<clock, warped, runtime>> /\ (\E end \in Ends : TimeLeft(end)) /\ clock - lastwarn > Interval
      BY <1>2 DEF OnMainLoop, Ends
    <2>2. CASE UNCHANGED <<lastwarn, warnings>>
      BY <2>1, <2>2, TimeLeftKeeps DEF TimeTypes, Forward
    <2>3. CASE lastwarn' = clock /\ warnings' = Append(warnings, clock)
      <3>1. /\ warnings' \in Seq(Int) /\ Len(warnings') = Len(warnings) + 1 /\ Len(warnings) \in Nat
            /\ \A i \in 1 .. Len(warnings) : warnings'[i] = warnings[i]
            /\ warnings'[Len(warnings) + 1] = clock
        BY <2>3, AppendProperties, LenProperties DEF TimeTypes
      <3>2. TimeTypes'
        BY <2>1, <2>3, <3>1, TimeLeftKeeps DEF TimeTypes
      <3>3. ASSUME ~warped
            PROVE  \A i \in 1 .. Len(warnings') - 1 : warnings'[i + 1] - warnings'[i] > Interval
        <4>1. \A i \in 1 .. Len(warnings') - 1 : i < Len(warnings) \/ i = Len(warnings)
          BY <3>1
        <4>2. \A i \in 1 .. Len(warnings') - 1 :
                i < Len(warnings) => warnings'[i + 1] = warnings[i + 1] /\ warnings'[i] = warnings[i]
          BY <3>1
        <4>3. Len(warnings) > 0 => clock - warnings[Len(warnings)] > Interval
          BY <2>1, <3>3 DEF Forward
        <4> QED
          BY <3>1, <3>3, <4>1, <4>2, <4>3 DEF Forward
      <3>4. Forward'
        BY <2>1, <2>3, <3>1, <3>3, TimeLeftKeeps DEF Forward
      <3> QED
        BY <2>1, <3>2, <3>4, TimeLeftKeeps
    <2> QED
      BY <1>2, <2>2, <2>3 DEF OnMainLoop
  <1>3. CASE ClockTicks
    BY <1>3 DEF ClockTicks, TimeTypes, SaidInTime, Forward
  <1>4. CASE ClockWarps
    BY <1>4 DEF ClockWarps, TimeTypes, SaidInTime, Forward
  <1>5. CASE ServerRestarts
    BY <1>5 DEF ServerRestarts, TimeTypes, SaidInTime, Forward
  <1>6. CASE UNCHANGED timeVars
    BY <1>6 DEF timeVars, TimeTypes, SaidInTime, Forward
  <1> QED
    BY <1>1, <1>2, <1>3, <1>4, <1>5, <1>6 DEF TimeNext

\* For every interval, depth and time running: warnings are more than the interval apart and say
\* something between nothing and the time running until the clock is set back, and a question finds
\* nothing to say only for a time running of 0; what else ends one is the failing write of a new
\* start (timewarning.py:31, :35, :72, :85).
THEOREM WarningsAlwaysHold == TimeSpec => []WarningsHold
  <1>1. TimeInv => WarningsHold
    <2> SUFFICES ASSUME TimeInv PROVE WarningsHold
      OBVIOUS
    <2>1. DOMAIN left = 1 .. Len(left) /\ Len(warnings) \in Nat
      BY LenProperties DEF TimeInv, TimeTypes
    <2>2. warped \/ \A i \in 2 .. Len(warnings) : warnings[i] - warnings[i - 1] > Interval
      <3> SUFFICES ASSUME ~warped, NEW i \in 2 .. Len(warnings)
                   PROVE  warnings[i] - warnings[i - 1] > Interval
        OBVIOUS
      <3>1. i - 1 \in 1 .. Len(warnings) - 1 /\ (i - 1) + 1 = i
        BY <2>1
      <3> QED
        BY <3>1 DEF TimeInv, Forward
    <2> QED
      BY <2>1, <2>2 DEF WarningsHold, TimeInv, SaidInTime
  <1> QED
    BY TimeBegins, TimeStepKeeps, <1>1, PTL DEF TimeSpec

-----------------------------------------------------------------------------
(* rcon.py                                                                  *)

Lines == [of : Requests, more : BOOLEAN]

RconTypes ==
  /\ asked \in SUBSET Requests /\ lastevent \in Requests \cup {None}
  /\ sending \in [Threads -> Requests \cup {None}]
  /\ up \in Seq(Requests) /\ down \in Seq(Lines) /\ pending \in SUBSET asked

\* A pending request is the one noted last, or that one was asked while it was pending.
PendingCrossed == \A a \in pending : a = lastevent \/ <<a, lastevent>> \in crossed

\* What is under way is pending.
UnderWay ==
  /\ \A t \in Threads : sending[t] # None => sending[t] \in pending
  /\ \A i \in 1 .. Len(up) : up[i] \in pending
  /\ \A i \in 1 .. Len(down) : down[i].of \in pending

\* A request is under way in one place at a time, and its lines come in one piece.
Apart ==
  /\ \A t, u \in Threads : sending[t] # None /\ sending[t] = sending[u] => t = u
  /\ \A t \in Threads :
       /\ \A i \in 1 .. Len(up) : sending[t] # up[i]
       /\ \A i \in 1 .. Len(down) : sending[t] # down[i].of
  /\ \A i, j \in 1 .. Len(up) : up[i] = up[j] => i = j
  /\ \A i \in 1 .. Len(up), j \in 1 .. Len(down) : up[i] # down[j].of
  /\ \A i, j \in 1 .. Len(down) : i < j /\ down[i].of = down[j].of => down[i].more

RconInv == RconTypes /\ PendingCrossed /\ UnderWay /\ Apart /\ AnswerFindsAsker

-----------------------------------------------------------------------------
\* What the queues hold.
LEMMA OfRequests ==
  ASSUME RconTypes
  PROVE  /\ \A i \in 1 .. Len(up) : up[i] \in Requests
         /\ \A i \in 1 .. Len(down) : down[i].of \in Requests
  <1>1. \A i \in 1 .. Len(down) : down[i] \in Lines
    BY ElementOfSeq DEF RconTypes
  <1>2. \A line \in Lines : line.of \in Requests
    BY DEF Lines
  <1>3. \A i \in 1 .. Len(up) : up[i] \in Requests
    BY ElementOfSeq DEF RconTypes
  <1> QED
    BY <1>1, <1>2, <1>3

LEMMA RconStarts == RconInit => RconInv
  BY RconAssumption, EmptySeq
  DEF RconInit, RconInv, RconTypes, PendingCrossed, UnderWay, Apart, AnswerFindsAsker

\* A new request is in no place yet; whatever is pending crosses it.
LEMMA RconCommandKeeps ==
  ASSUME RconInv, NEW s \in Threads, NEW e \in Requests, RconCommand(s, e)
  PROVE  RconInv'
  <1> USE RconAssumption DEF RconInv
  <1>1. e \notin pending
    BY DEF RconCommand, RconTypes
  <1>2. RconTypes'
    BY DEF RconCommand, Note, RconTypes
  <1>3. PendingCrossed'
    BY DEF RconCommand, Note, PendingCrossed
  <1>4. UnderWay'
    BY DEF RconCommand, Note, RconTypes, UnderWay
  <1>5. Apart'
    <2>1. \A t \in Threads : sending'[t] = IF t = s THEN e ELSE sending[t]
      BY DEF RconCommand, RconTypes
    <2>2. /\ \A t \in Threads : sending[t] # e
          /\ \A i \in 1 .. Len(up) : up[i] # e
          /\ \A i \in 1 .. Len(down) : down[i].of # e
      BY <1>1 DEF UnderWay
    <2>3. up' = up /\ down' = down
      BY DEF RconCommand
    <2> QED
      BY <2>1, <2>2, <2>3 DEF Apart
  <1>6. AnswerFindsAsker'
    BY DEF RconCommand, Note, AnswerFindsAsker
  <1> QED
    BY <1>2, <1>3, <1>4, <1>5, <1>6

LEMMA SendRconKeeps ==
  ASSUME RconInv, NEW s \in Threads, SendRcon(s)
  PROVE  RconInv'
  <1> USE RconAssumption DEF RconInv
  <1> DEFINE e == sending[s]
  <1>1. e \in Requests
    BY DEF SendRcon, RconTypes
  <1>2. /\ up' \in Seq(Requests) /\ Len(up') = Len(up) + 1 /\ Len(up) \in Nat
        /\ \A i \in 1 .. Len(up) : up'[i] = up[i]
        /\ up'[Len(up) + 1] = e
    <2> HIDE DEF e
    <2> QED
      BY <1>1, AppendProperties, LenProperties DEF SendRcon, RconTypes, e
  <1>3. \A i \in 1 .. Len(up') : (i \in 1 .. Len(up) /\ up'[i] = up[i]) \/ (i = Len(up) + 1 /\ up'[i] = e)
    BY <1>2
  <1>4. \A t \in Threads : sending'[t] = IF t = s THEN None ELSE sending[t]
    BY DEF SendRcon, RconTypes
  <1>5. UNCHANGED <<asked, lastevent, down, pending, crossed, given>>
    BY DEF SendRcon
  <1>6. RconTypes'
    BY <1>2, <1>5 DEF SendRcon, RconTypes
  <1>7. PendingCrossed' /\ AnswerFindsAsker'
    BY <1>5 DEF PendingCrossed, AnswerFindsAsker
  <1>8. UnderWay'
    BY <1>1, <1>3, <1>4, <1>5 DEF UnderWay
  <1>9. Apart'
    <2>1. /\ \A i \in 1 .. Len(up) : up[i] # e
          /\ \A i \in 1 .. Len(down) : down[i].of # e
          /\ \A t \in Threads : t # s => sending[t] # e
      BY <1>1 DEF Apart
    <2>2. \A i \in 1 .. Len(up) : up[i] \in Requests
      BY OfRequests
    <2>3. \A i \in 1 .. Len(down) : down[i].of \in Requests
      BY OfRequests
    <2>4. \A t \in Threads :
            /\ \A i \in 1 .. Len(up') : sending'[t] # up'[i]
            /\ \A i \in 1 .. Len(down') : sending'[t] # down'[i].of
      BY <1>1, <1>3, <1>4, <1>5, <2>1, <2>2, <2>3 DEF Apart
    <2>5. \A i, j \in 1 .. Len(up') : up'[i] = up'[j] => i = j
      BY <1>3, <2>1 DEF Apart
    <2>6. \A i \in 1 .. Len(up'), j \in 1 .. Len(down') : up'[i] # down'[j].of
      BY <1>3, <1>5, <2>1 DEF Apart
    <2>7. \A t, u \in Threads : sending'[t] # None /\ sending'[t] = sending'[u] => t = u
      BY <1>4 DEF Apart
    <2>8. \A i, j \in 1 .. Len(down') : i < j /\ down'[i].of = down'[j].of => down'[i].more
      BY <1>5 DEF Apart
    <2> QED
      BY <2>4, <2>5, <2>6, <2>7, <2>8 DEF Apart
  <1> QED
    BY <1>6, <1>7, <1>8, <1>9

\* What the tail of a queue holds was in the queue, one place further on.
LEMMA TailHolds ==
  ASSUME NEW S, NEW q \in Seq(S), q # <<>>
  PROVE  /\ Tail(q) \in Seq(S) /\ q[1] \in S /\ Len(q) \in Nat /\ 1 \in 1 .. Len(q)
         /\ \A i \in 1 .. Len(Tail(q)) : i + 1 \in 1 .. Len(q) /\ i + 1 # 1 /\ Tail(q)[i] = q[i + 1]
  <1>1. /\ Tail(q) \in Seq(S) /\ Len(Tail(q)) = Len(q) - 1
        /\ \A i \in 1 .. Len(Tail(q)) : Tail(q)[i] = q[i + 1]
    BY HeadTailProperties
  <1>2. Len(q) \in Nat /\ Len(q) # 0
    BY EmptySeq
  <1>3. 1 \in 1 .. Len(q)
    BY <1>2
  <1>4. q[1] \in S
    BY <1>3, LenProperties
  <1>5. \A i \in 1 .. Len(Tail(q)) : i + 1 \in 1 .. Len(q) /\ i + 1 # 1
    BY <1>1, <1>2
  <1> QED
    BY <1>1, <1>2, <1>3, <1>4, <1>5

\* The lines of an answer replace the request at the head of the queue: they are the only ones of it.
LEMMA AnswerKeeps ==
  ASSUME RconInv, Answer
  PROVE  RconInv'
  <1> USE RconAssumption DEF RconInv
  <1> DEFINE e == up[1]
  <1>1. PICK n \in 0 .. MaxLines :
          /\ down' = down \o [i \in 1 .. n |-> [of |-> e, more |-> i < n]]
          /\ pending' = IF n = 0 THEN pending \ {e} ELSE pending
    BY DEF Answer
  <1> DEFINE F == [i \in 1 .. n |-> [of |-> e, more |-> i < n]]
  <1>2. /\ up' \in Seq(Requests) /\ e \in Requests /\ 1 \in 1 .. Len(up) /\ Len(up) \in Nat
        /\ \A i \in 1 .. Len(up') : i + 1 \in 1 .. Len(up) /\ i + 1 # 1 /\ up'[i] = up[i + 1]
    <2>1. up \in Seq(Requests) /\ up # <<>> /\ up' = Tail(up)
      BY DEF Answer, RconTypes
    <2> QED
      BY <2>1, TailHolds
  <1>3. n \in Nat /\ F \in Seq(Lines) /\ Len(F) = n
        /\ \A i \in 1 .. n : F[i].of = e /\ F[i].more = (i < n)
    <2>1. n \in Nat
      OBVIOUS
    <2>2. \A i \in 1 .. n : F[i] \in Lines
      BY <1>2 DEF Lines
    <2>3. F \in Seq(Lines)
      <3>1. F \in [1 .. n -> Lines]
        BY <2>2
      <3> QED
        BY <2>1, <3>1, SeqDef
    <2>4. Len(F) = n
      BY <2>1, <2>3, LenProperties
    <2> QED
      BY <2>1, <2>3, <2>4
  <1>4. /\ down' \in Seq(Lines) /\ Len(down') = Len(down) + n /\ Len(down) \in Nat
        /\ \A i \in 1 .. Len(down) : down'[i] = down[i]
        /\ \A i \in Len(down) + 1 .. Len(down) + n : down'[i].of = e /\ down'[i].more = (i - Len(down) < n)
    <2> HIDE DEF F
    <2>1. down \in Seq(Lines) /\ down' = down \o F
      BY <1>1 DEF RconTypes, F
    <2>2. Len(down) \in Nat
      BY <2>1, LenProperties
    <2>3. /\ Len(down') = Len(down) + n /\ down' \in Seq(Lines)
          /\ \A i \in 1 .. Len(down) + n :
               down'[i] = IF i <= Len(down) THEN down[i] ELSE F[i - Len(down)]
      BY <1>3, <2>1, ConcatProperties
    <2>4. \A i \in Len(down) + 1 .. Len(down) + n : i - Len(down) \in 1 .. n /\ down'[i] = F[i - Len(down)]
      BY <1>3, <2>2, <2>3
    <2> QED
      BY <1>3, <2>2, <2>3, <2>4
  <1>5. \A i \in 1 .. Len(down') :
          \/ i \in 1 .. Len(down) /\ down'[i] = down[i]
          \/ /\ i \in Len(down) + 1 .. Len(down) + n /\ n # 0
             /\ down'[i].of = e /\ (i < Len(down') => down'[i].more)
    <2> HIDE DEF e, F
    <2>1. \A i \in 1 .. Len(down') : i \in 1 .. Len(down) \/ (i \in Len(down) + 1 .. Len(down) + n /\ n # 0)
      BY <1>3, <1>4
    <2>2. \A i \in Len(down) + 1 .. Len(down) + n : i < Len(down') => i - Len(down) < n
      BY <1>3, <1>4
    <2>3. \A i \in Len(down) + 1 .. Len(down) + n : i < Len(down') => down'[i].more
      BY <1>4, <2>2
    <2> QED
      BY <1>4, <2>1, <2>3
  <1>6. UNCHANGED <<asked, lastevent, sending, crossed, given>>
    BY DEF Answer
  <1>7. /\ \A i \in 1 .. Len(up) : up[i] = e => i = 1
        /\ \A i \in 1 .. Len(down) : down[i].of # e
        /\ \A t \in Threads : sending[t] # e
    BY <1>2 DEF Apart
  <1> HIDE DEF e, F
  <1>8. RconTypes'
    BY <1>1, <1>2, <1>4, <1>6 DEF RconTypes
  <1>9. PendingCrossed' /\ AnswerFindsAsker'
    BY <1>1, <1>6 DEF PendingCrossed, AnswerFindsAsker
  <1>10. UnderWay'
    <2>1. e \in pending
      BY <1>2 DEF UnderWay, e
    <2>2. \A t \in Threads : sending'[t] # None => sending'[t] \in pending'
      BY <1>1, <1>6, <1>7 DEF UnderWay
    <2>3. \A i \in 1 .. Len(up') : up'[i] \in pending'
      BY <1>1, <1>2, <1>7 DEF UnderWay
    <2>4. \A i \in 1 .. Len(down') : down'[i].of \in pending'
      BY <1>1, <1>5, <1>7, <2>1 DEF UnderWay
    <2> QED
      BY <2>2, <2>3, <2>4 DEF UnderWay
  <1>11. Apart'
    <2>1. ASSUME NEW t \in Threads
          PROVE  /\ \A i \in 1 .. Len(up') : sending'[t] # up'[i]
                 /\ \A i \in 1 .. Len(down') : sending'[t] # down'[i].of
      <3>1. \A i \in 1 .. Len(up') : sending'[t] # up'[i]
        BY <1>2, <1>6 DEF Apart
      <3>2. ASSUME NEW i \in 1 .. Len(down')
            PROVE  sending'[t] # down'[i].of
        BY <1>5, <1>6, <1>7, <3>2 DEF Apart
      <3> QED
        BY <3>1, <3>2
    <2>2. \A i, j \in 1 .. Len(up') : up'[i] = up'[j] => i = j
      <3> SUFFICES ASSUME NEW i \in 1 .. Len(up'), NEW j \in 1 .. Len(up'), up'[i] = up'[j]
                   PROVE  i = j
        OBVIOUS
      <3>1. i + 1 = j + 1
        BY <1>2 DEF Apart
      <3> QED
        BY <3>1
    <2>3. \A i \in 1 .. Len(up'), j \in 1 .. Len(down') : up'[i] # down'[j].of
      BY <1>2, <1>5, <1>7 DEF Apart
    <2>4. \A t, u \in Threads : sending'[t] # None /\ sending'[t] = sending'[u] => t = u
      BY <1>6 DEF Apart
    <2>5. \A i, j \in 1 .. Len(down') : i < j /\ down'[i].of = down'[j].of => down'[i].more
      <3> SUFFICES ASSUME NEW i \in 1 .. Len(down'), NEW j \in 1 .. Len(down'),
                          i < j, down'[i].of = down'[j].of
                   PROVE  down'[i].more
        OBVIOUS
      <3>1. i < Len(down')
        BY <1>3, <1>4
      <3>2. CASE j \in 1 .. Len(down)
        <4>1. i \in 1 .. Len(down)
          BY <1>4, <3>2
        <4> QED
          BY <1>4, <3>2, <4>1 DEF Apart
      <3>3. CASE j \notin 1 .. Len(down)
        BY <1>5, <1>7, <3>1, <3>3
      <3> QED
        BY <3>2, <3>3
    <2> QED
      BY <2>1, <2>2, <2>3, <2>4, <2>5 DEF Apart
  <1> QED
    BY <1>8, <1>9, <1>10, <1>11

\* A line goes to the event noted last, which is the asker or crossed it; the request leaves
\* `pending' with its last line, when nothing of it is under way any more.
LEMMA OnPacketKeeps ==
  ASSUME RconInv, OnPacket
  PROVE  RconInv'
  <1> USE RconAssumption DEF RconInv
  <1> DEFINE h == down[1]
  <1>1. /\ down' \in Seq(Lines) /\ h \in Lines /\ 1 \in 1 .. Len(down)
        /\ \A i \in 1 .. Len(down') : i + 1 \in 1 .. Len(down) /\ i + 1 # 1 /\ down'[i] = down[i + 1]
    <2>1. down \in Seq(Lines) /\ down # <<>> /\ down' = Tail(down)
      BY DEF OnPacket, RconTypes
    <2> QED
      BY <2>1, TailHolds
  <1>2. /\ given' = IF lastevent = None THEN given ELSE given \cup {<<h.of, lastevent>>}
        /\ pending' = IF h.more THEN pending ELSE pending \ {h.of}
        /\ UNCHANGED <<asked, lastevent, sending, up, losses, crossed>>
    BY DEF OnPacket
  <1>3. h.of \in pending /\ h.of \in Requests /\ h.more \in BOOLEAN
    BY <1>1 DEF UnderWay, Lines
  <1>4. /\ \A t \in Threads : sending[t] # h.of
        /\ \A i \in 1 .. Len(up) : up[i] # h.of
        /\ ~h.more => \A i \in 1 .. Len(down') : down'[i].of # h.of
    <2>1. ASSUME NEW i \in 1 .. Len(down'), down'[i].of = h.of
          PROVE  h.more
      <3>1. 1 < i + 1 /\ i + 1 \in 1 .. Len(down) /\ down[i + 1].of = down[1].of
        BY <1>1, <2>1
      <3> QED
        BY <1>1, <3>1 DEF Apart
    <2> QED
      BY <1>1, <2>1 DEF Apart
  <1> HIDE DEF h
  <1>5. RconTypes'
    BY <1>1, <1>2, <1>3 DEF RconTypes
  <1>6. PendingCrossed'
    BY <1>2 DEF PendingCrossed
  <1>7. UnderWay'
    <2>1. \A i \in 1 .. Len(down') : down'[i].of \in pending
      BY <1>1 DEF UnderWay
    <2> QED
      BY <1>2, <1>4, <2>1 DEF UnderWay
  <1>8. Apart'
    <2>1. \A i, j \in 1 .. Len(down') : i < j /\ down'[i].of = down'[j].of => down'[i].more
      <3> SUFFICES ASSUME NEW i \in 1 .. Len(down'), NEW j \in 1 .. Len(down'),
                          i < j, down'[i].of = down'[j].of
                   PROVE  down'[i].more
        OBVIOUS
      <3>1. i + 1 < j + 1 /\ down[i + 1].of = down[j + 1].of
        BY <1>1
      <3> QED
        BY <1>1, <3>1 DEF Apart
    <2>2. \A t \in Threads, i \in 1 .. Len(down') : sending[t] # down'[i].of
      BY <1>1 DEF Apart
    <2>3. \A i \in 1 .. Len(up), j \in 1 .. Len(down') : up[i] # down'[j].of
      BY <1>1 DEF Apart
    <2> QED
      BY <1>2, <2>1, <2>2, <2>3 DEF Apart
  <1>9. AnswerFindsAsker'
    <2>1. h.of = lastevent \/ <<h.of, lastevent>> \in crossed
      BY <1>3 DEF PendingCrossed
    <2>2. \A pair \in given' : pair \in given \/ pair = <<h.of, lastevent>>
      BY <1>2
    <2> QED
      BY <1>2, <2>1, <2>2 DEF AnswerFindsAsker
  <1> QED
    BY <1>5, <1>6, <1>7, <1>8, <1>9

LEMMA LoseSessionKeeps ==
  ASSUME RconInv, LoseSession
  PROVE  RconInv'
  <1> USE RconAssumption DEF RconInv
  <1>1. /\ up' = <<>> /\ down' = <<>> /\ UNCHANGED <<asked, lastevent, sending, crossed, given>>
        /\ pending' = {e \in pending : \E t \in Threads : sending[t] = e}
    BY DEF LoseSession
  <1>2. Len(up') = 0 /\ Len(down') = 0 /\ up' \in Seq(Requests) /\ down' \in Seq(Lines)
    BY <1>1, EmptySeq
  <1>3. RconTypes'
    BY <1>1, <1>2 DEF RconTypes
  <1>4. PendingCrossed' /\ AnswerFindsAsker'
    BY <1>1 DEF PendingCrossed, AnswerFindsAsker
  <1>5. UnderWay' /\ Apart'
    BY <1>1, <1>2 DEF UnderWay, Apart
  <1> QED
    BY <1>3, <1>4, <1>5

LEMMA SendFailsKeeps ==
  ASSUME RconInv, NEW s \in Threads, SendFails(s)
  PROVE  RconInv'
  <1> USE RconAssumption DEF RconInv
  <1>1. \A t \in Threads : sending'[t] = IF t = s THEN None ELSE sending[t]
    BY DEF SendFails, RconTypes
  <1>2. sending[s] # None /\ pending' = pending \ {sending[s]}
        /\ UNCHANGED <<asked, lastevent, up, down, crossed, given>>
    BY DEF SendFails
  <1>3. RconTypes'
    BY <1>2 DEF SendFails, RconTypes
  <1>4. PendingCrossed' /\ AnswerFindsAsker'
    BY <1>2 DEF PendingCrossed, AnswerFindsAsker
  <1>5. UnderWay'
    BY <1>1, <1>2 DEF UnderWay, Apart
  <1>6. Apart'
    <2>1. /\ \A i \in 1 .. Len(up) : up[i] # None
          /\ \A i \in 1 .. Len(down) : down[i].of # None
      BY OfRequests
    <2>2. \A t, u \in Threads : sending'[t] # None /\ sending'[t] = sending'[u] => t = u
      BY <1>1 DEF Apart
    <2>3. \A t \in Threads :
            /\ \A i \in 1 .. Len(up) : sending'[t] # up[i]
            /\ \A i \in 1 .. Len(down) : sending'[t] # down[i].of
      BY <1>1, <2>1 DEF Apart
    <2> QED
      BY <1>2, <2>2, <2>3 DEF Apart
  <1> QED
    BY <1>3, <1>4, <1>5, <1>6

LEMMA RconStepKeeps == RconInv /\ [RconNext]_rconVars => RconInv'
  <1> SUFFICES ASSUME RconInv, [RconNext]_rconVars
               PROVE  RconInv'
    OBVIOUS
  <1>1. ASSUME NEW t \in Threads, \E e \in Requests : RconCommand(t, e)
        PROVE  RconInv'
    BY <1>1, RconCommandKeeps
  <1>2. ASSUME NEW t \in Threads, SendRcon(t)
        PROVE  RconInv'
    BY <1>2, SendRconKeeps
  <1>3. ASSUME NEW t \in Threads, SendFails(t)
        PROVE  RconInv'
    BY <1>3, SendFailsKeeps
  <1>4. CASE Answer
    BY <1>4, AnswerKeeps
  <1>5. CASE OnPacket
    BY <1>5, OnPacketKeeps
  <1>6. CASE LoseSession
    BY <1>6, LoseSessionKeeps
  <1>7. CASE UNCHANGED rconVars
    BY <1>7 DEF rconVars, RconInv, RconTypes, PendingCrossed, UnderWay, Apart, AnswerFindsAsker
  <1> QED
    BY <1>1, <1>2, <1>3, <1>4, <1>5, <1>6, <1>7 DEF RconNext

\* The lines of an answer (rcon.py:30-33) go to the one who asked, or to one who asked while that
\* request was pending.
THEOREM AnswersFindAskers == RconSpec => []AnswerFindsAsker
  <1>1. RconInv => AnswerFindsAsker
    BY DEF RconInv
  <1> QED
    BY RconStarts, RconStepKeeps, <1>1, PTL DEF RconSpec

-----------------------------------------------------------------------------
(* webserver.py: the server                                                 *)

WebTypes ==
  /\ webserverthread \in 0 .. made /\ made \in 0 .. MaxServers
  /\ state \in [Servers -> {"bound", "starting", "serving", "down", "ended"}]
  /\ request \in [Servers -> BOOLEAN] /\ handlers \in [Servers -> Nat]
  /\ web \in [Callers -> {"idle", "create", "start", "stop", "wait", "clear"}]
  /\ stopping \in [Callers -> 0 .. made] /\ overlapped \in BOOLEAN

\* A server is in the attribute and not started only while a command is about to start it.
StarterBehind ==
  webserverthread # NoServer /\ state[webserverthread] = "bound" => \E u \in Callers : web[u] = "start"

NotMadeYet == \A s \in Servers : s > made => state[s] = "bound"

\* Whoever waits for a server that is not started has kept it in the attribute.
WaitsForKnown ==
  \A t \in Callers : web[t] = "wait" =>
    /\ stopping[t] # NoServer
    /\ state[stopping[t]] = "bound" => webserverthread = stopping[t]

ServesKnown ==
  overlapped \/ \A s \in Servers : state[s] \in {"starting", "serving"} => webserverthread = s

\* One stop command at a time has the attribute to itself until it clears it.
StopsAlone ==
  overlapped \/
    /\ \A t, u \in Callers : InStop(t) /\ InStop(u) => t = u
    /\ \A t \in Callers :
         /\ InStop(t) => webserverthread # NoServer
         /\ web[t] = "wait" => stopping[t] = webserverthread
         /\ web[t] = "clear" => state[webserverthread] \in {"down", "ended"}

\* A server is only made when no other runs, and only the one in the attribute is started.
OneRuns ==
  /\ \A s, u \in Servers : Running(s) /\ Running(u) => s = u
  /\ webserverthread # NoServer /\ state[webserverthread] = "bound" => \A s \in Servers : ~Running(s)

WebBase ==
  /\ WebTypes /\ StarterBehind /\ NotMadeYet /\ WaitsForKnown /\ ServesKnown /\ StopsAlone

WebInv == WebBase /\ OneRuns

-----------------------------------------------------------------------------

LEMMA WebBegins == WebInit => WebInv
  <1> SUFFICES ASSUME WebInit PROVE WebInv  OBVIOUS
  <1>1. WebTypes
    <2>1. made = 0 /\ 0 \in 0 .. MaxServers /\ 0 \in 0 .. made
      BY WebBoundsAssumption DEF WebInit
    <2>2. stopping \in [Callers -> 0 .. made]  BY <2>1 DEF WebInit, NoServer
    <2>3. /\ state \in [Servers -> {"bound", "starting", "serving", "down", "ended"}]
          /\ request \in [Servers -> BOOLEAN] /\ handlers \in [Servers -> Nat]
          /\ web \in [Callers -> {"idle", "create", "start", "stop", "wait", "clear"}]
      BY DEF WebInit
    <2>4. webserverthread \in 0 .. made /\ made \in 0 .. MaxServers /\ overlapped \in BOOLEAN
      BY <2>1 DEF WebInit, NoServer
    <2>5. QED  BY <2>2, <2>3, <2>4 DEF WebTypes
  <1>2. StarterBehind /\ NotMadeYet /\ ServesKnown
    BY DEF WebInit, StarterBehind, NotMadeYet, ServesKnown
  <1>3. WaitsForKnown /\ StopsAlone  BY DEF WebInit, WaitsForKnown, StopsAlone, InStop
  <1>4. OneRuns  BY DEF WebInit, OneRuns, Running
  <1>5. QED  BY <1>1, <1>2, <1>3, <1>4 DEF WebInv, WebBase

\* While there is a server in the attribute or one that runs, the port is taken.
LEMMA PortTaken ==
  ASSUME WebTypes, NotMadeYet, ~PortBusy
  PROVE  webserverthread = NoServer /\ \A s \in Servers : ~Running(s)
  <1>1. \A s \in 1 .. made : ~Referenced(s)  BY DEF PortBusy
  <1>2. webserverthread = NoServer
    <2>1. webserverthread \notin 1 .. made  BY <1>1 DEF Referenced
    <2>2. QED  BY <2>1, WebBoundsAssumption DEF WebTypes, NoServer
  <1>3. ASSUME NEW s \in Servers PROVE ~Running(s)
    <2>1. CASE s \in 1 .. made  BY <1>1, <2>1 DEF Referenced
    <2>2. CASE s > made  BY <2>2 DEF NotMadeYet, Running
    <2>3. QED  BY <2>1, <2>2, WebBoundsAssumption DEF WebTypes, Servers
  <1>4. QED  BY <1>2, <1>3

\* What a command does.
LEMMA WebCommandKeeps ==
  ASSUME WebBase, NEW t \in Callers,
         StartTests(t) \/ Create(t) \/ StartThread(t) \/ StopTests(t) \/ CallStop(t)
           \/ StopReturns(t) \/ Clear(t)
  PROVE  WebBase'
  <1> USE WebBoundsAssumption DEF WebBase, Servers, NoServer, Go
  <1>0. \A s \in 1 .. made : s \in Servers  BY DEF WebTypes
  <1>1. CASE StartTests(t)
    BY <1>1 DEF StartTests, WebTypes, StarterBehind, NotMadeYet, WaitsForKnown, ServesKnown, StopsAlone, InStop
  <1>2. CASE Create(t)
    <2>1. CASE PortBusy /\ Go(t, "idle") /\ UNCHANGED <<webserverthread, made>>
      BY <1>2, <2>1 DEF Create, WebTypes, StarterBehind, NotMadeYet,
         WaitsForKnown, ServesKnown, StopsAlone, InStop
    <2>2. CASE ~PortBusy /\ made < MaxServers /\ made' = made + 1 /\ webserverthread' = made' /\ Go(t, "start")
      <3>1. webserverthread = NoServer /\ \A s \in Servers : ~Running(s)  BY <2>2, PortTaken
      <3>2. WebTypes'  BY <1>2, <2>2 DEF Create, WebTypes
      <3>3. StarterBehind'  BY <1>2, <2>2 DEF Create, StarterBehind, WebTypes
      <3>4. NotMadeYet'  BY <1>2, <2>2 DEF Create, NotMadeYet, WebTypes
      <3>5. WaitsForKnown'  BY <1>2, <2>2, <3>1 DEF Create, WaitsForKnown, WebTypes
      <3>6. ServesKnown'  BY <1>2, <2>2, <3>1 DEF Create, ServesKnown, Running
      <3>7. StopsAlone'  BY <1>2, <2>2, <3>1 DEF Create, StopsAlone, InStop, WebTypes
      <3>8. QED  BY <3>2, <3>3, <3>4, <3>5, <3>6, <3>7
    <2>3. QED  BY <1>2, <2>1, <2>2 DEF Create
  <1>3. CASE StartThread(t)
    <2>1. WebTypes'  BY <1>3 DEF StartThread, WebTypes
    <2>2. StarterBehind'  BY <1>3 DEF StartThread, WebTypes, StarterBehind
    <2>3. NotMadeYet'  BY <1>3 DEF StartThread, WebTypes, NotMadeYet
    <2>4. WaitsForKnown'  BY <1>3 DEF StartThread, WebTypes, WaitsForKnown
    <2>5. ServesKnown'  BY <1>3 DEF StartThread, WebTypes, ServesKnown
    <2>6. StopsAlone'  BY <1>3 DEF StartThread, WebTypes, StopsAlone, InStop
    <2>7. QED  BY <2>1, <2>2, <2>3, <2>4, <2>5, <2>6
  <1>4. CASE StopTests(t)
    <2>1. WebTypes' /\ StarterBehind' /\ NotMadeYet' /\ WaitsForKnown' /\ ServesKnown'
      BY <1>4 DEF StopTests, WebTypes, StarterBehind, NotMadeYet, WaitsForKnown, ServesKnown
    <2>2. StopsAlone'  BY <1>4 DEF StopTests, WebTypes, StopsAlone, InStop
    <2>3. QED  BY <2>1, <2>2
  <1>5. CASE CallStop(t)
    <2>1. WebTypes'  BY <1>5 DEF CallStop, WebTypes
    <2>2. StarterBehind' /\ NotMadeYet' /\ ServesKnown'
      BY <1>5 DEF CallStop, WebTypes, StarterBehind, NotMadeYet, ServesKnown
    <2>3. WaitsForKnown'  BY <1>5 DEF CallStop, WebTypes, WaitsForKnown
    <2>4. StopsAlone'  BY <1>5 DEF CallStop, WebTypes, StopsAlone, InStop
    <2>5. QED  BY <2>1, <2>2, <2>3, <2>4
  <1>6. CASE StopReturns(t)
    <2>1. WebTypes' /\ StarterBehind' /\ NotMadeYet' /\ ServesKnown'
      BY <1>6 DEF StopReturns, WebTypes, StarterBehind, NotMadeYet, ServesKnown
    <2>2. WaitsForKnown'  BY <1>6 DEF StopReturns, WebTypes, WaitsForKnown
    <2>3. StopsAlone'  BY <1>6 DEF StopReturns, WebTypes, StopsAlone, InStop
    <2>4. QED  BY <2>1, <2>2, <2>3
  \* The other thread cannot both wait for a server and be about to start it.
  <1>7. CASE Clear(t)
    <2>1. WebTypes' /\ StarterBehind' /\ NotMadeYet'
      BY <1>7 DEF Clear, WebTypes, StarterBehind, NotMadeYet
    <2>2. WaitsForKnown'
      <3>1. SUFFICES ASSUME NEW u \in Callers, web'[u] = "wait"
                     PROVE  /\ stopping'[u] # NoServer
                            /\ state'[stopping'[u]] = "bound" => webserverthread' = stopping'[u]
        BY DEF WaitsForKnown
      <3>2. u # t /\ web[u] = "wait" /\ web[t] = "clear"  BY <1>7, <3>1 DEF Clear, WebTypes
      <3>3. stopping[u] # NoServer /\ state[stopping[u]] # "bound"
        <4>1. SUFFICES ASSUME state[stopping[u]] = "bound" PROVE FALSE
          BY <3>2 DEF WaitsForKnown
        <4>2. webserverthread # NoServer /\ state[webserverthread] = "bound"
          BY <3>2, <4>1 DEF WaitsForKnown
        <4>3. PICK v \in Callers : web[v] = "start"  BY <4>2 DEF StarterBehind
        <4>4. v # u /\ v # t  BY <3>2, <4>3
        <4>5. PICK a \in Callers, b \in Callers : Callers = {a, b}  BY CallersAssumption
        <4>6. QED  BY <3>2, <4>3, <4>4, <4>5
      <3>4. QED  BY <1>7, <3>3 DEF Clear
    <2>3. ServesKnown'  BY <1>7 DEF Clear, WebTypes, ServesKnown, StopsAlone, InStop
    <2>4. StopsAlone'  BY <1>7 DEF Clear, WebTypes, StopsAlone, InStop
    <2>5. QED  BY <2>1, <2>2, <2>3, <2>4
  <1>8. QED  BY <1>1, <1>2, <1>3, <1>4, <1>5, <1>6, <1>7

\* What a server's threads do.
LEMMA ServerKeeps ==
  ASSUME WebBase, NEW s \in 1 .. made, Run(s) \/ Handle(s)
  PROVE  WebBase'
  <1> USE WebBoundsAssumption DEF WebBase, Servers, NoServer
  <1>0. s \in Servers  BY DEF WebTypes
  <1>1. CASE Run(s)
    <2>1. WebTypes'  BY <1>0, <1>1 DEF Run, WebTypes
    <2>2. StarterBehind'  BY <1>0, <1>1 DEF Run, WebTypes, StarterBehind
    <2>3. NotMadeYet'  BY <1>0, <1>1 DEF Run, WebTypes, NotMadeYet
    <2>4. WaitsForKnown'  BY <1>0, <1>1 DEF Run, WebTypes, WaitsForKnown
    <2>5. ServesKnown'  BY <1>0, <1>1 DEF Run, WebTypes, ServesKnown
    <2>6. StopsAlone'  BY <1>0, <1>1 DEF Run, WebTypes, StopsAlone, InStop
    <2>7. QED  BY <2>1, <2>2, <2>3, <2>4, <2>5, <2>6
  <1>2. CASE Handle(s)
    <2>1. WebTypes'
      <3>1. handlers' \in [Servers -> Nat]  BY <1>0, <1>2 DEF Handle, WebTypes
      <3>2. QED  BY <1>2, <3>1 DEF Handle, WebTypes
    <2>2. StarterBehind' /\ NotMadeYet' /\ WaitsForKnown' /\ ServesKnown'
      BY <1>2 DEF Handle, StarterBehind, NotMadeYet, WaitsForKnown, ServesKnown
    <2>3. StopsAlone'  BY <1>2 DEF Handle, StopsAlone, InStop
    <2>4. QED  BY <2>1, <2>2, <2>3
  <1>3. QED  BY <1>1, <1>2

\* A server is started from the attribute, and made when none runs.
LEMMA OneRunsKeeps ==
  ASSUME WebInv, [WebNext]_webVars
  PROVE  OneRuns'
  <1> USE WebBoundsAssumption DEF WebInv, WebBase, Servers, NoServer, Running
  <1>1. ASSUME NEW t \in Callers, Create(t) PROVE OneRuns'
    <2>1. CASE ~PortBusy /\ made' = made + 1 /\ webserverthread' = made'
      <3>1. \A s \in Servers : ~Running(s)  BY <2>1, PortTaken
      <3>2. QED  BY <1>1, <3>1 DEF Create, OneRuns
    <2>2. CASE UNCHANGED webserverthread  BY <1>1, <2>2 DEF Create, OneRuns
    <2>3. QED  BY <1>1, <2>1, <2>2 DEF Create
  <1>2. ASSUME NEW t \in Callers, StartThread(t) PROVE OneRuns'
    <2>1. CASE webserverthread # 0 /\ state[webserverthread] = "bound"
      <3>1. \A s \in Servers : ~Running(s)  BY <2>1 DEF OneRuns
      <3>2. state' = [state EXCEPT ![webserverthread] = "starting"] /\ UNCHANGED webserverthread
        BY <1>2, <2>1 DEF StartThread
      <3>3. webserverthread \in Servers  BY <2>1 DEF WebTypes
      <3>4. \A s \in Servers : s # webserverthread => state'[s] = state[s]
        BY <3>2 DEF WebTypes
      <3>5. state'[webserverthread] = "starting"  BY <3>2, <3>3 DEF WebTypes
      <3>6. QED  BY <3>1, <3>2, <3>4, <3>5 DEF OneRuns
    <2>2. CASE UNCHANGED state  BY <1>2, <2>2 DEF StartThread, OneRuns
    <2>3. QED  BY <1>2, <2>1, <2>2 DEF StartThread
  <1>3. ASSUME NEW t \in Callers, StartTests(t) \/ StopTests(t) \/ CallStop(t) \/ StopReturns(t) \/ Clear(t)
        PROVE  OneRuns'
    BY <1>3 DEF StartTests, StopTests, CallStop, StopReturns, Clear, OneRuns
  <1>4. ASSUME NEW r \in 1 .. made, Run(r) PROVE OneRuns'
    <2>1. r \in Servers /\ Running(r) /\ UNCHANGED webserverthread
      BY <1>4 DEF Run, WebTypes
    <2>2. \A s \in Servers : s # r => state'[s] = state[s]
      BY <1>4 DEF Run, WebTypes
    <2>3. state'[r] # "bound"  BY <1>4, <2>1 DEF Run, WebTypes
    <2>4. \A s \in Servers : Running(s)' => Running(s)
      BY <2>1, <2>2
    <2>5. webserverthread # 0 => webserverthread \in Servers  BY DEF WebTypes
    <2>6. QED  BY <2>1, <2>2, <2>3, <2>4, <2>5 DEF OneRuns
  <1>5. ASSUME NEW r \in 1 .. made, Handle(r) PROVE OneRuns'
    BY <1>5 DEF Handle, OneRuns
  <1>6. CASE UNCHANGED webVars  BY <1>6 DEF webVars, OneRuns
  <1>7. QED  BY <1>1, <1>2, <1>3, <1>4, <1>5, <1>6 DEF WebNext

LEMMA WebStepKeeps == WebInv /\ [WebNext]_webVars => WebInv'
  <1> SUFFICES ASSUME WebInv, [WebNext]_webVars PROVE WebInv'  OBVIOUS
  <1>1. CASE WebNext  BY <1>1, WebCommandKeeps, ServerKeeps, OneRunsKeeps DEF WebNext, WebInv
  <1>2. CASE UNCHANGED webVars
    <2>1. WebBase'
      BY <1>2 DEF webVars, WebInv, WebBase, WebTypes, StarterBehind, NotMadeYet, WaitsForKnown, ServesKnown,
                  StopsAlone, InStop
    <2>2. QED  BY <2>1, OneRunsKeeps DEF WebInv
  <1>3. QED  BY <1>1, <1>2

\* Until two stop commands have overlapped, a server that serves is the one the plugin knows.
\* However starts, stops and requests of two threads interleave, overlapping stops included, no two
\* servers run at once, and no stop command waits for a server that nobody is about to start
\* (webserver.py:305, :306).
THEOREM ServerIsKnown == WebSpec => []ServerKnown
  <1>1. WebInv => ServerKnown
    <2> SUFFICES ASSUME WebInv PROVE ServerKnown  OBVIOUS
    <2>1. \A s \in 1 .. made : s \in Servers
      BY WebBoundsAssumption DEF WebInv, WebBase, WebTypes, Servers
    <2>2. QED  BY <2>1 DEF WebInv, WebBase, ServesKnown, WaitsForKnown, StarterBehind, OneRuns, ServerKnown
  <1>2. QED  BY <1>1, WebBegins, WebStepKeeps, PTL DEF WebSpec

-----------------------------------------------------------------------------
(* Sequences without repetition                                            *)

Distinct(s) == \A i, j \in 1 .. Len(s) : s[i] = s[j] => i = j

\* What taking out the one occurrence of an element leaves.
LEMMA RemoveOnce ==
  ASSUME NEW S, NEW s \in Seq(S), NEW k \in 1 .. Len(s), \A i \in 1 .. Len(s) : s[i] = s[k] => i = k
  PROVE  LET r == RemoveFirst(s, s[k]) IN
         /\ r \in Seq(S) /\ Len(r) = Len(s) - 1
         /\ \A i \in 1 .. Len(r) : r[i] = IF i < k THEN s[i] ELSE s[i + 1]
  <1> DEFINE I == {i \in 1 .. Len(s) : s[i] = s[k]}
             r == RemoveFirst(s, s[k])
             before == SubSeq(s, 1, k - 1)
             behind == SubSeq(s, k + 1, Len(s))
  <1>1. Len(s) \in Nat /\ k \in Nat /\ k >= 1 /\ k <= Len(s)
    BY LenProperties
  <1>2. I = {k} /\ Min(I) = k
    <2>1. I = {k}
      OBVIOUS
    <2>2. \A x : (x \in I /\ \A y \in I : x =< y) <=> x = k
      BY <1>1, <2>1
    <2> QED
      BY <2>1, <2>2 DEF Min
  <1>3. r = before \o behind
    <2>1. r = RemoveAt(s, IF I # {} THEN Min(I) ELSE 0)
      BY DEF RemoveFirst, SelectInSeq
    <2> QED
      BY <1>2, <2>1 DEF RemoveAt
  <1>4. before \in Seq(S) /\ Len(before) = k - 1 /\ \A i \in 1 .. k - 1 : before[i] = s[i]
    <2>1. \A i \in 1 .. k - 1 : s[i] \in S
      BY <1>1, ElementOfSeq
    <2> QED
      BY <1>1, <2>1, SubSeqProperties
  <1>5. behind \in Seq(S) /\ Len(behind) = Len(s) - k /\ \A i \in 1 .. Len(s) - k : behind[i] = s[k + i]
    <2>1. \A i \in k + 1 .. Len(s) : s[i] \in S
      BY <1>1, ElementOfSeq
    <2> QED
      BY <1>1, <2>1, SubSeqProperties
  <1> HIDE DEF before, behind
  <1>6. /\ before \o behind \in Seq(S) /\ Len(before \o behind) = Len(s) - 1
        /\ \A i \in 1 .. Len(s) - 1 :
              (before \o behind)[i] = IF i <= k - 1 THEN before[i] ELSE behind[i - (k - 1)]
    <2>1. /\ before \o behind \in Seq(S) /\ Len(before \o behind) = Len(before) + Len(behind)
          /\ \A i \in 1 .. Len(before) + Len(behind) :
               (before \o behind)[i] = IF i <= Len(before) THEN before[i] ELSE behind[i - Len(before)]
      BY <1>4, <1>5, ConcatProperties
    <2>2. Len(before) = k - 1 /\ Len(before) + Len(behind) = Len(s) - 1
      BY <1>1, <1>4, <1>5
    <2> QED
      BY <2>1, <2>2
  <1>7. ASSUME NEW i \in 1 .. Len(s) - 1
        PROVE  (before \o behind)[i] = IF i < k THEN s[i] ELSE s[i + 1]
    <2>1. CASE i < k
      BY <1>1, <1>4, <1>6, <2>1
    <2>2. CASE ~(i < k)
      <3>1. (before \o behind)[i] = behind[i - (k - 1)] /\ i - (k - 1) \in 1 .. Len(s) - k
        <4>1. i \in Nat /\ ~(i <= k - 1) /\ i - (k - 1) \in 1 .. Len(s) - k
          BY <1>1, <2>2
        <4> QED
          BY <1>6, <4>1
      <3>2. behind[i - (k - 1)] = s[k + (i - (k - 1))] /\ k + (i - (k - 1)) = i + 1
        BY <1>1, <1>5, <3>1
      <3> QED
        BY <2>2, <3>1, <3>2
    <2> QED
      BY <2>1, <2>2
  <1> QED
    BY <1>3, <1>6, <1>7

\* It makes no difference what stands in front.
LEMMA RemoveBehind ==
  ASSUME NEW S, NEW B \in Seq(S), NEW s \in Seq(S), Distinct(s), NEW k \in 1 .. Len(s),
         \A i \in 1 .. Len(B) : B[i] # s[k]
  PROVE  RemoveFirst(B \o s, s[k]) = B \o RemoveFirst(s, s[k])
  <1> DEFINE c == B \o s
             n == Len(B) + k
             r == RemoveFirst(s, s[k])
             e == s[k]
  <1>1. Len(s) \in Nat /\ Len(B) \in Nat /\ k \in Nat /\ k >= 1 /\ k <= Len(s)
    BY LenProperties
  <1>2. /\ c \in Seq(S) /\ Len(c) = Len(B) + Len(s)
        /\ \A i \in 1 .. Len(c) : c[i] = IF i <= Len(B) THEN B[i] ELSE s[i - Len(B)]
    BY ConcatProperties
  <1>3. n \in 1 .. Len(c) /\ c[n] = e
    BY <1>1, <1>2
  <1>4. \A i \in 1 .. Len(c) : c[i] = c[n] => i = n
    <2> SUFFICES ASSUME NEW i \in 1 .. Len(c), c[i] = e PROVE i = n
      BY <1>3
    <2>1. ~(i <= Len(B))
      BY <1>1, <1>2
    <2>2. i - Len(B) \in 1 .. Len(s) /\ s[i - Len(B)] = s[k]
      BY <1>1, <1>2, <2>1
    <2>3. i - Len(B) = k
      BY <2>2 DEF Distinct
    <2> QED
      BY <1>1, <2>3
  <1>5. /\ r \in Seq(S) /\ Len(r) = Len(s) - 1
        /\ \A i \in 1 .. Len(r) : r[i] = IF i < k THEN s[i] ELSE s[i + 1]
    BY RemoveOnce DEF Distinct
  <1> HIDE DEF c, r, n
  <1> DEFINE d == RemoveFirst(c, e)
             f == B \o r
  <1>6. /\ d \in Seq(S) /\ Len(d) = Len(c) - 1
        /\ \A i \in 1 .. Len(d) : d[i] = IF i < n THEN c[i] ELSE c[i + 1]
    <2>1. /\ RemoveFirst(c, c[n]) \in Seq(S) /\ Len(RemoveFirst(c, c[n])) = Len(c) - 1
          /\ \A i \in 1 .. Len(RemoveFirst(c, c[n])) :
                RemoveFirst(c, c[n])[i] = IF i < n THEN c[i] ELSE c[i + 1]
      BY <1>2, <1>3, <1>4, RemoveOnce
    <2> QED
      BY <1>3, <2>1
  <1>7. /\ f \in Seq(S) /\ Len(f) = Len(B) + Len(r)
        /\ \A i \in 1 .. Len(f) : f[i] = IF i <= Len(B) THEN B[i] ELSE r[i - Len(B)]
    <2>1. /\ B \o r \in Seq(S) /\ Len(B \o r) = Len(B) + Len(r)
          /\ \A i \in 1 .. Len(B) + Len(r) : (B \o r)[i] = IF i <= Len(B) THEN B[i] ELSE r[i - Len(B)]
      BY <1>5, ConcatProperties
    <2> QED
      BY <2>1
  <1> HIDE DEF d, f
  <1>8. Len(d) = Len(f)
    BY <1>1, <1>2, <1>5, <1>6, <1>7
  <1>9. ASSUME NEW i \in 1 .. Len(d) PROVE d[i] = f[i]
    <2>1. i \in 1 .. Len(f) /\ i \in 1 .. Len(c) /\ i + 1 \in 1 .. Len(c) /\ i \in Nat
      BY <1>1, <1>2, <1>6, <1>8
    <2>2. CASE i <= Len(B)
      <3>1. i < n
        BY <1>1, <2>1, <2>2 DEF n
      <3> QED
        BY <1>2, <1>6, <1>7, <2>1, <2>2, <3>1
    <2>3. CASE ~(i <= Len(B)) /\ i < n
      <3>1. d[i] = s[i - Len(B)] /\ f[i] = r[i - Len(B)]
        BY <1>2, <1>6, <1>7, <2>1, <2>3
      <3>2. i - Len(B) \in 1 .. Len(r) /\ i - Len(B) < k
        BY <1>1, <1>5, <2>1, <2>3 DEF n
      <3> QED
        BY <1>5, <3>1, <3>2
    <2>4. CASE ~(i < n)
      <3>1. d[i] = c[i + 1] /\ c[i + 1] = s[i + 1 - Len(B)]
        BY <1>1, <1>2, <1>6, <2>1, <2>4 DEF n
      <3>2. f[i] = r[i - Len(B)] /\ i - Len(B) \in 1 .. Len(r) /\ ~(i - Len(B) < k)
        <4>1. ~(i <= Len(B)) /\ ~(i - Len(B) < k)
          BY <1>1, <2>1, <2>4 DEF n
        <4>2. i - Len(B) \in 1 .. Len(r)
          BY <1>1, <1>2, <1>5, <1>6, <2>1, <2>4 DEF n
        <4> QED
          BY <1>7, <2>1, <4>1, <4>2
      <3>3. r[i - Len(B)] = s[(i - Len(B)) + 1]
        BY <1>5, <3>2
      <3>4. (i - Len(B)) + 1 = i + 1 - Len(B)
        BY <1>1, <2>1
      <3> QED
        BY <3>1, <3>2, <3>3, <3>4
    <2> QED
      BY <1>1, <2>2, <2>3, <2>4 DEF n
  <1>10. d = f
    BY <1>6, <1>7, <1>8, <1>9, SeqEqual
  <1> QED
    BY <1>10 DEF d, f, c, r

\* One more element, if it is a new one.
LEMMA AppendOnce ==
  ASSUME NEW S, NEW s \in Seq(S), NEW m \in S
  PROVE  LET r == Append(s, m) IN
         /\ r \in Seq(S) /\ Len(r) = Len(s) + 1 /\ r[Len(s) + 1] = m
         /\ \A i \in 1 .. Len(s) : r[i] = s[i]
         /\ \A i \in 1 .. Len(r) : i = Len(s) + 1 \/ i \in 1 .. Len(s)
         /\ \A k : Contains(r, k) <=> k = m \/ Contains(s, k)
         /\ Distinct(s) /\ ~Contains(s, m) => Distinct(r)
  <1> DEFINE r == Append(s, m)
  <1>1. /\ r \in Seq(S) /\ Len(r) = Len(s) + 1 /\ r[Len(s) + 1] = m /\ Len(s) \in Nat
        /\ \A i \in 1 .. Len(s) : r[i] = s[i]
    BY AppendProperties, LenProperties
  <1> HIDE DEF r
  <1>2. \A i \in 1 .. Len(r) : i = Len(s) + 1 \/ i \in 1 .. Len(s)
    BY <1>1
  <1>3. \A k : Contains(r, k) <=> k = m \/ Contains(s, k)
    <2> SUFFICES ASSUME NEW k PROVE Contains(r, k) <=> k = m \/ Contains(s, k)
      OBVIOUS
    <2>1. Len(s) + 1 \in 1 .. Len(r) /\ \A i \in 1 .. Len(s) : i \in 1 .. Len(r)
      BY <1>1
    <2> QED
      BY <1>1, <1>2, <2>1 DEF Contains
  <1>4. Distinct(s) /\ ~Contains(s, m) => Distinct(r)
    BY <1>1, <1>2 DEF Distinct, Contains
  <1> QED
    BY <1>1, <1>2, <1>3, <1>4 DEF r

\* One less.
LEMMA RemoveKeeps ==
  ASSUME NEW S, NEW s \in Seq(S), Distinct(s), NEW k \in 1 .. Len(s)
  PROVE  LET r == RemoveFirst(s, s[k]) IN
         /\ r \in Seq(S) /\ Len(r) = Len(s) - 1
         /\ \A i \in 1 .. Len(r) :
              \/ i < k /\ i \in 1 .. Len(s) /\ r[i] = s[i]
              \/ i >= k /\ i + 1 \in 1 .. Len(s) /\ r[i] = s[i + 1]
         /\ Distinct(r) /\ \A m : Contains(r, m) => Contains(s, m)
  <1> DEFINE r == RemoveFirst(s, s[k])
  <1>1. /\ r \in Seq(S) /\ Len(r) = Len(s) - 1 /\ Len(s) \in Nat
        /\ \A i \in 1 .. Len(r) : r[i] = IF i < k THEN s[i] ELSE s[i + 1]
    <2>1. \A i \in 1 .. Len(s) : s[i] = s[k] => i = k
      BY DEF Distinct
    <2> QED
      BY <2>1, RemoveOnce, LenProperties
  <1> HIDE DEF r
  <1>2. \A i \in 1 .. Len(r) :
          \/ i < k /\ i \in 1 .. Len(s) /\ r[i] = s[i]
          \/ i >= k /\ i + 1 \in 1 .. Len(s) /\ r[i] = s[i + 1]
    BY <1>1
  <1>3. Distinct(r)
    <2> SUFFICES ASSUME NEW i \in 1 .. Len(r), NEW j \in 1 .. Len(r), r[i] = r[j] PROVE i = j
      BY DEF Distinct
    <2>1. PICK a \in 1 .. Len(s) : r[i] = s[a] /\ a = IF i < k THEN i ELSE i + 1
      BY <1>2
    <2>2. PICK b \in 1 .. Len(s) : r[j] = s[b] /\ b = IF j < k THEN j ELSE j + 1
      BY <1>2
    <2>3. a = b
      BY <2>1, <2>2 DEF Distinct
    <2> QED
      BY <2>1, <2>2, <2>3
  <1>4. \A m : Contains(r, m) => Contains(s, m)
    BY <1>2 DEF Contains
  <1> QED
    BY <1>1, <1>2, <1>3, <1>4 DEF r

\* A set grows by one element at most.
LEMMA OneMore ==
  ASSUME NEW S, IsFiniteSet(S), NEW x, NEW T, T \subseteq S \cup {x}
  PROVE  IsFiniteSet(T) /\ Cardinality(T) <= Cardinality(S) + 1
  <1>1. /\ IsFiniteSet(S \cup {x})
        /\ Cardinality(S \cup {x}) = IF x \in S THEN Cardinality(S) ELSE Cardinality(S) + 1
    BY FS_AddElement
  <1>2. IsFiniteSet(T) /\ Cardinality(T) <= Cardinality(S \cup {x})
    BY <1>1, FS_Subset
  <1>3. Cardinality(S) \in Nat /\ Cardinality(T) \in Nat
    BY <1>2, FS_CardinalityType
  <1> QED
    BY <1>1, <1>2, <1>3

-----------------------------------------------------------------------------
(* pluginclass.py: the inductive invariant                                 *)

USE ScriptAssumption DEF ScriptAssumption

\* The methods of the instances made so far.
Made == {m \in Methods : m.nr \in 1 .. nr[m.class]}
Callbacks == [Types -> Seq(Made)]
Owners == [Commands -> Methods \cup {Nobody}]

RegistryTypes ==
  /\ instances \subseteq Classes /\ nr \in [Classes -> Nat]
  /\ client \in [callback : Callbacks, command : Owners]
  /\ own \in [callback : Callbacks, command : Owners, event : [Events -> Seq(Made)]]
  /\ DOMAIN dispatchTo = Events
  /\ making = NotMaking \/ making \in [who : Made, at : Nat]
  /\ round = NoRound \/ round \in [type : Types, at : Nat, calls : Seq(Made), began : Seq(Made), removed : Nat]

\* The tables of the class and those the client works with agree.
TablesMirror ==
  /\ client.callback = own.callback /\ client.command = own.command
  /\ \A event \in Events : dispatchTo[event] = BuiltIn \o own.event[event]

\* No list holds a method twice.
ListsDistinct ==
  /\ \A type \in Types : Distinct(client.callback[type])
  /\ \A event \in Events : Distinct(own.event[event])

\* An instance has registered a callback of the type before a place in its init.
Did(who, at, type) ==
  \E j \in DOMAIN Script[who.class] :
    j < at /\ Script[who.class][j].kind = "callback" /\ Script[who.class][j].key = type

\* Nobody knows a callback of it that it has not registered yet.
MakingFresh ==
  making # NotMaking =>
    /\ making.who.class \notin instances
    /\ \A type \in Types : ~Did(making.who, making.at, type) =>
         /\ ~Contains(client.callback[type], making.who)
         /\ round.type = type => ~Contains(round.calls, making.who) /\ ~Contains(round.began, making.who)

\* Those of the round's first list that it has passed without calling them.
Missed ==
  {m \in ToSet(round.began) :
     /\ \E i \in 1 .. Len(client.callback[round.type]) : i < round.at /\ client.callback[round.type][i] = m
     /\ ~Contains(round.calls, m)}

RoundGoes ==
  round # NoRound =>
    /\ round.at >= 1 /\ Distinct(round.calls)
    /\ \A i \in 1 .. Len(client.callback[round.type]) :
         i >= round.at => ~Contains(round.calls, client.callback[round.type][i])
    /\ IsFiniteSet(Missed) /\ Cardinality(Missed) <= round.removed

PluginInv == RegistryTypes /\ TablesMirror /\ ListsDistinct /\ MakingFresh /\ RoundGoes

-----------------------------------------------------------------------------

LEMMA PluginsBegin == PluginsInit => PluginInv
  <1> SUFFICES ASSUME PluginsInit PROVE PluginInv
    OBVIOUS
  <1> USE DEF PluginsInit
  <1>1. <<>> \in Seq(Made) /\ Len(<<>>) = 0
    BY EmptySeq
  <1>2. RegistryTypes
    BY <1>1 DEF RegistryTypes, Callbacks, Owners
  <1>3. TablesMirror
    <2>1. BuiltIn \o <<>> = BuiltIn
      BY ConcatEmptySeq
    <2> QED
      BY <2>1 DEF TablesMirror
  <1>4. ListsDistinct /\ MakingFresh /\ RoundGoes
    BY <1>1 DEF ListsDistinct, MakingFresh, RoundGoes, Distinct
  <1> QED
    BY <1>2, <1>3, <1>4 DEF PluginInv

\* What the types say of the running init and the running round.
LEMMA Typed ==
  ASSUME RegistryTypes
  PROVE  /\ making # NotMaking =>
              making.who \in Methods /\ making.who \in Made /\ making.who.class \in Classes /\ making.at \in Nat
         /\ round.type \in Types <=> round # NoRound
         /\ round # NoRound =>
              round \in [type : Types, at : Nat, calls : Seq(Made), began : Seq(Made), removed : Nat]
         /\ \A type \in Types : client.callback[type] \in Seq(Made)
         /\ \A event \in Events : own.event[event] \in Seq(Made)
  <1>1. making # NotMaking =>
          making.who \in Methods /\ making.who \in Made /\ making.who.class \in Classes /\ making.at \in Nat
    BY DEF RegistryTypes, Made, Methods
  <1>2. /\ round.type \in Types <=> round # NoRound
        /\ round # NoRound =>
             round \in [type : Types, at : Nat, calls : Seq(Made), began : Seq(Made), removed : Nat]
    BY DEF RegistryTypes, NoRound
  <1>3. /\ \A type \in Types : client.callback[type] \in Seq(Made)
        /\ \A event \in Events : own.event[event] \in Seq(Made)
    BY DEF RegistryTypes, Callbacks
  <1> QED
    BY <1>1, <1>2, <1>3

\* A round after a call, and after an unregister call.
LEMMA RoundAfter ==
  ASSUME NEW r \in [type : Types, at : Nat, calls : Seq(Made), began : Seq(Made), removed : Nat],
         NEW s \in Seq(Made), NEW n \in Nat
  PROVE  /\ LET called == [r EXCEPT !.calls = s, !.at = @ + 1] IN
            /\ called \in [type : Types, at : Nat, calls : Seq(Made), began : Seq(Made), removed : Nat]
            /\ called.type = r.type /\ called.at = r.at + 1 /\ called.calls = s
            /\ called.began = r.began /\ called.removed = r.removed
         /\ LET less == [r EXCEPT !.removed = @ + n] IN
            /\ less \in [type : Types, at : Nat, calls : Seq(Made), began : Seq(Made), removed : Nat]
            /\ less.type = r.type /\ less.at = r.at /\ less.calls = r.calls
            /\ less.began = r.began /\ less.removed = r.removed + n
  <1>1. r.at + 1 \in Nat /\ r.removed + n \in Nat
    OBVIOUS
  <1>2. LET called == [r EXCEPT !.calls = s, !.at = @ + 1] IN
        /\ called \in [type : Types, at : Nat, calls : Seq(Made), began : Seq(Made), removed : Nat]
        /\ called.type = r.type /\ called.at = r.at + 1 /\ called.calls = s
        /\ called.began = r.began /\ called.removed = r.removed
    BY <1>1
  <1>3. LET less == [r EXCEPT !.removed = @ + n] IN
        /\ less \in [type : Types, at : Nat, calls : Seq(Made), began : Seq(Made), removed : Nat]
        /\ less.type = r.type /\ less.at = r.at /\ less.calls = r.calls
        /\ less.began = r.began /\ less.removed = r.removed + n
    BY <1>1
  <1> QED
    BY <1>2, <1>3

\* More methods can be bound when an instance is made, and those that are stay.
LEMMA LoadKeeps == ASSUME PluginInv, NEW c \in Classes, LoadPlugin(c) PROVE PluginInv'
  <1> USE DEF LoadPlugin
  <1> DEFINE who == [class |-> c, nr |-> nr[c] + 1]
  <1>1. nr \in [Classes -> Nat] /\ nr' = [nr EXCEPT ![c] = @ + 1] /\ nr'[c] = nr[c] + 1
    BY DEF PluginInv, RegistryTypes
  <1>2. Made \subseteq Made'
    BY <1>1 DEF Made, Methods
  <1>3. who \in Made' /\ who \notin Made /\ making' = [who |-> who, at |-> 1]
    BY <1>1 DEF Made, Methods
  <1>4. \A s : s \in Seq(Made) => s \in Seq(Made')
    <2> SUFFICES ASSUME NEW s \in Seq(Made) PROVE s \in Seq(Made')
      OBVIOUS
    <2> QED
      BY <1>2, SeqDef
  <1>5. RegistryTypes'
    <2>1. /\ client' \in [callback : Callbacks', command : Owners]
          /\ own' \in [callback : Callbacks', command : Owners, event : [Events -> Seq(Made')]]
      BY <1>4 DEF PluginInv, RegistryTypes, Callbacks
    <2>2. making' \in [who : Made', at : Nat]
      BY <1>3
    <2>3. \/ round' = NoRound
          \/ round' \in [type : Types, at : Nat, calls : Seq(Made'), began : Seq(Made'), removed : Nat]
      BY <1>4 DEF PluginInv, RegistryTypes
    <2> QED
      BY <1>1, <2>1, <2>2, <2>3 DEF PluginInv, RegistryTypes, Owners
  <1>6. TablesMirror' /\ ListsDistinct' /\ RoundGoes'
    BY DEF PluginInv, TablesMirror, ListsDistinct, RoundGoes, Missed
  <1>7. MakingFresh'
    <2>1. \A s \in Seq(Made) : ~Contains(s, who)
      BY <1>3, ElementOfSeq DEF Contains
    <2>2. \A type \in Types : client.callback[type] \in Seq(Made)
      BY Typed DEF PluginInv
    <2>3. round.type \in Types => round.calls \in Seq(Made) /\ round.began \in Seq(Made)
      BY Typed DEF PluginInv
    <2> QED
      BY <1>3, <2>1, <2>2, <2>3 DEF MakingFresh
  <1> QED
    BY <1>5, <1>6, <1>7 DEF PluginInv

LEMMA RaisesKeeps == PluginInv /\ InitRaises => PluginInv'
  <1> SUFFICES ASSUME PluginInv, InitRaises PROVE PluginInv'
    OBVIOUS
  <1> USE DEF InitRaises
  <1>1. RegistryTypes'
    <2>1. Made' = Made
      BY DEF Made
    <2> QED
      BY <2>1 DEF PluginInv, RegistryTypes, Callbacks, Owners
  <1>2. TablesMirror' /\ ListsDistinct'
    BY DEF PluginInv, TablesMirror, ListsDistinct
  <1>3. RoundGoes'
    BY DEF PluginInv, RoundGoes, Missed
  <1>4. MakingFresh'
    BY DEF MakingFresh
  <1> QED
    BY <1>1, <1>2, <1>3, <1>4 DEF PluginInv

\* What the init has registered is registered for good.
LEMMA StillDid ==
  ASSUME NEW who \in Methods, NEW at \in Nat, NEW type, Did(who, at, type)
  PROVE  Did(who, at + 1, type)
  <1>1. PICK j \in DOMAIN Script[who.class] :
          j < at /\ Script[who.class][j].kind = "callback" /\ Script[who.class][j].key = type
    BY DEF Did
  <1>2. j \in Nat /\ j < at + 1
    BY <1>1 DEF Methods
  <1> QED
    BY <1>1, <1>2 DEF Did

\* The callbacks of a step that does not touch them.
LEMMA CallbacksKeep ==
  ASSUME PluginInv, client'.callback = client.callback, UNCHANGED <<nr, round, instances>>,
         \/ UNCHANGED making
         \/ making # NotMaking /\ making' = [making EXCEPT !.at = @ + 1]
  PROVE  RoundGoes' /\ MakingFresh' /\ \A type \in Types : Distinct(client'.callback[type])
  <1>1. RoundGoes' /\ \A type \in Types : Distinct(client'.callback[type])
    BY DEF PluginInv, RoundGoes, Missed, ListsDistinct
  <1>2. CASE UNCHANGED making
    BY <1>1, <1>2 DEF PluginInv, MakingFresh
  <1>3. CASE making # NotMaking /\ making' = [making EXCEPT !.at = @ + 1]
    <2>1. making \in [who : Made, at : Nat] /\ making.who \in Methods
      BY <1>3, Typed DEF PluginInv, RegistryTypes
    <2>2. making'.who = making.who /\ making'.at = making.at + 1
      BY <1>3, <2>1
    <2>3. \A type \in Types : Did(making.who, making.at, type) => Did(making'.who, making'.at, type)
      BY <2>1, <2>2, StillDid
    <2> QED
      BY <1>1, <1>3, <2>2, <2>3 DEF PluginInv, MakingFresh
  <1> QED
    BY <1>1, <1>2, <1>3

\* The callback is a new one of its list, and the round that walks the list will come to it.
LEMMA CallbackRegistered ==
  ASSUME PluginInv, making # NotMaking, NEW type \in Types, NEW at \in DOMAIN Script[making.who.class],
         making.at = at, Script[making.who.class][at].kind = "callback",
         Script[making.who.class][at].key = type,
         RegisterCallback(type, making.who), making' = [making EXCEPT !.at = @ + 1],
         UNCHANGED <<instances, nr, round, rounds, undone>>
  PROVE  PluginInv'
  <1> DEFINE m == making.who
             L == client.callback[type]
             M == Append(L, m)
  <1>1. /\ making \in [who : Made, at : Nat] /\ m \in Made /\ m.class \in Classes /\ at \in Nat
        /\ L \in Seq(Made) /\ client.callback \in Callbacks
    BY Typed DEF PluginInv, RegistryTypes
  <1>2. ~Did(m, at, type)
    <2> SUFFICES ASSUME Did(m, at, type) PROVE FALSE
      OBVIOUS
    <2>1. PICK j \in DOMAIN Script[m.class] :
            j < at /\ Script[m.class][j].kind = "callback" /\ Script[m.class][j].key = type
      BY DEF Did
    <2>2. j = at
      BY <1>1, <2>1
    <2> QED
      BY <1>1, <2>1, <2>2
  <1>3. ~Contains(L, m) /\ (round.type = type => ~Contains(round.calls, m) /\ ~Contains(round.began, m))
    BY <1>2 DEF PluginInv, MakingFresh
  <1>4. /\ M \in Seq(Made) /\ Len(M) = Len(L) + 1 /\ M[Len(L) + 1] = m
        /\ \A i \in 1 .. Len(L) : M[i] = L[i]
        /\ \A i \in 1 .. Len(M) : i = Len(L) + 1 \/ i \in 1 .. Len(L)
        /\ \A k : Contains(M, k) <=> k = m \/ Contains(L, k)
        /\ Distinct(M)
    <2>1. Distinct(L)
      BY DEF PluginInv, ListsDistinct
    <2> QED
      BY <1>1, <1>3, <2>1, AppendOnce
  <1>5. /\ client'.callback = [client.callback EXCEPT ![type] = M] /\ client'.command = client.command
        /\ client' \in [callback : Callbacks, command : Owners] /\ UNCHANGED dispatchTo
        /\ own'.callback = client'.callback /\ own'.command = own.command /\ own'.event = own.event
        /\ own' \in [callback : Callbacks, command : Owners, event : [Events -> Seq(Made)]]
    <2>1. client' = [client EXCEPT !.callback[type] = M] /\ UNCHANGED dispatchTo
          /\ own' = [own EXCEPT !.callback[type] = M]
      BY DEF RegisterCallback, PluginInv, TablesMirror
    <2> HIDE DEF M
    <2> QED
      BY <1>4, <2>1 DEF PluginInv, RegistryTypes, TablesMirror, Callbacks
  <1> HIDE DEF M
  <1>6. client'.callback[type] = M /\ \A t \in Types \ {type} : client'.callback[t] = client.callback[t]
    BY <1>1, <1>5 DEF Callbacks
  <1>7. making'.who = m /\ making'.at = at + 1 /\ making' \in [who : Made, at : Nat]
    BY <1>1
  <1>8. RegistryTypes'
    <2>1. Made' = Made
      BY DEF Made
    <2> QED
      BY <1>5, <1>7, <2>1 DEF PluginInv, RegistryTypes, Callbacks, Owners
  <1>9. TablesMirror' /\ ListsDistinct'
    BY <1>4, <1>5, <1>6 DEF PluginInv, TablesMirror, ListsDistinct
  <1>10. MakingFresh'
    <2>1. \A t : Did(m, at, t) => Did(m, at + 1, t)
      BY <1>1, StillDid DEF Made
    <2>2. Did(m, at + 1, type)
      BY <1>1 DEF Did
    <2> QED
      BY <1>6, <1>7, <2>1, <2>2 DEF PluginInv, MakingFresh
  <1>11. RoundGoes'
    <2>1. CASE round = NoRound
      BY <2>1 DEF RoundGoes
    <2>2. CASE round # NoRound /\ round.type # type
      <3>1. client'.callback[round.type] = client.callback[round.type]
        BY <1>6, <2>2, Typed DEF PluginInv
      <3> QED
        BY <3>1, <2>2 DEF PluginInv, RoundGoes, Missed
    <2>3. CASE round # NoRound /\ round.type = type
      <3>1. \A i \in 1 .. Len(M) : i >= round.at => ~Contains(round.calls, M[i])
        BY <1>3, <1>4, <2>3 DEF PluginInv, RoundGoes
      <3>2. Missed' \subseteq Missed
        <4>1. \A k \in ToSet(round.began) : k # m
          <5>1. round.began \in Seq(Made)
            BY <2>3, Typed DEF PluginInv
          <5> QED
            BY <1>3, <2>3, <5>1, LenProperties DEF ToSet, Contains
        <4> QED
          BY <1>4, <1>6, <2>3, <4>1 DEF Missed
      <3>3. IsFiniteSet(Missed') /\ Cardinality(Missed') <= Cardinality(Missed) /\ Cardinality(Missed) \in Nat
               /\ Cardinality(Missed') \in Nat
        BY <2>3, <3>2, FS_Subset, FS_CardinalityType DEF PluginInv, RoundGoes
      <3>4. round.removed \in Nat
        BY <2>3, Typed DEF PluginInv
      <3> QED
        BY <1>6, <2>3, <3>1, <3>3, <3>4 DEF PluginInv, RoundGoes
    <2> QED
      BY <2>1, <2>2, <2>3
  <1> QED
    BY <1>8, <1>9, <1>10, <1>11 DEF PluginInv

\* The steps of an init: a command or an event, and its end.
LEMMA OthersRegistered ==
  ASSUME PluginInv, making # NotMaking,
         \/ \E command \in Commands : RegisterChatCommand(command, making.who)
         \/ \E event \in Events : RegisterEventDispatcher(event, making.who),
         making' = [making EXCEPT !.at = @ + 1],
         UNCHANGED <<instances, nr, round, rounds, undone>>
  PROVE  PluginInv'
  <1> DEFINE m == making.who
  <1>1. making \in [who : Made, at : Nat] /\ m \in Made /\ m \in Methods
    BY Typed DEF PluginInv, RegistryTypes
  <1>2. making' \in [who : Made, at : Nat] /\ Made' = Made
    BY <1>1 DEF Made
  <1>3. /\ client \in [callback : Callbacks, command : Owners]
        /\ own \in [callback : Callbacks, command : Owners, event : [Events -> Seq(Made)]]
    BY DEF PluginInv, RegistryTypes
  <1>4. ASSUME NEW command \in Commands, RegisterChatCommand(command, m) PROVE PluginInv'
    <2>1. /\ client'.callback = client.callback /\ client' \in [callback : Callbacks, command : Owners]
          /\ own'.callback = own.callback /\ own'.event = own.event /\ own'.command = client'.command
          /\ own' \in [callback : Callbacks, command : Owners, event : [Events -> Seq(Made)]]
          /\ UNCHANGED dispatchTo
      <3>1. CASE client.command[command] # Nobody
        BY <1>3, <1>4, <3>1 DEF RegisterChatCommand, PluginInv, TablesMirror
      <3>2. CASE client.command[command] = Nobody
        <4>1. /\ client' = [client EXCEPT !.command[command] = m]
              /\ own' = [own EXCEPT !.command[command] = m] /\ UNCHANGED dispatchTo
          BY <1>4, <3>2 DEF RegisterChatCommand
        <4> QED
          BY <1>1, <1>3, <4>1 DEF PluginInv, TablesMirror, Owners
      <3> QED
        BY <3>1, <3>2
    <2>2. RegistryTypes'
      BY <1>2, <2>1 DEF PluginInv, RegistryTypes, Callbacks, Owners
    <2>3. TablesMirror'
      BY <2>1 DEF PluginInv, TablesMirror
    <2>4. RoundGoes' /\ MakingFresh' /\ \A type \in Types : Distinct(client'.callback[type])
      BY <2>1, CallbacksKeep
    <2>5. ListsDistinct'
      BY <2>1, <2>4 DEF PluginInv, ListsDistinct
    <2> QED
      BY <2>2, <2>3, <2>4, <2>5 DEF PluginInv
  <1>5. ASSUME NEW event \in Events, RegisterEventDispatcher(event, m) PROVE PluginInv'
    <2>1. CASE Contains(dispatchTo[event], m)
      <3>1. UNCHANGED <<client, own, dispatchTo>>
        BY <1>5, <2>1 DEF RegisterEventDispatcher
      <3>2. RegistryTypes'
        BY <1>2, <3>1 DEF PluginInv, RegistryTypes, Callbacks, Owners
      <3>3. RoundGoes' /\ MakingFresh'
        BY <3>1, CallbacksKeep
      <3> QED
        BY <3>1, <3>2, <3>3 DEF PluginInv, TablesMirror, ListsDistinct
    <2>2. CASE ~Contains(dispatchTo[event], m)
      <3> DEFINE s == own.event[event]
                 more == Append(s, m)
      <3>1. UNCHANGED client /\ dispatchTo' = [dispatchTo EXCEPT ![event] = Append(@, m)]
            /\ own' = [own EXCEPT !.event[event] = Append(@, m)]
        BY <1>5, <2>2 DEF RegisterEventDispatcher
      <3>2. /\ s \in Seq(Made)
            /\ s \in Seq(Methods \cup ToSet(BuiltIn))
            /\ BuiltIn \in Seq(Methods \cup ToSet(BuiltIn))
        <4>1. s \in Seq(Made)
          BY <1>3
        <4> QED
          BY <4>1, SeqDef DEF Made
      <3>3. ~Contains(s, m)
        <4>1. dispatchTo[event] = BuiltIn \o s
          BY DEF PluginInv, TablesMirror
        <4> HIDE DEF s
        <4>2. Len(BuiltIn \o s) = Len(BuiltIn) + Len(s) /\ Len(BuiltIn) \in Nat /\ Len(s) \in Nat
          BY <3>2, ConcatProperties, LenProperties
        <4>3. \A i \in 1 .. Len(s) : Len(BuiltIn) + i \in 1 .. Len(BuiltIn \o s)
                 /\ (BuiltIn \o s)[Len(BuiltIn) + i] = s[i]
          <5> TAKE i \in 1 .. Len(s)
          <5>1. Len(BuiltIn) + i \in 1 .. Len(BuiltIn) + Len(s) /\ ~(Len(BuiltIn) + i <= Len(BuiltIn))
                /\ Len(BuiltIn) + i - Len(BuiltIn) = i
            BY <4>2
          <5>2. (BuiltIn \o s)[Len(BuiltIn) + i] = s[Len(BuiltIn) + i - Len(BuiltIn)]
            BY <3>2, <5>1, ConcatProperties
          <5> QED
            BY <4>2, <5>1, <5>2
        <4> QED
          BY <2>2, <4>1, <4>3 DEF Contains
      <3>4. more \in Seq(Made) /\ Distinct(more)
        <4>1. Distinct(s)
          BY DEF PluginInv, ListsDistinct
        <4> QED
          BY <1>1, <3>2, <3>3, <4>1, AppendOnce
      <3>5. dispatchTo'[event] = BuiltIn \o more
        <4>1. dispatchTo'[event] = Append(BuiltIn \o s, m)
          BY <3>1 DEF PluginInv, TablesMirror, RegistryTypes
        <4>2. Append(BuiltIn \o s, m) = BuiltIn \o Append(s, m)
          <5> HIDE DEF s
          <5>1. /\ <<m>> \in Seq(Methods \cup ToSet(BuiltIn))
                /\ (BuiltIn \o s) \o <<m>> = BuiltIn \o (s \o <<m>>)
            BY <1>1, <3>2, ConcatAssociative
          <5>2. Append(BuiltIn \o s, m) = (BuiltIn \o s) \o <<m>> /\ Append(s, m) = s \o <<m>>
            BY <1>1, <3>2, AppendIsConcat, ConcatProperties
          <5> QED
            BY <5>1, <5>2
        <4> QED
          BY <4>1, <4>2
      <3> HIDE DEF more
      <3>6. /\ own'.event = [own.event EXCEPT ![event] = more]
            /\ own'.callback = own.callback
            /\ own'.command = own.command
            /\ own' \in [callback : Callbacks, command : Owners, event : [Events -> Seq(Made)]]
        <4>1. own' = [own EXCEPT !.event[event] = more]
          BY <3>1 DEF more
        <4> QED
          BY <1>3, <3>4, <4>1
      <3>7. RegistryTypes'
        BY <1>2, <3>1, <3>6 DEF PluginInv, RegistryTypes, Callbacks, Owners
      <3>8. TablesMirror'
        <4>1. client'.callback = own'.callback /\ client'.command = own'.command
          BY <3>1, <3>6 DEF PluginInv, TablesMirror
        <4>2. ASSUME NEW e \in Events PROVE dispatchTo'[e] = BuiltIn \o own'.event[e]
          <5>1. CASE e = event
            BY <1>3, <3>5, <3>6, <5>1
          <5>2. CASE e # event
            BY <1>3, <3>1, <3>6, <5>2 DEF PluginInv, TablesMirror, RegistryTypes
          <5> QED
            BY <5>1, <5>2
        <4> QED
          BY <4>1, <4>2 DEF TablesMirror
      <3>9. RoundGoes' /\ MakingFresh'
        BY <3>1, CallbacksKeep
      <3>10. ListsDistinct'
        BY <1>3, <3>1, <3>4, <3>6 DEF PluginInv, ListsDistinct
      <3> QED
        BY <3>7, <3>8, <3>9, <3>10 DEF PluginInv
    <2> QED
      BY <2>1, <2>2
  <1> QED
    BY <1>4, <1>5

LEMMA InitStepKeeps == PluginInv /\ InitStep => PluginInv'
  <1> SUFFICES ASSUME PluginInv, InitStep PROVE PluginInv'
    OBVIOUS
  <1>1. making # NotMaking /\ UNCHANGED <<nr, round, rounds, undone>>
    BY DEF InitStep
  <1>2. making \in [who : Made, at : Nat] /\ making.who.class \in Classes
    BY <1>1, Typed DEF PluginInv, RegistryTypes
  <1>3. CASE making.at \in DOMAIN Script[making.who.class]
    <2> DEFINE call == Script[making.who.class][making.at]
    <2>1. /\ Register(call, making.who)
          /\ making' = [making EXCEPT !.at = @ + 1] /\ UNCHANGED instances
      BY <1>3 DEF InitStep
    <2>2. CASE call.kind = "callback"
      <3>1. RegisterCallback(call.key, making.who) /\ call.key \in Types
        BY <1>2, <1>3, <2>1, <2>2 DEF Register
      <3> QED
        BY <1>1, <1>3, <2>1, <2>2, <3>1, CallbackRegistered
    <2>3. CASE call.kind = "command"
      <3>1. RegisterChatCommand(call.key, making.who) /\ call.key \in Commands
        BY <1>2, <1>3, <2>1, <2>3 DEF Register
      <3> QED
        BY <1>1, <2>1, <3>1, OthersRegistered
    <2>4. CASE call.kind = "event"
      <3>1. RegisterEventDispatcher(call.key, making.who) /\ call.key \in Events
        BY <1>2, <1>3, <2>1, <2>4 DEF Register
      <3> QED
        BY <1>1, <2>1, <3>1, OthersRegistered
    <2> QED
      BY <1>2, <1>3, <2>2, <2>3, <2>4
  <1>4. CASE making.at \notin DOMAIN Script[making.who.class]
    <2>1. /\ instances' = instances \cup {making.who.class} /\ making' = NotMaking
          /\ UNCHANGED <<own, client, dispatchTo>>
      BY <1>4 DEF InitStep
    <2>2. RegistryTypes'
      <3>1. Made' = Made
        BY <1>1 DEF Made
      <3> QED
        BY <1>1, <1>2, <2>1, <3>1 DEF PluginInv, RegistryTypes, Callbacks, Owners
    <2>3. TablesMirror' /\ ListsDistinct'
      BY <2>1 DEF PluginInv, TablesMirror, ListsDistinct
    <2>4. RoundGoes'
      BY <1>1, <2>1 DEF PluginInv, RoundGoes, Missed
    <2>5. MakingFresh'
      BY <2>1 DEF MakingFresh
    <2> QED
      BY <2>2, <2>3, <2>4, <2>5 DEF PluginInv
  <1> QED
    BY <1>3, <1>4

\* A callback is taken out of its list: the round that walks it passes one more at most.
LEMMA CallbackUnregistered ==
  ASSUME PluginInv, NEW type \in Types, NEW k \in DOMAIN own.callback[type],
         UnregisterCallback(type, own.callback[type][k]),
         UNCHANGED <<instances, nr, dispatchTo, making, rounds, undone>>
  PROVE  PluginInv'
  <1> DEFINE L == client.callback[type]
             R == RemoveFirst(L, L[k])
  <1>1. own.callback = client.callback /\ L \in Seq(Made) /\ client.callback \in Callbacks /\ k \in 1 .. Len(L)
    <2>1. own.callback = client.callback /\ L \in Seq(Made) /\ client.callback \in Callbacks
      BY DEF PluginInv, TablesMirror, RegistryTypes, Callbacks
    <2> QED
      BY <2>1, LenProperties
  <1>2. /\ R \in Seq(Made) /\ Len(R) = Len(L) - 1
        /\ \A i \in 1 .. Len(R) :
             \/ i < k /\ i \in 1 .. Len(L) /\ R[i] = L[i]
             \/ i >= k /\ i + 1 \in 1 .. Len(L) /\ R[i] = L[i + 1]
        /\ Distinct(R) /\ \A m : Contains(R, m) => Contains(L, m)
    <2>1. Distinct(L)
      BY DEF PluginInv, ListsDistinct
    <2> QED
      BY <1>1, <2>1, RemoveKeeps
  <1>3. /\ client'.callback = [client.callback EXCEPT ![type] = R] /\ client'.command = client.command
        /\ client' \in [callback : Callbacks, command : Owners]
        /\ own'.callback = client'.callback /\ own'.command = own.command /\ own'.event = own.event
        /\ own' \in [callback : Callbacks, command : Owners, event : [Events -> Seq(Made)]]
        /\ round' = Removed(type, 1)
    <2>1. client' = [client EXCEPT !.callback[type] = R] /\ own' = [own EXCEPT !.callback[type] = R]
          /\ round' = Removed(type, 1)
      BY <1>1 DEF UnregisterCallback
    <2> HIDE DEF R
    <2> QED
      BY <1>1, <1>2, <2>1 DEF PluginInv, RegistryTypes, Callbacks
  <1> HIDE DEF R
  <1>4. client'.callback[type] = R /\ \A t \in Types \ {type} : client'.callback[t] = client.callback[t]
    BY <1>1, <1>3 DEF Callbacks
  <1>5. /\ round = NoRound => round' = NoRound
        /\ round # NoRound =>
             /\ round' \in [type : Types, at : Nat, calls : Seq(Made), began : Seq(Made), removed : Nat]
             /\ round'.type = round.type /\ round'.at = round.at /\ round'.calls = round.calls
             /\ round'.began = round.began /\ round' # NoRound
             /\ round'.removed = IF round.type = type THEN round.removed + 1 ELSE round.removed
    <2>1. round = NoRound => round' = NoRound
      BY <1>3 DEF Removed, NoRound
    <2>2. ASSUME round # NoRound
          PROVE  /\ round' \in [type : Types, at : Nat, calls : Seq(Made), began : Seq(Made), removed : Nat]
                 /\ round'.type = round.type /\ round'.at = round.at /\ round'.calls = round.calls
                 /\ round'.began = round.began
                 /\ round'.removed = IF round.type = type THEN round.removed + 1 ELSE round.removed
      <3>1. round \in [type : Types, at : Nat, calls : Seq(Made), began : Seq(Made), removed : Nat]
        BY <2>2, Typed DEF PluginInv
      <3>2. round' = IF round.type = type THEN [round EXCEPT !.removed = @ + 1] ELSE round
        BY <1>3 DEF Removed
      <3> QED
        BY <3>1, <3>2
    <2> QED
      BY <2>1, <2>2 DEF NoRound
  <1>6. RegistryTypes'
    <2>1. Made' = Made
      BY DEF Made
    <2> QED
      BY <1>3, <1>5, <2>1 DEF PluginInv, RegistryTypes, Callbacks, Owners
  <1>7. TablesMirror' /\ ListsDistinct'
    BY <1>2, <1>3, <1>4 DEF PluginInv, TablesMirror, ListsDistinct
  <1>8. MakingFresh'
    <2>1. \A t \in Types : \A m : Contains(client'.callback[t], m) => Contains(client.callback[t], m)
      BY <1>2, <1>4
    <2>2. \A t \in Types :
            round'.type = t => round.type = t /\ round'.calls = round.calls /\ round'.began = round.began
      BY <1>5 DEF NoRound
    <2> QED
      BY <2>1, <2>2 DEF PluginInv, MakingFresh
  <1>9. RoundGoes'
    <2>1. CASE round = NoRound
      BY <1>5, <2>1 DEF RoundGoes
    <2>2. CASE round # NoRound /\ round.type # type
      <3>1. client'.callback[round.type] = client.callback[round.type]
        BY <1>4, <2>2, Typed DEF PluginInv
      <3>2. Missed' = Missed
        BY <1>5, <2>2, <3>1 DEF Missed
      <3> QED
        BY <1>5, <2>2, <3>1, <3>2 DEF PluginInv, RoundGoes
    <2>3. CASE round # NoRound /\ round.type = type
      <3>1. round.at \in Nat /\ round.removed \in Nat /\ round.calls \in Seq(Made)
        BY <2>3, Typed DEF PluginInv
      <3>2. \A i \in 1 .. Len(L) : i >= round.at => ~Contains(round.calls, L[i])
        BY <2>3 DEF PluginInv, RoundGoes
      <3>3. ASSUME NEW i \in 1 .. Len(R), i >= round.at PROVE ~Contains(round.calls, R[i])
        <4>1. CASE i < k /\ i \in 1 .. Len(L) /\ R[i] = L[i]
          BY <3>2, <3>3, <4>1
        <4>2. CASE i + 1 \in 1 .. Len(L) /\ R[i] = L[i + 1]
          <5>1. i + 1 >= round.at
            BY <3>1, <3>3
          <5> QED
            BY <3>2, <4>2, <5>1
        <4> QED
          BY <1>2, <4>1, <4>2
      <3>4. Missed' \subseteq Missed \cup {L[round.at]}
        <4> SUFFICES ASSUME NEW m \in Missed', m # L[round.at] PROVE m \in Missed
          OBVIOUS
        <4>1. m \in ToSet(round.began) /\ ~Contains(round.calls, m)
          BY <1>5, <2>3 DEF Missed
        <4>2. PICK i \in 1 .. Len(R) : i < round.at /\ R[i] = m
          BY <1>4, <1>5, <2>3 DEF Missed
        <4>3. \E j \in 1 .. Len(L) : j < round.at /\ L[j] = m
          <5>1. CASE i < k /\ i \in 1 .. Len(L) /\ R[i] = L[i]
            BY <4>2, <5>1
          <5>2. CASE i + 1 \in 1 .. Len(L) /\ R[i] = L[i + 1]
            <6>1. i + 1 # round.at
              BY <4>2, <5>2
            <6>2. i + 1 < round.at
              BY <3>1, <4>2, <6>1
            <6> QED
              BY <4>2, <5>2, <6>2
          <5> QED
            BY <1>2, <5>1, <5>2
        <4> QED
          BY <2>3, <4>1, <4>3 DEF Missed
      <3>5. IsFiniteSet(Missed') /\ Cardinality(Missed') <= Cardinality(Missed) + 1
        <4>1. IsFiniteSet(Missed)
          BY <2>3 DEF PluginInv, RoundGoes
        <4> QED
          BY <3>4, <4>1, OneMore
      <3>6. Cardinality(Missed) \in Nat /\ Cardinality(Missed) <= round.removed /\ Cardinality(Missed') \in Nat
        BY <2>3, <3>5, FS_CardinalityType DEF PluginInv, RoundGoes
      <3>7. Cardinality(Missed') <= round'.removed
        BY <1>5, <2>3, <3>1, <3>5, <3>6
      <3> QED
        BY <1>4, <1>5, <2>3, <3>3, <3>5, <3>7 DEF PluginInv, RoundGoes
    <2> QED
      BY <2>1, <2>2, <2>3
  <1> QED
    BY <1>6, <1>7, <1>8, <1>9 DEF PluginInv

LEMMA UnregisterKeeps == PluginInv /\ Unregister => PluginInv'
  <1> SUFFICES ASSUME PluginInv, Unregister PROVE PluginInv'
    OBVIOUS
  <1>1. UNCHANGED <<instances, nr, making, rounds, undone>>
    BY DEF Unregister
  <1>2. Made' = Made
    BY <1>1 DEF Made
  <1>3. /\ client \in [callback : Callbacks, command : Owners]
        /\ own \in [callback : Callbacks, command : Owners, event : [Events -> Seq(Made)]]
    BY DEF PluginInv, RegistryTypes
  <1>4. CASE /\ \E type \in Types : \E i \in DOMAIN own.callback[type] :
                  UnregisterCallback(type, own.callback[type][i])
             /\ UNCHANGED dispatchTo
    BY <1>1, <1>4, CallbackUnregistered
  <1>5. CASE /\ \E command \in Commands : UnregisterChatCommand(command)
             /\ UNCHANGED <<dispatchTo, round>>
    <2>1. PICK command \in Commands : UnregisterChatCommand(command)
      BY <1>5
    <2>2. /\ client' = [client EXCEPT !.command[command] = Nobody]
          /\ own' = [own EXCEPT !.command[command] = Nobody]
      BY <2>1 DEF UnregisterChatCommand
    <2>3. /\ client'.callback = client.callback /\ client' \in [callback : Callbacks, command : Owners]
          /\ own'.callback = own.callback /\ own'.event = own.event /\ own'.command = client'.command
          /\ own' \in [callback : Callbacks, command : Owners, event : [Events -> Seq(Made)]]
      BY <1>3, <2>2 DEF PluginInv, TablesMirror, Owners
    <2>4. RegistryTypes'
      BY <1>1, <1>2, <1>5, <2>3 DEF PluginInv, RegistryTypes, Callbacks, Owners
    <2>5. TablesMirror'
      BY <1>5, <2>3 DEF PluginInv, TablesMirror
    <2>6. RoundGoes' /\ MakingFresh'
      BY <1>1, <1>5, <2>3, CallbacksKeep
    <2>7. ListsDistinct'
      BY <2>3 DEF PluginInv, ListsDistinct
    <2> QED
      BY <2>4, <2>5, <2>6, <2>7 DEF PluginInv
  <1>6. CASE /\ \E event \in Events : \E i \in DOMAIN own.event[event] :
                  UnregisterEventDispatcher(event, own.event[event][i])
             /\ UNCHANGED <<client, round>>
    <2>0. PICK event \in Events :
            \E i \in DOMAIN own.event[event] : UnregisterEventDispatcher(event, own.event[event][i])
      BY <1>6
    <2>1. PICK k \in DOMAIN own.event[event] : UnregisterEventDispatcher(event, own.event[event][k])
      BY <2>0
    <2> DEFINE s == own.event[event]
               less == RemoveFirst(s, s[k])
    <2>2. /\ dispatchTo' = [dispatchTo EXCEPT ![event] = RemoveFirst(@, s[k])]
          /\ own' = [own EXCEPT !.event[event] = less]
      BY <2>1 DEF UnregisterEventDispatcher
    <2>3. s \in Seq(Made) /\ k \in 1 .. Len(s) /\ Distinct(s)
      <3>1. s \in Seq(Made)
        BY <1>3
      <3>2. k \in 1 .. Len(s)
        BY <2>1, <3>1, LenProperties
      <3>3. Distinct(s)
        BY DEF PluginInv, ListsDistinct
      <3> QED
        BY <3>1, <3>2, <3>3
    <2>4. less \in Seq(Made) /\ Distinct(less)
      BY <2>3, RemoveKeeps
    <2>5. dispatchTo'[event] = BuiltIn \o less
      <3>1. dispatchTo'[event] = RemoveFirst(BuiltIn \o s, s[k])
        BY <2>2 DEF PluginInv, TablesMirror, RegistryTypes
      <3>2. s \in Seq(Methods \cup ToSet(BuiltIn)) /\ BuiltIn \in Seq(Methods \cup ToSet(BuiltIn))
        BY <2>3, SeqDef DEF Made
      <3>3. \A i \in 1 .. Len(BuiltIn) : BuiltIn[i] # s[k]
        <4>1. s[k] \in Methods
          BY <2>3, ElementOfSeq DEF Made
        <4>2. \A i \in 1 .. Len(BuiltIn) : BuiltIn[i] \in ToSet(BuiltIn)
          BY ElementOfSeq
        <4> QED
          BY <4>1, <4>2
      <3> HIDE DEF s
      <3> QED
        BY <2>3, <3>1, <3>2, <3>3, RemoveBehind
    <2> HIDE DEF less
    <2>6. /\ own'.event = [own.event EXCEPT ![event] = less]
          /\ own'.callback = own.callback
          /\ own'.command = own.command
          /\ own' \in [callback : Callbacks, command : Owners, event : [Events -> Seq(Made)]]
      BY <1>3, <2>2, <2>4
    <2>7. RegistryTypes'
      BY <1>1, <1>2, <1>6, <2>2, <2>6 DEF PluginInv, RegistryTypes, Callbacks, Owners
    <2>8. TablesMirror'
      <3>1. client'.callback = own'.callback /\ client'.command = own'.command
        BY <1>6, <2>6 DEF PluginInv, TablesMirror
      <3>2. ASSUME NEW e \in Events PROVE dispatchTo'[e] = BuiltIn \o own'.event[e]
        <4>1. CASE e = event
          BY <1>3, <2>5, <2>6, <4>1
        <4>2. CASE e # event
          BY <1>3, <2>2, <2>6, <4>2 DEF PluginInv, TablesMirror, RegistryTypes
        <4> QED
          BY <4>1, <4>2
      <3> QED
        BY <3>1, <3>2 DEF TablesMirror
    <2>9. RoundGoes' /\ MakingFresh'
      BY <1>1, <1>6, CallbacksKeep
    <2>10. ListsDistinct'
      BY <1>3, <1>6, <2>4, <2>6 DEF PluginInv, ListsDistinct
    <2> QED
      BY <2>7, <2>8, <2>9, <2>10 DEF PluginInv
  <1> QED
    BY <1>4, <1>5, <1>6 DEF Unregister

\* All at once: nothing is left that a round could pass.
LEMMA EveryThingKeeps ==
  ASSUME PluginInv, NEW c \in Classes, UnregisterEveryThing(c)
  PROVE  PluginInv'
  <1>1. /\ client' = [callback |-> [type \in Types |-> <<>>], command |-> [x \in Commands |-> Nobody]]
        /\ own' = [own EXCEPT !.callback = client'.callback, !.command = client'.command]
        /\ round' = IF round.type \in Types THEN Removed(round.type, Len(own.callback[round.type])) ELSE round
        /\ UNCHANGED <<instances, nr, dispatchTo, making, rounds>>
    BY DEF UnregisterEveryThing
  <1>2. own \in [callback : Callbacks, command : Owners, event : [Events -> Seq(Made)]]
    BY DEF PluginInv, RegistryTypes
  <1>3. <<>> \in Seq(Made) /\ Len(<<>>) = 0
    BY EmptySeq
  <1>4. /\ client' \in [callback : Callbacks, command : Owners]
        /\ \A type \in Types : client'.callback[type] = <<>>
        /\ own'.callback = client'.callback /\ own'.command = client'.command /\ own'.event = own.event
        /\ own' \in [callback : Callbacks, command : Owners, event : [Events -> Seq(Made)]]
    BY <1>1, <1>2, <1>3 DEF Callbacks, Owners
  <1>5. /\ round = NoRound => round' = NoRound
        /\ round # NoRound =>
             /\ round' \in [type : Types, at : Nat, calls : Seq(Made), began : Seq(Made), removed : Nat]
             /\ round'.type = round.type /\ round'.at = round.at /\ round'.calls = round.calls
             /\ round'.began = round.began
    <2>1. round = NoRound => round' = NoRound
      BY <1>1 DEF NoRound
    <2>2. ASSUME round # NoRound
          PROVE  /\ round' \in [type : Types, at : Nat, calls : Seq(Made), began : Seq(Made), removed : Nat]
                 /\ round'.type = round.type /\ round'.at = round.at /\ round'.calls = round.calls
                 /\ round'.began = round.began
      <3>1. round \in [type : Types, at : Nat, calls : Seq(Made), began : Seq(Made), removed : Nat]
        BY <2>2, Typed DEF PluginInv
      <3>2. Len(own.callback[round.type]) \in Nat
        BY <1>2, <3>1, LenProperties DEF Callbacks
      <3>3. round' = [round EXCEPT !.removed = @ + Len(own.callback[round.type])]
        BY <1>1, <3>1 DEF Removed
      <3> QED
        BY <3>1, <3>2, <3>3, EmptySeq, RoundAfter
    <2> QED
      BY <2>1, <2>2
  <1>6. RegistryTypes'
    <2>1. Made' = Made
      BY <1>1 DEF Made
    <2> QED
      BY <1>1, <1>4, <1>5, <2>1 DEF PluginInv, RegistryTypes, Callbacks, Owners
  <1>7. TablesMirror' /\ ListsDistinct'
    BY <1>1, <1>3, <1>4 DEF PluginInv, TablesMirror, ListsDistinct, Distinct
  <1>8. MakingFresh'
    <2>1. \A t \in Types : \A m : ~Contains(client'.callback[t], m)
      BY <1>3, <1>4 DEF Contains
    <2>2. \A t \in Types :
            round'.type = t => round.type = t /\ round'.calls = round.calls /\ round'.began = round.began
      BY <1>5 DEF NoRound
    <2> QED
      BY <1>1, <2>1, <2>2 DEF PluginInv, MakingFresh
  <1>9. RoundGoes'
    <2>1. CASE round = NoRound
      BY <1>5, <2>1 DEF RoundGoes
    <2>2. CASE round # NoRound
      <3>1. Len(client'.callback[round'.type]) = 0
        BY <1>3, <1>4, <1>5, <2>2
      <3>2. Missed' = {}
        BY <3>1 DEF Missed
      <3>3. IsFiniteSet(Missed') /\ Cardinality(Missed') = 0
        BY <3>2, FS_EmptySet
      <3> QED
        BY <1>5, <2>2, <3>1, <3>3 DEF PluginInv, RoundGoes
    <2> QED
      BY <2>1, <2>2
  <1> QED
    BY <1>6, <1>7, <1>8, <1>9 DEF PluginInv

-----------------------------------------------------------------------------
(* The rounds of callbacks                                                 *)

LEMMA BeginKeeps == ASSUME PluginInv, NEW type \in Types, BeginRound(type) PROVE PluginInv'
  <1>1. /\ round = NoRound /\ UNCHANGED <<instances, nr, own, client, dispatchTo, making, undone>>
        /\ round' = [type |-> type, at |-> 1, calls |-> <<>>, began |-> client.callback[type], removed |-> 0]
    BY DEF BeginRound
  <1>2. <<>> \in Seq(Made) /\ Len(<<>>) = 0 /\ client.callback[type] \in Seq(Made)
    BY EmptySeq, Typed DEF PluginInv
  <1>3. RegistryTypes'
    <2>1. Made' = Made
      BY <1>1 DEF Made
    <2> QED
      BY <1>1, <1>2, <2>1 DEF PluginInv, RegistryTypes, Callbacks, Owners
  <1>4. TablesMirror' /\ ListsDistinct'
    BY <1>1 DEF PluginInv, TablesMirror, ListsDistinct
  <1>5. MakingFresh'
    <2>1. \A m : ~Contains(<<>>, m)
      BY <1>2 DEF Contains
    <2> QED
      BY <1>1, <2>1 DEF PluginInv, MakingFresh
  <1>6. RoundGoes'
    <2>1. Len(client.callback[type]) \in Nat
      BY <1>2, LenProperties
    <2>2. Missed' = {}
      BY <1>1, <2>1 DEF Missed
    <2>3. IsFiniteSet(Missed') /\ Cardinality(Missed') = 0
      BY <2>2, FS_EmptySet
    <2> QED
      BY <1>1, <1>2, <2>1, <2>3 DEF RoundGoes, Distinct, Contains
  <1> QED
    BY <1>3, <1>4, <1>5, <1>6 DEF PluginInv

LEMMA CallKeeps == PluginInv /\ CallNext => PluginInv'
  <1> SUFFICES ASSUME PluginInv, CallNext PROVE PluginInv'
    OBVIOUS
  <1> DEFINE type == round.type
             L == client.callback[type]
             m == L[round.at]
             calls == Append(round.calls, m)
  <1>1. /\ type \in Types /\ ~(round.at > Len(L))
        /\ round' = [round EXCEPT !.calls = calls, !.at = @ + 1]
        /\ UNCHANGED <<instances, nr, own, client, dispatchTo, making, undone>>
    BY DEF CallNext, AtEnd
  <1>2. /\ round # NoRound /\ L \in Seq(Made) /\ Len(L) \in Nat
        /\ round \in [type : Types, at : Nat, calls : Seq(Made), began : Seq(Made), removed : Nat]
    BY <1>1, Typed, LenProperties DEF PluginInv
  <1>3. /\ round.at >= 1 /\ Distinct(round.calls)
        /\ \A i \in 1 .. Len(L) : i >= round.at => ~Contains(round.calls, L[i])
        /\ IsFiniteSet(Missed) /\ Cardinality(Missed) <= round.removed
    BY <1>2 DEF PluginInv, RoundGoes
  <1>4. round.at \in 1 .. Len(L) /\ m \in Made /\ ~Contains(round.calls, m)
    <2>1. round.at \in 1 .. Len(L)
      BY <1>1, <1>2, <1>3
    <2> QED
      BY <1>2, <1>3, <2>1, ElementOfSeq
  <1>5. /\ calls \in Seq(Made)
        /\ Distinct(calls)
        /\ \A k : Contains(calls, k) <=> k = m \/ Contains(round.calls, k)
    BY <1>2, <1>3, <1>4, AppendOnce
  <1> HIDE DEF calls
  <1>6. /\ round' \in [type : Types, at : Nat, calls : Seq(Made), began : Seq(Made), removed : Nat]
        /\ round'.type = type /\ round'.at = round.at + 1 /\ round'.calls = calls
        /\ round'.began = round.began /\ round'.removed = round.removed
    <2>1. round' = [round EXCEPT !.calls = calls, !.at = @ + 1] /\ 0 \in Nat
      BY <1>1
    <2> QED
      BY <1>2, <1>5, <2>1, RoundAfter
  <1>7. RegistryTypes'
    <2>1. Made' = Made
      BY <1>1 DEF Made
    <2> QED
      BY <1>1, <1>6, <2>1 DEF PluginInv, RegistryTypes, Callbacks, Owners
  <1>8. TablesMirror' /\ ListsDistinct'
    BY <1>1 DEF PluginInv, TablesMirror, ListsDistinct
  <1>9. MakingFresh'
    <2>1. Contains(L, m)
      BY <1>4 DEF Contains
    <2> QED
      BY <1>1, <1>5, <1>6, <2>1 DEF PluginInv, MakingFresh
  <1>10. RoundGoes'
    <2>1. ASSUME NEW i \in 1 .. Len(L), i >= round.at + 1 PROVE ~Contains(calls, L[i])
      <3>1. i >= round.at /\ i # round.at
        BY <1>2, <2>1
      <3>2. L[i] # m
        <4>1. Distinct(L)
          BY <1>1 DEF PluginInv, ListsDistinct
        <4> QED
          BY <1>4, <3>1, <4>1 DEF Distinct
      <3> QED
        BY <1>3, <1>5, <3>1, <3>2
    <2>2. Missed' \subseteq Missed
      <3> SUFFICES ASSUME NEW k \in Missed' PROVE k \in Missed
        OBVIOUS
      <3>1. k \in ToSet(round.began) /\ ~Contains(calls, k)
        BY <1>6 DEF Missed
      <3>2. PICK i \in 1 .. Len(L) : i < round.at + 1 /\ L[i] = k
        BY <1>1, <1>6 DEF Missed
      <3>3. k # m /\ ~Contains(round.calls, k)
        BY <1>5, <3>1
      <3>4. i < round.at
        BY <1>2, <3>2, <3>3
      <3> QED
        BY <3>1, <3>2, <3>3, <3>4 DEF Missed
    <2>3. IsFiniteSet(Missed') /\ Cardinality(Missed') <= Cardinality(Missed)
      BY <1>3, <2>2, FS_Subset
    <2>4. Cardinality(Missed') <= round.removed
      <3>1. Cardinality(Missed') \in Nat /\ Cardinality(Missed) \in Nat /\ round.removed \in Nat
        BY <1>2, <1>3, <2>3, FS_CardinalityType
      <3> QED
        BY <1>3, <2>3, <3>1
    <2> QED
      BY <1>1, <1>2, <1>3, <1>5, <1>6, <2>1, <2>3, <2>4 DEF RoundGoes
  <1> QED
    BY <1>7, <1>8, <1>9, <1>10 DEF PluginInv

LEMMA EndRoundKeeps == PluginInv /\ EndRound => PluginInv'
  <1> SUFFICES ASSUME PluginInv, EndRound PROVE PluginInv'
    OBVIOUS
  <1>1. round' = NoRound /\ UNCHANGED <<instances, nr, own, client, dispatchTo, making, undone>>
    BY DEF EndRound
  <1>2. RegistryTypes'
    <2>1. Made' = Made
      BY <1>1 DEF Made
    <2> QED
      BY <1>1, <2>1 DEF PluginInv, RegistryTypes, Callbacks, Owners
  <1>3. TablesMirror' /\ ListsDistinct'
    BY <1>1 DEF PluginInv, TablesMirror, ListsDistinct
  <1>4. MakingFresh' /\ RoundGoes'
    BY <1>1 DEF PluginInv, MakingFresh, RoundGoes, NoRound
  <1> QED
    BY <1>2, <1>3, <1>4 DEF PluginInv

LEMMA PluginStepKeeps == PluginInv /\ [PluginsNext]_pluginVars => PluginInv'
  <1> SUFFICES ASSUME PluginInv, [PluginsNext]_pluginVars PROVE PluginInv'
    OBVIOUS
  <1>1. CASE UNCHANGED pluginVars
    <2>1. UNCHANGED <<instances, nr, own, client, dispatchTo, making, round>>
      BY <1>1 DEF pluginVars
    <2>2. RegistryTypes'
      <3>1. Made' = Made
        BY <2>1 DEF Made
      <3> QED
        BY <2>1, <3>1 DEF PluginInv, RegistryTypes, Callbacks, Owners
    <2>3. TablesMirror' /\ ListsDistinct'
      BY <2>1 DEF PluginInv, TablesMirror, ListsDistinct
    <2>4. MakingFresh'
      BY <2>1 DEF PluginInv, MakingFresh
    <2>5. RoundGoes'
      BY <2>1 DEF PluginInv, RoundGoes, Missed
    <2> QED
      BY <2>2, <2>3, <2>4, <2>5 DEF PluginInv
  <1> QED
    BY <1>1, LoadKeeps, InitStepKeeps, RaisesKeeps, UnregisterKeeps, EveryThingKeeps, BeginKeeps, CallKeeps,
       EndRoundKeeps DEF PluginsNext

LEMMA CalledAsPromised == PluginInv => CalledOnce
  <1> SUFFICES ASSUME PluginInv PROVE RoundCallsAll /\ TwiceOnlyAfterFailure
    BY DEF CalledOnce
  <1>1. RoundCallsAll
    <2>1. IsInjective(round.calls)
      <3>1. CASE round = NoRound
        BY <3>1 DEF IsInjective, NoRound
      <3>2. CASE round # NoRound
        <4>1. DOMAIN round.calls = 1 .. Len(round.calls)
          BY <3>2, Typed, LenProperties DEF PluginInv
        <4> QED
          BY <3>2, <4>1 DEF PluginInv, RoundGoes, Distinct, IsInjective
      <3> QED
        BY <3>1, <3>2
    <2>2. ASSUME AtEnd
          PROVE  Cardinality({m \in ToSet(round.began) : /\ Contains(client.callback[round.type], m)
                                                         /\ ~Contains(round.calls, m)}) <= round.removed
      <3>1. round # NoRound /\ round.at > Len(client.callback[round.type])
        BY <2>2, Typed DEF PluginInv, AtEnd
      <3>2. round.at \in Nat /\ Len(client.callback[round.type]) \in Nat
        BY <2>2, <3>1, Typed, LenProperties DEF PluginInv
      <3>3. \A i \in 1 .. Len(client.callback[round.type]) : i < round.at
        BY <3>1, <3>2
      <3>4. {m \in ToSet(round.began) : /\ Contains(client.callback[round.type], m)
                                        /\ ~Contains(round.calls, m)} = Missed
        BY <3>3 DEF Missed, Contains
      <3> QED
        BY <3>1, <3>4 DEF PluginInv, RoundGoes
    <2> QED
      BY <2>1, <2>2 DEF RoundCallsAll
  <1>2. TwiceOnlyAfterFailure
    <2> SUFFICES ASSUME NEW type \in Types,
                        NEW i \in DOMAIN client.callback[type], NEW j \in DOMAIN client.callback[type],
                        client.callback[type][i].class = client.callback[type][j].class, i # j
                 PROVE  /\ client.callback[type][i].nr # client.callback[type][j].nr
                        /\ Failed(client.callback[type][i].class)
      BY DEF TwiceOnlyAfterFailure
    <2> DEFINE m == client.callback[type][i]
               k == client.callback[type][j]
    <2>1. i \in 1 .. Len(client.callback[type]) /\ j \in 1 .. Len(client.callback[type])
          /\ client.callback[type] \in Seq(Made)
      BY Typed, LenProperties DEF PluginInv
    <2>2. m \in Made /\ k \in Made
      BY <2>1, ElementOfSeq
    <2>3. m # k
      BY <2>1 DEF PluginInv, ListsDistinct, Distinct
    <2> HIDE DEF m, k
    <2>4. m.nr # k.nr
      BY <2>2, <2>3 DEF m, k, Made, Methods
    <2>5. m.class \in Classes /\ nr[m.class] \in Nat /\ m.nr \in 1 .. nr[m.class] /\ k.nr \in 1 .. nr[m.class]
      BY <2>2 DEF m, k, Made, Methods, PluginInv, RegistryTypes
    <2>6. nr[m.class] > 1
      BY <2>4, <2>5
    <2>7. making.who.class = m.class => m.class \notin instances
      <3>1. making = NotMaking => making.who.class = "none"
        BY DEF NotMaking, Nobody
      <3> QED
        BY <2>5, <3>1 DEF PluginInv, MakingFresh
    <2>8. Failed(m.class)
      BY <2>5, <2>6, <2>7 DEF Failed
    <2> QED
      BY <2>4, <2>8 DEF m, k
  <1> QED
    BY <1>1, <1>2

\* Whatever the inits register, however they end, and whatever is unregistered meanwhile, all that
\* the client and the events hold of a plugin is in the class's tables: an unregister call is never
\* half done (pluginclass.py:60, :102, :146).
THEOREM UnregisterAlwaysWhole == PluginsSpec => []UnregisterWhole
  <1>1. PluginsInit => PluginInv
    BY PluginsBegin
  <1>2. PluginInv /\ [PluginsNext]_pluginVars => PluginInv'
    BY PluginStepKeeps
  <1>3. PluginInv => UnregisterWhole
    <2> SUFFICES ASSUME PluginInv, NEW event \in Events
                 PROVE  ToSet(dispatchTo[event]) \subseteq ToSet(BuiltIn) \cup ToSet(own.event[event])
      BY DEF PluginInv, TablesMirror, UnregisterWhole
    <2>1. dispatchTo[event] = BuiltIn \o own.event[event] /\ own.event[event] \in Seq(Made)
      BY DEF PluginInv, TablesMirror, RegistryTypes
    <2>2. BuiltIn \in Seq(ToSet(BuiltIn))
      OBVIOUS
    <2> QED
      BY <2>1, <2>2, ConcatProperties, LenProperties DEF ToSet
  <1> QED
    BY <1>1, <1>2, <1>3, PTL DEF PluginsSpec

\* Whatever threads register and unregister while a round walks the list, it calls nobody twice
\* and leaves out no more than were unregistered; and a callback reaches a plugin twice only after
\* an init of it has raised (ottd-client.py:140, plugins/__init__.py:45).
THEOREM AlwaysCalledOnce == PluginsSpec => []CalledOnce
  <1>1. PluginsInit => PluginInv
    BY PluginsBegin
  <1>2. PluginInv /\ [PluginsNext]_pluginVars => PluginInv'
    BY PluginStepKeeps
  <1>3. PluginInv => CalledOnce
    BY CalledAsPromised
  <1> QED
    BY <1>1, <1>2, <1>3, PTL DEF PluginsSpec

-----------------------------------------------------------------------------
(* webserver.py: the statistics                                            *)

Written == [short : BOOLEAN, map : Nat]
Datagram == [kind : {"game", "company"}, of : Nat, copy : {1, 2}]
Working == {"loop", "game", "company", "open", "write"}

StatsTypes ==
  /\ session \in Nat /\ questions \in Nat
  /\ net \subseteq Datagram /\ buffer \in Seq(Datagram)
  /\ Cached \in Seq(Written) /\ (Cached = <<>> => cache \in {NoFile, Torn})
  /\ entry \in [obj : Seq(Written), first : BOOLEAN, game : Nat, company : Nat]

Honest(entries) == \A i \in 1 .. Len(entries) : entries[i].map = session /\ (entries[i].short <=> i > 1)

\* The file and the entries read from it are one map's, and the first entry is noted as such.
OneMap ==
  /\ doing \in Working /\ ~uncleared => Honest(Cached)
  /\ doing \in Working \ {"loop"} =>
       (~uncleared => Honest(entry.obj)) /\ (entry.first <=> entry.obj = <<>>)

\* Unless a datagram was doubled one answer at most is under way, to the last question.
OneAnswer ==
  /\ doing = "closed" => net = {} /\ buffer = <<>>
  /\ ~doubled =>
       /\ \/ net = {} /\ buffer = <<>>
          \/ \E d \in net : d.of = questions /\ net = {d} /\ buffer = <<>>
          \/ net = {} /\ Len(buffer) = 1 /\ Head(buffer).of = questions
       /\ doing \in {"map", "loop", "open", "write"} => net = {} /\ buffer = <<>>
       /\ doing = "company" => entry.game + 1 = questions
       /\ doing = "open" => entry.company = questions /\ entry.game + 1 = questions

StatsInv == StatsTypes /\ OneMap /\ OneAnswer

fileVars == <<session, cache, entry, uncleared>>

\* A step that leaves the file and the entry alone, and begins no work.
LEMMA FileKeeps ==
  ASSUME StatsTypes, OneMap, UNCHANGED fileVars, doing' = doing \/ doing' \notin Working
  PROVE  OneMap' /\ Cached' = Cached
  BY DEF fileVars, OneMap, Honest, Cached, Working

\* One answer more or less.
LEMMA LastTaken ==
  ASSUME StatsTypes, buffer # <<>>
  PROVE  /\ Head(buffer) \in Datagram /\ Tail(buffer) \in Seq(Datagram)
         /\ Len(buffer) = 1 => Tail(buffer) = <<>>
  <1>1. Head(buffer) \in Datagram /\ Tail(buffer) \in Seq(Datagram) /\ Len(Tail(buffer)) = Len(buffer) - 1
    BY HeadTailProperties DEF StatsTypes
  <1> QED
    BY <1>1, EmptySeq

\* The new entry behind those read is short unless it is the first.
LEMMA EntryAdded ==
  ASSUME StatsTypes, Honest(entry.obj), entry.first <=> entry.obj = <<>>
  PROVE  Honest(Append(entry.obj, Entry))
  <1> DEFINE whole == Append(entry.obj, Entry)
  <1>1. entry.obj \in Seq(Written) /\ Entry \in Written /\ Entry.map = session /\ (Entry.short <=> ~entry.first)
    BY DEF StatsTypes, Entry, Written
  <1>2. /\ Len(entry.obj) \in Nat /\ Len(whole) = Len(entry.obj) + 1
        /\ \A i \in 1 .. Len(entry.obj) : whole[i] = entry.obj[i]
        /\ whole[Len(entry.obj) + 1] = Entry
    BY <1>1, AppendProperties, LenProperties
  <1>3. entry.obj = <<>> <=> Len(entry.obj) = 0
    BY <1>1, EmptySeq
  <1> HIDE DEF whole
  <1>4. Honest(whole)
    BY <1>1, <1>2, <1>3 DEF Honest
  <1> QED
    BY <1>4 DEF whole

LEMMA StatsBegins == StatsInit => StatsInv
  <1> SUFFICES ASSUME StatsInit PROVE StatsInv
    OBVIOUS
  <1>1. Cached = <<>> /\ entry = NoEntry /\ net = {} /\ buffer = <<>>
    BY DEF StatsInit, Cached
  <1>2. StatsTypes
    BY <1>1, EmptySeq DEF StatsInit, StatsTypes, NoEntry
  <1>3. OneMap /\ OneAnswer
    BY <1>1 DEF StatsInit, OneMap, OneAnswer, Working
  <1> QED
    BY <1>2, <1>3 DEF StatsInv

\* A session that ends takes its sockets and the answers in them with it.
LEMMA EndKeeps ==
  ASSUME StatsInv, EndSession
  PROVE  StatsInv'
  <1>1. NoEntry \in [obj : Seq(Written), first : BOOLEAN, game : Nat, company : Nat]
    BY EmptySeq DEF NoEntry
  <1>2. /\ doing' = "closed" /\ net' = {} /\ buffer' = <<>> /\ entry' = NoEntry
        /\ Cached' = Cached /\ UNCHANGED <<session, cache, questions, doubled>>
    BY DEF EndSession, Cached
  <1>3. StatsTypes'
    BY <1>1, <1>2, EmptySeq DEF StatsInv, StatsTypes
  <1> QED
    BY <1>2, <1>3 DEF StatsInv, OneMap, OneAnswer, Working

\* The network loses, doubles and delays.
LEMMA UdpKeeps ==
  ASSUME StatsInv, Lose \/ Double \/ Arrive
  PROVE  StatsInv'
  <1>1. UNCHANGED fileVars /\ UNCHANGED <<doing, questions>> /\ Cached' = Cached
    BY DEF Lose, Double, Arrive, fileVars, Cached
  <1>2. OneMap'
    BY <1>1, FileKeeps DEF StatsInv
  <1>3. CASE Lose
    <2>1. PICK d \in net : net' = net \ {d} /\ UNCHANGED <<buffer, doubled>>
      BY <1>3 DEF Lose
    <2> QED
      BY <1>1, <1>2, <2>1 DEF StatsInv, StatsTypes, OneAnswer, fileVars
  <1>4. CASE Double
    <2>1. PICK d \in net : net' = net \cup {[d EXCEPT !.copy = 2]} /\ UNCHANGED buffer /\ doubled'
      BY <1>4 DEF Double
    <2>2. net' \subseteq Datagram
      BY <2>1 DEF StatsInv, StatsTypes, Datagram
    <2> QED
      BY <1>1, <1>2, <2>1, <2>2 DEF StatsInv, StatsTypes, OneAnswer, fileVars
  <1>5. CASE Arrive
    <2>1. PICK d \in net : net' = net \ {d} /\ buffer' = Append(buffer, d) /\ UNCHANGED doubled
      BY <1>5 DEF Arrive
    <2>2. /\ buffer' \in Seq(Datagram) /\ d \in Datagram
          /\ buffer = <<>> => Len(buffer') = 1 /\ Head(buffer') = d
      BY <2>1, AppendProperties, EmptySeq DEF StatsInv, StatsTypes
    <2>3. StatsTypes'
      BY <1>1, <2>1, <2>2 DEF StatsInv, StatsTypes, fileVars
    <2>4. OneAnswer'
      BY <1>1, <2>1, <2>2 DEF StatsInv, StatsTypes, OneAnswer, fileVars
    <2> QED
      BY <1>2, <2>3, <2>4 DEF StatsInv
  <1> QED
    BY <1>3, <1>4, <1>5

\* A question is asked when no answer is under way.
LEMMA AskKeeps ==
  ASSUME StatsInv, NEW kind \in {"game", "company"}, (net = {} /\ buffer = <<>>) \/ doubled,
         Ask(kind)
  PROVE  /\ questions' = questions + 1 /\ questions' \in Nat /\ net' \subseteq Datagram
         /\ ~doubled => \E d \in net' : d.of = questions' /\ net' = {d}
  <1> DEFINE d == [kind |-> kind, of |-> questions + 1, copy |-> 1]
  <1>1. questions' = questions + 1 /\ net' = net \cup {d}
    BY DEF Ask
  <1>2. d \in Datagram /\ d.of = questions + 1
    BY DEF Datagram, StatsInv, StatsTypes
  <1> HIDE DEF d
  <1> QED
    BY <1>1, <1>2 DEF StatsInv, StatsTypes

\* What the session asks and is told.
LEMMA QuestionsKeep ==
  ASSUME StatsInv, Connect \/ GameInfo \/ UpdateStats \/ GetGameInfo \/ GetCompanyInfo
  PROVE  StatsInv'
  <1> USE DEF StatsInv
  <1>1. CASE Connect
    <2>1. /\ doing' = "first" /\ session' = session + 1 /\ Ask("game") /\ net = {} /\ buffer = <<>>
          /\ doubled' = FALSE /\ UNCHANGED <<buffer, cache, entry>> /\ Cached' = Cached
      BY <1>1 DEF Connect, OneAnswer, Cached
    <2>2. /\ questions' = questions + 1 /\ questions' \in Nat /\ net' \subseteq Datagram
          /\ \E d \in net' : d.of = questions' /\ net' = {d}
      BY <2>1 DEF Ask, StatsTypes, Datagram
    <2>3. StatsTypes'
      BY <2>1, <2>2 DEF StatsTypes
    <2>4. OneMap' /\ OneAnswer'
      BY <2>1, <2>2 DEF OneMap, OneAnswer, Working
    <2> QED
      BY <2>3, <2>4
  <1>2. CASE GameInfo
    <2>1. /\ doing' = "map" /\ buffer # <<>> /\ buffer' = Tail(buffer)
          /\ UNCHANGED fileVars /\ UNCHANGED <<questions, net, doubled>>
      BY <1>2 DEF GameInfo, Receive, fileVars
    <2>2. OneMap' /\ Cached' = Cached
      BY <2>1, FileKeeps DEF Working
    <2>3. StatsTypes'
      BY <2>1, <2>2, LastTaken DEF StatsTypes, fileVars
    <2>4. OneAnswer'
      BY <2>1, LastTaken DEF OneAnswer
    <2> QED
      BY <2>2, <2>3, <2>4
  <1>3. CASE UpdateStats
    <2>1. /\ doing = "loop" /\ doing' = "game" /\ Ask("game")
          /\ \/ cache \notin {NoFile, Torn} /\ entry' = [obj |-> Cached, first |-> FALSE, game |-> 0, company |-> 0]
             \/ entry' = [obj |-> <<>>, first |-> TRUE, game |-> 0, company |-> 0]
          /\ UNCHANGED <<session, cache, buffer, doubled, uncleared>> /\ Cached' = Cached
      BY <1>3 DEF UpdateStats, NoEntry, Cached
    <2>2. /\ questions' = questions + 1 /\ questions' \in Nat /\ net' \subseteq Datagram
          /\ ~doubled => \E d \in net' : d.of = questions' /\ net' = {d}
      BY <2>1, AskKeeps DEF OneAnswer
    <2>3. /\ entry' \in [obj : Seq(Written), first : BOOLEAN, game : Nat, company : Nat]
          /\ entry'.obj \in {Cached, <<>>} /\ (entry'.first <=> entry'.obj = <<>>)
      <3>1. CASE cache \notin {NoFile, Torn} /\ entry' = [obj |-> Cached, first |-> FALSE, game |-> 0, company |-> 0]
        BY <3>1 DEF StatsTypes
      <3>2. CASE entry' = [obj |-> <<>>, first |-> TRUE, game |-> 0, company |-> 0]
        BY <3>2, EmptySeq
      <3> QED
        BY <2>1, <3>1, <3>2
    <2>4. StatsTypes'
      BY <2>1, <2>2, <2>3 DEF StatsTypes
    <2>5. OneMap'
      <3>1. Len(<<>>) = 0
        BY EmptySeq
      <3> QED
        BY <2>1, <2>3, <3>1 DEF OneMap, Working, Honest
    <2>6. OneAnswer'
      BY <2>1, <2>2 DEF OneAnswer
    <2> QED
      BY <2>4, <2>5, <2>6
  <1>4. CASE GetGameInfo
    <2> DEFINE d == [kind |-> "company", of |-> questions + 1, copy |-> 1]
    <2>1. /\ doing = "game" /\ doing' = "company" /\ buffer # <<>> /\ buffer' = Tail(buffer)
          /\ entry' = [entry EXCEPT !.game = Head(buffer).of]
          /\ questions' = questions + 1 /\ net' = net \cup {d}
          /\ UNCHANGED <<session, cache, doubled, uncleared>> /\ Cached' = Cached
      BY <1>4 DEF GetGameInfo, Receive, Cached
    <2>2. d \in Datagram /\ d.of = questions + 1
      BY DEF Datagram, StatsTypes
    <2> HIDE DEF d
    <2>3. Head(buffer).of \in Nat
      BY <2>1, LastTaken DEF Datagram
    <2>4. entry' \in [obj : Seq(Written), first : BOOLEAN, game : Nat, company : Nat]
      BY <2>1, <2>3 DEF StatsTypes
    <2>5. entry'.obj = entry.obj /\ entry'.first = entry.first /\ entry'.game = Head(buffer).of
      BY <2>1 DEF StatsTypes
    <2>6. StatsTypes'
      BY <2>1, <2>2, <2>4, LastTaken DEF StatsTypes
    <2>7. OneMap'
      BY <2>1, <2>5 DEF OneMap, Working, Honest
    <2>8. OneAnswer'
      BY <2>1, <2>2, <2>5, LastTaken DEF OneAnswer
    <2> QED
      BY <2>6, <2>7, <2>8
  <1>5. CASE GetCompanyInfo
    <2>1. /\ doing = "company" /\ doing' = "open" /\ buffer # <<>> /\ buffer' = Tail(buffer)
          /\ entry' = [entry EXCEPT !.company = Head(buffer).of]
          /\ UNCHANGED <<session, cache, questions, net, doubled, uncleared>> /\ Cached' = Cached
      BY <1>5 DEF GetCompanyInfo, Receive, Cached
    <2>2. Head(buffer).of \in Nat
      BY <2>1, LastTaken DEF Datagram
    <2>3. entry' \in [obj : Seq(Written), first : BOOLEAN, game : Nat, company : Nat]
      BY <2>1, <2>2 DEF StatsTypes
    <2>4. /\ entry'.obj = entry.obj /\ entry'.first = entry.first /\ entry'.game = entry.game
          /\ entry'.company = Head(buffer).of
      BY <2>1 DEF StatsTypes
    <2>5. StatsTypes'
      BY <2>1, <2>3, LastTaken DEF StatsTypes
    <2>6. OneMap'
      BY <2>1, <2>4 DEF OneMap, Working, Honest
    <2>7. OneAnswer'
      BY <2>1, <2>4, LastTaken DEF OneAnswer
    <2> QED
      BY <2>5, <2>6, <2>7
  <1> QED
    BY <1>1, <1>2, <1>3, <1>4, <1>5

\* What becomes of the file.
LEMMA FileStepsKeep ==
  ASSUME StatsInv, MapDone \/ ReloadConfig \/ OpenFile \/ WriteFile \/ WriteFails
  PROVE  StatsInv'
  <1> USE DEF StatsInv
  <1>1. CASE MapDone
    <2>1. /\ doing = "map" /\ doing' = "loop" /\ UNCHANGED <<session, entry>> /\ UNCHANGED udpVars
          /\ \/ cache' = NoFile
             \/ uncleared' /\ UNCHANGED cache
      BY <1>1 DEF MapDone, ClearStats
    <2>2. \/ Cached' = <<>> /\ cache' = NoFile
          \/ Cached' = Cached /\ uncleared' /\ UNCHANGED cache
      BY <2>1 DEF Cached
    <2>3. StatsTypes'
      BY <2>1, <2>2, EmptySeq DEF StatsTypes, udpVars
    <2>4. OneMap'
      BY <2>1, <2>2, EmptySeq DEF OneMap, Working, Honest
    <2>5. OneAnswer'
      BY <2>1 DEF OneAnswer, udpVars
    <2> QED
      BY <2>3, <2>4, <2>5
  <1>2. CASE ReloadConfig
    <2>1. UNCHANGED fileVars /\ UNCHANGED udpVars /\ UNCHANGED doing
      BY <1>2 DEF ReloadConfig, fileVars
    <2>2. OneMap' /\ Cached' = Cached
      BY <2>1, FileKeeps
    <2> QED
      BY <2>1, <2>2 DEF StatsTypes, OneAnswer, fileVars, udpVars
  <1>3. CASE OpenFile
    <2>1. /\ doing = "open" /\ doing' = "write" /\ cache' = Torn /\ Cached' = <<>>
          /\ UNCHANGED <<session, entry, uncleared>> /\ UNCHANGED udpVars
      BY <1>3 DEF OpenFile, Cached
    <2>2. StatsTypes'
      BY <2>1, EmptySeq DEF StatsTypes, udpVars
    <2>3. OneMap'
      BY <2>1, EmptySeq DEF OneMap, Working, Honest
    <2>4. OneAnswer'
      BY <2>1 DEF OneAnswer, udpVars
    <2> QED
      BY <2>2, <2>3, <2>4
  <1>4. CASE WriteFile
    <2> DEFINE whole == Append(entry.obj, Entry)
    <2>1. /\ doing = "write" /\ doing' = "loop" /\ cache' = whole /\ entry' = NoEntry
          /\ UNCHANGED <<session, uncleared>> /\ UNCHANGED udpVars
      BY <1>4 DEF WriteFile
    <2>2. whole \in Seq(Written) /\ whole # <<>>
      <3>1. entry.obj \in Seq(Written) /\ Entry \in Written
        BY DEF StatsTypes, Entry, Written
      <3> QED
        BY <3>1, AppendProperties
    <2>3. ~uncleared => Honest(whole)
      BY <2>1, EntryAdded DEF OneMap, Working
    <2> HIDE DEF whole
    <2>4. \/ Cached' = <<>> /\ cache' \in {NoFile, Torn}
          \/ Cached' = whole
      <3>1. Cached' = IF cache' \in {NoFile, Torn} THEN <<>> ELSE cache'
        BY DEF Cached
      <3> QED
        BY <2>1, <3>1
    <2>5. /\ NoEntry.obj = <<>>
          /\ NoEntry \in [obj : Seq(Written), first : BOOLEAN, game : Nat, company : Nat]
      BY EmptySeq DEF NoEntry
    <2>6. StatsTypes'
      BY <2>1, <2>2, <2>4, <2>5, EmptySeq DEF StatsTypes, udpVars
    <2>7. OneMap'
      BY <2>1, <2>3, <2>4, <2>5, EmptySeq DEF OneMap, Working, Honest
    <2>8. OneAnswer'
      BY <2>1 DEF OneAnswer, udpVars
    <2> QED
      BY <2>6, <2>7, <2>8
  <1>5. CASE WriteFails
    <2>1. CASE EndSession
      BY <2>1, EndKeeps
    <2>2. CASE ~EndSession
      <3>1. /\ doing \in {"open", "write"} /\ doing' = "loop" /\ entry' = NoEntry
            /\ UNCHANGED <<session, cache, uncleared>> /\ UNCHANGED udpVars /\ Cached' = Cached
        BY <1>5, <2>2 DEF WriteFails, Cached
      <3>2. /\ NoEntry.obj = <<>>
            /\ NoEntry \in [obj : Seq(Written), first : BOOLEAN, game : Nat, company : Nat]
        BY EmptySeq DEF NoEntry
      <3>3. StatsTypes'
        BY <3>1, <3>2 DEF StatsTypes, udpVars
      <3>4. OneMap'
        BY <3>1, <3>2, EmptySeq DEF OneMap, Working, Honest
      <3>5. OneAnswer'
        BY <3>1 DEF OneAnswer, udpVars
      <3> QED
        BY <3>3, <3>4, <3>5
    <2> QED
      BY <2>1, <2>2
  <1> QED
    BY <1>1, <1>2, <1>3, <1>4, <1>5

LEMMA StatsStepKeeps == StatsInv /\ [StatsNext]_statsVars => StatsInv'
  <1> SUFFICES ASSUME StatsInv, [StatsNext]_statsVars PROVE StatsInv'
    OBVIOUS
  <1>1. CASE Lose \/ Double \/ Arrive
    BY <1>1, UdpKeeps
  <1>2. CASE Fails \/ Goodbye \/ UpdateStatsTorn
    BY <1>2, EndKeeps DEF Fails, Goodbye, UpdateStatsTorn
  <1>3. CASE Connect \/ GameInfo \/ UpdateStats \/ GetGameInfo \/ GetCompanyInfo
    BY <1>3, QuestionsKeep
  <1>4. CASE MapDone \/ ReloadConfig \/ OpenFile \/ WriteFile \/ WriteFails
    BY <1>4, FileStepsKeep
  <1>5. CASE UNCHANGED statsVars
    <2>1. UNCHANGED fileVars /\ UNCHANGED udpVars /\ UNCHANGED doing
      BY <1>5 DEF statsVars, fileVars, udpVars
    <2>2. OneMap' /\ Cached' = Cached
      BY <2>1, FileKeeps DEF StatsInv
    <2> QED
      BY <2>1, <2>2 DEF StatsInv, StatsTypes, OneAnswer, fileVars, udpVars
  <1> QED
    BY <1>1, <1>2, <1>3, <1>4, <1>5 DEF StatsNext

\* However many sessions and questions there are, and whichever answers are lost, late or
\* reordered: the cache file holds one map's entries and an entry the answers to its own
\* questions, but for the cases that StatsHonest names (webserver.py:45, :68, :70; client.py:459).
THEOREM StatsAlwaysHonest == StatsSpec => []StatsHonest
  <1>1. StatsInv => StatsHonest
    <2> SUFFICES ASSUME StatsInv PROVE StatsHonest
      OBVIOUS
    <2>1. DOMAIN Cached = 1 .. Len(Cached)
      BY LenProperties DEF StatsInv, StatsTypes
    <2> QED
      BY <2>1 DEF StatsInv, StatsHonest, OneMap, OneAnswer, Honest, Working
  <1> QED
    BY StatsBegins, StatsStepKeeps, <1>1, PTL DEF StatsSpec

-----------------------------------------------------------------------------
(* ottd-serverstats.py                                                      *)

Grfs == [id : Ids, md5 : Sums]
Named == [id : Ids, md5 : Sums, name : Sums \cup {Unknown}]
Early == {"none", "info", "look", "ask"}

ToolTypes ==
  /\ main \in {"list", "wait", "failed", "counted"}
  /\ query \in [Hosts -> {"none", "info", "look", "ask", "name", "end"}]
  /\ version \in [Hosts -> Versions \cup {0}]
  /\ SERVERS \subseteq Hosts /\ cut \subseteq Hosts
  /\ newgrfs \in [Hosts -> Seq(Named)]
  /\ unknown \in [Hosts -> SUBSET Grfs]
  /\ omitted \in [Hosts -> SUBSET Sums]
  /\ database \in [Sums -> Sums \cup {Unknown}]

\* The table of names never holds another NewGRF's.
TableTrue == \A m \in Sums : database[m] \in {m, Unknown}

\* What a thread has listed is the beginning of its server's NewGRFs, and the names are honest.
ListedTrue(h) ==
  \A i \in 1 .. Len(newgrfs[h]) :
    LET g == newgrfs[h][i] IN
    /\ i <= Len(GrfsOf[h]) /\ g.id = GrfsOf[h][i].id /\ g.md5 = GrfsOf[h][i].md5
    /\ g.name = g.md5 \/ (g.name = Unknown /\ g.md5 \in omitted[h])

\* Whoever is not in the list of answers has a name by now, or was asked for and left out.
Accounted(h) ==
  \A i \in 1 .. Len(GrfsOf[h]) :
    LET g == GrfsOf[h][i] IN g \in unknown[h] \/ HasGrf(g.md5) \/ g.md5 \in omitted[h]

\* The hosts whose NewGRFs are all listed in the end.
Tells(h) == h \notin cut /\ version[h] >= 4 /\ GrfsOf[h] # <<>>

ThreadTrue(h) ==
  /\ query[h] \in {"none", "info"} => h \notin SERVERS /\ h \notin cut
  /\ query[h] \in Early => newgrfs[h] = <<>> /\ omitted[h] = {}
  /\ query[h] \in {"look", "ask", "name"} => h \in SERVERS /\ Tells(h)
  /\ query[h] \in {"ask", "name"} => unknown[h] \subseteq Range(GrfsOf[h]) /\ Accounted(h)
  /\ query[h] = "name" => Len(newgrfs[h]) < Len(GrfsOf[h])
  /\ query[h] = "end" /\ h \in SERVERS =>
       IF Tells(h) THEN Len(newgrfs[h]) = Len(GrfsOf[h]) ELSE newgrfs[h] = <<>>

CountTrue ==
  /\ main = "list" => \A h \in Hosts : query[h] = "none"
  /\ main = "counted" =>
       /\ \A h \in Hosts : query[h] = "end"
       /\ counted.newgrf = Cardinality({h \in SERVERS : IsNewgrfServer(h)})

ToolInv ==
  /\ ToolTypes /\ TableTrue /\ CountTrue
  /\ \A h \in Hosts : ListedTrue(h) /\ ThreadTrue(h)

-----------------------------------------------------------------------------

USE ServerStatsAssumption DEF ServerStatsAssumption

LEMMA GrfAt ==
  ASSUME NEW h \in Hosts
  PROVE  /\ GrfsOf[h] \in Seq(Grfs) /\ Len(GrfsOf[h]) \in Nat
         /\ DOMAIN GrfsOf[h] = 1 .. Len(GrfsOf[h])
         /\ \A i \in 1 .. Len(GrfsOf[h]) : GrfsOf[h][i] \in Grfs
         /\ \A i, j \in 1 .. Len(GrfsOf[h]) : GrfsOf[h][i].id = GrfsOf[h][j].id => i = j
         /\ Range(GrfsOf[h]) = {GrfsOf[h][i] : i \in 1 .. Len(GrfsOf[h])}
         /\ GrfsOf[h] = <<>> <=> Len(GrfsOf[h]) = 0
  <1>1. GrfsOf[h] \in Seq(Grfs)
    BY DEF Grfs
  <1>2. DOMAIN GrfsOf[h] = 1 .. Len(GrfsOf[h]) /\ Len(GrfsOf[h]) \in Nat
    BY <1>1, LenProperties
  <1> QED
    BY <1>1, <1>2, ElementOfSeq, EmptySeq DEF Range

LEMMA ToolBegins == StatsToolInit => ToolInv
  <1> SUFFICES ASSUME StatsToolInit PROVE ToolInv
    OBVIOUS
  <1>1. ToolTypes
    BY DEF StatsToolInit, ToolTypes
  <1>2. TableTrue /\ CountTrue
    BY DEF StatsToolInit, TableTrue, CountTrue
  <1>3. ASSUME NEW h \in Hosts PROVE ListedTrue(h) /\ ThreadTrue(h)
    BY DEF StatsToolInit, ListedTrue, ThreadTrue, Early
  <1> QED
    BY <1>1, <1>2, <1>3 DEF ToolInv

\* A step of one thread keeps what is true of the others, whose NewGRFs may only get names.
LEMMA OthersKeep ==
  ASSUME ToolInv, NEW h \in Hosts, NEW o \in Hosts, o # h, SERVERS' \subseteq SERVERS \cup {h},
         SERVERS \subseteq SERVERS',
         cut' \subseteq cut \cup {h}, cut \subseteq cut',
         query'[o] = query[o], version'[o] = version[o], newgrfs'[o] = newgrfs[o],
         unknown'[o] = unknown[o], omitted'[o] = omitted[o],
         \A m \in Sums : HasGrf(m) => HasGrf(m)'
  PROVE  (ListedTrue(o) /\ ThreadTrue(o))'
  <1>1. ListedTrue(o)'
    <2>1. ListedTrue(o)
      BY DEF ToolInv
    <2> QED
      BY <2>1 DEF ListedTrue
  <1>2. Tells(o)' <=> Tells(o)
    BY DEF Tells
  <1>3. Accounted(o) => Accounted(o)'
    BY GrfAt DEF Accounted, Grfs
  <1>4. o \in SERVERS <=> o \in SERVERS'
    OBVIOUS
  <1>5. ThreadTrue(o)'
    <2>1. ThreadTrue(o)
      BY DEF ToolInv
    <2>2. /\ query'[o] \in {"none", "info"} => o \notin SERVERS' /\ o \notin cut'
          /\ query'[o] \in Early => newgrfs'[o] = <<>> /\ omitted'[o] = {}
          /\ query'[o] \in {"look", "ask", "name"} => o \in SERVERS' /\ Tells(o)'
          /\ query'[o] = "name" => Len(newgrfs'[o]) < Len(GrfsOf[o])
      BY <1>2, <1>4, <2>1 DEF ThreadTrue
    <2>3. query'[o] \in {"ask", "name"} => unknown'[o] \subseteq Range(GrfsOf[o]) /\ Accounted(o)'
      BY <1>3, <2>1 DEF ThreadTrue
    <2>4. query'[o] = "end" /\ o \in SERVERS' =>
            IF Tells(o)' THEN Len(newgrfs'[o]) = Len(GrfsOf[o]) ELSE newgrfs'[o] = <<>>
      BY <1>2, <1>4, <2>1 DEF ThreadTrue
    <2> QED
      BY <2>2, <2>3, <2>4 DEF ThreadTrue
  <1> QED
    BY <1>1, <1>5

LEMMA ListKeeps == ToolInv /\ GetServerList => ToolInv'
  <1> SUFFICES ASSUME ToolInv, GetServerList PROVE ToolInv'
    OBVIOUS
  <1> USE DEF GetServerList
  <1>1. ToolTypes'
    BY DEF ToolInv, ToolTypes
  <1>2. TableTrue' /\ CountTrue'
    BY DEF ToolInv, TableTrue, CountTrue
  <1>3. ASSUME NEW h \in Hosts PROVE (ListedTrue(h) /\ ThreadTrue(h))'
    <2>1. ListedTrue(h)'
      BY DEF ToolInv, ListedTrue
    <2>2. query[h] = "none"
      BY DEF ToolInv, CountTrue
    <2>3. query'[h] \in {"none", "info"}
      BY <2>2
    <2>4. ThreadTrue(h)'
      BY <2>2, <2>3 DEF ToolInv, ThreadTrue, Early
    <2> QED
      BY <2>1, <2>4
  <1> QED
    BY <1>1, <1>2, <1>3 DEF ToolInv

LEMMA InfoKeeps == ASSUME NEW h \in Hosts, ToolInv, GameInfoOf(h) PROVE ToolInv'
  <1> USE DEF GameInfoOf
  <1>1. ToolTypes'
    <2>1. query' \in [Hosts -> {"none", "info", "look", "ask", "name", "end"}]
      BY DEF ToolInv, ToolTypes
    <2>2. version' \in [Hosts -> Versions \cup {0}]
      BY DEF ToolInv, ToolTypes
    <2>3. SERVERS' \subseteq Hosts
      BY DEF ToolInv, ToolTypes
    <2> QED
      BY <2>1, <2>2, <2>3 DEF ToolInv, ToolTypes
  <1>2. TableTrue' /\ CountTrue'
    BY DEF ToolInv, TableTrue, CountTrue
  <1>3. ASSUME NEW o \in Hosts, o # h PROVE (ListedTrue(o) /\ ThreadTrue(o))'
    BY <1>3, OthersKeep DEF ToolInv, ToolTypes, HasGrf
  <1>4. ListedTrue(h)'
    BY DEF ToolInv, ListedTrue
  <1>5. ThreadTrue(h)'
    <2>1. newgrfs'[h] = <<>> /\ omitted'[h] = {} /\ h \notin cut'
      BY DEF ToolInv, ThreadTrue, Early
    <2>2. CASE query'[h] = "end" /\ h \notin SERVERS'
      BY <2>1, <2>2 DEF ThreadTrue, Early
    <2>3. CASE h \in SERVERS' /\ query'[h] = IF Tells(h)' THEN "look" ELSE "end"
      BY <2>1, <2>3 DEF ThreadTrue, Early
    <2>4. ASSUME NEW v \in Versions,
                 version' = [version EXCEPT ![h] = v], SERVERS' = SERVERS \cup {h},
                 query' = [query EXCEPT ![h] = IF v < 4 \/ GrfsOf[h] = <<>> THEN "end" ELSE "look"]
          PROVE  query'[h] = IF Tells(h)' THEN "look" ELSE "end"
      <3>1. version'[h] = v /\ v \in Nat
        BY <2>4 DEF ToolInv, ToolTypes
      <3>2. Tells(h)' <=> ~(v < 4 \/ GrfsOf[h] = <<>>)
        BY <2>1, <3>1 DEF Tells
      <3> QED
        BY <2>4, <3>2 DEF ToolInv, ToolTypes
    <2>5. h \notin SERVERS
      BY DEF ToolInv, ThreadTrue
    <2> QED
      BY <2>2, <2>3, <2>4, <2>5 DEF ToolInv, ToolTypes
  <1> QED
    BY <1>1, <1>2, <1>3, <1>4, <1>5 DEF ToolInv

LEMMA LookKeeps == ASSUME NEW h \in Hosts, ToolInv, GetGrfsNotInList(h) PROVE ToolInv'
  <1> USE DEF GetGrfsNotInList
  <1>1. ToolTypes'
    <2>1. Range(GrfsOf[h]) \subseteq Grfs
      BY GrfAt
    <2> QED
      BY <2>1 DEF ToolInv, ToolTypes
  <1>2. TableTrue' /\ CountTrue'
    BY DEF ToolInv, TableTrue, CountTrue
  <1>3. ASSUME NEW o \in Hosts, o # h PROVE (ListedTrue(o) /\ ThreadTrue(o))'
    BY <1>3, OthersKeep DEF ToolInv, ToolTypes, HasGrf
  <1>4. ListedTrue(h)'
    BY DEF ToolInv, ListedTrue
  <1>5. ThreadTrue(h)'
    <2>1. query'[h] \in {"ask", "name"} /\ h \in SERVERS /\ Tells(h) /\ omitted'[h] = {}
      BY DEF ToolInv, ToolTypes, ThreadTrue, Early
    <2>2. unknown'[h] = {g \in Range(GrfsOf[h]) : ~HasGrf(g.md5)}
      BY DEF ToolInv, ToolTypes
    <2>3. Accounted(h)'
      BY <2>2, GrfAt DEF Accounted, HasGrf
    <2>4. newgrfs[h] = <<>> /\ Len(newgrfs[h]) < Len(GrfsOf[h])
      <3>1. newgrfs[h] = <<>> /\ GrfsOf[h] # <<>>
        BY <2>1 DEF ToolInv, ThreadTrue, Early, Tells
      <3> QED
        BY <3>1, GrfAt
    <2> QED
      BY <2>1, <2>2, <2>3, <2>4 DEF ThreadTrue, Early, Tells
  <1> QED
    BY <1>1, <1>2, <1>3, <1>4, <1>5 DEF ToolInv

LEMMA AskKeepsTool == ASSUME NEW h \in Hosts, ToolInv, GetGRFInfo(h) PROVE ToolInv'
  <1> USE DEF GetGRFInfo
  <1>1. ToolTypes'
    <2>1. query' \in [Hosts -> {"none", "info", "look", "ask", "name", "end"}]
      BY DEF ToolInv, ToolTypes
    <2>2. unknown' \in [Hosts -> SUBSET Grfs]
      <3>1. unknown \in [Hosts -> SUBSET Grfs]
        BY DEF ToolInv, ToolTypes
      <3>2. \A named \in SUBSET unknown[h] : named \in SUBSET Grfs
        BY <3>1
      <3> QED
        BY <3>1, <3>2
    <2>3. omitted' \in [Hosts -> SUBSET Sums]
      <3>1. \A named : {g.md5 : g \in unknown[h] \ named} \in SUBSET Sums
        BY DEF ToolInv, ToolTypes, Grfs
      <3>2. omitted \in [Hosts -> SUBSET Sums]
        BY DEF ToolInv, ToolTypes
      <3> QED
        BY <3>1, <3>2
    <2>4. cut' \subseteq Hosts
      BY DEF ToolInv, ToolTypes
    <2> QED
      BY <2>1, <2>2, <2>3, <2>4 DEF ToolInv, ToolTypes
  <1>2. TableTrue' /\ CountTrue'
    BY DEF ToolInv, TableTrue, CountTrue
  <1>3. ASSUME NEW o \in Hosts, o # h PROVE (ListedTrue(o) /\ ThreadTrue(o))'
    BY <1>3, OthersKeep DEF ToolInv, ToolTypes, HasGrf
  <1>4. newgrfs[h] = <<>> /\ h \in SERVERS /\ Tells(h) /\ unknown[h] \subseteq Range(GrfsOf[h]) /\ Accounted(h)
    BY DEF ToolInv, ThreadTrue, Early
  <1>5. ListedTrue(h)'
    BY <1>4 DEF ListedTrue
  <1>6. ThreadTrue(h)'
    <2>1. CASE query'[h] = "end"
      BY <1>4, <2>1 DEF ToolInv, ToolTypes, ThreadTrue, Tells, Early
    <2>2. CASE query'[h] = "name"
      <3>1. PICK named \in SUBSET unknown[h] :
              /\ unknown' = [unknown EXCEPT ![h] = named]
              /\ omitted' = [omitted EXCEPT ![h] = {g.md5 : g \in unknown[h] \ named}]
              /\ UNCHANGED cut
        BY <2>2 DEF ToolInv, ToolTypes
      <3>2. unknown'[h] = named /\ omitted'[h] = {g.md5 : g \in unknown[h] \ named}
        BY <3>1 DEF ToolInv, ToolTypes
      <3>3. ASSUME NEW i \in 1 .. Len(GrfsOf[h])
            PROVE  LET g == GrfsOf[h][i] IN g \in named \/ HasGrf(g.md5)' \/ g.md5 \in omitted'[h]
        <4>1. GrfsOf[h][i] \in Grfs
          BY GrfAt
        <4>2. omitted[h] = {}
          BY DEF ToolInv, ThreadTrue, Early
        <4> QED
          BY <1>4, <3>2, <4>1, <4>2 DEF Accounted, HasGrf
      <3>4. Accounted(h)'
        BY <3>2, <3>3 DEF Accounted
      <3>5. Len(newgrfs[h]) < Len(GrfsOf[h])
        BY <1>4, GrfAt DEF Tells
      <3> QED
        BY <1>4, <2>2, <3>1, <3>2, <3>4, <3>5 DEF ThreadTrue, Tells, Early
    <2> QED
      BY <2>1, <2>2 DEF ToolInv, ToolTypes
  <1> QED
    BY <1>1, <1>2, <1>3, <1>5, <1>6 DEF ToolInv

\* The names a thread adds are its NewGRFs' own, and no name is lost.
LEMMA AddKeeps ==
  ASSUME ToolInv, NEW h \in Hosts, NEW i \in 1 .. Len(GrfsOf[h]),
         unknown[h] \subseteq Range(GrfsOf[h]), Accounted(h),
         IF HasGrf(GrfsOf[h][i].md5) THEN UNCHANGED database
         ELSE AddGrfInList(unknown[h], GrfsOf[h][i].id)
  PROVE  /\ database' \in [Sums -> Sums \cup {Unknown}] /\ TableTrue'
         /\ \A m \in Sums : HasGrf(m) => HasGrf(m)'
         /\ LET name == database'[GrfsOf[h][i].md5] IN
            \/ name = GrfsOf[h][i].md5
            \/ name = Unknown /\ GrfsOf[h][i].md5 \in omitted[h]
  <1> DEFINE grf == GrfsOf[h][i]
             those == {g \in unknown[h] : g.id = grf.id}
  <1>1. grf \in Grfs /\ grf.md5 \in Sums
    BY GrfAt DEF Grfs
  <1>2. database \in [Sums -> Sums \cup {Unknown}] /\ \A m \in Sums : database[m] \in {m, Unknown}
    BY DEF ToolInv, ToolTypes, TableTrue
  <1>3. CASE HasGrf(grf.md5) \/ those = {}
    <2>1. UNCHANGED database
      BY <1>3 DEF AddGrfInList
    <2>2. HasGrf(grf.md5) \/ grf.md5 \in omitted[h]
      BY <1>3 DEF Accounted
    <2> QED
      BY <1>1, <1>2, <2>1, <2>2 DEF HasGrf, TableTrue
  <1>4. CASE ~HasGrf(grf.md5) /\ those # {}
    <2>1. PICK found \in those : database' = [database EXCEPT ![found.md5] = found.md5]
      BY <1>4 DEF AddGrfInList
    <2>2. found = grf
      <3>1. found \in Range(GrfsOf[h]) /\ found.id = grf.id
        OBVIOUS
      <3>2. PICK j \in 1 .. Len(GrfsOf[h]) : found = GrfsOf[h][j]
        BY <3>1, GrfAt
      <3>3. \A k, l \in 1 .. Len(GrfsOf[h]) : GrfsOf[h][k].id = GrfsOf[h][l].id => k = l
        BY GrfAt
      <3>4. j = i
        BY <3>1, <3>2, <3>3
      <3> QED
        BY <3>2, <3>4
    <2> QED
      BY <1>1, <1>2, <2>1, <2>2 DEF HasGrf, TableTrue
  <1> QED
    BY <1>3, <1>4

LEMMA NameKeeps == ASSUME NEW h \in Hosts, ToolInv, NameGrf(h) PROVE ToolInv'
  <1> DEFINE i == Len(newgrfs[h]) + 1
             grf == GrfsOf[h][i]
             new == [id |-> grf.id, md5 |-> grf.md5, name |-> database'[grf.md5]]
  <1>1. newgrfs[h] \in Seq(Named) /\ Len(newgrfs[h]) \in Nat /\ i \in 1 .. Len(GrfsOf[h]) /\ grf \in Grfs
    <2>1. newgrfs[h] \in Seq(Named) /\ Len(newgrfs[h]) \in Nat
      BY LenProperties DEF ToolInv, ToolTypes
    <2>2. i \in 1 .. Len(GrfsOf[h])
      BY <2>1, GrfAt DEF NameGrf
    <2> QED
      BY <2>1, <2>2, GrfAt
  <1>2. /\ query[h] = "name" /\ h \in SERVERS /\ Tells(h)
        /\ unknown[h] \subseteq Range(GrfsOf[h]) /\ Accounted(h)
    BY DEF ToolInv, ThreadTrue, NameGrf
  <1>3. /\ database' \in [Sums -> Sums \cup {Unknown}] /\ TableTrue'
        /\ \A m \in Sums : HasGrf(m) => HasGrf(m)'
        /\ new.name = new.md5 \/ (new.name = Unknown /\ new.md5 \in omitted[h])
    BY <1>1, <1>2, AddKeeps DEF NameGrf
  <1>4. new \in Named
    BY <1>1, <1>3 DEF Named, Grfs
  <1>5. newgrfs' = [newgrfs EXCEPT ![h] = Append(@, new)]
    BY DEF NameGrf, GetGrfName
  <1>6. /\ newgrfs'[h] = Append(newgrfs[h], new) /\ newgrfs'[h] \in Seq(Named)
        /\ Len(newgrfs'[h]) = i /\ newgrfs'[h][i] = new /\ newgrfs'[h] # <<>>
        /\ \A j \in 1 .. Len(newgrfs[h]) : newgrfs'[h][j] = newgrfs[h][j]
    <2> DEFINE all == Append(newgrfs[h], new)
    <2>1. newgrfs'[h] = all
      BY <1>5 DEF ToolInv, ToolTypes
    <2> HIDE DEF new
    <2>2. /\ all \in Seq(Named) /\ Len(all) = i /\ all[i] = new
          /\ \A j \in 1 .. Len(newgrfs[h]) : all[j] = newgrfs[h][j]
      BY <1>1, <1>4, AppendProperties
    <2> HIDE DEF all
    <2>3. all # <<>>
      BY <1>1, <2>2, EmptySeq
    <2> QED
      BY <2>1, <2>2, <2>3 DEF all
  <1> HIDE DEF new
  <1>7. UNCHANGED <<main, version, SERVERS, unknown, omitted, cut, counted>>
        /\ query' = [query EXCEPT ![h] = IF Len(newgrfs'[h]) = Len(GrfsOf[h]) THEN "end" ELSE "name"]
    BY DEF NameGrf
  <1>8. ToolTypes'
    <2>1. newgrfs' \in [Hosts -> Seq(Named)]
      BY <1>5, <1>6 DEF ToolInv, ToolTypes
    <2> QED
      BY <1>3, <1>7, <2>1 DEF ToolInv, ToolTypes
  <1>9. CountTrue'
    BY <1>2, <1>7 DEF ToolInv, CountTrue, ToolTypes
  <1>10. ASSUME NEW o \in Hosts, o # h PROVE (ListedTrue(o) /\ ThreadTrue(o))'
    BY <1>3, <1>5, <1>7, <1>10, OthersKeep DEF ToolInv, ToolTypes
  <1>11. ListedTrue(h)'
    <2>1. ASSUME NEW j \in 1 .. Len(newgrfs[h])
          PROVE  LET g == newgrfs'[h][j] IN
                 /\ j <= Len(GrfsOf[h]) /\ g.id = GrfsOf[h][j].id /\ g.md5 = GrfsOf[h][j].md5
                 /\ g.name = g.md5 \/ (g.name = Unknown /\ g.md5 \in omitted'[h])
      BY <1>6, <1>7 DEF ToolInv, ListedTrue
    <2>2. /\ i <= Len(GrfsOf[h]) /\ new.id = GrfsOf[h][i].id /\ new.md5 = GrfsOf[h][i].md5
          /\ new.name = new.md5 \/ (new.name = Unknown /\ new.md5 \in omitted'[h])
      BY <1>1, <1>3, <1>7, GrfAt DEF new
    <2>3. \A j \in 1 .. Len(newgrfs'[h]) : j \in 1 .. Len(newgrfs[h]) \/ j = i
      BY <1>1, <1>6
    <2> QED
      BY <1>6, <2>1, <2>2, <2>3 DEF ListedTrue
  <1>12. ThreadTrue(h)'
    <2>1. Tells(h)' /\ Accounted(h)'
      <3>1. Tells(h)'
        BY <1>2, <1>7 DEF Tells
      <3>2. \A j \in 1 .. Len(GrfsOf[h]) : GrfsOf[h][j].md5 \in Sums
        BY GrfAt DEF Grfs
      <3> QED
        BY <1>2, <1>3, <1>7, <3>1, <3>2 DEF Accounted
    <2>2. query'[h] = IF Len(newgrfs'[h]) = Len(GrfsOf[h]) THEN "end" ELSE "name"
      BY <1>7 DEF ToolInv, ToolTypes
    <2>3. Len(newgrfs'[h]) = Len(GrfsOf[h]) \/ Len(newgrfs'[h]) < Len(GrfsOf[h])
      BY <1>1, <1>6, GrfAt
    <2> QED
      BY <1>2, <1>7, <2>1, <2>2, <2>3 DEF ThreadTrue, Early
  <1> QED
    BY <1>3, <1>8, <1>9, <1>10, <1>11, <1>12 DEF ToolInv

LEMMA CountKeeps == ToolInv /\ Count => ToolInv'
  <1> SUFFICES ASSUME ToolInv, Count PROVE ToolInv'
    OBVIOUS
  <1> USE DEF Count
  <1>1. ToolTypes'
    BY DEF ToolInv, ToolTypes
  <1>2. TableTrue' /\ CountTrue'
    BY DEF ToolInv, TableTrue, CountTrue, IsNewgrfServer
  <1>3. ASSUME NEW h \in Hosts PROVE (ListedTrue(h) /\ ThreadTrue(h))'
    BY DEF ToolInv, ListedTrue, ThreadTrue, Tells, Accounted, HasGrf
  <1> QED
    BY <1>1, <1>2, <1>3 DEF ToolInv

LEMMA ToolStepKeeps == ToolInv /\ [StatsToolNext]_serverVars => ToolInv'
  <1> SUFFICES ASSUME ToolInv, [StatsToolNext]_serverVars PROVE ToolInv'
    OBVIOUS
  <1>1. CASE UNCHANGED serverVars
    BY <1>1 DEF serverVars, ToolInv, ToolTypes, TableTrue, CountTrue, ListedTrue, ThreadTrue, Tells,
                Accounted, HasGrf, IsNewgrfServer
  <1> QED
    BY <1>1, ListKeeps, CountKeeps, InfoKeeps, LookKeeps, AskKeepsTool, NameKeeps DEF StatsToolNext

\* What is counted in the end are the servers that tell of NewGRFs, but for those with trams only.
LEMMA CountedRight == ToolInv => CountHonest
  <1> SUFFICES ASSUME ToolInv PROVE CountHonest
    OBVIOUS
  <1>1. ASSUME NEW h \in Hosts, NEW i \in DOMAIN newgrfs[h]
        PROVE  LET g == newgrfs[h][i] IN g.name = g.md5 \/ (g.name = Unknown /\ g.md5 \in omitted[h])
    <2>1. DOMAIN newgrfs[h] = 1 .. Len(newgrfs[h])
      BY LenProperties DEF ToolInv, ToolTypes
    <2> QED
      BY <2>1 DEF ToolInv, ListedTrue
  <1>2. ASSUME main = "counted", NEW h \in SERVERS
        PROVE  IsNewgrfServer(h) <=>
                 /\ h \notin cut /\ version[h] >= 4 /\ GrfsOf[h] # <<>>
                 /\ ~(Len(GrfsOf[h]) = 1 /\ GrfsOf[h][1].id = Tram)
    <2>0. h \in Hosts
      BY DEF ToolInv, ToolTypes
    <2>1. query[h] = "end"
      BY <1>2, <2>0 DEF ToolInv, CountTrue
    <2>2. IF Tells(h) THEN Len(newgrfs[h]) = Len(GrfsOf[h]) ELSE newgrfs[h] = <<>>
      BY <2>0, <2>1 DEF ToolInv, ThreadTrue
    <2>3. newgrfs[h] \in Seq(Named)
      BY <2>0 DEF ToolInv, ToolTypes
    <2>4. newgrfs[h] = <<>> <=> Len(newgrfs[h]) = 0
      BY <2>3, EmptySeq
    <2>5. Tells(h) => newgrfs[h] # <<>>
      BY <2>0, <2>2, <2>4, GrfAt DEF Tells
    <2>6. Len(newgrfs[h]) = 1 => newgrfs[h][1].id = GrfsOf[h][1].id
      BY <2>0 DEF ToolInv, ListedTrue
    <2> QED
      BY <2>2, <2>4, <2>5, <2>6 DEF Tells, IsNewgrfServer
  <1>3. ASSUME main = "counted"
        PROVE  {h \in SERVERS : IsNewgrfServer(h)} =
                 {h \in SERVERS \ cut :
                    /\ version[h] >= 4 /\ GrfsOf[h] # <<>>
                    /\ ~(Len(GrfsOf[h]) = 1 /\ GrfsOf[h][1].id = Tram)}
    BY <1>2, <1>3
  <1> QED
    BY <1>1, <1>3 DEF ToolInv, CountTrue, CountHonest

\* Whatever the threads of all servers add to the table of names meanwhile, a NewGRF is listed
\* with its own name, or without one when its server left it out; and the servers with NewGRFs
\* are counted as main() says (ottd-serverstats.py:53, :55, :188).
THEOREM CountAlwaysHonest == StatsToolSpec => []CountHonest
  <1>1. StatsToolInit => ToolInv
    BY ToolBegins
  <1>2. ToolInv /\ [StatsToolNext]_serverVars => ToolInv'
    BY ToolStepKeeps
  <1>3. ToolInv => CountHonest
    BY CountedRight
  <1> QED
    BY <1>1, <1>2, <1>3, PTL DEF StatsToolSpec

=============================================================================
