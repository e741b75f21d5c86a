---------------------------- MODULE TimeWarning ----------------------------
(***************************************************************************)
(* plugins/timewarning.py: the time left until the server restarts, said   *)
(* on demand and every interval from the main loop.  The start is read     *)
(* from a file once; when the time is up the plugin writes a new start,    *)
(* which can fail, and asks itself again, to a depth.                      *)
(***************************************************************************)
EXTENDS Naturals, Integers, Sequences

CONSTANTS
  Runtimes,  \* time_running
  Interval,  \* warning_interval
  MaxDepth,  \* recursion_depth at which it gives up
  MaxClock,
  MaxSays,   \* bound on the answers
  Missing    \* no start time file, or an empty one

TimeWarningAssumption ==
  /\ Runtimes \subseteq Int /\ Interval \in Nat /\ MaxDepth \in Nat /\ MaxClock \in Nat
ASSUME TimeWarningAssumption

VARIABLES
  clock,
  warped,    \* the clock was set back
  file,      \* the start time in the file
  start,     \* server_start
  runtime,   \* server_runtime
  lastwarn,  \* last_timewarning
  warnings,  \* the times of the warnings of the main loop
  left,      \* the times left that were said
  failed     \* what has ended a question in an exception

timeVars == <<clock, warped, file, start, runtime, lastwarn, warnings, left, failed>>

\* Mutant: forcenew is not looked at.
ReadAnyTimeFile(forcenew) ==
  {[start |-> IF file # Missing THEN file ELSE clock, file |-> file, raised |-> FALSE]}

\* How a reading may end.  A new start is written outside the try: when that raises, the file is as
\* it was, or emptied by the open.
ReadTimeFile(forcenew) ==
  IF file # Missing /\ ~forcenew THEN {[start |-> file, file |-> file, raised |-> FALSE]}
  ELSE {[start |-> clock, file |-> clock, raised |-> FALSE]}
       \cup [start : {start}, file : {file, Missing}, raised : {TRUE}]

LeftFrom(began) == runtime - (clock - began)

\* timeLeft ends well, for a write that raises, or with its variable not set.  It says the time
\* left when there is any, and else reads the file anew and asks again.  Each further reading
\* writes the same start once more, unless it fails; at the last depth there is nothing to say.
\* A negative start or runtime says nothing.
TimeLeft(end) ==
  /\ failed' = failed \cup ({end} \ {"well"})
  /\ \/ /\ end = "well"
        /\ \/ (start < 0 \/ runtime < 0) /\ UNCHANGED left
           \/ start >= 0 /\ runtime >= 0 /\ LeftFrom(start) > 0 /\ left' = Append(left, LeftFrom(start))
        /\ UNCHANGED <<file, start>>
     \/ /\ start >= 0 /\ runtime >= 0 /\ LeftFrom(start) <= 0
        /\ \E r \in ReadTimeFile(TRUE) :
             /\ start' = r.start
             /\ \/ r.raised /\ end = "write" /\ UNCHANGED left /\ file' = r.file
                \/ /\ ~r.raised /\ LeftFrom(r.start) > 0 /\ end = "well"
                   /\ left' = Append(left, LeftFrom(r.start)) /\ file' = r.file
                \/ /\ ~r.raised /\ LeftFrom(r.start) <= 0 /\ UNCHANGED left
                   /\ \/ end = "unset" /\ file' = r.file
                      \/ end = "write" /\ MaxDepth > 0 /\ file' \in {r.file, Missing}

Ends == {"well", "write", "unset"}

\* timeleft asked by a player or an IRC user.
Asked ==
  /\ Len(left) < MaxSays /\ \E end \in Ends : TimeLeft(end)
  /\ UNCHANGED <<clock, warped, runtime, lastwarn, warnings>>

\* onMainLoop: an exception leaves it before the time of the warning is set, and with it the
\* session.
OnMainLoop ==
  /\ clock - lastwarn > Interval /\ Len(left) < MaxSays
  /\ \/ TimeLeft("well") /\ lastwarn' = clock /\ warnings' = Append(warnings, clock)
     \/ (TimeLeft("write") \/ TimeLeft("unset")) /\ UNCHANGED <<lastwarn, warnings>>
  /\ UNCHANGED <<clock, warped, runtime>>

ClockTicks ==
  /\ clock < MaxClock /\ clock' = clock + 1
  /\ UNCHANGED <<warped, file, start, runtime, lastwarn, warnings, left, failed>>

ClockWarps ==
  /\ ~warped /\ clock' \in 0 .. clock - 1 /\ warped' = TRUE
  /\ UNCHANGED <<file, start, runtime, lastwarn, warnings, left, failed>>

\* The script that starts the server writes the file; the plugin reads it at its own start only.
ServerRestarts ==
  /\ file' = clock
  /\ UNCHANGED <<clock, warped, start, runtime, lastwarn, warnings, left, failed>>

TimeInit ==
  /\ clock = 2 /\ warped = FALSE /\ warnings = <<>> /\ left = <<>> /\ failed = {}
  /\ runtime \in Runtimes /\ lastwarn = 0
  /\ \E was \in {Missing, 0, 2} :
       start = (IF was = Missing THEN clock ELSE was) /\ file = start

TimeNext == Asked \/ OnMainLoop \/ ClockTicks \/ ClockWarps \/ ServerRestarts
TimeSpec == TimeInit /\ [][TimeNext]_timeVars

\* While the clock only goes forward, warnings are more than the interval apart and what they say
\* lies between nothing and the time running.  A question of the time finds nothing to say at all
\* only for a time running of 0; else it fails only with the write of a new start
\* (timewarning.py:31, :35, :72, :85).
WarningsHold ==
  /\ "unset" \in failed => runtime = 0
  /\ \A i \in DOMAIN left : left[i] > 0 /\ (left[i] > runtime => warped)
  /\ warped \/ \A i \in 2 .. Len(warnings) : warnings[i] - warnings[i - 1] > Interval
=============================================================================
