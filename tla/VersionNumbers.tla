--------------------------- MODULE VersionNumbers ---------------------------
(***************************************************************************)
(* openttd/version.py in a session of the client: the revision the server  *)
(* announces is parsed by the first class that takes it, its text is what  *)
(* the client joins with, and its number, with the revision of the tag     *)
(* from the finger server, goes with the request for the map.  A text is a *)
(* sequence of digits, marks and words, without blanks and signs.          *)
(***************************************************************************)
EXTENDS Integers, Sequences, SequencesExt

CONSTANTS
  Texts,           \* revisions a server may announce
  TagRev,          \* revisions of the tags, by their text
  RevBits,         \* bits of a revision in the number: 19
  MaxAnnouncements \* bound on the sessions

VersionAssumption == RevBits \in Nat /\ Texts \subseteq Seq(STRING)
ASSUME VersionAssumption

VARIABLES
  announced,  \* gameinfo.server_revision
  trying,     \* the class whose turn it is
  revision,   \* self.revision
  joined,     \* the text in the JOIN packet
  tags,       \* finger.tags: the tags known; NoTags before they are asked for
  sent,       \* per map asked for: the version, its number, and whether its tag was known
  phaseOfV    \* where the session is

versionVars == <<announced, trying, revision, joined, tags, sent, phaseOfV>>

NoTags == {<<"none">>}

-----------------------------------------------------------------------------
(* Python's int, "%d", split, << and |.                                    *)

Digits == <<"0", "1", "2", "3", "4", "5", "6", "7", "8", "9">>
IsNumeral(s) == s # <<>> /\ ToSet(s) \subseteq ToSet(Digits)
DigitOf(d) == CHOOSE i \in 0 .. 9 : Digits[i + 1] = d
IntOf(s) ==
  LET int[i \in 0 .. Len(s)] == IF i = 0 THEN 0 ELSE 10 * int[i - 1] + DigitOf(s[i]) IN int[Len(s)]
Decimal[n \in Nat] == IF n < 10 THEN <<Digits[n + 1]>> ELSE Decimal[n \div 10] \o <<Digits[(n % 10) + 1]>>

\* The last part grows until it ends in the mark.
Split(s, mark) ==
  LET split[i \in 0 .. Len(s)] ==
        IF i = 0 THEN <<<<>>>>
        ELSE LET parts == split[i - 1]
                 part == Append(Last(parts), s[i])
                 rest == Len(part) - Len(mark)
             IN Front(parts) \o
                (IF rest >= 0 /\ SubSeq(part, rest + 1, Len(part)) = mark
                 THEN <<SubSeq(part, 1, rest), <<>>>>
                 ELSE <<part>>)
  IN split[Len(s)]

Pow2[k \in Nat] == IF k = 0 THEN 1 ELSE 2 * Pow2[k - 1]
Or[a \in Nat] ==
  [b \in Nat |->
    IF a = 0 THEN b
    ELSE IF b = 0 THEN a
    ELSE 2 * Or[a \div 2][b \div 2] + (IF a % 2 = 1 \/ b % 2 = 1 THEN 1 ELSE 0)]
a | b == Or[a][b]

-----------------------------------------------------------------------------
(* The classes.  A ValueError is ValueError; the fields a class has not are 0. *)

Blank == [class |-> "ValueError", base |-> <<0, 0, 0>>, subbuild |-> 0, no |-> 0,
          rev |-> 0, modified |-> FALSE, branch |-> <<>>, version |-> <<>>]

ParseStable(s) ==
  LET spl == Split(s, <<".">>) IN
  IF Len(spl) \in {3, 4} /\ \A i \in DOMAIN spl : IsNumeral(spl[i])
  THEN [Blank EXCEPT !.class = "Stable", !.base = [i \in 1 .. 3 |-> IntOf(spl[i])],
                     !.subbuild = IF Len(spl) = 4 THEN IntOf(spl[4]) ELSE 0]
  ELSE Blank

\* Release candidates and betas: a stable version, the word and a number.
ParseDashed(class, word, s) ==
  LET ver == Split(s, <<"-", word>>) IN
  IF Len(ver) = 2 /\ IsNumeral(ver[2]) /\ ParseStable(ver[1]) # Blank
  THEN [ParseStable(ver[1]) EXCEPT !.class = class, !.no = IntOf(ver[2])]
  ELSE Blank

ParseNightly(s) ==
  LET ver == Split(s, <<"-">>)
      modified == ver[1] # <<>> /\ Last(ver[1]) = "M"
      rev == IF modified THEN Front(ver[1]) ELSE ver[1]
  IN IF s # <<>> /\ s[1] = "r" /\ Len(ver) \in {1, 2} /\ IsNumeral(Tail(rev))
     THEN [Blank EXCEPT !.class = "Nightly", !.rev = IntOf(Tail(rev)), !.modified = modified,
                        !.branch = IF Len(ver) = 2 THEN ver[2] ELSE <<>>]
     ELSE Blank

VERSION_CLASSES == <<"Stable", "RC", "Beta", "Nightly", "Other">>

Parse(class, s) ==
  CASE class = "Stable" -> ParseStable(s)
    [] class = "RC" -> ParseDashed("RC", "RC", s)
    [] class = "Beta" -> ParseDashed("Beta", "beta", s)
    [] class = "Nightly" -> ParseNightly(s)
    [] class = "Other" -> [Blank EXCEPT !.class = "Other", !.version = s]

StableStr(v) ==
  Decimal[v.base[1]] \o <<".">> \o Decimal[v.base[2]] \o <<".">> \o Decimal[v.base[3]]
  \o (IF v.subbuild > 0 THEN <<".">> \o Decimal[v.subbuild] ELSE <<>>)

VersionStr(v) ==
  CASE v.class = "Stable" -> StableStr(v)
    [] v.class = "RC" -> StableStr(v) \o <<"-", "RC">> \o Decimal[v.no]
    [] v.class = "Beta" -> StableStr(v) \o <<"-", "beta">> \o Decimal[v.no]
    [] v.class = "Nightly" -> <<"r">> \o Decimal[v.rev] \o (IF v.modified THEN <<"M">> ELSE <<>>)
                              \o (IF v.branch # <<>> THEN <<"-">> \o v.branch ELSE <<>>)
    [] v.class = "Other" -> v.version

\* Mutant: the build is moved into the bit of a release.
generate_newgrf_version_misplaced(base, release, rev) ==
  base[1] * Pow2[RevBits + 9] | base[2] * Pow2[RevBits + 5] | base[3] * Pow2[RevBits]
  | (IF release THEN Pow2[RevBits] ELSE 0) | (rev % Pow2[RevBits])

generate_newgrf_version(base, release, rev) ==
  base[1] * Pow2[RevBits + 9] | base[2] * Pow2[RevBits + 5] | base[3] * Pow2[RevBits + 1]
  | (IF release THEN Pow2[RevBits] ELSE 0) | (rev % Pow2[RevBits])

HasNumber(v) == v.class \in {"Stable", "RC", "Beta"}
TagKnown(v, list) == VersionStr(v) \in list

\* Betas and release candidates inherit the number of a stable version, with the release bit;
\* the other classes have none.
get_newgrf_version(v, list) ==
  IF HasNumber(v)
  THEN generate_newgrf_version(v.base, TRUE, IF TagKnown(v, list) THEN TagRev[VersionStr(v)] ELSE 0)
  ELSE 0

\* A revision fits into its bits.
TagsAssumption == \A t \in DOMAIN TagRev : TagRev[t] \in 1 .. Pow2[RevBits] - 1
ASSUME TagsAssumption

-----------------------------------------------------------------------------
(* The session.                                                            *)

Announce(s) ==
  /\ phaseOfV = "closed" /\ Len(announced) < MaxAnnouncements
  /\ announced' = Append(announced, s) /\ trying' = 1 /\ phaseOfV' = "parse"
  /\ UNCHANGED <<revision, joined, tags, sent>>

\* parse_version: the next class.
TryClass ==
  /\ phaseOfV = "parse"
  /\ LET v == Parse(VERSION_CLASSES[trying], Last(announced)) IN
     IF v = Blank THEN trying' = trying + 1 /\ UNCHANGED <<revision, phaseOfV, tags>>
     ELSE revision' = v /\ phaseOfV' = "join" /\ tags' = NoTags /\ UNCHANGED trying
  /\ UNCHANGED <<announced, joined, sent>>

JoinAs ==
  /\ phaseOfV = "join" /\ phaseOfV' = "map" /\ joined' = VersionStr(revision)
  /\ UNCHANGED <<announced, trying, revision, tags, sent>>

\* The finger server lists the tags it has by now, or the request raises.
GetTags ==
  /\ phaseOfV = "map" /\ HasNumber(revision) /\ tags = NoTags
  /\ \/ phaseOfV' = "closed" /\ UNCHANGED tags
     \/ phaseOfV' = "ask" /\ tags' \in SUBSET DOMAIN TagRev
  /\ UNCHANGED <<announced, trying, revision, joined, sent>>

GetMap ==
  /\ phaseOfV = "ask" \/ (phaseOfV = "map" /\ ~HasNumber(revision))
  /\ sent' = Append(sent, [version |-> revision, number |-> get_newgrf_version(revision, tags),
                           known |-> TagKnown(revision, tags)])
  /\ phaseOfV' = "closed"
  /\ UNCHANGED <<announced, trying, revision, joined, tags>>

VersionInit ==
  /\ announced = <<>> /\ trying = 1 /\ revision = Blank /\ joined = <<>> /\ tags = NoTags
  /\ sent = <<>> /\ phaseOfV = "closed"

VersionNext == (\E s \in Texts : Announce(s)) \/ TryClass \/ JoinAs \/ GetTags \/ GetMap
VersionSpec == VersionInit /\ [][VersionNext]_versionVars

-----------------------------------------------------------------------------
(* Properties                                                              *)

\* What int() and the classes drop: zeros in front of a number, a fourth part of 0, an empty branch.
LeadingZero(s) ==
  \E i \in 1 .. Len(s) - 1 : s[i] = "0" /\ IsNumeral(<<s[i + 1]>>) /\ (i = 1 \/ ~IsNumeral(<<s[i - 1]>>))
Dropped(s, v) ==
  LeadingZero(s) \/ Last(s) = "-" \/ (Len(Split(s, <<".">>)) = 4 /\ v.subbuild = 0)

Below(a, b) == \E i \in 1 .. 3 : a[i] < b[i] /\ \A j \in 1 .. i - 1 : a[j] = b[j]

\* The client joins with the very text the server has announced, whichever class took it: a
\* server turns away any other.  Only what is written in another way than it is printed is lost
\* (version.py:77, :87; ottd-client.py:361).
JoinsAsAnnounced ==
  phaseOfV = "map" => joined = Last(announced) \/ Dropped(Last(announced), revision)

Small(base) == \A i \in 1 .. 3 : base[i] < 16

\* A later version has a greater number than an earlier one, in whatever sessions they were met.
\* Betas and candidates carry the release bit, so that nothing but its tag keeps a stage of a
\* version apart from the next or from the release: the one whose tag is known and later has the
\* greater number.  That is said of parts that fit into their four bits (version.py:57, :96).
NumbersAscend ==
  \A i, j \in DOMAIN sent :
    LET u == sent[i].version
        v == sent[j].version
        TagLater == sent[j].known /\ (sent[i].known => TagRev[VersionStr(u)] < TagRev[VersionStr(v)])
    IN HasNumber(u) /\ HasNumber(v) /\ Small(u.base) /\ Small(v.base)
       /\ (Below(u.base, v.base) \/ (u.base = v.base /\ u.class # "Stable" /\ TagLater))
         => sent[i].number < sent[j].number

\* The betas and candidates that lead to a release have a lower number than the release has
\* (version.py:53).
ReleaseIsGreater ==
  \A i, j \in DOMAIN sent :
    /\ sent[i].version.class \in {"RC", "Beta"} /\ sent[j].version.class = "Stable"
    /\ sent[i].version.base = sent[j].version.base /\ Small(sent[i].version.base)
    => sent[i].number < sent[j].number

\* A revision survives its conversions.
VersionKept == JoinsAsAnnounced /\ NumbersAscend
=============================================================================
