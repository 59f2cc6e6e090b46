---------------------------- MODULE ChronyProofs ----------------------------
(***************************************************************************)
(* Proofs about Chrony, for whatever chronyd may report and any number of  *)
(* children that outlive their kill.                                       *)
(*                                                                         *)
(* ChildInv is the processes' bookkeeping, PollInv what a poll under way   *)
(* has gathered, ShownInv what the last one published of it.               *)
(***************************************************************************)
EXTENDS Chrony, TLAPS

Polling == {"spawn", "running", "reaping"}

\* A child of its own runs exactly while a run is awaited.
ChildInv ==
    /\ pc \in Polling \cup {"idle", "asleep", "stopped"}
    /\ children \in Nat /\ strays \in 0..MaxStrays
    /\ children >= strays /\ children <= strays + 1
    /\ pc \in {"idle", "asleep", "spawn"} => children = strays
    /\ pc \in {"running", "reaping"} => children = strays + 1

\* An output is of a reading chronyd had during this poll.
Heeds(out) == out \in Outputs /\ out.of \subseteq seen /\ (Had(out) => seen # {})

PollInv ==
    /\ loop \in {"tracking", "sources"}
    /\ chronyd \in {"up", "down", "hung"} /\ reading \in Readings
    /\ seen \subseteq Readings
    /\ outputs \in Seq(Outputs) /\ Len(outputs) < Len(Runs[loop])
    /\ \A i \in 1..Len(outputs) : Heeds(outputs[i])
    /\ pc \notin Polling => outputs = <<>>
    /\ pc \in Polling /\ chronyd = "up" => reading \in seen

ShownInv ==
    /\ published.available \in BOOLEAN /\ published.raw \subseteq {"raw", "raw_stats"}
    /\ HonestSnapshot

LEMMA StraysBounded == MaxStrays \in Nat
  BY ConstantsAssumption DEF ConstantsAssumption

LEMMA OverMoves ==
    ASSUME NEW out, Over(out)
    PROVE  pc' \in {"spawn", "asleep"}
  BY DEF Over

LEMMA RunsOf ==
    DOMAIN Runs = {"tracking", "sources"}
    /\ Len(Runs["tracking"]) = 2 /\ Len(Runs["sources"]) = 4
  BY DEF Runs
LEMMA SomeRuns ==
    ASSUME loop \in {"tracking", "sources"}
    PROVE  Len(Runs[loop]) > 0
<1>1. CASE loop = "tracking"
  BY <1>1, RunsOf
<1>2. CASE loop = "sources"
  BY <1>2, RunsOf
<1> QED  BY <1>1, <1>2
-----------------------------------------------------------------------------
(* The children *)

LEMMA ChildSteps == ChildInv /\ [Next]_vars => ChildInv'
<1> SUFFICES ASSUME ChildInv, [Next]_vars PROVE ChildInv'
  OBVIOUS
<1> USE StraysBounded DEF ChildInv, Polling
<1>1. CASE Start
  BY <1>1 DEF Start
<1>2. CASE Spawn
  BY <1>2 DEF Spawn
<1>3. CASE NoBinary
  BY <1>3, OverMoves DEF NoBinary
<1>4. CASE Exits
  <2>1. pc = "running" /\ children' = children - 1 /\ UNCHANGED strays
    BY <1>4 DEF Exits
  <2>2. PICK out : Over(out)
    BY <1>4 DEF Exits
  <2> QED  BY <2>1, <2>2, OverMoves
<1>5. CASE TimesOut
  BY <1>5 DEF TimesOut
<1>6. CASE Reaped
  BY <1>6, OverMoves DEF Reaped
<1>7. CASE Wake
  BY <1>7 DEF Wake
<1>8. CASE Stop
  BY <1>8 DEF Stop
<1>9. CASE StrayExits
  BY <1>9 DEF StrayExits
<1>10. CASE Chronyd
  BY <1>10 DEF Chronyd
<1>11. CASE UNCHANGED vars
  BY <1>11 DEF vars
<1> QED
  BY <1>1, <1>2, <1>3, <1>4, <1>5, <1>6, <1>7, <1>8, <1>9, <1>10, <1>11 DEF Next, Loop
-----------------------------------------------------------------------------
(* A poll *)

LEMMA OutputKinds ==
    ASSUME NEW out \in Outputs
    PROVE  out.is = "report" <=> out.of # {}
  BY DEF Outputs, Report, Rubbish, Failed

LEMMA Twice ==
    ASSUME NEW n \in Int
    PROVE  -(-n) = n
  OBVIOUS

\* Both forms of a report mean what chronyd meant.
LEMMA SignsKept ==
    ASSUME NEW r \in Readings
    PROVE  /\ parse_tracking_csv(CsvLine(r)) = Meaning(r)
           /\ parse_tracking_text(TextLines(r)) = Meaning(r)
<1>1. r.offset \in Int /\ r.stratum \in Nat /\ r.leap \in {"normal", "not synchronised"}
  BY ConstantsAssumption DEF ConstantsAssumption
<1>2. -(-r.offset) = r.offset
  BY <1>1, Twice
<1>3. _synchronized(r.stratum, r.leap) = (r.stratum < 16 /\ r.leap = "normal")
  BY <1>1 DEF _synchronized
<1>4. parse_tracking_csv(CsvLine(r)) = Meaning(r)
  BY <1>2, <1>3 DEF parse_tracking_csv, CsvLine, Meaning
<1>5. _signed_seconds(TextLines(r).size, TextLines(r).word) = r.offset
  <2>1. CASE r.offset < 0
    BY <1>2, <2>1 DEF _signed_seconds, TextLines
  <2>2. CASE ~(r.offset < 0)
    BY <2>2 DEF _signed_seconds, TextLines
  <2> QED  BY <2>1, <2>2
<1>6. parse_tracking_text(TextLines(r)) = Meaning(r)
  <2>1. TextLines(r).stratum = r.stratum /\ TextLines(r).leap = r.leap
    BY DEF TextLines
  <2> QED  BY <1>3, <1>5, <2>1 DEF parse_tracking_text, Meaning
<1> QED  BY <1>4, <1>6

Honest(shot) ==
    /\ shot.available \in BOOLEAN /\ shot.raw \subseteq {"raw", "raw_stats"}
    /\ seen = {} => ~shot.available
    /\ shot.fields \cup shot.stats \subseteq
          IF loop = "tracking" THEN {Meaning(r) : r \in seen} ELSE seen
    /\ ~shot.available => shot.why \notin {"none", "verbatim", NotYet.why} /\ shot.raw = {}
    /\ shot.available /\ loop = "tracking" => shot.fields # {}

LEMMA UnavailableHonest ==
    ASSUME NEW why \in {"cannot parse", "chronyc failed"}
    PROVE  Honest(Unavailable(why))
  BY DEF Honest, Unavailable, NotYet

LEMMA TrackingHonest ==
    ASSUME NEW csv, NEW text, Heeds(csv), Heeds(text), seen \subseteq Readings,
           loop = "tracking"
    PROVE  Honest(TrackingSnapshot(csv, text))
<1>1. CASE ~Parses(csv) /\ ~Parses(text)
  BY <1>1, UnavailableHonest DEF TrackingSnapshot
<1>2. CASE Parses(csv)
  <2>1. csv.of # {} /\ csv.of \subseteq seen
    BY <1>2, OutputKinds DEF Heeds, Parses
  <2>2. TrackingSnapshot(csv, text) =
          [available |-> TRUE, why |-> "none", stats |-> {}, raw |-> Texts("raw", text),
           fields |-> {parse_tracking_csv(CsvLine(r)) : r \in csv.of}]
    BY <1>2 DEF TrackingSnapshot
  <2>3. {parse_tracking_csv(CsvLine(r)) : r \in csv.of} \subseteq {Meaning(r) : r \in seen}
    BY <2>1, SignsKept
  <2>4. {parse_tracking_csv(CsvLine(r)) : r \in csv.of} # {}
    BY <2>1
  <2>5. Texts("raw", text) \subseteq {"raw", "raw_stats"}
    BY DEF Texts
  <2> QED  BY <2>1, <2>2, <2>3, <2>4, <2>5 DEF Honest
<1>3. CASE ~Parses(csv) /\ Parses(text)
  <2>1. text.of # {} /\ text.of \subseteq seen
    BY <1>3, OutputKinds DEF Heeds, Parses
  <2>2. TrackingSnapshot(csv, text) =
          [available |-> TRUE, why |-> "none", stats |-> {}, raw |-> Texts("raw", text),
           fields |-> {parse_tracking_text(TextLines(r)) : r \in text.of}]
    BY <1>3 DEF TrackingSnapshot
  <2>3. {parse_tracking_text(TextLines(r)) : r \in text.of} \subseteq {Meaning(r) : r \in seen}
    BY <2>1, SignsKept
  <2>4. {parse_tracking_text(TextLines(r)) : r \in text.of} # {}
    BY <2>1
  <2>5. Texts("raw", text) \subseteq {"raw", "raw_stats"}
    BY DEF Texts
  <2> QED  BY <2>1, <2>2, <2>3, <2>4, <2>5 DEF Honest
<1> QED  BY <1>1, <1>2, <1>3

LEMMA SourcesHonest ==
    ASSUME NEW csv, NEW raw, NEW stats, NEW raw_stats, Heeds(csv), Heeds(stats),
           loop = "sources"
    PROVE  Honest(SourcesSnapshot(csv, raw, stats, raw_stats))
<1>1. CASE ~Had(csv) /\ ~Had(stats)
  BY <1>1, UnavailableHonest DEF SourcesSnapshot
<1>2. CASE Had(csv) \/ Had(stats)
  <2>1. SourcesSnapshot(csv, raw, stats, raw_stats) =
          [available |-> TRUE, why |-> "none", fields |-> csv.of, stats |-> stats.of,
           raw |-> Texts("raw", raw) \cup Texts("raw_stats", raw_stats)]
    BY <1>2 DEF SourcesSnapshot, parse_sources_csv, parse_sourcestats_csv
  <2>2. seen # {} /\ csv.of \subseteq seen /\ stats.of \subseteq seen
    BY <1>2 DEF Heeds
  <2>3. Texts("raw", raw) \cup Texts("raw_stats", raw_stats) \subseteq {"raw", "raw_stats"}
    BY DEF Texts
  <2> QED  BY <2>1, <2>2, <2>3 DEF Honest
<1> QED  BY <1>1, <1>2

\* The outputs of a poll whose last run gave out.
LEMMA Appended ==
    ASSUME PollInv, NEW out, Heeds(out)
    PROVE  LET outs == Append(outputs, out)
           IN  /\ outs \in Seq(Outputs) /\ Len(outs) = Len(outputs) + 1
               /\ \A i \in 1..Len(outs) : Heeds(outs[i])
<1>1. out \in Outputs
  BY DEF Heeds
<1> HIDE DEF Heeds
<1> QED  BY <1>1 DEF PollInv

LEMMA SnapshotSound ==
    ASSUME PollInv, NEW out, Heeds(out), ~More(Append(outputs, out))
    PROVE  Honest(Snapshot(Append(outputs, out)))
<1> DEFINE outs == Append(outputs, out)
<1>1. outs \in Seq(Outputs) /\ Len(outs) = Len(outputs) + 1
      /\ \A i \in 1..Len(outs) : Heeds(outs[i])
  BY Appended
<1>2. Len(outs) = Len(Runs[loop])
  BY <1>1, RunsOf DEF PollInv, More
<1> HIDE DEF outs
<1>3. CASE loop = "tracking"
  <2>1. Heeds(outs[1]) /\ Heeds(outs[2])
    <3>1. 1 \in 1..Len(outs) /\ 2 \in 1..Len(outs)
      BY <1>2, <1>3, RunsOf
    <3> QED  BY <1>1, <3>1
  <2>2. Honest(TrackingSnapshot(outs[1], outs[2]))
    BY <1>3, <2>1, TrackingHonest DEF PollInv
  <2> QED  BY <1>3, <2>2 DEF Snapshot, outs
<1>4. CASE loop = "sources"
  <2>1. Heeds(outs[1]) /\ Heeds(outs[3])
    <3>1. 1 \in 1..Len(outs) /\ 3 \in 1..Len(outs)
      BY <1>2, <1>4, RunsOf
    <3> QED  BY <1>1, <3>1
  <2>2. Honest(SourcesSnapshot(outs[1], outs[2], outs[3], outs[4]))
    BY <1>4, <2>1, SourcesHonest
  <2> QED  BY <1>4, <2>2 DEF Snapshot, outs
<1> QED  BY <1>3, <1>4 DEF PollInv

\* A run that is over.
LEMMA OverSound ==
    ASSUME PollInv, ShownInv, pc \in Polling, NEW out, Heeds(out), Over(out),
           UNCHANGED <<loop, daemon, seen>>
    PROVE  PollInv' /\ ShownInv'
<1> DEFINE outs == Append(outputs, out)
<1>1. outs \in Seq(Outputs) /\ Len(outs) = Len(outputs) + 1
      /\ \A i \in 1..Len(outs) : Heeds(outs[i])
  BY Appended
<1>2. CASE More(outs) /\ outputs' = outs /\ pc' = "spawn" /\ UNCHANGED <<published, told>>
  <2>1. \A i \in 1..Len(outs) : Heeds(outs[i])'
    BY <1>1, <1>2 DEF Heeds, Had
  <2> HIDE DEF outs
  <2>2. PollInv'
    BY <1>1, <1>2, <2>1 DEF PollInv, More, daemon, Polling, Heeds
  <2>3. ShownInv'
    BY <1>2 DEF ShownInv, HonestSnapshot
  <2> QED  BY <2>2, <2>3
<1>3. CASE ~More(outs) /\ outputs' = <<>> /\ pc' = "asleep" /\ Publish(outs)
  <2>1. PollInv'
    <3>1. <<>> \in Seq(Outputs) /\ Len(<<>>) = 0
      OBVIOUS
    <3>2. Len(Runs[loop]) > 0
      BY SomeRuns DEF PollInv
    <3> QED  BY <1>3, <3>1, <3>2 DEF PollInv, daemon, Polling
  <2>2. Honest(published')
    BY <1>3, SnapshotSound DEF Publish
  <2>3. published'.available /\ loop = "tracking" => told' = published'.fields
    BY <1>3 DEF Publish
  <2>4. ShownInv'
    BY <2>2, <2>3, <1>3 DEF ShownInv, HonestSnapshot, Honest, NotYet, Meaning,
         get_raw, _raw_text
  <2> QED  BY <2>1, <2>4
<1> QED  BY <1>2, <1>3 DEF Over

LEMMA FailedHeeds == Heeds(Failed)
  BY DEF Heeds, Failed, Outputs, Had

LEMMA PollSteps == PollInv /\ ShownInv /\ [Next]_vars => PollInv' /\ ShownInv'
<1> SUFFICES ASSUME PollInv, ShownInv, [Next]_vars PROVE PollInv' /\ ShownInv'
  OBVIOUS
<1>1. CASE Start \/ Wake
  <2>1. /\ pc' = "spawn" /\ seen' = Heard /\ UNCHANGED <<loop, daemon, outputs, published, told>>
        /\ outputs = <<>>
    BY <1>1 DEF Start, Wake, PollInv, Polling
  <2>2. Heard \subseteq Readings /\ (chronyd = "up" => reading \in Heard)
    BY DEF Heard, PollInv
  <2>3. PollInv'
    BY <2>1, <2>2 DEF PollInv, daemon, Polling
  <2> QED  BY <2>1, <2>3 DEF ShownInv, HonestSnapshot
<1>2. CASE Spawn \/ TimesOut
  <2>1. /\ pc \in Polling /\ pc' \in {"running", "reaping"}
        /\ UNCHANGED <<loop, daemon, outputs, published, told, seen>>
    BY <1>2 DEF Spawn, TimesOut, Polling
  <2>2. \A i \in 1..Len(outputs) : Heeds(outputs[i])'
    BY <2>1 DEF PollInv, Heeds, Had
  <2>3. PollInv'
    BY <2>1, <2>2 DEF PollInv, daemon, Polling, Heeds
  <2> QED  BY <2>1, <2>3 DEF ShownInv, HonestSnapshot
<1>3. CASE NoBinary
  <2>1. pc \in Polling /\ Over(Failed) /\ UNCHANGED <<loop, daemon, seen>>
    BY <1>3 DEF NoBinary, Polling
  <2> QED  BY <2>1, FailedHeeds, OverSound
<1>4. CASE Exits
  <2>1. pc \in Polling /\ UNCHANGED <<loop, daemon, seen>>
    BY <1>4 DEF Exits, Polling
  <2>2. PICK out \in {Failed, Rubbish} \cup {Report(r) : r \in Heard} :
           (chronyd = "down" => out = Failed) /\ Over(out)
    BY <1>4 DEF Exits
  <2>3. Heeds(out)
    <3>1. CASE out = Failed
      BY <3>1, FailedHeeds
    <3>2. CASE out = Rubbish /\ chronyd = "up"
      <4>1. seen # {}
        BY <2>1, <3>2 DEF PollInv
      <4> QED  BY <3>2, <4>1 DEF Heeds, Rubbish, Outputs
    <3>3. CASE out \in {Report(r) : r \in Heard}
      <4>1. chronyd = "up" /\ out = Report(reading)
        BY <3>3 DEF Heard
      <4>2. reading \in seen /\ reading \in Readings
        BY <2>1, <4>1 DEF PollInv
      <4>3. out \in Outputs
        BY <4>1, <4>2 DEF Outputs
      <4>4. out.of = {reading}
        BY <4>1 DEF Report
      <4> QED  BY <4>2, <4>3, <4>4 DEF Heeds
    <3>4. chronyd = "up" \/ out = Failed
      BY <1>4, <2>2 DEF Exits, PollInv
    <3> QED  BY <2>2, <3>1, <3>2, <3>3, <3>4
  <2> QED  BY <2>1, <2>2, <2>3, OverSound
<1>5. CASE Reaped
  <2>1. pc \in Polling /\ Over(Failed) /\ UNCHANGED <<loop, daemon, seen>>
    BY <1>5 DEF Reaped, Polling
  <2> QED  BY <2>1, FailedHeeds, OverSound
<1>6. CASE Stop
  <2>1. /\ pc' = "stopped" /\ outputs' = <<>> /\ UNCHANGED <<loop, daemon, published, told, seen>>
    BY <1>6 DEF Stop
  <2>2. Len(Runs[loop]) > 0
    BY SomeRuns DEF PollInv
  <2>3. PollInv'
    BY <2>1, <2>2 DEF PollInv, daemon, Polling
  <2> QED  BY <2>1, <2>3 DEF ShownInv, HonestSnapshot
<1>7. CASE StrayExits \/ UNCHANGED vars
  <2>1. UNCHANGED <<loop, daemon, pc, outputs, published, told, seen>>
    BY <1>7 DEF StrayExits, vars
  <2>2. \A i \in 1..Len(outputs) : Heeds(outputs[i])'
    BY <2>1 DEF PollInv, Heeds, Had
  <2>3. PollInv'
    BY <2>1, <2>2 DEF PollInv, daemon, Polling, Heeds
  <2> QED  BY <2>1, <2>3 DEF ShownInv, HonestSnapshot, get_raw, _raw_text
<1>8. CASE Chronyd
  <2>1. /\ chronyd' \in {"up", "down", "hung"} /\ reading' \in Readings
        /\ UNCHANGED <<loop, pc, outputs, published, told>>
        /\ seen \subseteq seen' /\ seen' \subseteq seen \cup {reading'}
        /\ pc # "asleep" /\ chronyd' = "up" => reading' \in seen'
        /\ pc = "asleep" => seen' = seen
    BY <1>8 DEF Chronyd
  <2>2. \A i \in 1..Len(outputs) : Heeds(outputs[i])'
    BY <2>1 DEF PollInv, Heeds, Had
  <2>3. PollInv'
    BY <2>1, <2>2 DEF PollInv, Polling, Heeds
  <2> QED  BY <2>1, <2>3 DEF ShownInv, HonestSnapshot, get_raw, _raw_text
<1> QED
  BY <1>1, <1>2, <1>3, <1>4, <1>5, <1>6, <1>7, <1>8 DEF Next, Loop
-----------------------------------------------------------------------------
LEMMA Initially == Init => ChildInv /\ PollInv /\ ShownInv
<1> SUFFICES ASSUME Init PROVE ChildInv /\ PollInv /\ ShownInv
  OBVIOUS
<1>1. ChildInv
  BY StraysBounded DEF Init, ChildInv, Polling
<1>2. PollInv
  <2>1. loop \in {"tracking", "sources"} /\ Len(Runs[loop]) > 0
    <3>1. loop \in DOMAIN Runs
      BY DEF Init
    <3>2. loop \in {"tracking", "sources"}
      BY <3>1, RunsOf
    <3> QED  BY <3>2, SomeRuns
  <2>2. outputs = <<>> /\ seen = {} /\ pc = "idle"
    BY DEF Init
  <2>3. outputs \in Seq(Outputs) /\ Len(outputs) = 0
    BY <2>2
  <2>4. \A i \in 1..Len(outputs) : Heeds(outputs[i])
    BY <2>3
  <2>5. seen \subseteq Readings
    BY <2>2
  <2>6. chronyd \in {"up", "down", "hung"} /\ reading \in Readings
    BY DEF Init
  <2>7. pc \notin Polling
    BY <2>2 DEF Polling
  <2> QED  BY <2>1, <2>2, <2>3, <2>4, <2>5, <2>6, <2>7 DEF PollInv
<1>3. ShownInv
  BY DEF Init, ShownInv, HonestSnapshot, NotYet, Unavailable
<1> QED  BY <1>1, <1>2, <1>3

LEMMA Always == Spec => [](ChildInv /\ PollInv /\ ShownInv)
<1>1. ChildInv /\ PollInv /\ ShownInv /\ [Next]_vars => (ChildInv /\ PollInv /\ ShownInv)'
  BY ChildSteps, PollSteps
<1> QED  BY <1>1, Initially, PTL DEF Spec

\* However long chronyc hangs, for any number of polls: one child at most beside those
\* that would not die, and none while the loop sleeps.
THEOREM ChildrenNeverPileUp == Spec => []OneChild
<1>1. ChildInv /\ PollInv /\ ShownInv => OneChild
  BY RunsOf, StraysBounded DEF ChildInv, PollInv, ShownInv, OneChild, TypeOK, Polling
<1> QED  BY <1>1, Always, PTL

\* Whatever chronyd reports and however it changes during a poll: the snapshot between
\* two polls holds what chronyd reported during the last, with its sign, and nothing
\* when there was no answer.
THEOREM SnapshotAlwaysHonest == Spec => []HonestSnapshot
<1>1. ShownInv => HonestSnapshot
  BY DEF ShownInv
<1> QED  BY <1>1, Always, PTL
=============================================================================
