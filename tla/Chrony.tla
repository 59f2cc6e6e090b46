------------------------------- MODULE Chrony -------------------------------
(***************************************************************************)
(* One loop of the chrony collector (stratumtap/chrony.py).  There are two *)
(* of them and they share nothing: one polls `chronyc tracking` twice (CSV,*)
(* then the human text), the other sources and sourcestats twice each.     *)
(* Every run is a child process with a timeout, and each poll publishes a  *)
(* snapshot.                                                               *)
(*                                                                         *)
(* chronyd may be up, down or hung, and may change between any two runs of *)
(* a poll.  Of what it reports the model keeps the sign of the offset and  *)
(* what decides whether the clock is synchronised; the other columns are   *)
(* carried along in the same way.                                          *)
(***************************************************************************)
EXTENDS Integers, Sequences

CONSTANTS
    Readings,   \* what chronyd may report; an offset is positive when the clock is fast
    MaxStrays   \* bound on the children that survive their kill by a second

ASSUME ConstantsAssumption ==
    /\ Readings \subseteq [offset : Int, stratum : Nat, leap : {"normal", "not synchronised"}]
    /\ MaxStrays \in Nat

\* The runs of a poll, in order.
Runs == [tracking |-> <<"csv", "raw">>,
         sources  |-> <<"csv", "raw", "stats_csv", "raw_stats">>]

VARIABLES
    loop,       \* which of the two loops this is
    chronyd,    \* "up", "down" or "hung"
    reading,    \* what it reports when up
    pc,         \* idle, asleep, spawn, running, reaping, or stopped
    outputs,    \* what the runs of this poll gave so far
    children,   \* processes of the loop that still exist
    strays,     \* history: those among them that would not die in time
    published,  \* the snapshot in the store
    told,       \* the last "ntp" event of the streams
    seen        \* history: what chronyd had to report during the last poll

daemon == <<chronyd, reading>>
vars == <<loop, daemon, pc, outputs, children, strays, published, told, seen>>

\* What a run gives: a report of one reading, text that does not parse, or a
\* ChronycError.
Report(r) == [is |-> "report", of |-> {r}]
Rubbish == [is |-> "rubbish", of |-> {}]
Failed == [is |-> "failed", of |-> {}]
Outputs == {Report(r) : r \in Readings} \cup {Rubbish, Failed}

Had(out) == out.is # "failed"
Texts(what, out) == IF Had(out) THEN {what} ELSE {}
Parses(out) == out.is = "report"

Unavailable(why) == [available |-> FALSE, why |-> why, fields |-> {}, stats |-> {},
                     raw |-> {}]
NotYet == Unavailable("not collected yet")

Init ==
    /\ loop \in DOMAIN Runs
    /\ chronyd \in {"up", "down", "hung"} /\ reading \in Readings
    /\ pc = "idle"
    /\ outputs = <<>>
    /\ children = 0 /\ strays = 0
    /\ published = NotYet /\ told = {}
    /\ seen = {}

\* What chronyc prints: a correction, positive when the clock is slow, in CSV,
\* and a size with a word in the text.
CsvLine(r) == [correction |-> -r.offset, stratum |-> r.stratum, leap |-> r.leap]
TextLines(r) ==
    [size |-> IF r.offset < 0 THEN -r.offset ELSE r.offset,
     word |-> IF r.offset < 0 THEN "slow" ELSE "fast",
     stratum |-> r.stratum, leap |-> r.leap]

_synchronized(stratum, leap) == stratum < 16 /\ leap # "not synchronised"

\* Mutant: the correction is taken for the offset.
parse_tracking_unnegated(line) ==
    [offset |-> line.correction, synchronized |-> _synchronized(line.stratum, line.leap)]

parse_tracking_csv(line) ==
    [offset |-> -line.correction, synchronized |-> _synchronized(line.stratum, line.leap)]

_signed_seconds(size, word) == IF word = "slow" THEN -size ELSE size

parse_tracking_text(lines) ==
    [offset |-> _signed_seconds(lines.size, lines.word),
     synchronized |-> _synchronized(lines.stratum, lines.leap)]

\* poll_tracking from its two outputs: the CSV, else the text, else an error.
TrackingSnapshot(csv, text) ==
    IF ~Parses(csv) /\ ~Parses(text)
    THEN Unavailable(IF Had(csv) THEN "cannot parse" ELSE "chronyc failed")
    ELSE [available |-> TRUE, why |-> "none", stats |-> {}, raw |-> Texts("raw", text),
          fields |-> IF Parses(csv) THEN {parse_tracking_csv(CsvLine(r)) : r \in csv.of}
                     ELSE {parse_tracking_text(TextLines(r)) : r \in text.of}]

\* The rows that have all their fields; the others are skipped.
parse_sources_csv(out) == out.of
parse_sourcestats_csv(out) == out.of

\* poll_sources: unavailable only when neither CSV could be had.
SourcesSnapshot(csv, raw, stats, raw_stats) ==
    IF ~Had(csv) /\ ~Had(stats) THEN Unavailable("chronyc failed")
    ELSE [available |-> TRUE, why |-> "none",
          raw |-> Texts("raw", raw) \cup Texts("raw_stats", raw_stats),
          fields |-> parse_sources_csv(csv), stats |-> parse_sourcestats_csv(stats)]

Snapshot(outs) ==
    IF loop = "tracking" THEN TrackingSnapshot(outs[1], outs[2])
    ELSE SourcesSnapshot(outs[1], outs[2], outs[3], outs[4])

More(outs) == Len(outs) < Len(Runs[loop])

\* Mutant: only readings reach the store.
PublishReadings(outs) ==
    /\ published' = IF Snapshot(outs).available THEN Snapshot(outs) ELSE published
    /\ UNCHANGED told

\* To the store, and to the streams what tracking has found.
Publish(outs) ==
    /\ published' = Snapshot(outs)
    /\ told' = IF loop = "tracking" /\ Snapshot(outs).available
               THEN Snapshot(outs).fields ELSE told

\* A run is over: the next one starts, or the poll publishes and the loop sleeps.
Over(out) ==
    LET outs == Append(outputs, out) IN
    \/ /\ More(outs)
       /\ outputs' = outs /\ pc' = "spawn"
       /\ UNCHANGED <<published, told>>
    \/ /\ ~More(outs)
       /\ outputs' = <<>> /\ pc' = "asleep"
       /\ Publish(outs)

\* The text itself, or one line that says why not.
_raw_text(has, error) ==
    IF has THEN "verbatim" ELSE IF error # "none" THEN error ELSE NotYet.why

\* What GET /raw/chronyc/... answers.
get_raw(what) == _raw_text(what \in published.raw, published.why)

Heard == IF chronyd = "up" THEN {reading} ELSE {}
-----------------------------------------------------------------------------
Start ==
    /\ pc = "idle" /\ pc' = "spawn"
    /\ seen' = Heard
    /\ UNCHANGED <<loop, daemon, outputs, children, strays, published, told>>

\* chronyc is started.
Spawn ==
    /\ pc = "spawn" /\ pc' = "running"
    /\ children' = children + 1
    /\ UNCHANGED <<loop, daemon, outputs, strays, published, told, seen>>

\* The binary is missing or cannot be run.
NoBinary ==
    /\ pc = "spawn"
    /\ Over(Failed)
    /\ UNCHANGED <<loop, daemon, children, strays, seen>>

\* chronyc exits: output, or an error status or an error line.
Exits ==
    /\ pc = "running" /\ chronyd # "hung"
    /\ children' = children - 1
    /\ \E out \in {Failed, Rubbish} \cup {Report(r) : r \in Heard} :
          (chronyd = "down" => out = Failed) /\ Over(out)
    /\ UNCHANGED <<loop, daemon, strays, seen>>

\* The timeout kills the child, and a second is given to reap it.
TimesOut ==
    /\ pc = "running" /\ pc' = "reaping"
    /\ UNCHANGED <<loop, daemon, outputs, children, strays, published, told, seen>>

\* Mutant: the child that timed out is not killed.
NotReaped ==
    /\ pc = "reaping" /\ children < 3
    /\ Over(Failed)
    /\ UNCHANGED <<loop, daemon, children, strays, seen>>

\* The killed child is gone, or the loop goes on without it.
Reaped ==
    /\ pc = "reaping"
    /\ \/ children' = children - 1 /\ UNCHANGED strays
       \/ strays < MaxStrays /\ strays' = strays + 1 /\ UNCHANGED children
    /\ Over(Failed)
    /\ UNCHANGED <<loop, daemon, seen>>

\* The next poll.
Wake ==
    /\ pc = "asleep" /\ pc' = "spawn"
    /\ seen' = Heard
    /\ UNCHANGED <<loop, daemon, outputs, children, strays, published, told>>

\* Cancelling a loop does not touch the child it awaits.
Stop ==
    /\ pc \notin {"idle", "stopped"} /\ pc' = "stopped"
    /\ outputs' = <<>>
    /\ UNCHANGED <<loop, daemon, children, strays, published, told, seen>>

\* A child that was not reaped in time exits after all.
StrayExits ==
    /\ strays > 0
    /\ strays' = strays - 1 /\ children' = children - 1
    /\ UNCHANGED <<loop, daemon, pc, outputs, published, told, seen>>

Chronyd ==
    /\ chronyd' \in {"up", "down", "hung"} /\ reading' \in Readings
    /\ <<chronyd', reading'>> # daemon
    /\ seen' = IF pc # "asleep" /\ chronyd' = "up" THEN seen \cup {reading'} ELSE seen
    /\ UNCHANGED <<loop, pc, outputs, children, strays, published, told>>

Loop == Spawn \/ NoBinary \/ Exits \/ TimesOut \/ Reaped \/ Wake

Next == Start \/ Loop \/ Stop \/ StrayExits \/ Chronyd

Spec == Init /\ [][Next]_vars

\* Every await of a loop ends: by an exit, a timeout, or the sleep's end.
FairSpec == Spec /\ WF_vars(Start) /\ WF_vars(Loop)
-----------------------------------------------------------------------------
TypeOK ==
    /\ loop \in DOMAIN Runs
    /\ chronyd \in {"up", "down", "hung"} /\ reading \in Readings
    /\ pc \in {"idle", "spawn", "running", "reaping", "asleep", "stopped"}
    /\ outputs \in Seq(Outputs) /\ Len(outputs) < Len(Runs[loop])
    /\ children \in Nat /\ strays \in 0..MaxStrays
    /\ published.available \in BOOLEAN /\ published.raw \subseteq {"raw", "raw_stats"}

\* However long chronyc hangs, poll after poll, the loop has one child at most
\* beside those that would not die, and none while it sleeps: timeouts never
\* pile processes up.
OneChild ==
    /\ TypeOK
    /\ children >= strays /\ children <= strays + 1
    /\ pc \in {"asleep", "spawn"} => children = strays

\* What chronyd meant by a reading.
Meaning(r) ==
    [offset |-> r.offset, synchronized |-> r.stratum < 16 /\ r.leap = "normal"]

\* Between two polls the snapshot is that of the last one.  What it shows,
\* chronyd reported during that poll, with the right sign whichever of the two
\* forms it was read from; a poll without an answer leaves no reading in the
\* store, whatever was there before, nor any text of it to be had verbatim, and the
\* answer says why ("a one-line explanation", docs/api-contract.md:233); and what the
\* streams were last told is what the store shows, if it shows a reading.
HonestSnapshot ==
    pc = "asleep" =>
       /\ seen = {} => ~published.available
       /\ published.fields \cup published.stats \subseteq
             IF loop = "tracking" THEN {Meaning(r) : r \in seen} ELSE seen
       /\ ~published.available =>
             \A what \in {"raw", "raw_stats"} :
                get_raw(what) \notin {"verbatim", NotYet.why}
       /\ published.available /\ loop = "tracking" =>
             published.fields # {} /\ told = published.fields

\* A chronyd that stays down or hung shows for good, though a poll may have
\* begun while it was up.
LossShows ==
    <>[](chronyd # "up") => <>[](~published.available) \/ <>(pc = "stopped")
=============================================================================
