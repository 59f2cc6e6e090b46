------------------------------- MODULE Store -------------------------------
(***************************************************************************)
(* The bounded memories of StateStore (stratumtap/state.py): the ring of   *)
(* raw NMEA sentences, the arrival times the sentence rate is estimated    *)
(* from, and the history ring with its downsampling.  Everything is stamped*)
(* with the wall clock, which chrony may step.  A sentence or a row is its *)
(* serial number; the rounding of a row's stamp and its columns are left   *)
(* out.                                                                    *)
(*                                                                         *)
(* Everything runs in the event loop but the CSV export: history_csv is a  *)
(* plain generator, which StreamingResponse pulls in a worker thread, so   *)
(* its scan of the history deque interleaves with the sampler's appends.   *)
(***************************************************************************)
EXTENDS Filter, Integers, Sequences, SequencesExt

CONSTANTS
    RingSize,      \* nmea_ring
    HistorySize,   \* history_size
    RateWindow,    \* NMEA_RATE_WINDOW_S
    Interval,      \* history_interval_s, in seconds
    Seconds,       \* the spans a history request asks for
    CsvSeconds, CsvPoints,   \* the span and the max of an export request
    ClockSteps,    \* wall-clock corrections
    MaxSteps, MaxTime, MaxArrivals   \* bounds

ASSUME StoreAssumption ==
    /\ {RingSize, HistorySize, RateWindow, Interval, CsvPoints} \subseteq Nat \ {0}
    /\ Seconds \subseteq Nat /\ CsvSeconds \in Nat
    /\ ClockSteps \subseteq Int
    /\ {MaxSteps, MaxTime, MaxArrivals} \subseteq Nat

VARIABLES
    nmea_ring,      \* the sentences kept, oldest first
    nmea_times,     \* _nmea_times: stamps of arrivals
    history,        \* the rows kept, oldest first
    clock,          \* time.time()
    next_sample,    \* time left of the sampler's sleep
    csv,            \* the export: none, scanning, or just sent
    arrivals,       \* history: the real arrival time of every sentence
    samples,        \* history: rows taken so far
    real,           \* real time
    steps

storeVars == <<nmea_ring, nmea_times, history, clock, next_sample, csv, arrivals,
               samples, real, steps>>

Smaller(a, b) == IF a < b THEN a ELSE b

StoreInit ==
    /\ nmea_ring = <<>> /\ nmea_times = <<>> /\ history = <<>>
    /\ clock = 0 /\ real = 0 /\ steps = 0
    /\ next_sample = Interval
    /\ csv = [at |-> "none"]
    /\ arrivals = <<>> /\ samples = 0

\* A deque with a maxlen.
Push(ring, x, size) ==
    IF Len(ring) < size THEN Append(ring, x) ELSE Append(Tail(ring), x)

\* Mutant: the window is one second too short.
prune_too_much(times) ==
    LET live == {k \in DOMAIN times : times[k] > clock - RateWindow} IN
    IF live = {} THEN <<>> ELSE SubSeq(times, Min(live), Len(times))

\* _prune_nmea pops from the left while the head is too old.
prune_nmea(times) ==
    LET live == {k \in DOMAIN times : times[k] >= clock - RateWindow} IN
    IF live = {} THEN <<>> ELSE SubSeq(times, Min(live), Len(times))

\* What the stats event reports, times RateWindow.
nmea_rate == Len(prune_nmea(nmea_times))

\* Mutant: a slice [-0:] is the whole ring.
nmea_slice(n) ==
    IF n = 0 \/ n >= Len(nmea_ring) THEN nmea_ring
    ELSE SubSeq(nmea_ring, Len(nmea_ring) - n + 1, Len(nmea_ring))

\* The newest n entries, oldest first.
nmea_lines(n) ==
    IF n = 0 THEN <<>>
    ELSE IF n >= Len(nmea_ring) THEN nmea_ring
    ELSE SubSeq(nmea_ring, Len(nmea_ring) - n + 1, Len(nmea_ring))

\* Every step-th row, counted from the newest.
Thinned(rows, step) ==
    LET n == Len(rows)
        kept == (n - 1) \div step + 1
    IN  [j \in 1..kept |-> rows[n - (kept - j) * step]]

\* Mutant: the step is rounded down.
DownsampleFloor(rows, max_points) ==
    IF Len(rows) > max_points THEN Thinned(rows, Len(rows) \div max_points) ELSE rows

Downsample(rows, max_points) ==
    IF Len(rows) > max_points
    THEN Thinned(rows, (Len(rows) + max_points - 1) \div max_points)
    ELSE rows

\* The rows from `cutoff` on.
Since(rows, cutoff) == Kept(rows, {row \in ToSet(rows) : row.t >= cutoff})

Newer(seconds) == Since(history, clock - seconds)

history_rows(seconds, max_points) == Downsample(Newer(seconds), max_points)
-----------------------------------------------------------------------------
\* A sentence arrives (GpsdClient._handle_nmea).
add_nmea ==
    /\ Len(arrivals) < MaxArrivals
    /\ arrivals' = Append(arrivals, real)
    /\ nmea_ring' = Push(nmea_ring, Len(arrivals) + 1, RingSize)
    /\ nmea_times' = prune_nmea(Append(nmea_times, clock))
    /\ UNCHANGED <<history, clock, next_sample, csv, samples, real, steps>>

\* A stream client's stats event reads the rate, which prunes.
ReadRate ==
    /\ nmea_times' = prune_nmea(nmea_times)
    /\ UNCHANGED <<nmea_ring, history, clock, next_sample, csv, arrivals,
                   samples, real, steps>>

sample ==
    /\ next_sample = 0
    /\ history' = Push(history, [t |-> clock, row |-> samples + 1], HistorySize)
    /\ samples' = samples + 1
    /\ next_sample' = Interval
    /\ UNCHANGED <<nmea_ring, nmea_times, clock, csv, arrivals, real, steps>>

Second ==
    /\ real < MaxTime /\ next_sample > 0
    /\ real' = real + 1 /\ clock' = clock + 1
    /\ next_sample' = next_sample - 1
    /\ UNCHANGED <<nmea_ring, nmea_times, history, csv, arrivals, samples, steps>>

ClockStep ==
    /\ steps < MaxSteps
    /\ \E d \in ClockSteps : clock' = clock + d
    /\ steps' = steps + 1
    /\ UNCHANGED <<nmea_ring, nmea_times, history, next_sample, csv, arrivals,
                   samples, real>>
-----------------------------------------------------------------------------
(* The export, in its thread. *)

loop == <<nmea_ring, nmea_times, history, clock, next_sample, arrivals, samples,
          real, steps>>

\* history_csv asks for the rows: the cutoff is computed, the scan begins.
CsvBegin ==
    /\ csv.at = "none"
    /\ csv' = [at |-> "scan", cutoff |-> clock - CsvSeconds, next |-> 1,
               rows |-> <<>>, whole |-> history]
    /\ UNCHANGED loop

\* Mutant: the rows are read by their index, which notices nothing.
Unnoticed == FALSE

\* The deque has been appended to since its iterator was made.
Mutated == history # csv.whole

\* The next row, unless the iterator raises.
CsvRow ==
    /\ csv.at = "scan" /\ csv.next <= Len(history)
    /\ ~Mutated
    /\ LET row == history[csv.next] IN
       csv' = [csv EXCEPT !.next = @ + 1,
                          !.rows = IF row.t >= csv.cutoff THEN Append(@, row) ELSE @]
    /\ UNCHANGED loop

\* RuntimeError, "deque mutated during iteration": the response, whose header
\* has been sent, breaks off.
CsvBreaks ==
    /\ csv.at = "scan" /\ Mutated
    /\ csv' = [at |-> "none"]
    /\ UNCHANGED loop

CsvDone ==
    /\ csv.at = "scan" /\ csv.next > Len(history)
    /\ ~Mutated
    /\ csv' = [at |-> "sent", rows |-> Downsample(csv.rows, CsvPoints),
               from |-> csv.cutoff, whole |-> csv.whole]
    /\ UNCHANGED loop

CsvOver ==
    /\ csv.at = "sent"
    /\ csv' = [at |-> "none"]
    /\ UNCHANGED loop

StoreNext ==
    \/ add_nmea \/ ReadRate \/ sample \/ Second \/ ClockStep
    \/ CsvBegin \/ CsvRow \/ CsvBreaks \/ CsvDone \/ CsvOver

StoreSpec == StoreInit /\ [][StoreNext]_storeVars
-----------------------------------------------------------------------------
StoreTypeOK ==
    /\ nmea_ring \in Seq(Nat) /\ Len(nmea_ring) <= RingSize
    /\ nmea_times \in Seq(Int)
    /\ \A k \in DOMAIN history : history[k] \in [t : Int, row : Nat]
    /\ Len(history) <= HistorySize
    /\ next_sample \in 0..Interval
    /\ csv.at \in {"none", "scan", "sent"}

LastOf(n, total) == [k \in 1..n |-> total - n + k]

\* Whatever is asked for, GET /raw/nmea answers with exactly the newest
\* sentences received, in order, as many as were asked for and are kept.
NewestLines ==
    \A n \in 0..(RingSize + 1) :
       nmea_lines(n) = LastOf(Smaller(n, Smaller(RingSize, Len(arrivals))), Len(arrivals))

\* The rings hold no more than they may and nothing but the newest.
RingsSound == StoreTypeOK /\ NewestLines

RowsOf(rows) == [k \in DOMAIN rows |-> rows[k].row]

\* The history request: at most max_points rows, evenly spaced, in order, the
\* newest among them, and all of them when they fit.
DownsamplingFair ==
    \A seconds \in Seconds, p \in 1..(HistorySize + 1) :
       LET all == RowsOf(Newer(seconds))
           got == RowsOf(history_rows(seconds, p))
       IN  /\ Len(got) <= p
           /\ Len(all) <= p => got = all
           /\ all # <<>> => got # <<>> /\ Last(got) = Last(all)
           /\ ToSet(got) \subseteq ToSet(all)
           /\ \A k \in 1..(Len(got) - 1) :
                 /\ got[k] < got[k + 1]
                 /\ Cardinality({r \in ToSet(all) : got[k] < r /\ r <= got[k + 1]})
                      = Cardinality({r \in ToSet(all) : got[1] < r /\ r <= got[2]})

Arrived(k) == arrivals[k] >= real - RateWindow

\* "Sentences per second, counted over the last NMEA_RATE_WINDOW_S"
\* (state.py:103): while the wall clock has not been stepped, the rate counts
\* exactly the sentences that arrived then.
RateIsRecent ==
    steps = 0 => nmea_rate = Cardinality({k \in DOMAIN arrivals : Arrived(k)})

\* Both readings of the sentences, the newest and their rate, are true of those that
\* arrived, whatever else was pruned meanwhile.
LinesSound == RingsSound /\ RateIsRecent

\* An export that is not broken off has "the same rows" (state.py:157) a JSON
\* request would have had when it began, whatever was sampled meanwhile.
ExportWhole ==
    csv.at = "sent" =>
        csv.rows = Downsample(Since(csv.whole, csv.from), CsvPoints)
=============================================================================
