----------------------------- MODULE ClockSync -----------------------------
(***************************************************************************)
(* The page's estimate of the server clock (static/js/clock.js), fed by    *)
(* every exchange of the API client (#request and #feedClock in api.js).   *)
(*                                                                         *)
(* `theta` is what is estimated, server clock minus browser clock.  Either *)
(* clock may be stepped, also while exchanges are under way.  With `out`   *)
(* and `back` the one-way delays, and `a` and `b` the values of theta when *)
(* the two outer and the two inner stamps were taken (t0 and t1, t2 and    *)
(* t3), the stamps give                                                    *)
(*    delay = (t3 - t0) - (t2 - t1)      = out + back + a - b              *)
(*    2 * offset = (t1 - t0) + (t2 - t3) = a + b + out - back              *)
(* whichever clock was stepped in between.  An offset is kept doubled, so  *)
(* that it stays an integer.                                               *)
(*                                                                         *)
(* The server's stamps are fine, t0 and t3 come from Date.now(), which     *)
(* drops the fraction of the millisecond: what t0 drops is added to `out`, *)
(* what t3 drops is taken from `back`, which may so be below zero.  The    *)
(* unit of time is a fraction of a millisecond; the rounding of the        *)
(* floats, below a microsecond, is left out.                               *)
(***************************************************************************)
EXTENDS Integers, Sequences, SequencesExt

CONSTANTS
    Ring,         \* RING
    Millisecond,  \* the resolution of Date.now()
    Slack,        \* how far below zero a delay may come out
    MaxDelay,     \* the longest delay that makes sense
    Delays,       \* what a one-way delay may be
    ClockSteps,   \* by how much either clock may be stepped
    Null,         \* no best sample
    MaxSteps,     \* bound on the steps
    MaxFlight     \* bound on the exchanges under way

ASSUME ClockAssumption ==
    /\ {Ring, Millisecond} \subseteq Nat \ {0}
    /\ Slack \in Nat /\ MaxDelay \in Nat
    /\ Delays \subseteq Nat /\ ClockSteps \subseteq Int
    /\ {MaxSteps, MaxFlight} \subseteq Nat

VARIABLES
    theta,          \* server clock - browser clock
    flight,         \* for every exchange under way, the thetas it has met
    samples,        \* ClockSync.samples, oldest first
    best,           \* ClockSync.best
    lastReceived,   \* t2 - t3 of the last exchange, or Null
    doubtful,       \* history: how many more samples until the last one taken
                    \* across or before a step has left the ring
    steps

clockVars == <<theta, flight, samples, best, lastReceived, doubtful, steps>>

ClockInit ==
    /\ theta = 0
    /\ flight = <<>> /\ samples = <<>>
    /\ best = Null /\ lastReceived = Null
    /\ doubtful = 0 /\ steps = 0

\* Mutant: a sample is compared with the best one ever seen.
bestEver(ring) ==
    best' = IF best = Null \/ Last(ring).delay < best.delay THEN Last(ring) ELSE best

\* The least delayed sample of the ring, the oldest of several.
refreshBest(ring) ==
    \E k \in DOMAIN ring :
        /\ \A j \in DOMAIN ring :
              /\ ring[k].delay <= ring[j].delay
              /\ j < k => ring[k].delay < ring[j].delay
        /\ best' = ring[k]

Usable(delay) == -Slack <= delay /\ delay <= MaxDelay

Pushed(s) ==
    IF Len(samples) < Ring THEN Append(samples, s) ELSE Tail(Append(samples, s))

Positive(n) == IF n > 0 THEN n ELSE 0

\* The sample an exchange yields; `out` and `back` as the stamps tell them.
Measured(out, back, a, b) ==
    [delay |-> Positive(out + back + a - b), offset2 |-> a + b + out - back]

addSample(out, back, a, b) ==
    /\ Usable(out + back + a - b)
    /\ samples' = Pushed(Measured(out, back, a, b))
    /\ refreshBest(samples')
    /\ lastReceived' = b - back
    /\ doubtful' = IF a = theta /\ b = theta THEN Positive(doubtful - 1) ELSE Ring
-----------------------------------------------------------------------------
(* The server's stamps, by the thetas `met` that an exchange has met *)

\* The middleware stamps t_recv on arrival: t_recv - t0 may hold any theta met.
Received(met) == DOMAIN met

\* server_info stamps t_send when the answer is made, after t_recv: t_send - t3 holds
\* the same theta or a later one.
Sent(met, received) == received..Len(met)

\* What Date.now() may drop.
Dropped == 0..(Millisecond - 1)

\* t0 is stamped and the request sent.
Send ==
    /\ Len(flight) < MaxFlight
    /\ flight' = Append(flight, <<theta>>)
    /\ UNCHANGED <<theta, samples, best, lastReceived, doubtful, steps>>

\* The body has been read, in any order of the exchanges: the stamps were taken
\* before, between or after the steps the exchange has met.
Answer ==
    /\ \E k \in DOMAIN flight, out \in Delays, back \in Delays :
          /\ flight' = RemoveAt(flight, k)
          /\ \E i \in Received(flight[k]), of_t0 \in Dropped, of_t3 \in Dropped :
                \E j \in Sent(flight[k], i) :
                   addSample(out + of_t0, back - of_t3, flight[k][i], flight[k][j])
    /\ UNCHANGED <<theta, steps>>

\* The exchange fails, or its stamps are unusable: a clock stepped too far in
\* the middle of it, a server clock that went backwards, an answer without them.
NoSample ==
    /\ \E k \in DOMAIN flight : flight' = RemoveAt(flight, k)
    /\ UNCHANGED <<theta, samples, best, lastReceived, doubtful, steps>>

ClockStep ==
    /\ steps < MaxSteps
    /\ \E d \in ClockSteps :
          /\ theta' = theta + d
          /\ flight' = [k \in DOMAIN flight |-> Append(flight[k], theta + d)]
    /\ doubtful' = Ring
    /\ steps' = steps + 1
    /\ UNCHANGED <<samples, best, lastReceived>>

ClockNext == Send \/ Answer \/ NoSample \/ ClockStep

ClockSpec == ClockInit /\ [][ClockNext]_clockVars
-----------------------------------------------------------------------------
Samples == [delay : Nat, offset2 : Int]

ClockTypeOK ==
    /\ theta \in Int /\ doubtful \in 0..Ring
    /\ flight \in Seq(Seq(Int))
    /\ samples \in Seq(Samples) /\ Len(samples) <= Ring
    /\ best \in Samples \cup {Null}
    /\ lastReceived \in Int \cup {Null}

\* The offset of sample s is behind the difference t by half its delay at most, and
\* ahead of it by that and what Date.now() may have dropped from t3.
WithinDelay(s, t) ==
    /\ 2 * t - s.offset2 <= s.delay
    /\ s.offset2 - 2 * t <= s.delay + 2 * (Millisecond - 1)

\* "Asymmetry shows up as offset error of up to +-delay/2, which is why we
\* display the delay next to the offset" (clock.js:11-12).  Less than a
\* millisecond comes on top, on one side, as "Date.now() is integer ms"
\* (clock.js:40-42), and no more, unless a clock was stepped less than RING
\* samples ago: an old best sample is not kept beyond its time, nor one taken
\* across the step.
EstimateSound ==
    best # Null /\ doubtful = 0 => WithinDelay(best, theta)
=============================================================================
