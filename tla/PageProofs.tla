----------------------------- MODULE PageProofs -----------------------------
(***************************************************************************)
(* Theorems about the models of the page: Refresh, its polling scheduler,  *)
(* for any choice of intervals and any cap; ClockSync, its estimate of the *)
(* server clock, for any ring, delays and clock steps; and Page, its views,*)
(* its charts and its recorder, for any views, ranges and caps.            *)
(***************************************************************************)
EXTENDS Page, Refresh, ClockSync, SequenceTheorems, TLAPS

(* The scheduler *)

Phases == {"headers", "body", "aborted"}

\* The inductive invariant: before boot nothing is under way.
SchedulerInv ==
    /\ requests \in Seq(Phases)
    /\ NoOverlap
    /\ Armed
    /\ ~booted => stopped /\ ~inFlight

LEMMA NoTimerApart == NoTimer \notin Nat
  BY RefreshAssumption DEF RefreshAssumption

\* At most one request: the only one is the one that settles.
LEMMA RemoveOnly ==
    ASSUME NEW s \in Seq(Phases), Len(s) <= 1, NEW k \in DOMAIN s
    PROVE  RemoveAt(s, k) \in Seq(Phases) /\ Len(RemoveAt(s, k)) = 0
<1>1. k = 1 /\ Len(s) = 1
  <2>1. Len(s) \in Nat /\ DOMAIN s = 1..Len(s)
    OBVIOUS
  <2> QED  BY <2>1
<1>2. RemoveAt(s, k) = SubSeq(s, 1, 0) \o SubSeq(s, 2, 1)
  BY <1>1 DEF RemoveAt
<1>3. SubSeq(s, 1, 0) = <<>> /\ SubSeq(s, 2, 1) = <<>>
  BY SubSeqEmpty
<1>4. <<>> \in Seq(Phases) /\ Len(<<>>) = 0 /\ <<>> \o <<>> = <<>>
  OBVIOUS
<1> QED  BY <1>2, <1>3, <1>4

\* Issuing a request when none is in flight.
LEMMA IssueOne ==
    ASSUME SchedulerInv, ~inFlight, NEW s, s = Append(requests, "headers")
    PROVE  s \in Seq(Phases) /\ Len(s) = 1
  BY DEF SchedulerInv, NoOverlap, Phases

\* run() from a state that keeps the invariant, with `halted` telling whether
\* the scheduler is stopped once the caller is done.
LEMMA RunKeeps ==
    ASSUME SchedulerInv, NEW halted, run(halted)
    PROVE  /\ requests' \in Seq(Phases)
           /\ NoOverlap'
           /\ halted \/ inFlight => UNCHANGED <<timer, inFlight, requests>>
           /\ ~(halted \/ inFlight) => timer' = NoTimer /\ inFlight'
<1>1. CASE halted \/ inFlight
  BY <1>1 DEF run, SchedulerInv, NoOverlap
<1>2. CASE ~(halted \/ inFlight)
  BY <1>2, IssueOne DEF run, NoOverlap
<1> QED  BY <1>1, <1>2

LEMMA PollingKeeps == SchedulerInv /\ [RefreshNext]_refreshVars => SchedulerInv'
<1> SUFFICES ASSUME SchedulerInv, [RefreshNext]_refreshVars PROVE SchedulerInv'
  OBVIOUS
<1> USE NoTimerApart
<1>1. CASE Start
  <2>1. run(FALSE)
    BY <1>1 DEF Start
  <2>2. requests' \in Seq(Phases) /\ NoOverlap' /\ timer' = NoTimer /\ inFlight'
    BY <1>1, <2>1, RunKeeps DEF Start, SchedulerInv
  <2> QED  BY <1>1, <2>2 DEF Start, SchedulerInv, Armed
<1>2. CASE Stop
  <2>1. requests' \in Seq(Phases) /\ Len(requests') = Len(requests)
    BY <1>2 DEF Stop, SchedulerInv, Phases
  <2> QED  BY <1>2, <2>1 DEF Stop, SchedulerInv, NoOverlap, Armed
<1>3. CASE TimerFires
  <2>1. ~stopped /\ ~inFlight /\ booted
    BY <1>3 DEF TimerFires, SchedulerInv, Armed
  <2>2. timer' = NoTimer /\ inFlight' = TRUE /\ requests' = Append(requests, "headers")
    BY <1>3, <2>1 DEF TimerFires
  <2>3. requests' \in Seq(Phases) /\ Len(requests') = 1
    BY <2>1, <2>2, IssueOne
  <2> QED  BY <1>3, <2>1, <2>2, <2>3
           DEF TimerFires, page, SchedulerInv, NoOverlap, Armed
<1>4. CASE refreshNow
  <2>1. run(stopped) /\ booted /\ UNCHANGED <<page, settings>>
    BY <1>4 DEF refreshNow
  <2>2. requests' \in Seq(Phases) /\ NoOverlap'
    BY <2>1, RunKeeps
  <2>3. CASE stopped \/ inFlight
    BY <2>1, <2>2, <2>3, RunKeeps DEF page, SchedulerInv, Armed
  <2>4. CASE ~(stopped \/ inFlight)
    BY <2>1, <2>2, <2>4, RunKeeps DEF page, SchedulerInv, Armed
  <2> QED  BY <2>3, <2>4
<1>5. CASE SelectInterval \/ TogglePause
  <2>1. PICK s : ChangeSettings(s)
    BY <1>5 DEF SelectInterval, TogglePause
  <2>2. UNCHANGED <<page, inFlight, requests, backoff>> /\ settings' = s
    BY <2>1 DEF ChangeSettings
  <2>3. Armed'
    <3>1. CASE ~booted
      BY <2>1, <2>2, <3>1 DEF ChangeSettings, page, SchedulerInv, Armed
    <3>2. CASE booted /\ inFlight
      BY <2>1, <2>2, <3>2 DEF ChangeSettings, reschedule, page, SchedulerInv, Armed
    <3>3. CASE booted /\ ~inFlight
      BY <2>1, <2>2, <3>3
               DEF ChangeSettings, reschedule, schedule, page, Polls, Armed
    <3> QED  BY <3>1, <3>2, <3>3
  <2> QED  BY <2>2, <2>3 DEF page, SchedulerInv, NoOverlap
<1>6. CASE TogglePauseWhenHidden
  <2>1. Polls(settings)' <=> Polls(settings)
    BY <1>6 DEF TogglePauseWhenHidden, page, Polls, isPaused
  <2> QED  BY <1>6, <2>1
           DEF TogglePauseWhenHidden, page, SchedulerInv, NoOverlap, Armed, Wait
<1>7. CASE Visibility
  <2>1. UNCHANGED <<booted, stopped, backoff, settings>>
    BY <1>7 DEF Visibility
  <2>2. CASE stopped
    BY <1>7, <2>1, <2>2 DEF Visibility, SchedulerInv, NoOverlap, Armed
  <2>3. CASE ~stopped /\ ~settings.pauseWhenHidden
    <3>1. UNCHANGED <<timer, inFlight, requests>>
      BY <1>7, <2>3 DEF Visibility
    <3>2. Polls(settings)' <=> Polls(settings)
      BY <2>1, <2>3 DEF Polls, isPaused
    <3>3. Wait(backoff, settings)' = Wait(backoff, settings)
      BY <2>1 DEF Wait
    <3> QED  BY <2>1, <3>1, <3>2, <3>3 DEF SchedulerInv, NoOverlap, Armed
  <2>4. CASE ~stopped /\ settings.pauseWhenHidden /\ hidden'
    <3>1. timer' = NoTimer /\ UNCHANGED <<inFlight, requests>>
      BY <1>7, <2>4 DEF Visibility
    <3>2. ~Polls(settings)'
      BY <2>1, <2>4 DEF Polls
    <3> QED  BY <2>1, <3>1, <3>2 DEF SchedulerInv, NoOverlap, Armed
  <2>5. CASE ~stopped /\ settings.pauseWhenHidden /\ ~hidden' /\ isPaused(settings)
    <3>1. UNCHANGED <<timer, inFlight, requests>>
      BY <1>7, <2>5 DEF Visibility
    <3>2. ~Polls(settings) /\ ~Polls(settings)'
      BY <2>1, <2>5 DEF Polls, isPaused
    <3> QED  BY <2>1, <3>1, <3>2 DEF SchedulerInv, NoOverlap, Armed
  <2>6. CASE ~stopped /\ settings.pauseWhenHidden /\ ~hidden' /\ ~isPaused(settings)
    <3>1. run(FALSE)
      BY <1>7, <2>6 DEF Visibility
    <3>2. hidden
      BY <1>7, <2>6 DEF Visibility
    <3>3. timer = NoTimer
      BY <2>6, <3>2 DEF SchedulerInv, Armed, Polls
    <3>4. timer' = NoTimer /\ inFlight' /\ requests' \in Seq(Phases) /\ NoOverlap'
      <4>1. CASE inFlight
        <5>1. UNCHANGED <<timer, inFlight, requests>> /\ requests' \in Seq(Phases)
              /\ NoOverlap'
          BY <3>1, <4>1, RunKeeps
        <5> QED  BY <3>3, <4>1, <5>1
      <4>2. CASE ~inFlight
        BY <3>1, <4>2, RunKeeps
      <4> QED  BY <4>1, <4>2
    <3>5. Armed'
      BY <3>4 DEF Armed
    <3> QED  BY <2>1, <2>6, <3>4, <3>5 DEF SchedulerInv
  <2> QED  BY <2>2, <2>3, <2>4, <2>5, <2>6
<1>8. ASSUME NEW k \in DOMAIN requests, Headers(k) PROVE SchedulerInv'
  <2>1. requests' \in Seq(Phases) /\ Len(requests') = Len(requests)
    BY <1>8 DEF Headers, SchedulerInv, Phases
  <2> QED  BY <1>8, <2>1 DEF Headers, page, SchedulerInv, NoOverlap, Armed, Polls
<1>9. ASSUME NEW k \in DOMAIN requests, Succeed(k) \/ Fail(k) PROVE SchedulerInv'
  <2>1. requests' = RemoveAt(requests, k) /\ inFlight' = FALSE
        /\ UNCHANGED <<page, settings>> /\ schedule(backoff', settings)
    BY <1>9 DEF Succeed, Fail
  <2>2. requests' \in Seq(Phases) /\ Len(requests') = 0
    <3>1. requests \in Seq(Phases) /\ Len(requests) <= 1
      BY DEF SchedulerInv, NoOverlap
    <3> QED  BY <2>1, <3>1, RemoveOnly
  <2>3. booted
    BY DEF SchedulerInv, NoOverlap
  <2> QED  BY <2>1, <2>2, <2>3
           DEF schedule, page, SchedulerInv, NoOverlap, Armed, Polls
<1>10. CASE UNCHANGED refreshVars
  BY <1>10 DEF refreshVars, SchedulerInv, NoOverlap, Armed, Polls, Wait
<1> QED
  BY <1>1, <1>2, <1>3, <1>4, <1>5, <1>6, <1>7, <1>8, <1>9, <1>10 DEF RefreshNext

LEMMA AlwaysScheduled == RefreshSpec => []SchedulerInv
<1>1. RefreshInit => SchedulerInv
  BY DEF RefreshInit, SchedulerInv, NoOverlap, Armed
<1> QED  BY <1>1, PollingKeeps, PTL DEF RefreshSpec

\* The timer chain is neither lost nor doubled, and never waits for a setting
\* that has been changed since.
THEOREM TimerAlwaysRight == RefreshSpec => []Armed
<1>1. SchedulerInv => Armed
  BY DEF SchedulerInv
<1> QED  BY <1>1, AlwaysScheduled, PTL

-----------------------------------------------------------------------------
(* Types, and what the header shows. *)

Shows == {"init", "ok", "degraded", "failing"}

\* The part of the type invariant the pace and the header depend on.
StoreTypes ==
    /\ settings \in Settings
    /\ backoff \in Intervals \cup 0..MaxBackoff
    /\ connection \in Shows /\ errors \in 0..2

LEMMA IntervalIsNat == ASSUME NEW i \in Intervals PROVE i \in Nat
  BY RefreshAssumption DEF RefreshAssumption

LEMMA CapIsPositive == MaxBackoff \in Nat /\ MaxBackoff >= 1
  BY RefreshAssumption DEF RefreshAssumption

\* What the next wait after a failure may be: doubled up to the cap, or the
\* first one, never zero.
LEMMA BackoffRange ==
    ASSUME StoreTypes PROVE Backoff \in Intervals \cup 0..MaxBackoff /\ Backoff > 0
<1>1. settings.refreshS \in Intervals /\ settings.refreshS \in Nat
  BY IntervalIsNat DEF StoreTypes, Settings
<1>2. backoff \in Nat
  BY IntervalIsNat, CapIsPositive DEF StoreTypes
<1>3. CASE backoff > 0
  BY <1>2, <1>3, CapIsPositive DEF Backoff, Smaller
<1>4. CASE ~(backoff > 0)
  BY <1>1, <1>4, CapIsPositive DEF Backoff, Larger
<1> QED  BY <1>3, <1>4

LEMMA SetErrorTypes ==
    ASSUME StoreTypes, setError
    PROVE  /\ connection' \in {"degraded", "failing"}
           /\ errors' \in 1..2
  BY DEF StoreTypes, setError, Smaller

\* No slowing down without trouble.
SlowMeansTrouble == backoff > 0 => errors > 0 /\ connection \in {"degraded", "failing"}

StoreInv == StoreTypes /\ SlowMeansTrouble

LEMMA StoreKeeps == StoreInv /\ [RefreshNext]_refreshVars => StoreInv'
<1> SUFFICES ASSUME StoreInv, [RefreshNext]_refreshVars PROVE StoreInv'
  OBVIOUS
<1> USE DEF StoreInv, StoreTypes, SlowMeansTrouble
<1>1. CASE Start \/ Stop \/ TimerFires \/ Visibility
  BY <1>1 DEF Start, Stop, TimerFires, Visibility, page, store
<1>2. CASE refreshNow
  BY <1>2, CapIsPositive DEF refreshNow, page, store
<1>3. CASE SelectInterval \/ TogglePause \/ TogglePauseWhenHidden
  <2>1. settings' \in Settings
    BY <1>3
             DEF SelectInterval, TogglePause, TogglePauseWhenHidden, ChangeSettings, Settings
  <2>2. UNCHANGED <<backoff, connection, errors>>
    BY <1>3
             DEF SelectInterval, TogglePause, TogglePauseWhenHidden, ChangeSettings, store
  <2> QED  BY <2>1, <2>2
<1>4. ASSUME NEW k \in DOMAIN requests, Headers(k) PROVE StoreInv'
  BY <1>4 DEF Headers, page, store
<1>5. ASSUME NEW k \in DOMAIN requests, Succeed(k) PROVE StoreInv'
  BY <1>5, CapIsPositive DEF Succeed, setStatus, page, Shows
<1>6. ASSUME NEW k \in DOMAIN requests, Fail(k) PROVE StoreInv'
  <2>1. settings' = settings
    BY <1>6 DEF Fail
  <2>2. CASE stopped
    BY <1>6, <2>1, <2>2 DEF Fail, store
  <2>3. CASE ~stopped
    <3>1. backoff' = Backoff /\ setError
      BY <1>6, <2>3 DEF Fail
    <3> QED  BY <2>1, <3>1, BackoffRange, SetErrorTypes DEF Shows
  <2> QED  BY <2>2, <2>3
<1>7. CASE UNCHANGED refreshVars
  BY <1>7 DEF refreshVars
<1> QED  BY <1>1, <1>2, <1>3, <1>4, <1>5, <1>6, <1>7 DEF RefreshNext

LEMMA AlwaysStored == RefreshSpec => []StoreInv
<1>1. RefreshInit => StoreInv
  BY CapIsPositive DEF RefreshInit, StoreInv, StoreTypes, SlowMeansTrouble, Shows
<1> QED  BY <1>1, StoreKeeps, PTL DEF RefreshSpec

\* The pace of polling and the connection the header shows always agree.
THEOREM TroubleAlwaysShows == RefreshSpec => []TroubleShows
<1>1. SchedulerInv /\ StoreInv => TroubleShows
  <2> SUFFICES ASSUME SchedulerInv, StoreInv PROVE TroubleShows
    OBVIOUS
  <2>1. backoff \in Nat
    BY IntervalIsNat, CapIsPositive DEF StoreInv, StoreTypes
  <2>2. ASSUME connection = "ok", timer # NoTimer PROVE timer = settings.refreshS
    <3>1. timer = Wait(backoff, settings)
      BY <2>2 DEF SchedulerInv, Armed
    <3>2. ~(backoff > 0)
      BY <2>2 DEF StoreInv, SlowMeansTrouble
    <3> QED  BY <3>1, <3>2 DEF Wait
  <2> QED  BY <2>2 DEF TroubleShows, StoreInv, SlowMeansTrouble
<1> QED  BY <1>1, AlwaysScheduled, AlwaysStored, PTL

\* Types: in particular the backoff never exceeds its cap or the interval the
\* user chose.
LEMMA PollingTypes == RefreshSpec => []RefreshTypeOK
<1>1. SchedulerInv /\ StoreInv => timer \in Nat \cup {NoTimer}
  <2> SUFFICES ASSUME SchedulerInv, StoreInv PROVE timer \in Nat \cup {NoTimer}
    OBVIOUS
  <2>1. backoff \in Nat
    BY IntervalIsNat, CapIsPositive DEF StoreInv, StoreTypes
  <2>2. settings.refreshS \in Nat
    BY IntervalIsNat DEF StoreInv, StoreTypes, Settings
  <2> QED  BY <2>1, <2>2 DEF SchedulerInv, Armed, Wait
<1> DEFINE Flags == /\ booted \in BOOLEAN /\ stopped \in BOOLEAN
                    /\ hidden \in BOOLEAN /\ inFlight \in BOOLEAN
<1>2. RefreshInit => Flags
  BY DEF RefreshInit
<1>3. Flags /\ [RefreshNext]_refreshVars => Flags'
  <2> SUFFICES ASSUME Flags, [RefreshNext]_refreshVars PROVE Flags'
    OBVIOUS
  <2>1. CASE Start
    BY <2>1 DEF Start, run
  <2>2. CASE Stop
    BY <2>2 DEF Stop
  <2>3. CASE TimerFires
    BY <2>3 DEF TimerFires, page
  <2>4. CASE refreshNow
    BY <2>4 DEF refreshNow, run, page
  <2>5. CASE SelectInterval \/ TogglePause \/ TogglePauseWhenHidden
    BY <2>5
             DEF SelectInterval, TogglePause, TogglePauseWhenHidden, ChangeSettings, page
  <2>6. CASE Visibility
    <3>1. UNCHANGED <<booted, stopped>> /\ hidden' \in BOOLEAN
      BY <2>6 DEF Visibility
    <3>2. UNCHANGED inFlight \/ inFlight' = TRUE
      BY <2>6 DEF Visibility, run
    <3> QED  BY <3>1, <3>2
  <2>7. ASSUME NEW k \in DOMAIN requests, Headers(k) \/ Succeed(k) \/ Fail(k)
        PROVE  Flags'
    BY <2>7 DEF Headers, Succeed, Fail, page
  <2>8. CASE UNCHANGED refreshVars
    BY <2>8 DEF refreshVars
  <2> QED  BY <2>1, <2>2, <2>3, <2>4, <2>5, <2>6, <2>7, <2>8 DEF RefreshNext
<1>4. SchedulerInv /\ StoreInv /\ Flags /\ timer \in Nat \cup {NoTimer} => RefreshTypeOK
  BY DEF SchedulerInv, StoreInv, StoreTypes, RefreshTypeOK, Phases, Shows
<1> HIDE DEF Flags
<1> QED  BY <1>1, <1>2, <1>3, <1>4, AlwaysScheduled, AlwaysStored, PTL
         DEF RefreshSpec

\* Requests never overlap, however slow the server and whatever is clicked, hidden,
\* shown or stopped while one is awaited; and the types hold.
THEOREM RequestsNeverOverlap == RefreshSpec => []OneRequest
<1>1. SchedulerInv /\ RefreshTypeOK => OneRequest
  BY DEF SchedulerInv, OneRequest
<1> QED  BY <1>1, AlwaysScheduled, PollingTypes, PTL
-----------------------------------------------------------------------------
(* The estimate of the server clock *)

\* The samples taken wholly after the last step are the newest ones: all but
\* the `doubtful` first of a full ring.
NewestClean ==
    \A k \in DOMAIN samples :
        k > Len(samples) - (Ring - doubtful) => WithinDelay(samples[k], theta)

BestInRing == best # Null => \E k \in DOMAIN samples : best = samples[k]

ClockInv == ClockTypeOK /\ NewestClean /\ BestInRing

LEMMA RingIsPositive ==
    Ring \in Nat /\ Ring >= 1 /\ Slack \in Nat /\ Millisecond \in Nat /\ Millisecond >= 1
  BY ClockAssumption DEF ClockAssumption

LEMMA StepIsInt == ASSUME NEW d \in ClockSteps PROVE d \in Int
  BY ClockAssumption DEF ClockAssumption

LEMMA DelayIsNat == ASSUME NEW d \in Delays PROVE d \in Nat
  BY ClockAssumption DEF ClockAssumption

\* What is pushed is the last of the ring, and the others keep their order.
LEMMA PushedRing ==
    ASSUME samples \in Seq(Samples), Len(samples) <= Ring, NEW s \in Samples
    PROVE  /\ Pushed(s) \in Seq(Samples)
           /\ Len(Pushed(s)) \in 1..Ring
           /\ Len(samples) < Ring =>
                /\ Len(Pushed(s)) = Len(samples) + 1
                /\ \A k \in 1..Len(samples) : Pushed(s)[k] = samples[k]
           /\ Len(samples) = Ring =>
                /\ Len(Pushed(s)) = Ring
                /\ \A k \in 1..(Ring - 1) : Pushed(s)[k] = samples[k + 1]
           /\ Pushed(s)[Len(Pushed(s))] = s
<1>1. Len(samples) \in Nat /\ DOMAIN samples = 1..Len(samples)
  OBVIOUS
<1>2. PICK n \in Nat : n = Len(samples)
  BY <1>1
<1>3. PICK a : a = Append(samples, s)
  OBVIOUS
<1>4. /\ a \in Seq(Samples) /\ Len(a) = n + 1
      /\ \A k \in 1..n : a[k] = samples[k]
      /\ a[n + 1] = s
  BY <1>1, <1>2, <1>3
<1>5. CASE n < Ring
  <2>1. Pushed(s) = a
    BY <1>2, <1>3, <1>5 DEF Pushed
  <2>2. n + 1 \in 1..Ring /\ n # Ring
    BY <1>5, RingIsPositive
  <2> QED  BY <1>2, <1>4, <2>1, <2>2
<1>6. CASE ~(n < Ring)
  <2>1. n = Ring
    BY <1>2, <1>6, RingIsPositive
  <2>2. Pushed(s) = Tail(a)
    BY <1>2, <1>3, <1>6 DEF Pushed
  <2>3. PICK b : b = Tail(a)
    OBVIOUS
  <2>4. a # <<>>
    BY <1>4
  <2>5. b \in Seq(Samples)
    BY <1>4, <2>3, <2>4
  <2>6. Len(b) = n
    BY <1>4, <2>3, <2>4
  <2>7. ASSUME NEW k \in 1..n PROVE b[k] = a[k + 1]
    BY <1>4, <2>3, <2>4
  <2>8. ASSUME NEW k \in 1..(n - 1) PROVE b[k] = samples[k + 1]
    BY <1>4, <2>7
  <2>9. n \in 1..n /\ b[n] = s
    <3>1. n \in 1..n
      BY <2>1, RingIsPositive
    <3> QED  BY <1>4, <2>7, <3>1
  <2> QED  BY <1>2, <2>1, <2>2, <2>3, <2>5, <2>6, <2>8, <2>9
<1> QED  BY <1>5, <1>6

\* A sample measured wholly within one epoch is within its delay of the truth.
LEMMA MeasuredInt ==
    ASSUME NEW out \in Nat, NEW back \in Int, NEW a \in Int, NEW b \in Int
    PROVE  Measured(out, back, a, b) \in Samples
  BY DEF Measured, Samples, Positive

LEMMA MeasuredClean ==
    ASSUME theta \in Int, NEW out \in Nat, NEW back \in Int, back > -Millisecond
    PROVE  WithinDelay(Measured(out, back, theta, theta), theta)
  BY RingIsPositive DEF Measured, WithinDelay, Positive

\* One exchange, with theta unchanged.
LEMMA AnswerKeeps ==
    ASSUME ClockInv, theta' = theta, NEW out \in Nat, NEW back \in Int,
           back > -Millisecond, NEW a \in Int, NEW b \in Int, addSample(out, back, a, b)
    PROVE  /\ samples' \in Seq(Samples) /\ Len(samples') <= Ring
           /\ doubtful' \in 0..Ring
           /\ NewestClean' /\ BestInRing'
<1> DEFINE s == Measured(out, back, a, b)
<1>1. s \in Samples
  BY MeasuredInt
<1>2. samples' = Pushed(s)
  BY DEF addSample
<1>3. samples \in Seq(Samples) /\ Len(samples) <= Ring
  BY DEF ClockInv, ClockTypeOK
<1>4. Len(samples) \in Nat /\ Len(samples) <= Ring
  BY <1>3
<1>5. DOMAIN samples = 1..Len(samples)
  BY <1>3
<1> HIDE DEF s
<1>6. /\ samples' \in Seq(Samples) /\ Len(samples') \in 1..Ring
      /\ samples'[Len(samples')] = s
      /\ DOMAIN samples' = 1..Len(samples')
  BY <1>1, <1>2, <1>3, PushedRing
<1>7. doubtful' \in 0..Ring
  BY RingIsPositive DEF addSample, ClockInv, ClockTypeOK, Positive
<1>8. NewestClean'
  <2> SUFFICES ASSUME NEW k \in DOMAIN samples',
                      k > Len(samples') - (Ring - doubtful')
               PROVE  WithinDelay(samples'[k], theta)
    BY DEF NewestClean
  <2>1. k \in 1..Len(samples') /\ k \in Nat
    BY <1>6
  <2>2. a = theta /\ b = theta /\ doubtful' = Positive(doubtful - 1)
    <3>1. doubtful' # Ring
      BY <1>6, <2>1, RingIsPositive
    <3> QED  BY <3>1 DEF addSample
  <2>3. WithinDelay(s, theta)
    BY <2>2, MeasuredClean DEF s, ClockInv, ClockTypeOK
  <2>4. CASE k = Len(samples')
    BY <1>6, <2>3, <2>4
  <2>5. CASE k < Len(samples') /\ Len(samples) < Ring
    <3>1. Len(samples') = Len(samples) + 1 /\ samples'[k] = samples[k]
          /\ k \in DOMAIN samples
      BY <1>1, <1>2, <1>3, <1>4, <1>5, <2>1, <2>5, PushedRing
    <3>2. k > Len(samples) - (Ring - doubtful)
      BY <1>4, <2>2, <3>1, RingIsPositive DEF Positive, ClockInv, ClockTypeOK
    <3> QED  BY <3>1, <3>2 DEF ClockInv, NewestClean
  <2>6. CASE k < Len(samples') /\ ~(Len(samples) < Ring)
    <3>1. Len(samples) = Ring
      BY <1>4, <2>6, RingIsPositive
    <3>2. Len(samples') = Ring /\ samples'[k] = samples[k + 1]
          /\ k + 1 \in DOMAIN samples
      <4>1. /\ Len(samples') = Ring
            /\ \A i \in 1..(Ring - 1) : samples'[i] = samples[i + 1]
        BY <1>1, <1>2, <1>3, <3>1, PushedRing
      <4>2. k \in 1..(Ring - 1) /\ k + 1 \in 1..Len(samples)
        BY <2>1, <2>6, <3>1, <4>1, RingIsPositive
      <4> QED  BY <1>5, <4>1, <4>2
    <3>3. k + 1 > Len(samples) - (Ring - doubtful)
      BY <1>4, <2>1, <2>2, <3>1, <3>2, RingIsPositive
               DEF Positive, ClockInv, ClockTypeOK
    <3> QED  BY <3>2, <3>3 DEF ClockInv, NewestClean
  <2> QED  BY <1>6, <2>1, <2>4, <2>5, <2>6
<1>9. BestInRing'
  BY DEF addSample, refreshBest, BestInRing
<1> QED  BY <1>6, <1>7, <1>8, <1>9

\* Removing an exchange leaves exchanges.
LEMMA RemoveKeeps ==
    ASSUME NEW S, NEW s \in Seq(S), NEW k \in DOMAIN s
    PROVE  RemoveAt(s, k) \in Seq(S)
<1>1. k \in 1..Len(s) /\ Len(s) \in Nat
  OBVIOUS
<1>2. SubSeq(s, 1, k - 1) \in Seq(S)
  BY <1>1
<1>3. SubSeq(s, k + 1, Len(s)) \in Seq(S)
  BY <1>1
<1>4. RemoveAt(s, k) = SubSeq(s, 1, k - 1) \o SubSeq(s, k + 1, Len(s))
  BY DEF RemoveAt
<1> QED  BY <1>2, <1>3, <1>4

LEMMA SamplingKeeps == ClockInv /\ [ClockNext]_clockVars => ClockInv'
<1> SUFFICES ASSUME ClockInv, [ClockNext]_clockVars PROVE ClockInv'
  OBVIOUS
<1>1. CASE Send
  <2>1. flight' \in Seq(Seq(Int))
    BY <1>1 DEF Send, ClockInv, ClockTypeOK
  <2> QED  BY <1>1, <2>1
           DEF Send, ClockInv, ClockTypeOK, NewestClean, BestInRing, WithinDelay
<1>2. CASE Answer
  <2>1. PICK k \in DOMAIN flight, out \in Delays, back \in Delays :
          /\ flight' = RemoveAt(flight, k)
          /\ \E i \in DOMAIN flight[k], of_t0 \in Dropped, of_t3 \in Dropped :
                \E j \in i..Len(flight[k]) :
                   addSample(out + of_t0, back - of_t3, flight[k][i], flight[k][j])
    BY <1>2 DEF Answer, Received, Sent
  <2>2. PICK i \in DOMAIN flight[k], of_t0 \in Dropped, of_t3 \in Dropped :
          \E j \in i..Len(flight[k]) :
             addSample(out + of_t0, back - of_t3, flight[k][i], flight[k][j])
    BY <2>1
  <2>3. PICK j \in i..Len(flight[k]) :
          addSample(out + of_t0, back - of_t3, flight[k][i], flight[k][j])
    BY <2>2
  <2>4. flight[k] \in Seq(Int)
    BY DEF ClockInv, ClockTypeOK
  <2>5. DOMAIN flight[k] = 1..Len(flight[k]) /\ Len(flight[k]) \in Nat
    BY <2>4
  <2>6. flight[k][i] \in Int /\ flight[k][j] \in Int
    BY <2>4, <2>5
  <2>7. /\ out + of_t0 \in Nat
        /\ back - of_t3 \in Int /\ back - of_t3 > -Millisecond
    <3>1. out \in Nat /\ back \in Nat
      BY <2>1, DelayIsNat
    <3>2. of_t0 \in 0..(Millisecond - 1) /\ of_t3 \in 0..(Millisecond - 1)
      BY <2>2 DEF Dropped
    <3> QED  BY <3>1, <3>2, RingIsPositive
  <2>8. theta' = theta
    BY <1>2 DEF Answer
  <2>9. flight' \in Seq(Seq(Int))
    BY <2>1, RemoveKeeps DEF ClockInv, ClockTypeOK
  <2>10. /\ samples' \in Seq(Samples) /\ Len(samples') <= Ring
         /\ doubtful' \in 0..Ring /\ NewestClean' /\ BestInRing'
    BY <2>3, <2>6, <2>7, <2>8, AnswerKeeps
  <2>11. best' \in Samples \cup {Null}
    <3>1. ASSUME NEW m \in DOMAIN samples' PROVE samples'[m] \in Samples
      BY <2>10
    <3> QED  BY <2>10, <3>1 DEF BestInRing
  <2>12. lastReceived' \in Int
    BY <2>3, <2>6, <2>7 DEF addSample
  <2> QED  BY <2>8, <2>9, <2>10, <2>11, <2>12 DEF ClockInv, ClockTypeOK
<1>3. CASE NoSample
  <2>1. flight' \in Seq(Seq(Int))
    BY <1>3, RemoveKeeps DEF NoSample, ClockInv, ClockTypeOK
  <2> QED  BY <1>3, <2>1
           DEF NoSample, ClockInv, ClockTypeOK, NewestClean, BestInRing, WithinDelay
<1>4. CASE ClockStep
  <2>1. PICK d \in ClockSteps :
          /\ theta' = theta + d
          /\ flight' = [k \in DOMAIN flight |-> Append(flight[k], theta + d)]
    BY <1>4 DEF ClockStep
  <2>2. theta + d \in Int
    BY StepIsInt DEF ClockInv, ClockTypeOK
  <2>3. flight' \in Seq(Seq(Int))
    <3>1. \A k \in DOMAIN flight : Append(flight[k], theta + d) \in Seq(Int)
      BY <2>2 DEF ClockInv, ClockTypeOK
    <3>2. DOMAIN flight = 1..Len(flight) /\ Len(flight) \in Nat
      BY DEF ClockInv, ClockTypeOK
    <3> QED  BY <2>1, <3>1, <3>2
  <2>4. UNCHANGED <<samples, best, lastReceived>> /\ doubtful' = Ring
    BY <1>4 DEF ClockStep
  <2>5. NewestClean'
    BY <2>4, RingIsPositive DEF NewestClean, ClockInv, ClockTypeOK
  <2>6. ClockTypeOK'
    BY <2>1, <2>2, <2>3, <2>4, RingIsPositive DEF ClockInv, ClockTypeOK
  <2> QED  BY <2>4, <2>5, <2>6 DEF ClockInv, BestInRing
<1>5. CASE UNCHANGED clockVars
  BY <1>5 DEF clockVars, ClockInv, ClockTypeOK, NewestClean, BestInRing, WithinDelay
<1> QED  BY <1>1, <1>2, <1>3, <1>4, <1>5 DEF ClockNext

LEMMA ClockInitHolds == ClockInit => ClockInv
<1>1. ASSUME ClockInit PROVE ClockTypeOK
  BY <1>1, RingIsPositive DEF ClockInit, ClockTypeOK
<1> QED  BY <1>1, RingIsPositive DEF ClockInit, ClockInv, NewestClean, BestInRing

\* The ring never outgrows RING, and no delay in it is negative.
THEOREM ClockTypesCorrect == ClockSpec => []ClockTypeOK
<1>1. ClockInv => ClockTypeOK
  BY DEF ClockInv
<1> QED  BY <1>1, ClockInitHolds, SamplingKeeps, PTL DEF ClockSpec

\* While no clock was stepped within the last RING samples, the offset the page
\* corrects its display by is behind by half the delay it shows at most, and ahead by
\* less than a millisecond more (Date.now() in api.js:40 and 58).
THEOREM EstimateAlwaysSound == ClockSpec => []EstimateSound
<1>1. ClockInv => EstimateSound
  <2> SUFFICES ASSUME ClockInv, best # Null, doubtful = 0 PROVE WithinDelay(best, theta)
    BY DEF EstimateSound
  <2>1. PICK k \in DOMAIN samples : best = samples[k]
    BY DEF ClockInv, BestInRing
  <2>2. k \in 1..Len(samples) /\ Len(samples) \in Nat /\ Len(samples) <= Ring
    BY DEF ClockInv, ClockTypeOK
  <2>3. k > Len(samples) - (Ring - doubtful)
    BY <2>2, RingIsPositive
  <2> QED  BY <2>1, <2>3 DEF ClockInv, NewestClean
<1> QED  BY <1>1, ClockInitHolds, SamplingKeeps, PTL DEF ClockSpec
-----------------------------------------------------------------------------
(* The router.  The inductive invariant adds that a view whose unmount      *)
(* function is stored is mounted and its module fetched, and that, while no *)
(* two calls of route() have overlapped, the one that may be suspended is   *)
(* that of the current route.                                               *)

Counts ==
    /\ hash \in Views \cup {Unknown}
    /\ navs \in Nat /\ navs <= MaxNavs
    /\ events \in Nat /\ events <= navs + 1
    /\ currentRoute \in Views \cup {None} /\ currentUnmount \in Views \cup {None}
    /\ live \in [Views -> Nat] /\ awaiting \in [Views -> Nat]
    /\ fetched \subseteq Views /\ {failed, missing, overlapped} \subseteq BOOLEAN

Underway ==
    /\ hash # currentRoute => events > 0
    /\ currentUnmount # None => live[currentUnmount] > 0
    /\ currentRoute # None =>
         missing \/ live[currentRoute] > 0 \/ awaiting[currentRoute] > 0

InTurns ==
    /\ ExactlyOneView
    /\ \A v \in Views : awaiting[v] > 0 =>
         v = currentRoute /\ awaiting[v] = 1 /\ currentUnmount = None /\ ~missing
    /\ currentUnmount # None => currentUnmount = currentRoute
    /\ currentRoute # None =>
         missing \/ awaiting[currentRoute] > 0 \/ currentUnmount = currentRoute
    /\ failed <=> missing

RouterInv == Counts /\ Underway /\ (~overlapped => InTurns)

LEMMA NoView == /\ MaxNavs \in Nat /\ Home \in Views /\ None \notin Views
                /\ Unknown \notin Views /\ None # Unknown
  BY ConstantsAssumption DEF ConstantsAssumption

LEMMA FreshPage ==
  ASSUME NEW h \in Views \cup {Unknown}, NEW n \in Nat, n <= MaxNavs
  PROVE  /\ n + 1 \in Nat /\ 1 \in Nat /\ 1 <= n + 1
         /\ [v \in Views |-> 0] \in [Views -> Nat]
         /\ \A v \in Views : [w \in Views |-> 0][v] = 0
  OBVIOUS

LEMMA RouterInit == Init => RouterInv
<1> SUFFICES ASSUME Init PROVE RouterInv
  OBVIOUS
<1>1. /\ hash \in Views \cup {Unknown} /\ navs = 0 /\ events = 1
      /\ currentRoute = None /\ currentUnmount = None /\ fetched = {}
      /\ live \in [Views -> Nat] /\ awaiting \in [Views -> Nat]
      /\ \A v \in Views : live[v] = 0 /\ awaiting[v] = 0
      /\ failed = FALSE /\ missing = FALSE /\ overlapped = FALSE
  BY FreshPage DEF Init
<1>2. Counts
  <2>1. navs \in Nat /\ navs <= MaxNavs /\ events \in Nat /\ events <= navs + 1
    BY <1>1, NoView
  <2>2. {failed, missing, overlapped} \subseteq BOOLEAN /\ fetched \subseteq Views
    BY <1>1
  <2> QED  BY <1>1, <2>1, <2>2 DEF Counts
<1>3. Underway /\ InTurns
  BY <1>1, NoView DEF Underway, InTurns, ExactlyOneView
<1> QED  BY <1>2, <1>3 DEF RouterInv

LEMMA HashSteps ==
  ASSUME RouterInv, Navigate \/ Redirect \/ AlreadyThere
  PROVE  RouterInv'
<1> USE NoView DEF RouterInv
<1>1. UNCHANGED <<currentRoute, currentUnmount, live, awaiting, fetched, failed,
                  missing, overlapped>>
  BY DEF Navigate, Redirect, AlreadyThere
<1>2. InTurns => InTurns'
  BY <1>1 DEF InTurns, ExactlyOneView
<1>3. Counts'
  BY <1>1 DEF Counts, Navigate, Redirect, AlreadyThere
<1>4. Underway'
  BY <1>1 DEF Counts, Underway, Navigate, Redirect, AlreadyThere
<1> QED  BY <1>1, <1>2, <1>3, <1>4

\* What is left when the current view has been unmounted.
LEMMA AfterUnmount ==
  ASSUME RouterInv
  PROVE  /\ Unmounted \in [Views -> Nat]
         /\ \A v \in Views : v # currentUnmount => Unmounted[v] = live[v]
         /\ ~overlapped => \A v \in Views : Unmounted[v] = 0
<1> USE NoView DEF RouterInv
<1>1. CASE currentUnmount = None
  BY <1>1 DEF Unmounted, Counts, InTurns, ExactlyOneView
<1>2. CASE currentUnmount # None
  <2>1. currentUnmount \in Views /\ live[currentUnmount] - 1 \in Nat
    BY <1>2 DEF Counts, Underway
  <2>2. Unmounted = [live EXCEPT ![currentUnmount] = live[currentUnmount] - 1]
    BY <1>2 DEF Unmounted
  <2> QED  BY <2>1, <2>2 DEF Counts, InTurns, ExactlyOneView
<1> QED  BY <1>1, <1>2

LEMMA RouteStep == RouterInv /\ Route => RouterInv'
<1> SUFFICES ASSUME RouterInv, Route PROVE RouterInv'
  OBVIOUS
<1> USE NoView
<1>1. /\ events > 0 /\ hash \in Views /\ hash # currentRoute /\ events' = events - 1
      /\ currentRoute' = hash /\ failed' = FALSE /\ missing' = FALSE
      /\ UNCHANGED <<hash, fetched, navs>>
      /\ overlapped' = (overlapped \/ Awaited # {})
  BY DEF Route
<1>2. PICK left \in [Views -> Nat] :
         /\ left = Unmounted
         /\ \A v \in Views : v # currentUnmount => left[v] = live[v]
         /\ ~overlapped => \A v \in Views : left[v] = 0
  BY AfterUnmount
<1>3. ~overlapped' => ~overlapped /\ \A v \in Views : ~(awaiting[v] > 0)
  BY <1>1 DEF Awaited, RouterInv, Counts
<1>4. overlapped' \in BOOLEAN /\ awaiting \in [Views -> Nat]
  <2>1. CASE Awaited # {}
    BY <1>1, <2>1 DEF RouterInv, Counts
  <2>2. CASE Awaited = {}
    BY <1>1, <2>2 DEF RouterInv, Counts
  <2> QED  BY <2>1, <2>2
<1>5. CASE hash \in fetched
  <2>1. /\ live' = [left EXCEPT ![hash] = left[hash] + 1]
        /\ currentUnmount' = hash /\ awaiting' = awaiting
    BY <1>2, <1>5 DEF Route
  <2>2. /\ live' \in [Views -> Nat] /\ live'[hash] = left[hash] + 1
        /\ \A v \in Views : v # hash => live'[v] = left[v]
    BY <1>1, <1>2, <2>1
  <2>3. Counts'
    <3>1. events' \in Nat /\ events' <= navs' + 1
      <4>1. events \in Nat /\ navs \in Nat /\ events <= navs + 1
        BY DEF RouterInv, Counts
      <4> QED  BY <1>1, <4>1
    <3>3. {failed', missing'} \subseteq BOOLEAN
      BY <1>1
    <3>2. currentRoute' \in Views /\ currentUnmount' \in Views
      BY <1>1, <2>1
    <3> QED  BY <1>1, <1>4, <2>1, <2>2, <3>1, <3>2, <3>3 DEF RouterInv, Counts
  <2>4. Underway'
    BY <1>1, <1>2, <2>1, <2>2 DEF Underway
  <2>5. ~overlapped' => InTurns'
    BY <1>1, <1>2, <1>3, <2>1, <2>2 DEF InTurns, ExactlyOneView
  <2> QED  BY <2>3, <2>4, <2>5 DEF RouterInv
<1>6. CASE hash \notin fetched
  <2>1. /\ live' = left /\ currentUnmount' = None
        /\ awaiting' = [awaiting EXCEPT ![hash] = awaiting[hash] + 1]
    BY <1>2, <1>6 DEF Route, Suspend
  <2>2. /\ awaiting' \in [Views -> Nat] /\ awaiting'[hash] = awaiting[hash] + 1
        /\ \A v \in Views : v # hash => awaiting'[v] = awaiting[v]
    BY <1>1, <1>4, <2>1
  <2>3. Counts'
    <3>1. events' \in Nat /\ events' <= navs' + 1
      <4>1. events \in Nat /\ navs \in Nat /\ events <= navs + 1
        BY DEF RouterInv, Counts
      <4> QED  BY <1>1, <4>1
    <3>3. {failed', missing'} \subseteq BOOLEAN
      BY <1>1
    <3>2. currentRoute' \in Views /\ currentUnmount' = None
      BY <1>1, <2>1
    <3> QED  BY <1>1, <1>2, <1>4, <2>1, <2>2, <3>1, <3>2, <3>3
            DEF RouterInv, Counts
  <2>4. Underway'
    BY <1>1, <1>4, <2>1, <2>2 DEF Underway
  <2>5. ~overlapped' => InTurns'
    <3> SUFFICES ASSUME ~overlapped' PROVE InTurns'
      OBVIOUS
    <3>1. awaiting[hash] = 0
      BY <1>1, <1>3, <1>4
    <3>2. ExactlyOneView'
      BY <1>2, <1>3, <2>1 DEF ExactlyOneView
    <3> QED  BY <1>1, <1>3, <1>4, <2>1, <2>2, <3>1, <3>2 DEF InTurns
  <2> QED  BY <2>3, <2>4, <2>5 DEF RouterInv
<1> QED  BY <1>5, <1>6

LEMMA ModuleSteps ==
  ASSUME RouterInv, NEW v \in Views, Fetched(v) \/ FetchFails(v)
  PROVE  RouterInv'
<1> USE NoView
<1>1. /\ awaiting[v] > 0 /\ awaiting' = [awaiting EXCEPT ![v] = 0]
      /\ UNCHANGED <<hash, events, currentRoute, navs, overlapped>>
  BY DEF Fetched, FetchFails, Awaited
<1>2. /\ awaiting' \in [Views -> Nat] /\ awaiting'[v] = 0
      /\ \A w \in Views : w # v => awaiting'[w] = awaiting[w]
  BY <1>1 DEF RouterInv, Counts
<1>3. ~overlapped => /\ v = currentRoute /\ awaiting[v] = 1
                     /\ currentUnmount = None /\ ~missing
  BY <1>1 DEF RouterInv, InTurns
<1>4. CASE Fetched(v)
  <2>1. /\ live' = [live EXCEPT ![v] = live[v] + awaiting[v]]
        /\ currentUnmount' = v /\ failed' = FALSE /\ missing' = missing
        /\ fetched' = fetched \cup {v}
    BY <1>4 DEF Fetched
  <2>2. /\ live' \in [Views -> Nat] /\ live'[v] = live[v] + awaiting[v]
        /\ \A w \in Views : w # v => live'[w] = live[w]
    BY <2>1 DEF RouterInv, Counts
  <2>3. Counts'
    BY <1>1, <1>2, <2>1, <2>2 DEF RouterInv, Counts
  <2>4. Underway'
    <3>1. live'[v] > 0
      BY <1>1, <2>2 DEF RouterInv, Counts
    <3> QED  BY <1>1, <1>2, <2>1, <2>2, <3>1 DEF RouterInv, Counts, Underway
  <2>5. ~overlapped' => InTurns'
    BY <1>1, <1>2, <1>3, <2>1, <2>2 DEF RouterInv, InTurns, ExactlyOneView
  <2> QED  BY <2>3, <2>4, <2>5 DEF RouterInv
<1>5. CASE FetchFails(v)
  <2>1. /\ failed' = TRUE /\ missing' = (missing \/ v = currentRoute)
        /\ UNCHANGED <<currentUnmount, live, fetched>>
    BY <1>5 DEF FetchFails
  <2>2. Counts' /\ Underway'
    BY <1>1, <1>2, <2>1 DEF RouterInv, Counts, Underway
  <2>3. ~overlapped' => InTurns'
    <3> SUFFICES ASSUME ~overlapped' PROVE InTurns'
      OBVIOUS
    <3>1. /\ v = currentRoute /\ currentUnmount = None
          /\ (failed' <=> missing') /\ missing'
      BY <1>1, <1>3, <2>1
    <3>2. \A w \in Views : ~(awaiting'[w] > 0)
      BY <1>1, <1>2, <1>3, <3>1 DEF RouterInv, Counts, InTurns
    <3>3. ExactlyOneView'
      BY <1>1, <2>1 DEF RouterInv, InTurns, ExactlyOneView
    <3> QED  BY <2>1, <3>1, <3>2, <3>3 DEF InTurns
  <2> QED  BY <2>2, <2>3 DEF RouterInv
<1> QED  BY <1>4, <1>5

LEMMA ReloadStep == RouterInv /\ Reload => RouterInv'
<1> SUFFICES ASSUME RouterInv, Reload PROVE RouterInv'
  OBVIOUS
<1>1. /\ events' = 1 /\ currentRoute' = None /\ currentUnmount' = None
      /\ live' \in [Views -> Nat] /\ awaiting' \in [Views -> Nat]
      /\ \A v \in Views : live'[v] = 0 /\ awaiting'[v] = 0
      /\ fetched' = {} /\ failed' = FALSE /\ missing' = FALSE /\ overlapped' = FALSE
      /\ UNCHANGED <<hash, navs>>
  BY FreshPage DEF Reload
<1>2. Counts'
  <2>1. /\ navs' \in Nat /\ navs' <= MaxNavs
        /\ events' \in Nat /\ events' <= navs' + 1
    <3>1. navs \in Nat /\ navs <= MaxNavs
      BY DEF RouterInv, Counts
    <3> QED  BY <1>1, <3>1
  <2>2. {failed', missing', overlapped'} \subseteq BOOLEAN /\ fetched' \subseteq Views
    BY <1>1
  <2> QED  BY <1>1, <2>1, <2>2 DEF RouterInv, Counts
<1>3. Underway' /\ InTurns'
  BY <1>1, NoView DEF Underway, InTurns, ExactlyOneView
<1> QED  BY <1>2, <1>3 DEF RouterInv

LEMMA RouterFrame == RouterInv /\ UNCHANGED router => RouterInv'
  BY DEF router, RouterInv, Counts, Underway, InTurns, ExactlyOneView

LEMMA RouterKeeps == RouterInv /\ [PageNext]_pageVars => RouterInv'
<1> SUFFICES ASSUME RouterInv, [PageNext]_pageVars PROVE RouterInv'
  OBVIOUS
<1>1. CASE Enter \/ Elsewhere
  BY <1>1, HashSteps, RouteStep, ModuleSteps DEF Enter, Elsewhere
<1>2. CASE Reload
  BY <1>2, ReloadStep
<1>3. CASE UNCHANGED router
  BY <1>3, RouterFrame
<1>4. CASE Poll \/ Loaded \/ LoadFails \/ toggle \/ clear
  BY <1>3, <1>4 DEF Poll, Loaded, LoadFails, toggle, clear
<1>5. CASE (\E s \in Ranges : setRange(s)) \/ (\E n \in Caps : setCap(n))
  BY <1>3, <1>5 DEF setRange, setCap
<1>6. CASE UNCHANGED pageVars
  BY <1>3, <1>6 DEF pageVars
<1> QED  BY <1>1, <1>2, <1>4, <1>5, <1>6 DEF PageNext

LEMMA AlwaysRouted == PageSpec => []RouterInv
<1>1. PageInit => RouterInv
  BY RouterInit DEF PageInit
<1> QED  BY <1>1, RouterKeeps, PTL DEF PageSpec

LEMMA RouterTypes == RouterInv => TypeOK
  BY NoView DEF RouterInv, Counts, TypeOK

\* For any views and any number of navigations, imports that end in any order or
\* fail, and reloads: in the end the view of the address is mounted unless its import
\* failed; and while no navigations overlap it is the only view, and the one shown, or
\* the banner is there to say why not.
THEOREM RightViewAlways == PageSpec => []RightView
<1>1. RouterInv => AddressIsShown
  <2> SUFFICES ASSUME RouterInv, events = 0, Awaited = {}
               PROVE  /\ hash = currentRoute
                      /\ missing \/ live[hash] > 0
                      /\ ~overlapped => (failed <=> missing)
                                        /\ (missing \/ currentUnmount = hash)
    BY DEF AddressIsShown
  <2>1. hash = currentRoute /\ hash \in Views /\ currentRoute # None
    BY NoView DEF RouterInv, Counts, Underway
  <2>2. ~(awaiting[hash] > 0)
    BY <2>1 DEF Awaited
  <2> QED  BY <2>1, <2>2 DEF RouterInv, Underway, InTurns
<1>2. RouterInv => OneView
  BY RouterTypes DEF RouterInv, InTurns, OneView
<1> QED  BY <1>1, <1>2, AlwaysRouted, PTL DEF RightView
-----------------------------------------------------------------------------
(* The recorder: the samples it keeps are consecutive, and end with the     *)
(* last one recorded.                                                       *)

LastRecorded(s, n) == \A k \in 1..Len(s) : s[k] = n - Len(s) + k

Recorders == [cap : Int, recording : BOOLEAN, samples : Seq(Nat), dropped : Int]

Kept(r, n, first) ==
    /\ r \in Recorders
    /\ LastRecorded(r.samples, n)
    /\ r.cap >= 0 => Len(r.samples) <= r.cap
    /\ r.cap \in MinCap..MaxCap \cup {first}

Counted(r, n, first) == first >= 0 => r.dropped + Len(r.samples) = n

StoredSettings ==
    [historyRangeS : Ranges, recordCap : Caps \cup {DefaultCap}]

RecorderInv ==
    /\ recorded \in Nat /\ loadedCap \in Int
    /\ stored \in StoredSettings
    /\ now \in 0..MaxPolls /\ reloads \in 0..MaxReloads
    /\ Kept(recorder, recorded, loadedCap)
    /\ Counted(recorder, recorded, loadedCap)

LEMMA CapLimits ==
  /\ MinCap \in Nat /\ MaxCap \in Nat /\ DefaultCap \in Nat
  /\ MinCap <= DefaultCap /\ DefaultCap <= MaxCap
  /\ Caps \subseteq Int /\ MaxPolls \in Nat /\ MaxReloads \in Nat
  /\ Ranges \subseteq Nat /\ 0 \notin Ranges
  BY PageAssumption DEF PageAssumption

\* Whatever is typed, the recorder is given a cap within the limits.
LEMMA ClampedRange ==
  ASSUME NEW n \in Int
  PROVE  Clamped(n) \in MinCap..MaxCap
  BY CapLimits DEF Clamped

\* Trimming keeps the newest samples, in order, and counts the others, unless
\* the cap is negative: then it keeps none, and counts too many.
LEMMA TrimKeeps ==
  ASSUME NEW r \in Recorders, NEW n \in Nat, LastRecorded(r.samples, n)
  PROVE  /\ trim(r) \in Recorders
         /\ trim(r).cap = r.cap
         /\ LastRecorded(trim(r).samples, n)
         /\ r.cap >= 0 => /\ Len(trim(r).samples) <= r.cap
                          /\ trim(r).dropped + Len(trim(r).samples)
                               = r.dropped + Len(r.samples)
<1>1. /\ r.cap \in Int /\ r.samples \in Seq(Nat) /\ r.dropped \in Int
      /\ r.recording \in BOOLEAN
  BY DEF Recorders
<1>2. PICK m \in Nat : m = Len(r.samples)
  BY <1>1, LenProperties
<1>3. \A k \in 1..m : r.samples[k] \in Nat
  BY <1>1, <1>2, ElementOfSeq
<1>4. CASE m - r.cap <= 0
  <2>1. trim(r) = r
    BY <1>2, <1>4 DEF trim
  <2> QED  BY <1>1, <1>2, <1>4, <2>1
<1>5. CASE ~(m - r.cap <= 0)
  <2>1. PICK over \in Int : over = m - r.cap /\ over > 0
    BY <1>1, <1>5
  <2>2. PICK s : s = SubSeq(r.samples, over + 1, m)
    OBVIOUS
  <2>3. PICK o \in Int : o = over + 1
    BY <2>1
  <2>10. \A k \in o..m : r.samples[k] \in Nat
    BY <1>3, <2>1, <2>3
  <2>11. s = SubSeq(r.samples, o, m)
    BY <2>2, <2>3
  <2>4. /\ s \in Seq(Nat)
        /\ Len(s) = IF o <= m THEN m - o + 1 ELSE 0
        /\ \A k \in 1..(m - o + 1) : s[k] = r.samples[o + k - 1]
    BY <2>10, <2>11, SubSeqProperties
  <2>5. trim(r) = [r EXCEPT !.dropped = r.dropped + over, !.samples = s]
    BY <1>2, <1>5, <2>1, <2>2 DEF trim
  <2>6. /\ trim(r) \in Recorders /\ trim(r).cap = r.cap /\ trim(r).samples = s
        /\ trim(r).dropped = r.dropped + over
    <3>1. r.dropped + over \in Int
      BY <1>1, <2>1
    <3>2. PICK t : t = [r EXCEPT !.dropped = r.dropped + over, !.samples = s]
      OBVIOUS
    <3>3. /\ t.samples = s /\ t.dropped = r.dropped + over /\ t.cap = r.cap
          /\ t \in Recorders
      BY <2>4, <3>1, <3>2 DEF Recorders
    <3> QED  BY <2>5, <3>2, <3>3
  <2>7. LastRecorded(s, n)
    <3> SUFFICES ASSUME NEW k \in 1..Len(s) PROVE s[k] = n - Len(s) + k
      BY DEF LastRecorded
    <3>1. PICK l \in Nat : l = Len(s)
      BY <2>4, LenProperties
    <3>2. l = m - over /\ k \in 1..(m - o + 1) /\ over + k \in 1..m
      <4>1. k \in 1..l
        BY <3>1
      <4>2. l = IF o <= m THEN m - o + 1 ELSE 0
        BY <2>4, <3>1
      <4>3. o <= m
        BY <4>1, <4>2
      <4>4. l = m - o + 1 /\ o = over + 1 /\ k \in Int /\ 1 <= k /\ k <= l
        BY <2>3, <4>1, <4>2, <4>3
      <4>5. l = m - over /\ 1 <= over + k /\ over + k <= m
        BY <2>1, <3>1, <4>4
      <4> QED  BY <2>1, <3>1, <4>4, <4>5
    <3>3. o + k - 1 = over + k
      BY <2>1, <2>3, <3>2
    <3>5. s[k] = r.samples[over + k]
      BY <2>4, <3>2, <3>3
    <3>4. r.samples[over + k] = n - m + (over + k)
      BY <1>2, <3>2 DEF LastRecorded
    <3> QED  BY <2>1, <3>1, <3>2, <3>4, <3>5
  <2>8. r.cap >= 0 => Len(s) = m - over
    BY <1>1, <2>1, <2>3, <2>4
  <2>9. r.cap >= 0 => /\ Len(s) <= r.cap
                      /\ (r.dropped + over) + Len(s) = r.dropped + m
    BY <1>1, <2>1, <2>8
  <2> QED  BY <1>2, <2>6, <2>7, <2>9
<1> QED  BY <1>1, <1>2, <1>4, <1>5

LEMMA AddKeeps ==
  ASSUME RecorderInv
  PROVE  LET n == IF recorder.recording THEN recorded + 1 ELSE recorded
         IN  /\ Kept(add(recorder, recorded + 1), n, loadedCap)
             /\ Counted(add(recorder, recorded + 1), n, loadedCap)
<1>1. CASE ~recorder.recording
  BY <1>1 DEF add, RecorderInv
<1>2. CASE recorder.recording
  <2>1. /\ recorder \in Recorders /\ recorder.samples \in Seq(Nat)
        /\ recorded \in Nat /\ LastRecorded(recorder.samples, recorded)
        /\ recorder.cap \in Int /\ recorder.dropped \in Int /\ loadedCap \in Int
    BY DEF RecorderInv, Kept, Recorders
  <2>2. PICK m \in Nat : m = Len(recorder.samples)
    BY <2>1, LenProperties
  <2>3. PICK s : s = Append(recorder.samples, recorded + 1)
    OBVIOUS
  <2>4. /\ s \in Seq(Nat) /\ Len(s) = m + 1 /\ s[m + 1] = recorded + 1
        /\ \A k \in 1..m : s[k] = recorder.samples[k]
    BY <2>1, <2>2, <2>3, AppendProperties
  <2>5. PICK r : r = [recorder EXCEPT !.samples = s]
    OBVIOUS
  <2>6. /\ r \in Recorders /\ r.samples = s /\ r.cap = recorder.cap
        /\ r.dropped = recorder.dropped
    BY <2>1, <2>4, <2>5 DEF Recorders
  <2>7. LastRecorded(r.samples, recorded + 1)
    <3> SUFFICES ASSUME NEW k \in 1..(m + 1)
                 PROVE  s[k] = (recorded + 1) - (m + 1) + k
      BY <2>4, <2>6 DEF LastRecorded
    <3>1. CASE k = m + 1
      BY <2>1, <2>4, <3>1
    <3>2. CASE k \in 1..m
      <4>1. recorder.samples[k] = recorded - m + k
        BY <2>1, <2>2, <3>2 DEF LastRecorded
      <4> QED  BY <2>1, <2>4, <3>2, <4>1
    <3> QED  BY <3>1, <3>2
  <2>8. add(recorder, recorded + 1) = trim(r)
    BY <1>2, <2>3, <2>5 DEF add
  <2>9. PICK t : t = trim(r)
    OBVIOUS
  <2>10. /\ t \in Recorders /\ t.cap = r.cap
         /\ LastRecorded(t.samples, recorded + 1)
         /\ r.cap >= 0 => /\ Len(t.samples) <= r.cap
                          /\ t.dropped + Len(t.samples) = r.dropped + Len(r.samples)
    BY <2>1, <2>6, <2>7, <2>9, TrimKeeps
  <2>11. Kept(t, recorded + 1, loadedCap)
    BY <2>6, <2>10 DEF Kept, RecorderInv
  <2>12. Counted(t, recorded + 1, loadedCap)
    <3> SUFFICES ASSUME loadedCap >= 0
                 PROVE  t.dropped + Len(t.samples) = recorded + 1
      BY DEF Counted
    <3>1. r.cap >= 0
      BY <2>1, <2>6, CapLimits DEF RecorderInv, Kept
    <3>2. recorder.dropped + m = recorded
      BY <2>2 DEF RecorderInv, Counted
    <3> QED  BY <2>1, <2>4, <2>6, <2>10, <3>1, <3>2
  <2> QED  BY <1>2, <2>8, <2>9, <2>11, <2>12
<1> QED  BY <1>1, <1>2

LEMMA NewRecorderKept ==
  ASSUME NEW cap \in Int
  PROVE  Kept(NewRecorder(cap), 0, cap) /\ Counted(NewRecorder(cap), 0, cap)
<1>1. /\ <<>> \in Seq(Nat) /\ Len(<<>>) = 0
  OBVIOUS
<1> QED  BY <1>1 DEF NewRecorder, Kept, Counted, Recorders, LastRecorded

LEMMA RecorderInitially == PageInit => RecorderInv
<1> SUFFICES ASSUME PageInit PROVE RecorderInv
  OBVIOUS
<1>1. /\ stored \in StoredSettings /\ stored.recordCap = DefaultCap
      /\ now = 0 /\ reloads = 0 /\ recorded = 0
      /\ recorder = NewRecorder(DefaultCap) /\ loadedCap = DefaultCap
  BY DEF PageInit, StoredSettings
<1> QED  BY <1>1, CapLimits, NewRecorderKept DEF RecorderInv

LEMMA RecorderKeeps == RecorderInv /\ [PageNext]_pageVars => RecorderInv'
<1> SUFFICES ASSUME RecorderInv, [PageNext]_pageVars PROVE RecorderInv'
  OBVIOUS
<1> USE CapLimits
<1>1. CASE UNCHANGED <<now, stored, recorder, recorded, loadedCap, reloads>>
  BY <1>1 DEF RecorderInv
<1>2. CASE Enter \/ Elsewhere \/ Loaded \/ LoadFails \/ UNCHANGED pageVars
  BY <1>1, <1>2 DEF Enter, Elsewhere, Loaded, LoadFails, pageVars
<1>3. ASSUME NEW s \in Ranges, setRange(s) PROVE RecorderInv'
  <2>1. /\ stored' = [stored EXCEPT !.historyRangeS = s]
        /\ UNCHANGED <<now, recorder, recorded, loadedCap, reloads>>
    BY <1>3 DEF setRange
  <2>2. stored' \in StoredSettings
    BY <2>1 DEF RecorderInv, StoredSettings
  <2> QED  BY <2>1, <2>2 DEF RecorderInv
<1>4. CASE Poll
  <2>1. /\ now' = now + 1 /\ now < MaxPolls
        /\ recorder' = add(recorder, recorded + 1)
        /\ recorded' = IF recorder.recording THEN recorded + 1 ELSE recorded
        /\ UNCHANGED <<stored, loadedCap, reloads>>
    BY <1>4 DEF Poll
  <2>2. /\ Kept(recorder', recorded', loadedCap)
        /\ Counted(recorder', recorded', loadedCap)
    BY <2>1, AddKeeps
  <2>3. recorded' \in Nat /\ now' \in 0..MaxPolls
    BY <2>1 DEF RecorderInv
  <2> QED  BY <2>1, <2>2, <2>3 DEF RecorderInv
<1>5. CASE toggle
  <2>1. /\ recorder' = [recorder EXCEPT !.recording = ~recorder.recording]
        /\ UNCHANGED <<now, stored, recorded, loadedCap, reloads>>
    BY <1>5 DEF toggle
  <2>2. /\ recorder' \in Recorders
        /\ recorder'.samples = recorder.samples /\ recorder'.cap = recorder.cap
        /\ recorder'.dropped = recorder.dropped
    BY <2>1 DEF RecorderInv, Kept, Recorders
  <2> QED  BY <2>1, <2>2 DEF RecorderInv, Kept, Counted
<1>6. CASE clear
  <2>1. /\ recorder' = [recorder EXCEPT !.samples = <<>>, !.dropped = 0]
        /\ recorded' = 0
        /\ UNCHANGED <<now, stored, loadedCap, reloads>>
    BY <1>6 DEF clear
  <2>2. <<>> \in Seq(Nat) /\ Len(<<>>) = 0
    OBVIOUS
  <2>3. /\ recorder' \in Recorders
        /\ recorder'.samples = <<>> /\ recorder'.cap = recorder.cap
        /\ recorder'.dropped = 0
    <3>1. recorder \in Recorders
      BY DEF RecorderInv, Kept
    <3>2. PICK none \in Seq(Nat) : none = <<>>
      BY <2>2
    <3>3. PICK r : r = [recorder EXCEPT !.samples = none, !.dropped = 0]
      OBVIOUS
    <3>4. 0 \in Int
      OBVIOUS
    <3>5. /\ r \in Recorders /\ r.samples = none
          /\ r.cap = recorder.cap /\ r.dropped = 0
      BY <3>1, <3>2, <3>3, <3>4 DEF Recorders
    <3> QED  BY <2>1, <3>2, <3>3, <3>5
  <2> QED  BY <2>1, <2>2, <2>3 DEF RecorderInv, Kept, Counted, LastRecorded
<1>7. ASSUME NEW n \in Caps, setCap(n) PROVE RecorderInv'
  <2>1. PICK r : r = [recorder EXCEPT !.cap = Clamped(n)]
    OBVIOUS
  <2>2. PICK t : t = trim(r)
    OBVIOUS
  <2>3. /\ stored' = [stored EXCEPT !.recordCap = n] /\ recorder' = t
        /\ UNCHANGED <<now, recorded, loadedCap, reloads>>
    BY <1>7, <2>1, <2>2 DEF setCap
  <2>4. Clamped(n) \in MinCap..MaxCap /\ n \in Int
    BY ClampedRange
  <2>5. /\ r \in Recorders /\ r.cap = Clamped(n)
        /\ r.samples = recorder.samples /\ r.dropped = recorder.dropped
    <3>1. recorder \in Recorders
      BY DEF RecorderInv, Kept
    <3>2. Clamped(n) \in Int
      BY <2>4
    <3> QED  BY <2>1, <3>1, <3>2 DEF Recorders
  <2>6. /\ LastRecorded(r.samples, recorded) /\ recorded \in Nat
        /\ Counted(r, recorded, loadedCap)
    BY <2>5 DEF RecorderInv, Kept, Counted
  <2>7. r.cap >= 0
    BY <2>4, <2>5
  <2>8. /\ t \in Recorders /\ t.cap = r.cap
        /\ LastRecorded(t.samples, recorded)
        /\ Len(t.samples) <= r.cap
        /\ t.dropped + Len(t.samples) = r.dropped + Len(r.samples)
    BY <2>2, <2>5, <2>6, <2>7, TrimKeeps
  <2>9. Kept(t, recorded, loadedCap) /\ Counted(t, recorded, loadedCap)
    BY <2>4, <2>5, <2>6, <2>8 DEF Kept, Counted
  <2>10. stored' \in StoredSettings
    BY <2>3 DEF RecorderInv, StoredSettings
  <2> QED  BY <2>3, <2>9, <2>10 DEF RecorderInv
<1>8. CASE Reload
  <2>1. /\ recorder' = NewRecorder(stored.recordCap) /\ recorded' = 0
        /\ loadedCap' = stored.recordCap
        /\ reloads' = reloads + 1 /\ reloads < MaxReloads
        /\ UNCHANGED <<now, stored>>
    BY <1>8 DEF Reload
  <2>2. stored.recordCap \in Int
    <3>1. stored \in StoredSettings
      BY DEF RecorderInv
    <3>2. stored.recordCap \in Caps \cup {DefaultCap}
      BY <3>1 DEF StoredSettings
    <3>3. Caps \cup {DefaultCap} \subseteq Int
      BY CapLimits
    <3> QED  BY <3>2, <3>3
  <2>3. reloads' \in 0..MaxReloads
    BY <2>1 DEF RecorderInv
  <2>4. /\ Kept(recorder', 0, loadedCap') /\ Counted(recorder', 0, loadedCap')
    BY <2>1, <2>2, NewRecorderKept
  <2> QED  BY <2>1, <2>2, <2>3, <2>4 DEF RecorderInv
<1> QED  BY <1>2, <1>3, <1>4, <1>5, <1>6, <1>7, <1>8 DEF PageNext

LEMMA AlwaysRecorded == PageSpec => []RecorderInv
  BY RecorderInitially, RecorderKeeps, PTL DEF PageSpec

\* For any caps, and however recording, clearing, changes of the cap, of the view
\* and reloads are interleaved: the recorder keeps the newest samples, in order,
\* within its cap, and counts those it dropped.
THEOREM RecorderAlwaysSound == PageSpec => []RecorderSound
<1>1. RouterInv /\ RecorderInv => RecorderSound
  <2> SUFFICES ASSUME RouterInv, RecorderInv PROVE RecorderSound
    OBVIOUS
  <2>1. /\ recorder.cap \in Int /\ recorder.samples \in Seq(Nat)
        /\ recorder.dropped \in Int
    BY DEF RecorderInv, Kept, Recorders
  <2>2. PageTypeOK
    BY <2>1, RouterTypes DEF PageTypeOK, RecorderInv, StoredSettings
  <2> QED  BY <2>1, <2>2
           DEF RecorderSound, RecorderInv, Kept, Counted, LastRecorded
<1> QED  BY <1>1, AlwaysRouted, AlwaysRecorded, PTL
-----------------------------------------------------------------------------
(* The history charts.  While they load, what they hold may be of another   *)
(* range than the one asked for; `asked` is the one chosen, unless another  *)
(* was chosen since.                                                        *)

Panels == [range : Nat, asked : Nat, loading : BOOLEAN, columns : BOOLEAN,
           failed : BOOLEAN, from : Int, to : Int, missed : BOOLEAN]

\* What the charts p hold is what the range asks for, or a load will see to it.
Reaches(p) ==
    /\ p.loading /\ ~p.missed => p.asked = p.range
    /\ ~p.loading /\ ~p.failed /\ ~p.missed =>
         p.columns /\ p.from = Since(p.to, p.range)

ChartsInv ==
    /\ now \in Int
    /\ panel \in Panels
    /\ stored \in StoredSettings
    /\ OnScreen => panel.range = stored.historyRangeS /\ Reaches(panel)

LEMMA SinceIsInt ==
  ASSUME NEW t \in Int, NEW range \in Nat
  PROVE  /\ Since(t, range) \in Int
         /\ \A u \in Int : u <= t => Since(u, range) <= Since(t, range)
  BY DEF Since

LEMMA LoadReaches ==
  ASSUME NEW p \in Panels, Reaches(p) \/ ~p.loading
  PROVE  load(p) \in Panels /\ load(p).range = p.range /\ Reaches(load(p))
<1>1. CASE p.loading
  BY <1>1 DEF load
<1>2. CASE ~p.loading
  <2>1. PICK q : q = [p EXCEPT !.loading = TRUE, !.asked = p.range, !.missed = FALSE]
    OBVIOUS
  <2>2. /\ q \in Panels /\ q.loading = TRUE /\ q.missed = FALSE
        /\ q.asked = p.range /\ q.range = p.range
    BY <2>1 DEF Panels
  <2>3. load(p) = q
    BY <1>2, <2>1 DEF load
  <2> QED  BY <2>2, <2>3 DEF Reaches
<1> QED  BY <1>1, <1>2

LEMMA NoPanelIsPanel ==
  NoPanel \in Panels /\ NoPanel.loading = FALSE
  BY DEF NoPanel, Panels

LEMMA MountReaches ==
  ASSUME NEW range \in Nat
  PROVE  mount(range) \in Panels /\ mount(range).range = range /\ Reaches(mount(range))
<1>1. PICK p : p = [NoPanel EXCEPT !.range = range]
  OBVIOUS
<1>2. p \in Panels /\ p.range = range /\ p.loading = FALSE
  BY <1>1, NoPanelIsPanel DEF Panels
<1> QED  BY <1>1, <1>2, LoadReaches DEF mount

\* A live point extends charts that reach as far as they should, and leaves them so.
LEMMA LiveReaches ==
  ASSUME NEW p \in Panels, NEW t \in Int
  PROVE  /\ appendLive(p, t) \in Panels /\ appendLive(p, t).range = p.range
         /\ Reaches(p) => Reaches(appendLive(p, t))
<1>1. CASE ~p.columns \/ t <= p.to
  BY <1>1 DEF appendLive
<1>2. CASE ~(~p.columns \/ t <= p.to)
  <2>1. /\ p.from \in Int /\ p.to \in Int /\ p.range \in Nat /\ p.to <= t
    BY <1>2 DEF Panels
  <2>2. PICK s \in Int : s = Since(t, p.range)
    BY <2>1, SinceIsInt
  <2>3. PICK f \in Int : f = IF p.from < s THEN s ELSE p.from
    BY <2>1, <2>2
  <2>4. PICK q : q = [p EXCEPT !.to = t, !.from = f]
    OBVIOUS
  <2>5. /\ q \in Panels /\ q.to = t /\ q.from = f
        /\ q.range = p.range /\ q.asked = p.asked /\ q.loading = p.loading
        /\ q.missed = p.missed /\ q.failed = p.failed /\ q.columns = p.columns
    BY <2>4 DEF Panels
  <2>6. appendLive(p, t) = q
    BY <1>2, <2>2, <2>3, <2>4 DEF appendLive
  <2>7. p.from = Since(p.to, p.range) => f = s
    <3>1. Since(p.to, p.range) <= s
      BY <2>1, <2>2, SinceIsInt
    <3> QED  BY <2>1, <2>2, <2>3, <3>1
  <2> QED  BY <2>2, <2>5, <2>6, <2>7 DEF Reaches
<1> QED  BY <1>1, <1>2

LEMMA ChartsInitially == PageInit => ChartsInv
<1> SUFFICES ASSUME PageInit PROVE ChartsInv
  OBVIOUS
<1>1. panel = NoPanel /\ now = 0 /\ currentUnmount = None
  BY DEF PageInit, Init
<1>2. stored \in StoredSettings
  BY RecorderInitially DEF RecorderInv
<1>3. None # Detail
  BY NoView, PageAssumption DEF PageAssumption
<1> QED  BY <1>1, <1>2, <1>3, NoPanelIsPanel DEF ChartsInv, OnScreen

LEMMA ChartsKeep == RecorderInv /\ ChartsInv /\ [PageNext]_pageVars => ChartsInv'
<1> SUFFICES ASSUME RecorderInv, RecorderInv', ChartsInv, [PageNext]_pageVars
             PROVE  ChartsInv'
  BY RecorderKeeps
<1>0. /\ stored' \in StoredSettings /\ now' \in Int
      /\ stored.historyRangeS \in Nat /\ now \in Int /\ panel \in Panels
  <2>1. now' \in Int
    BY CapLimits DEF RecorderInv
  <2>2. stored' \in StoredSettings
    BY DEF RecorderInv
  <2>3. stored \in StoredSettings /\ now \in Int /\ panel \in Panels
    BY DEF ChartsInv
  <2>4. stored.historyRangeS \in Ranges
    BY <2>3 DEF StoredSettings
  <2> QED  BY <2>1, <2>2, <2>3, <2>4, CapLimits
<1>1. CASE UNCHANGED <<currentUnmount, stored, panel>>
  BY <1>0, <1>1 DEF ChartsInv, OnScreen
<1>2. CASE Elsewhere \/ UNCHANGED pageVars
  <2>1. UNCHANGED <<currentUnmount, stored, panel>>
    BY <1>2 DEF Elsewhere, Navigate, Redirect, AlreadyThere, FetchFails, pageVars,
                router
  <2> QED  BY <1>1, <2>1
<1>3. CASE toggle \/ clear
  BY <1>1, <1>3 DEF toggle, clear, router
<1>4. ASSUME NEW n \in Caps, setCap(n) PROVE ChartsInv'
  <2>1. /\ stored' = [stored EXCEPT !.recordCap = n]
        /\ UNCHANGED <<currentUnmount, panel>>
    BY <1>4 DEF setCap, router
  <2>2. stored'.historyRangeS = stored.historyRangeS
    BY <2>1 DEF ChartsInv, StoredSettings
  <2> QED  BY <1>0, <2>1, <2>2 DEF ChartsInv, OnScreen
<1>5. CASE Enter
  <2>1. /\ panel' = IF currentUnmount' = Detail THEN mount(stored.historyRangeS)
                    ELSE NoPanel
        /\ stored' = stored
    BY <1>5 DEF Enter
  <2> QED  BY <1>0, <2>1, MountReaches, NoPanelIsPanel DEF ChartsInv, OnScreen
<1>6. CASE Reload
  <2>1. panel' = NoPanel /\ currentUnmount' = None
    BY <1>6 DEF Reload
  <2>2. None # Detail
    BY NoView, PageAssumption DEF PageAssumption
  <2> QED  BY <1>0, <2>1, <2>2, NoPanelIsPanel DEF ChartsInv, OnScreen
<1>7. CASE Poll
  <2>1. UNCHANGED <<currentUnmount, stored>>
    BY <1>7 DEF Poll, router
  <2>2. PICK t \in {now, now + 1} : panel' = appendLive(panel, t)
    BY <1>7 DEF Poll
  <2>3. t \in Int
    BY <1>0, <2>2
  <2> QED  BY <1>0, <2>1, <2>2, <2>3, LiveReaches DEF ChartsInv, OnScreen
<1>8. CASE Loaded
  <2>1. UNCHANGED <<currentUnmount, stored>> /\ panel.loading
    BY <1>8 DEF Loaded, router
  <2>2. PICK t \in Recently :
           panel' = [panel EXCEPT !.loading = FALSE, !.columns = TRUE,
                                  !.failed = FALSE,
                                  !.from = Since(t, panel.asked), !.to = t]
    BY <1>8 DEF Loaded
  <2>3. t \in Int /\ panel.asked \in Nat
    BY <1>0, <2>2 DEF Recently, Panels
  <2>4. PICK f \in Int : f = Since(t, panel.asked)
    BY <2>3, SinceIsInt
  <2>5. panel' = [panel EXCEPT !.loading = FALSE, !.columns = TRUE,
                               !.failed = FALSE, !.from = f, !.to = t]
    BY <2>2, <2>4
  <2>6. /\ panel' \in Panels /\ panel'.range = panel.range
        /\ panel'.missed = panel.missed /\ panel'.loading = FALSE
        /\ panel'.columns = TRUE /\ panel'.from = f /\ panel'.to = t
    BY <1>0, <2>3, <2>5 DEF Panels
  <2>7. Reaches(panel) => Reaches(panel')
    BY <2>1, <2>4, <2>6 DEF Reaches
  <2> QED  BY <1>0, <2>1, <2>6, <2>7 DEF ChartsInv, OnScreen
<1>9. CASE LoadFails
  <2>1. /\ UNCHANGED <<currentUnmount, stored>>
        /\ panel' = [panel EXCEPT !.loading = FALSE, !.failed = TRUE]
    BY <1>9 DEF LoadFails, router
  <2>2. /\ panel' \in Panels /\ panel'.range = panel.range
        /\ panel'.loading = FALSE /\ panel'.failed = TRUE
    BY <1>0, <2>1 DEF Panels
  <2>3. Reaches(panel')
    BY <2>2 DEF Reaches
  <2> QED  BY <1>0, <2>1, <2>2, <2>3 DEF ChartsInv, OnScreen
<1>10. ASSUME NEW s \in Ranges, setRange(s) PROVE ChartsInv'
  <2>1. /\ UNCHANGED currentUnmount
        /\ stored' = [stored EXCEPT !.historyRangeS = s]
    BY <1>10 DEF setRange, router
  <2>2. PICK p : p = [panel EXCEPT !.range = s, !.missed = panel.loading]
    OBVIOUS
  <2>3. s \in Nat /\ panel' = load(p)
    BY <1>10, <2>2, CapLimits DEF setRange
  <2>4. /\ p \in Panels /\ p.range = s /\ p.missed = panel.loading
        /\ p.loading = panel.loading
    BY <1>0, <2>2, <2>3 DEF Panels
  <2>5. Reaches(p) \/ ~p.loading
    BY <2>4 DEF Reaches
  <2>6. panel' \in Panels /\ panel'.range = s /\ Reaches(panel')
    BY <2>3, <2>4, <2>5, LoadReaches
  <2>7. stored'.historyRangeS = s
    BY <2>1 DEF ChartsInv, StoredSettings
  <2> QED  BY <1>0, <2>6, <2>7 DEF ChartsInv
<1> QED  BY <1>2, <1>3, <1>4, <1>5, <1>6, <1>7, <1>8, <1>9, <1>10 DEF PageNext

\* For any ranges, and however loads, polls, clicks and changes of the view are
\* interleaved: charts whose last load went well reach back exactly as far as the
\* stored choice says.
THEOREM HistoryAlwaysCurrent == PageSpec => []HistoryCurrent
<1>1. ChartsInv => HistoryCurrent
  BY DEF ChartsInv, Reaches, HistoryCurrent
<1> QED  BY <1>1, ChartsInitially, ChartsKeep, AlwaysRecorded, PTL DEF PageSpec
=============================================================================
