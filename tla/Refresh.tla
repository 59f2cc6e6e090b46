------------------------------ MODULE Refresh ------------------------------
(***************************************************************************)
(* The polling scheduler of the page (static/js/refresh.js), the poll it   *)
(* awaits (app.js and Api.#request in api.js), what the poll's end does to *)
(* the connection state of the store (store.js), and the header's controls *)
(* in app.js that change the settings the scheduler reads.                 *)
(*                                                                         *)
(* One action is one browser task: a timer, a click, a visibilitychange,   *)
(* or the settling of the awaited request.  The callers of an operator of  *)
(* refresh.js pass it the settings as they are after their own assignments.*)
(* Times are seconds.                                                      *)
(***************************************************************************)
EXTENDS Integers, Sequences, SequencesExt

CONSTANTS
    Intervals,     \* the choices of the refresh select; 0 is "Off"
    MaxBackoff,    \* MAX_BACKOFF_MS
    NoTimer           \* no timer

ASSUME RefreshAssumption ==
    /\ Intervals \subseteq Nat
    /\ MaxBackoff \in Nat \ {0}
    /\ NoTimer \notin Nat

VARIABLES
    booted,      \* app.js has called start()
    stopped,     \* Scheduler.stopped
    inFlight,    \* Scheduler.inFlight
    requests,    \* the runs of the task that have not settled, oldest first
    timer,       \* what the armed setTimeout waits, or NoTimer
    backoff,     \* Scheduler.backoffMs
    settings,    \* refreshS, paused, pauseWhenHidden
    hidden,      \* document.hidden
    connection,  \* Store.connection, what the header shows
    errors       \* Store.consecutiveErrors; 2 stands for 2 and more

refreshVars == <<booted, stopped, inFlight, requests, timer, backoff, settings, hidden,
          connection, errors>>
page == <<booted, stopped, hidden>>
store == <<connection, errors>>

Settings == [refreshS : Intervals, paused : BOOLEAN, pauseWhenHidden : BOOLEAN]

isPaused(s) == s.paused \/ s.refreshS = 0

Larger(a, b) == IF a > b THEN a ELSE b
Smaller(a, b) == IF a < b THEN a ELSE b

\* May a timer be armed?
Polls(s) == ~isPaused(s) /\ ~(s.pauseWhenHidden /\ hidden)

Wait(b, s) == IF b > 0 THEN b ELSE s.refreshS

RefreshInit ==
    /\ booted = FALSE /\ stopped = TRUE
    /\ inFlight = FALSE /\ requests = <<>>
    /\ timer = NoTimer /\ backoff = 0
    /\ settings \in Settings
    /\ hidden \in BOOLEAN
    /\ connection = "init" /\ errors = 0

\* Mutant: nothing keeps two requests apart.
runAnyway(halted) ==
    IF halted THEN UNCHANGED <<timer, inFlight, requests>>
    ELSE timer' = NoTimer /\ inFlight' = TRUE /\ requests' = Append(requests, "headers")

\* run() up to its await: a request is issued, waiting for its headers.
run(halted) ==
    IF halted \/ inFlight
    THEN UNCHANGED <<timer, inFlight, requests>>
    ELSE /\ timer' = NoTimer
         /\ inFlight' = TRUE
         /\ requests' = Append(requests, "headers")

schedule(b, s) ==
    timer' = IF ~stopped /\ Polls(s) THEN Wait(b, s) ELSE NoTimer

\* Mutant: the timer is armed in the middle of a request.
rescheduleAnyway(s) == schedule(backoff, s)

reschedule(s) ==
    IF inFlight THEN UNCHANGED timer
    ELSE schedule(backoff, s)
-----------------------------------------------------------------------------
Start ==
    /\ ~booted
    /\ booted' = TRUE /\ stopped' = FALSE
    /\ run(FALSE)
    /\ UNCHANGED <<backoff, settings, hidden, store>>

\* beforeunload; a request whose headers are awaited is aborted.
Stop ==
    /\ booted /\ ~stopped
    /\ stopped' = TRUE
    /\ timer' = NoTimer
    /\ requests' = [k \in DOMAIN requests |->
                      IF requests[k] = "headers" THEN "aborted" ELSE requests[k]]
    /\ UNCHANGED <<booted, inFlight, backoff, settings, hidden, store>>

TimerFires ==
    /\ timer # NoTimer
    /\ timer' = NoTimer
    /\ IF stopped \/ inFlight THEN UNCHANGED <<inFlight, requests>>
       ELSE inFlight' = TRUE /\ requests' = Append(requests, "headers")
    /\ UNCHANGED <<page, backoff, settings, store>>

refreshNow ==
    /\ booted
    /\ backoff' = 0
    /\ run(stopped)
    /\ UNCHANGED <<page, settings, store>>

\* The refresh select and the pause button, which end in reschedule().
ChangeSettings(s) ==
    /\ settings' = s
    /\ IF booted THEN reschedule(s) ELSE UNCHANGED timer
    /\ UNCHANGED <<page, inFlight, requests, backoff, store>>

SelectInterval ==
    /\ ~hidden
    /\ \E i \in Intervals \ {settings.refreshS} :
          ChangeSettings([settings EXCEPT !.refreshS = i])

TogglePause ==
    /\ ~hidden
    /\ ChangeSettings([settings EXCEPT !.paused = ~@])

\* The check box only stores its value.
TogglePauseWhenHidden ==
    /\ ~hidden
    /\ settings' = [settings EXCEPT !.pauseWhenHidden = ~@]
    /\ UNCHANGED <<page, inFlight, requests, timer, backoff, store>>

\* visibilitychange; the listener is there while the scheduler is started.
Visibility ==
    /\ hidden' = ~hidden
    /\ IF stopped \/ ~settings.pauseWhenHidden
       THEN UNCHANGED <<timer, inFlight, requests>>
       ELSE IF hidden'
       THEN timer' = NoTimer /\ UNCHANGED <<inFlight, requests>>
       ELSE IF isPaused(settings)
       THEN UNCHANGED <<timer, inFlight, requests>>
       ELSE run(FALSE)
    /\ UNCHANGED <<booted, stopped, backoff, settings, store>>
-----------------------------------------------------------------------------
\* fetch() resolves: from here on neither the 8 s timeout nor the scheduler's
\* abort signal reaches the request, whose body is still to be read.
Headers(k) ==
    /\ requests[k] = "headers"
    /\ requests' = [requests EXCEPT ![k] = "body"]
    /\ UNCHANGED <<page, inFlight, timer, backoff, settings, store>>

\* A status arrives: one of its domains may report itself unavailable.
setStatus ==
    /\ connection' \in {"ok", "degraded"}
    /\ errors' = 0

setError ==
    /\ errors' = Smaller(errors + 1, 2)
    /\ connection' = IF errors' = 2 THEN "failing" ELSE "degraded"

\* Mutant: a success leaves the backoff in place.
SucceedSlowly(k) ==
    /\ requests[k] = "body"
    /\ requests' = RemoveAt(requests, k)
    /\ setStatus
    /\ inFlight' = FALSE
    /\ schedule(backoff, settings)
    /\ UNCHANGED <<page, backoff, settings>>

\* The continuation of run() after the await, on success and on failure.
Succeed(k) ==
    /\ requests[k] = "body"
    /\ requests' = RemoveAt(requests, k)
    /\ setStatus
    /\ inFlight' = FALSE
    /\ backoff' = 0
    /\ schedule(0, settings)
    /\ UNCHANGED <<page, settings>>

Backoff ==
    IF backoff > 0 THEN Smaller(2 * backoff, MaxBackoff)
    ELSE Larger(settings.refreshS, 1)

\* Mutant: a failure ends the chain of timers.
FailForGood(k) ==
    /\ requests' = RemoveAt(requests, k)
    /\ inFlight' = FALSE /\ backoff' = IF stopped THEN backoff ELSE Backoff
    /\ timer' = NoTimer
    /\ IF stopped THEN UNCHANGED store ELSE setError
    /\ UNCHANGED <<page, settings>>

\* A network error, the timeout, the abort, an HTTP error or a broken body.
Fail(k) ==
    /\ requests' = RemoveAt(requests, k)
    /\ inFlight' = FALSE
    /\ IF stopped THEN UNCHANGED <<backoff, store>> ELSE backoff' = Backoff /\ setError
    /\ schedule(backoff', settings)
    /\ UNCHANGED <<page, settings>>

Settle == \E k \in DOMAIN requests : Succeed(k) \/ Fail(k)

RefreshNext ==
    \/ Start \/ Stop \/ TimerFires \/ refreshNow
    \/ SelectInterval \/ TogglePause \/ TogglePauseWhenHidden \/ Visibility
    \/ \E k \in DOMAIN requests : Headers(k) \/ Succeed(k) \/ Fail(k)

RefreshSpec == RefreshInit /\ [][RefreshNext]_refreshVars

\* The page boots, its timers fire and every request settles: its headers or
\* the timeout come, and once they have come the body does, which nothing in
\* the code enforces.
RefreshFairSpec ==
    /\ RefreshSpec
    /\ WF_refreshVars(Start) /\ WF_refreshVars(TimerFires) /\ WF_refreshVars(Settle)
-----------------------------------------------------------------------------
RefreshTypeOK ==
    /\ booted \in BOOLEAN /\ stopped \in BOOLEAN /\ hidden \in BOOLEAN
    /\ inFlight \in BOOLEAN
    /\ requests \in Seq({"headers", "body", "aborted"})
    /\ timer \in Nat \cup {NoTimer}
    /\ backoff \in Intervals \cup 0..MaxBackoff
    /\ settings \in Settings
    /\ connection \in {"init", "ok", "degraded", "failing"} /\ errors \in 0..2

\* "A slow server can never queue up overlapping requests" (refresh.js:3-5):
\* whatever is clicked, hidden or stopped meanwhile, one at a time.
NoOverlap == Len(requests) = IF inFlight THEN 1 ELSE 0

\* So it is, and the types hold.
OneRequest == RefreshTypeOK /\ NoOverlap

\* The chain of timers is never lost and never runs when it should not: outside
\* a request a timer is armed exactly when polling is on, and it waits what the
\* settings and the backoff of now say, not those of when it was set up.
Armed ==
    timer = IF booted /\ ~stopped /\ ~inFlight /\ Polls(settings)
            THEN Wait(backoff, settings) ELSE NoTimer

\* The header and the pace agree: polls are slowed down only while the header
\* shows trouble, and while it shows none they come at the chosen pace, whatever
\* the user, the tab and a late answer did since the last failure.
TroubleShows ==
    /\ backoff > 0 => errors > 0 /\ connection \in {"degraded", "failing"}
    /\ connection = "ok" /\ timer # NoTimer => timer = settings.refreshS

\* Polling goes on for as long as the page is allowed to poll.
PollsKeepComing ==
    <>[](~stopped /\ Polls(settings)) => []<>(inFlight) /\ []<>(~inFlight)
=============================================================================
