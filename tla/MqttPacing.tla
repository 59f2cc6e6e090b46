----------------------------- MODULE MqttPacing -----------------------------
(***************************************************************************)
(* When MqttPublisher (stratumtap/mqtt.py) publishes the state document:   *)
(* should_publish, the 1 s ticker, the listener that republishes when Home *)
(* Assistant comes back, and the two writing the same last_publish_at and  *)
(* _prev_state after their awaited publish.  The connection's life is      *)
(* MqttSession; here a session is always up, and may be replaced.          *)
(*                                                                         *)
(* should_publish reads the wall clock, which chrony may step: `elapsed`   *)
(* is wall time since last_publish_at and moves with a step, `since` is    *)
(* real time since the last state message.  The state document is reduced  *)
(* to one number with a deadband; a publish takes up to MaxWrite ticks and *)
(* publishes of one connection complete in the order they were issued.     *)
(***************************************************************************)
EXTENDS Integers, Sequences

CONSTANTS
    Interval,      \* mqtt_interval_s, in ticks of TICK_S
    MinInterval,   \* mqtt_min_interval_s, in ticks
    Values,        \* what the published quantity may be
    None,          \* no state
    Deadband,      \* the change that is not worth a message
    MaxWrite,      \* bound on the ticks a publish or an announcement takes
    ClockSteps,    \* the wall-clock corrections that may happen
    MaxSteps       \* bound on their number

ASSUME ConstantsAssumption ==
    /\ {Interval, MinInterval, Deadband, MaxWrite, MaxSteps} \subseteq Nat
    /\ Values \subseteq Int /\ ClockSteps \subseteq Int
    /\ None \notin Values

VARIABLES
    value,      \* what build_state would return now
    prev,       \* _prev_state, or None
    first,      \* last_publish_at is None
    elapsed,    \* wall clock - last_publish_at
    ticker,     \* the ticker: asleep, or awaiting its publish
    left,       \* ticks of sleep left
    listener,   \* the listener: waiting, announcing, or publishing
    inflight,   \* state publishes issued and not completed, in order
    since,      \* real time since the last state message of this session
    own,        \* the same since the last one the ticker sent
    gap,        \* history: real time between the ticker's last two
    retained,   \* what the broker shows
    stale,      \* real time the value has been continuously worth a
                \* message
    back, forth,   \* has the clock been stepped back, or forth, in this session?
    steps       \* wall-clock steps so far

vars == <<value, prev, first, elapsed, ticker, left, listener, inflight, since,
          own, gap, retained, stale, back, forth, steps>>
history == <<since, own, gap, retained, stale, back, forth>>

Never == Interval + 2 * MinInterval + 3 * MaxWrite + 3   \* cap of the history

Apart(a, b) == a - b > Deadband \/ b - a > Deadband

\* Mutant: only a rise is a change.
significant_rise == prev # None /\ value - prev > Deadband

\* prev_state None means no significant change.
significant_change == prev # None /\ Apart(value, prev)

\* Mutants: a change need not wait for the ceiling; the floor is missing.
publish_any_change == first \/ elapsed >= Interval \/ significant_change
publish_changes_only == first \/ (elapsed >= MinInterval /\ significant_change)

should_publish ==
    \/ first
    \/ elapsed >= Interval
    \/ elapsed >= MinInterval /\ significant_change

Init ==
    /\ value \in Values
    /\ prev = None /\ first = TRUE /\ elapsed = 0
    /\ ticker = "sleep" /\ left = 0 /\ listener = "wait"
    /\ inflight = <<>>
    /\ since = Never /\ own = Never /\ gap = Never
    /\ retained = None /\ stale = 0
    /\ back = FALSE /\ forth = FALSE /\ steps = 0

\* A message is on its way: who awaits it, the document it holds, the wall time
\* since its `now` was read (the future elapsed) and the real time spent.
Message(task, topic) ==
    [by |-> task, topic |-> topic, says |-> value, age |-> 0, spent |-> 0]

\* _publish_state up to its first await.
Issue(task) ==
    /\ inflight' = Append(inflight, Message(task, "state"))
    /\ retained' = value
    /\ since' = 0 /\ stale' = 0
    /\ IF task = "ticker" THEN gap' = own /\ own' = 0 ELSE UNCHANGED <<gap, own>>
    /\ UNCHANGED <<back, forth>>

Returned(task, topic) ==
    /\ inflight # <<>>
    /\ Head(inflight).by = task /\ Head(inflight).topic = topic

\* Mutant: the state is read again after the await.
RecordPresent(message) ==
    first' = FALSE /\ elapsed' = message.age /\ prev' = value

\* The bookkeeping after that await, from what was read before it.
Record(message) ==
    /\ first' = FALSE
    /\ elapsed' = message.age
    /\ prev' = message.says

\* ... and then there is a position to send, or none that is worth it.
AndThen(task, sends) ==
    inflight' = IF sends THEN Append(Tail(inflight), Message(task, "position"))
                         ELSE Tail(inflight)
-----------------------------------------------------------------------------
TickerPublish ==
    /\ ticker = "sleep" /\ left = 0
    /\ should_publish
    /\ Issue("ticker")
    /\ ticker' = "state"
    /\ UNCHANGED <<value, prev, first, elapsed, left, listener, steps>>

TickerSkip ==
    /\ ticker = "sleep" /\ left = 0
    /\ ~should_publish
    /\ left' = 1
    /\ UNCHANGED <<value, prev, first, elapsed, ticker, listener, inflight,
                   history, steps>>

TickerRecords ==
    /\ ticker = "state"
    /\ Returned("ticker", "state")
    /\ Record(Head(inflight))
    /\ \E sends \in BOOLEAN :
          /\ AndThen("ticker", sends)
          /\ ticker' = IF sends THEN "position" ELSE "sleep"
          /\ left' = IF sends THEN 0 ELSE 1
    /\ UNCHANGED <<value, listener, history, steps>>

TickerDone ==
    /\ ticker = "position"
    /\ Returned("ticker", "position")
    /\ inflight' = Tail(inflight)
    /\ ticker' = "sleep" /\ left' = 1
    /\ UNCHANGED <<value, prev, first, elapsed, listener, history, steps>>

\* Home Assistant says "online": announce, then publish whatever the clock says.
HaOnline ==
    /\ listener = "wait"
    /\ listener' = "announce"
    /\ UNCHANGED <<value, prev, first, elapsed, ticker, left, inflight,
                   history, steps>>

ListenerPublish ==
    /\ listener = "announce"
    /\ Issue("listener")
    /\ listener' = "state"
    /\ UNCHANGED <<value, prev, first, elapsed, ticker, left, steps>>

ListenerRecords ==
    /\ listener = "state"
    /\ Returned("listener", "state")
    /\ Record(Head(inflight))
    /\ \E sends \in BOOLEAN :
          /\ AndThen("listener", sends)
          /\ listener' = IF sends THEN "position" ELSE "wait"
    /\ UNCHANGED <<value, ticker, left, history, steps>>

ListenerDone ==
    /\ listener = "position"
    /\ Returned("listener", "position")
    /\ inflight' = Tail(inflight)
    /\ listener' = "wait"
    /\ UNCHANGED <<value, prev, first, elapsed, ticker, left, history, steps>>

\* A new session forgets what the last one published.
Reconnect ==
    /\ prev' = None /\ first' = TRUE /\ elapsed' = 0
    /\ ticker' = "sleep" /\ left' = 0 /\ listener' = "wait"
    /\ inflight' = <<>>
    /\ since' = Never /\ own' = Never /\ gap' = Never
    /\ retained' = None /\ stale' = 0
    /\ back' = FALSE /\ forth' = FALSE
    /\ UNCHANGED <<value, steps>>
-----------------------------------------------------------------------------
\* The quantity has left the deadband around what the broker shows.
Overdue(now) == retained # None /\ Apart(now, retained)

Change ==
    /\ value' \in Values \ {value}
    /\ stale' = IF Overdue(value') THEN stale ELSE 0
    /\ UNCHANGED <<prev, first, elapsed, ticker, left, listener, inflight,
                   since, own, gap, retained, back, forth, steps>>

Later(d) == [k \in DOMAIN inflight |-> [inflight[k] EXCEPT !.age = @ + d]]

ClockStep ==
    /\ steps < MaxSteps
    /\ steps' = steps + 1
    /\ \E d \in ClockSteps :
          /\ elapsed' = elapsed + d /\ inflight' = Later(d)
          /\ back' = (back \/ d < 0) /\ forth' = (forth \/ d > 0)
    /\ UNCHANGED <<value, prev, first, ticker, left, listener, since, own, gap,
                   retained, stale>>

Capped(n) == IF n < Never THEN n ELSE Never

\* A second passes: nothing that is due may be left undone meanwhile.
Tick ==
    /\ ticker = "sleep" => left = 1
    /\ \A k \in DOMAIN inflight : inflight[k].spent < MaxWrite
    /\ left' = 0
    /\ elapsed' = IF first THEN 0 ELSE elapsed + 1
    /\ inflight' = [k \in DOMAIN inflight |->
                      [inflight[k] EXCEPT !.age = @ + 1, !.spent = @ + 1]]
    /\ since' = Capped(since + 1) /\ own' = Capped(own + 1)
    /\ stale' = IF Overdue(value) THEN Capped(stale + 1) ELSE 0
    /\ UNCHANGED <<value, prev, first, ticker, listener, gap, retained, back, forth,
                   steps>>

Next ==
    \/ TickerPublish \/ TickerSkip \/ TickerRecords \/ TickerDone
    \/ HaOnline \/ ListenerPublish \/ ListenerRecords \/ ListenerDone
    \/ Reconnect \/ Change \/ ClockStep \/ Tick

Spec == Init /\ [][Next]_vars
-----------------------------------------------------------------------------
TypeOK ==
    /\ value \in Values /\ prev \in Values \cup {None}
    /\ first \in BOOLEAN /\ elapsed \in Int
    /\ ticker \in {"sleep", "state", "position"} /\ left \in {0, 1}
    /\ listener \in {"wait", "announce", "state", "position"}
    /\ \A k \in DOMAIN inflight :
          inflight[k] \in [by : {"ticker", "listener"},
                           topic : {"state", "position"},
                           says : Values, age : Int, spent : Nat]
    /\ Len(inflight) <= 2
    /\ {since, own, gap, stale} \subseteq 0..Never
    /\ retained \in Values \cup {None}
    /\ {back, forth} \subseteq BOOLEAN /\ steps \in 0..MaxSteps

\* "Ceiling: never publish more often than this."  Two messages the ticker sends
\* in a session are never closer, whatever the listener publishes in between and
\* however slow the broker is, unless the clock jumps ahead.
CeilingKept == ~forth => gap >= MinInterval

\* The longest turn of the ticker: the two messages it awaits, and its sleep.
Turn == 2 * MaxWrite + 1

\* "Floor: publish at least this often": there is never more than the floor between
\* two messages, unless the ticker's own turn takes longer.  A clock stepped back
\* breaks it, and is excepted.
FloorKept == ~back /\ retained # None => since <= Interval \/ since <= Turn

\* A change that stays beyond the deadband is on the wire within the minimum interval,
\* or the turn that is in progress.
ChangePrompt == ~back => stale <= MinInterval \/ stale <= Turn

\* When nothing is in flight, _prev_state is what the broker shows: the
\* deadband is measured from what subscribers see, so drift cannot hide.
PrevMirrorsBroker == TypeOK /\ (inflight = <<>> /\ ~first => prev = retained)

\* No change stays hidden, neither a step nor a drift.
ChangesShow == ChangePrompt /\ PrevMirrorsBroker
=============================================================================
