------------------------------ MODULE SseLoop ------------------------------
(***************************************************************************)
(* One run of Broadcaster.sse_generator (stratumtap/stream.py) against the *)
(* clock: queued events, the periodic status and stats events and the      *)
(* keepalive share one loop and one asyncio.wait_for.                      *)
(*                                                                         *)
(* Instants are kept relative to loop.time(): silence is the time since    *)
(* last_out, stats_in and status_in the time left to next_stats and        *)
(* next_status, negative when overdue.  Code between two awaits takes no   *)
(* time.  A write takes at most MaxWrite ticks.  MaxLag bounds how late an *)
(* await resumes: the ticks from the moment what it waits for has happened *)
(* to the task's next step (the turns of the loop that loopmon.py times).  *)
(***************************************************************************)
EXTENDS Integers

CONSTANTS
    Settings,           \* the intervals a generator may run with
    QueueSize,          \* Subscriber.queue.maxsize
    MaxWrite,           \* bound on the ticks one write takes
    MaxLag              \* bound on the ticks by which one await resumes late

ASSUME ConstantsAssumption ==
    /\ Settings \subseteq [stats : Nat \ {0}, keepalive : Nat \ {0},
                             status : Nat \ {0}, wants_status : BOOLEAN]
    /\ QueueSize \in Nat \ {0}
    /\ {MaxWrite, MaxLag} \subseteq Nat

VARIABLES
    settings,    \* the intervals of this generator
    pc,          \* where the generator is
    queued,      \* items in the subscriber's queue
    due,         \* the timers that had expired when `now` was last read
    silence,     \* loop.time() - last_out
    stats_in,    \* next_stats - loop.time()
    status_in,   \* next_status - loop.time()
    spent        \* ticks this write has taken, or this await resumes late

vars == <<settings, pc, queued, due, silence, stats_in, status_in, spent>>
clock == <<silence, stats_in, status_in>>

StatsInterval == settings.stats          \* STATS_INTERVAL_S
KeepaliveInterval == settings.keepalive  \* KEEPALIVE_INTERVAL_S
StatusInterval == settings.status        \* status_interval of the request
WantStatus == settings.wants_status      \* is "status" among the events?

\* The states in which a frame is being written.
Frames == {"hello", "item", "status", "stats", "keepalive"}

Init ==
    /\ settings \in Settings
    /\ pc = "hello"
    /\ queued = 0
    /\ due = {}
    /\ silence = 0 /\ stats_in = 0 /\ status_in = 0
    /\ spent = 0

\* The timers that are due at this instant.
Expired == (IF stats_in <= 0 THEN {"stats"} ELSE {})
           \cup (IF WantStatus /\ status_in <= 0 THEN {"status"} ELSE {})

\* Mutants: timers wait for an empty queue; the keepalive has no deadline.
TimedOutWhenIdle == queued = 0 /\ (Expired # {} \/ silence >= KeepaliveInterval)
TimedOutByTimers == Expired # {}

\* deadline - now <= 0
TimedOut == Expired # {} \/ silence >= KeepaliveInterval

Yield(frame) == pc' = frame /\ spent' = 0

HelloSent ==
    /\ pc = "hello"
    /\ pc' = "head"
    /\ silence' = 0
    /\ stats_in' = StatsInterval
    /\ status_in' = IF WantStatus THEN StatusInterval ELSE 0
    /\ UNCHANGED <<queued, due, spent>>

\* wait_for suspends the task even with no time left, to have the get cancelled
\* before it runs; with time left the get runs, on an item that may be there.
Poll ==
    /\ pc = "head"
    /\ pc' = IF TimedOut THEN "cancel" ELSE "get"
    /\ spent' = 0
    /\ UNCHANGED <<queued, due, clock>>

\* In the get: an item is there, or the deadline passes, whichever the loop
\* resumes first.  A get that times out is cancelled and takes nothing.
Got ==
    /\ pc = "get"
    /\ queued > 0
    /\ queued' = queued - 1
    /\ Yield("item")
    /\ UNCHANGED <<due, clock>>

Expire ==
    /\ pc = "get"
    /\ TimedOut
    /\ pc' = "cancel" /\ spent' = 0
    /\ UNCHANGED <<queued, due, clock>>

\* The cancelled get has unwound: TimeoutError, and the clock is read again.
Cancelled ==
    /\ pc = "cancel"
    /\ pc' = "timers"
    /\ due' = Expired
    /\ UNCHANGED <<queued, spent, clock>>

ItemSent ==
    /\ pc = "item"
    /\ pc' = "head"
    /\ silence' = 0
    /\ UNCHANGED <<queued, due, stats_in, status_in, spent>>

\* The timer half of the loop body, in its order: status, stats, keepalive.
SendStatus ==
    /\ pc = "timers" /\ "status" \in due
    /\ due' = due \ {"status"}
    /\ Yield("status")
    /\ UNCHANGED <<queued, clock>>

StatusSent ==
    /\ pc = "status"
    /\ pc' = "timers"
    /\ silence' = 0
    /\ status_in' = StatusInterval
    /\ UNCHANGED <<queued, due, stats_in, spent>>

SendStats ==
    /\ pc = "timers" /\ due = {"stats"}
    /\ due' = {}
    /\ Yield("stats")
    /\ UNCHANGED <<queued, clock>>

\* Mutant: next_stats = now.
StatsSentAgain ==
    /\ pc = "stats" /\ pc' = "timers"
    /\ silence' = 0 /\ stats_in' = 0
    /\ UNCHANGED <<queued, due, status_in, spent>>

StatsSent ==
    /\ pc = "stats"
    /\ pc' = "timers"
    /\ silence' = 0
    /\ stats_in' = StatsInterval
    /\ UNCHANGED <<queued, due, status_in, spent>>

\* Mutant: the comparison is inverted.
CheckNoise ==
    /\ pc = "timers" /\ due = {}
    /\ IF silence <= KeepaliveInterval THEN Yield("keepalive")
       ELSE pc' = "head" /\ UNCHANGED spent
    /\ UNCHANGED <<queued, due, clock>>

\* After silence the connection is probed, then kept alive.
CheckSilence ==
    /\ pc = "timers" /\ due = {}
    /\ \/ silence >= KeepaliveInterval /\ Yield("keepalive")
       \/ /\ silence >= KeepaliveInterval
          /\ pc' = "closed" /\ UNCHANGED spent
       \/ silence < KeepaliveInterval /\ pc' = "head" /\ UNCHANGED spent
    /\ UNCHANGED <<queued, due, clock>>

KeepaliveSent ==
    /\ pc = "keepalive"
    /\ pc' = "head"
    /\ silence' = 0
    /\ UNCHANGED <<queued, due, stats_in, status_in, spent>>
-----------------------------------------------------------------------------
\* A producer publishes; at the limit the oldest item makes room.
Publish ==
    /\ pc # "closed"
    /\ queued' = IF queued < QueueSize THEN queued + 1 ELSE queued
    /\ UNCHANGED <<settings, pc, due, clock, spent>>

\* Time passes while the client reads a frame, while nothing is due, or while
\* the loop is late.
Tick ==
    /\ \/ pc \in Frames /\ spent < MaxWrite /\ spent' = spent + 1
       \/ pc = "get" /\ queued = 0 /\ ~TimedOut /\ UNCHANGED spent
       \/ /\ pc = "cancel" \/ (pc = "get" /\ (queued > 0 \/ TimedOut))
          /\ spent < MaxLag /\ spent' = spent + 1
    /\ silence' = silence + 1
    /\ stats_in' = stats_in - 1
    /\ status_in' = IF WantStatus THEN status_in - 1 ELSE 0
    /\ UNCHANGED <<settings, pc, queued, due>>

Generator ==
    /\ \/ HelloSent \/ Poll \/ Got \/ Expire \/ Cancelled \/ ItemSent
       \/ SendStatus \/ StatusSent \/ SendStats \/ StatsSent
       \/ CheckSilence \/ KeepaliveSent
    /\ UNCHANGED settings

Next == Generator \/ Publish \/ Tick

Spec == Init /\ [][Next]_vars

\* A runnable task runs, and time diverges: no infinite number of writes in an
\* instant, hence strong fairness of Tick.  Nothing is assumed of the producers.
FairSpec == Spec /\ WF_vars(Generator) /\ SF_vars(Tick)
-----------------------------------------------------------------------------
TypeOK ==
    /\ settings \in Settings
    /\ pc \in Frames \cup {"head", "get", "cancel", "timers", "closed"}
    /\ queued \in 0..QueueSize
    /\ due \subseteq {"stats", "status"}
    /\ silence \in Nat
    /\ stats_in \in Int /\ stats_in <= StatsInterval
    /\ status_in \in Int /\ status_in <= StatusInterval
    /\ spent \in Nat

Min2(a, b) == IF a <= b THEN a ELSE b

\* A busy queue never starves the periodic events: however events arrive, a
\* stats or status event that is due starts to be written after at most two
\* late resumptions and two other writes.
Overdue == 2 * MaxLag + 2 * MaxWrite
PeriodicOnTime ==
    /\ pc \notin {"hello", "stats"} => stats_in >= -Overdue
    /\ WantStatus /\ pc \notin {"hello", "status"} => status_in >= -Overdue

\* The client is never left in silence longer than the shorter of the two
\* intervals, plus what lateness and its own reading add: proxies keep the
\* connection open.
SilenceBounded ==
    pc # "hello" =>
        silence <= Min2(StatsInterval, KeepaliveInterval) + 2 * MaxLag + MaxWrite

\* Neither a full queue nor an empty one keeps the stream from its timetable.
TimetableKept == PeriodicOnTime /\ SilenceBounded

\* With stats no rarer than keepalives, as in the code, the keepalive branch,
\* and with it the generator's own disconnect probe, is never reached: an SSE
\* slot is given back only when the server cancels the response.
KeepaliveShadowed ==
    StatsInterval <= KeepaliveInterval =>
        pc \notin {"keepalive", "closed"}

\* Neither starves the other: stats (and status) events keep coming under any
\* load, and a queued event is always sent, unless the probe ends the stream.
NothingStarves ==
    /\ []<>(pc \in {"stats", "closed"})
    /\ WantStatus => []<>(pc \in {"status", "closed"})
    /\ (queued > 0) ~> (pc \in {"item", "closed"})
=============================================================================
