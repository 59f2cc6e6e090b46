--------------------------- MODULE SseLoopProofs ---------------------------
(***************************************************************************)
(* Theorems about SseLoop, for any intervals, queue size and lateness.     *)
(***************************************************************************)
EXTENDS SseLoop, TLAPS

USE DEF Frames

LEMMA Intervals ==
  ASSUME TypeOK
  PROVE  /\ StatsInterval \in Nat /\ StatsInterval > 0
         /\ KeepaliveInterval \in Nat /\ KeepaliveInterval > 0
         /\ StatusInterval \in Nat /\ StatusInterval > 0
<1>1. settings \in [stats : Nat \ {0}, keepalive : Nat \ {0},
                    status : Nat \ {0}, wants_status : BOOLEAN]
  BY ConstantsAssumption DEF ConstantsAssumption, TypeOK
<1> QED  BY <1>1 DEF StatsInterval, KeepaliveInterval, StatusInterval

LEMMA Bounds == QueueSize \in Nat /\ QueueSize > 0
  BY ConstantsAssumption DEF ConstantsAssumption

\* The settings are those of the call.
LEMMA Fixed ==
  ASSUME [Next]_vars
  PROVE  /\ settings' = settings
         /\ StatsInterval' = StatsInterval
         /\ KeepaliveInterval' = KeepaliveInterval
         /\ StatusInterval' = StatusInterval
         /\ WantStatus' = WantStatus
<1>1. settings' = settings
  BY DEF Next, Generator, Publish, Tick, vars
<1> QED  BY <1>1 DEF StatsInterval, KeepaliveInterval, StatusInterval, WantStatus

LEMMA ExpiredTimers ==
    /\ Expired \subseteq {"stats", "status"}
    /\ "stats" \in Expired <=> stats_in <= 0
    /\ "status" \in Expired <=> WantStatus /\ status_in <= 0
  BY DEF Expired

LEMMA Deadline ==
    TimedOut <=> \/ stats_in <= 0
                 \/ WantStatus /\ status_in <= 0
                 \/ silence >= KeepaliveInterval
<1>1. Expired # {} <=> "stats" \in Expired \/ "status" \in Expired
  BY ExpiredTimers
<1> QED  BY <1>1, ExpiredTimers DEF TimedOut

\* The generator keeps its types: no timer is ever further away than its own
\* interval.
THEOREM TypeCorrect == Spec => []TypeOK
<1>1. Init => TypeOK
  <2> SUFFICES ASSUME Init PROVE TypeOK
    OBVIOUS
  <2>1. settings \in [stats : Nat \ {0}, keepalive : Nat \ {0},
                      status : Nat \ {0}, wants_status : BOOLEAN]
    BY ConstantsAssumption DEF ConstantsAssumption, Init
  <2>2. StatsInterval >= 0 /\ StatusInterval >= 0
    BY <2>1 DEF StatsInterval, StatusInterval
  <2> QED  BY <2>2, Bounds DEF Init, TypeOK
<1>2. TypeOK /\ [Next]_vars => TypeOK'
  <2> SUFFICES ASSUME TypeOK, [Next]_vars PROVE TypeOK'
    OBVIOUS
  <2>0. /\ StatsInterval \in Nat /\ StatsInterval > 0
        /\ KeepaliveInterval \in Nat
        /\ StatusInterval \in Nat /\ StatusInterval > 0
    BY Intervals
  <2> USE <2>0, Fixed, Bounds DEF TypeOK, clock
  <2>1. CASE HelloSent \/ ItemSent \/ StatusSent \/ StatsSent \/ KeepaliveSent
    <3>1. CASE HelloSent
      BY <3>1 DEF HelloSent
    <3>2. CASE ItemSent
      BY <3>2 DEF ItemSent
    <3>3. CASE KeepaliveSent
      BY <3>3 DEF KeepaliveSent
    <3>4. CASE StatusSent
      BY <3>4 DEF StatusSent
    <3>5. CASE StatsSent
      BY <3>5 DEF StatsSent
    <3> QED  BY <2>1, <3>1, <3>2, <3>3, <3>4, <3>5
  <2>2. CASE Poll \/ Got \/ Expire \/ Cancelled
    <3>1. CASE Poll
      BY <3>1 DEF Poll
    <3>2. CASE Got
      BY <3>2 DEF Got, Yield
    <3>3. CASE Expire
      BY <3>3 DEF Expire
    <3>4. CASE Cancelled
      BY <3>4, ExpiredTimers DEF Cancelled
    <3> QED  BY <2>2, <3>1, <3>2, <3>3, <3>4
  <2>3. CASE SendStatus \/ SendStats \/ CheckSilence
    <3>1. CASE SendStatus
      BY <3>1 DEF SendStatus, Yield
    <3>2. CASE SendStats
      BY <3>2 DEF SendStats, Yield
    <3>3. CASE CheckSilence
      BY <3>3 DEF CheckSilence, Yield
    <3> QED  BY <2>3, <3>1, <3>2, <3>3
  <2>4. CASE Publish
    BY <2>4 DEF Publish
  <2>5. CASE Tick
    BY <2>5 DEF Tick
  <2>6. CASE UNCHANGED vars
    BY <2>6 DEF vars
  <2> QED  BY <2>1, <2>2, <2>3, <2>4, <2>5, <2>6 DEF Next, Generator
<1> QED  BY <1>1, <1>2, PTL DEF Spec

\* Silence uses up the time to the next stats event, so the keepalive's turn
\* comes only after a stats event that was due has broken the silence.
StatsBreakSilence ==
    /\ pc # "hello" => silence + stats_in <= StatsInterval
    /\ pc = "timers" /\ "stats" \notin due => silence < StatsInterval
    /\ StatsInterval <= KeepaliveInterval => pc \notin {"keepalive", "closed"}

LEMMA SilenceAlwaysBroken == Spec => []StatsBreakSilence
<1>1. Init => StatsBreakSilence
  BY DEF Init, StatsBreakSilence
<1>2. TypeOK /\ StatsBreakSilence /\ [Next]_vars => StatsBreakSilence'
  <2> SUFFICES ASSUME TypeOK, StatsBreakSilence, [Next]_vars
               PROVE  StatsBreakSilence'
    OBVIOUS
  <2>0. /\ StatsInterval \in Nat /\ StatsInterval > 0
        /\ KeepaliveInterval \in Nat
        /\ StatusInterval \in Nat /\ StatusInterval > 0
    BY Intervals
  <2> USE <2>0, Fixed, Bounds DEF TypeOK, clock, StatsBreakSilence
  <2>1. CASE HelloSent \/ ItemSent \/ StatusSent \/ StatsSent \/ KeepaliveSent
    <3>1. CASE HelloSent
      BY <3>1 DEF HelloSent
    <3>2. CASE ItemSent
      BY <3>2 DEF ItemSent
    <3>3. CASE KeepaliveSent
      BY <3>3 DEF KeepaliveSent
    <3>4. CASE StatusSent
      BY <3>4 DEF StatusSent
    <3>5. CASE StatsSent
      BY <3>5 DEF StatsSent
    <3> QED  BY <2>1, <3>1, <3>2, <3>3, <3>4, <3>5
  <2>2. CASE Poll \/ Got \/ Expire \/ Cancelled
    <3>1. CASE Poll
      BY <3>1 DEF Poll
    <3>2. CASE Got
      BY <3>2 DEF Got, Yield
    <3>3. CASE Expire
      BY <3>3 DEF Expire
    <3>4. CASE Cancelled
      BY <3>4, ExpiredTimers DEF Cancelled
    <3> QED  BY <2>2, <3>1, <3>2, <3>3, <3>4
  <2>3. CASE SendStatus \/ SendStats \/ CheckSilence
    <3>1. CASE SendStatus
      BY <3>1 DEF SendStatus, Yield
    <3>2. CASE SendStats
      BY <3>2 DEF SendStats, Yield
    <3>3. CASE CheckSilence
      BY <3>3 DEF CheckSilence, Yield
    <3> QED  BY <2>3, <3>1, <3>2, <3>3
  <2>4. CASE Publish
    BY <2>4 DEF Publish
  <2>5. CASE Tick
    BY <2>5 DEF Tick
  <2>6. CASE UNCHANGED vars
    BY <2>6 DEF vars
  <2> QED  BY <2>1, <2>2, <2>3, <2>4, <2>5, <2>6 DEF Next, Generator
<1> QED  BY <1>1, <1>2, TypeCorrect, PTL DEF Spec

\* With the code's intervals (10 s of stats, 15 s of keepalive), or any with
\* stats no rarer than keepalives, the keepalive branch and its disconnect
\* probe are dead code, however late the loop and the client are.
THEOREM KeepaliveNeverReached == Spec => []KeepaliveShadowed
<1>1. StatsBreakSilence => KeepaliveShadowed
  BY DEF StatsBreakSilence, KeepaliveShadowed
<1> QED  BY <1>1, SilenceAlwaysBroken, PTL
-----------------------------------------------------------------------------
(* The timetable *)

\* A write is under way for MaxWrite ticks at most, a resumption late by MaxLag.
SpentBounded ==
    /\ pc \in Frames => spent <= MaxWrite
    /\ pc \in {"get", "cancel"} => spent <= MaxLag

\* What may delay a stats event that is due: a late resumption and the write it
\* resumes, the cancellation of the next get, then the status event, which goes
\* first.  One that was not due when the clock was read has one write at most to
\* wait for.
StatsOnTime ==
    /\ pc = "head" => stats_in >= -(MaxLag + MaxWrite)
    /\ pc = "get" => stats_in + spent >= 0
    /\ pc = "item" => stats_in + spent >= -MaxLag
    /\ pc = "cancel" => stats_in + spent >= -(MaxLag + MaxWrite)
    /\ pc = "timers" /\ "stats" \in due => stats_in >= -(2 * MaxLag + 2 * MaxWrite)
    /\ pc = "timers" /\ due = {"stats", "status"} => stats_in >= -(2 * MaxLag + MaxWrite)
    /\ pc = "timers" /\ due = {"status"} => stats_in > 0
    /\ pc = "timers" /\ due = {} => stats_in > 0 \/ (silence = 0 /\ stats_in >= -MaxWrite)
    /\ pc = "status" /\ "stats" \in due => stats_in + spent >= -(2 * MaxLag + MaxWrite)
    /\ pc = "status" /\ "stats" \notin due => stats_in + spent >= 0
    /\ pc = "keepalive" => stats_in + spent >= 0
    /\ pc = "closed" => stats_in >= -MaxWrite

\* The same of a status event, which nothing precedes.
StatusOnTime ==
    /\ pc = "head" => status_in >= -(MaxLag + MaxWrite)
    /\ pc = "get" => status_in + spent >= 0
    /\ pc = "item" => status_in + spent >= -MaxLag
    /\ pc = "cancel" => status_in + spent >= -(MaxLag + MaxWrite)
    /\ pc = "timers" /\ "status" \in due => status_in >= -(2 * MaxLag + MaxWrite)
    /\ pc = "timers" /\ due = {"stats"} => status_in > 0
    /\ pc = "timers" /\ due = {} =>
          status_in > 0 \/ (silence = 0 /\ status_in >= -MaxWrite)
    /\ pc = "stats" => status_in + spent >= 0
    /\ pc = "keepalive" => status_in + spent >= 0
    /\ pc = "closed" => status_in >= -MaxWrite

\* Every turn of the loop that begins has just sent a frame, and the wait ends with
\* the silence of either interval.
SilenceCounted ==
    /\ pc = "head" => silence = 0
    /\ pc = "get" => /\ silence <= StatsInterval + spent
                     /\ silence <= KeepaliveInterval + spent
    /\ pc = "cancel" => /\ silence <= StatsInterval + MaxLag + spent
                        /\ silence <= KeepaliveInterval + MaxLag + spent
                        /\ stats_in <= 0 \/ (WantStatus /\ status_in <= 0)
                              \/ silence >= KeepaliveInterval
    /\ pc \in Frames \ {"hello"} => /\ silence <= StatsInterval + 2 * MaxLag + spent
                                    /\ silence <= KeepaliveInterval + 2 * MaxLag + spent
    /\ pc \in {"timers", "closed"} => /\ silence <= StatsInterval + 2 * MaxLag
                                      /\ silence <= KeepaliveInterval + 2 * MaxLag
    /\ pc = "timers" /\ due = {} => silence = 0 \/ silence >= KeepaliveInterval

\* The timers left to serve: status goes before stats.
DueInOrder ==
    /\ pc = "status" => due \in {{}, {"stats"}}
    /\ pc = "stats" => due = {}

Counted == SpentBounded /\ SilenceCounted /\ DueInOrder

Timetable == Counted /\ StatsOnTime /\ (WantStatus => StatusOnTime)

LEMMA Delays == MaxWrite \in Nat /\ MaxLag \in Nat
  BY ConstantsAssumption DEF ConstantsAssumption

LEMMA CountedSteps ==
    ASSUME TypeOK, StatsBreakSilence, Counted, [Next]_vars
    PROVE  Counted'
<1>0. /\ StatsInterval \in Nat /\ StatsInterval > 0
      /\ KeepaliveInterval \in Nat /\ KeepaliveInterval > 0
      /\ StatusInterval \in Nat /\ StatusInterval > 0
  BY Intervals
<1> USE <1>0, Fixed, Delays, Bounds DEF TypeOK, clock, Counted, SpentBounded, SilenceCounted,
           DueInOrder, StatsBreakSilence
<1>1. CASE HelloSent
  BY <1>1 DEF HelloSent
<1>2. CASE ItemSent
  BY <1>2 DEF ItemSent
<1>3. CASE StatusSent
  BY <1>3 DEF StatusSent
<1>4. CASE StatsSent
  BY <1>4 DEF StatsSent
<1>5. CASE KeepaliveSent
  BY <1>5 DEF KeepaliveSent
<1>6. CASE Poll
  <2>1. CASE TimedOut
    BY <1>6, <2>1, Deadline DEF Poll
  <2>2. CASE ~TimedOut
    BY <1>6, <2>2, Deadline DEF Poll
  <2> QED  BY <2>1, <2>2
<1>7. CASE Got
  BY <1>7 DEF Got, Yield
<1>8. CASE Expire
  BY <1>8, Deadline DEF Expire
<1>9. CASE SendStatus
  <2>1. /\ pc = "timers" /\ pc' = "status" /\ spent' = 0 /\ UNCHANGED clock
        /\ due' = due \ {"status"}
    BY <1>9 DEF SendStatus, Yield
  <2>2. due' \in {{}, {"stats"}}
    <3>1. CASE "stats" \in due
      BY <2>1, <3>1
    <3>2. CASE "stats" \notin due
      <4>1. due' = {}
        BY <2>1, <3>2
      <4> QED  BY <4>1
    <3> QED  BY <3>1, <3>2
  <2> QED  BY <2>1, <2>2
<1>10. CASE SendStats
  BY <1>10 DEF SendStats, Yield
<1>11. CASE CheckSilence
  BY <1>11 DEF CheckSilence, Yield
<1>12. CASE Publish
  BY <1>12 DEF Publish
<1>13. CASE Tick
  BY <1>13, Deadline DEF Tick
<1>14. CASE Cancelled
  BY <1>14, ExpiredTimers DEF Cancelled
<1>15. CASE UNCHANGED vars
  BY <1>15 DEF vars
<1> QED
  BY <1>1, <1>2, <1>3, <1>4, <1>5, <1>6, <1>7, <1>8, <1>9,
     <1>10, <1>11, <1>12, <1>13, <1>14, <1>15 DEF Next, Generator

LEMMA StatsSteps ==
    ASSUME TypeOK, Counted, StatsOnTime, [Next]_vars
    PROVE  StatsOnTime'
<1>0. /\ StatsInterval \in Nat /\ StatsInterval > 0
      /\ KeepaliveInterval \in Nat /\ KeepaliveInterval > 0
      /\ StatusInterval \in Nat /\ StatusInterval > 0
  BY Intervals
<1> USE <1>0, Fixed, Delays, Bounds DEF TypeOK, clock, Counted, SpentBounded, SilenceCounted,
           DueInOrder, StatsOnTime
<1>1. CASE HelloSent
  BY <1>1 DEF HelloSent
<1>2. CASE ItemSent
  BY <1>2 DEF ItemSent
<1>3. CASE StatusSent
  <2>1. /\ pc = "status" /\ pc' = "timers" /\ due' = due /\ stats_in' = stats_in
        /\ silence' = 0 /\ spent <= MaxWrite
    BY <1>3 DEF StatusSent
  <2>2. CASE due = {}
    BY <2>1, <2>2
  <2>3. CASE due = {"stats"}
    <3>1. stats_in + spent >= -(2 * MaxLag + MaxWrite)
      BY <2>1, <2>3
    <3>2. stats_in' >= -(2 * MaxLag + 2 * MaxWrite)
      BY <2>1, <3>1
    <3>3. /\ due' = {"stats"} /\ due' # {} /\ due' # {"status"}
          /\ due' # {"stats", "status"}
      BY <2>1, <2>3
    <3> HIDE <2>3
    <3> QED  BY <2>1, <3>2, <3>3
  <2> QED  BY <2>1, <2>2, <2>3
<1>4. CASE StatsSent
  BY <1>4 DEF StatsSent
<1>5. CASE KeepaliveSent
  BY <1>5 DEF KeepaliveSent
<1>6. CASE Poll
  <2>1. CASE TimedOut
    BY <1>6, <2>1, Deadline DEF Poll
  <2>2. CASE ~TimedOut
    BY <1>6, <2>2, Deadline DEF Poll
  <2> QED  BY <2>1, <2>2
<1>7. CASE Got
  BY <1>7 DEF Got, Yield
<1>8. CASE Expire
  BY <1>8, Deadline DEF Expire
<1>9. CASE SendStatus
  <2>1. /\ pc = "timers" /\ pc' = "status" /\ spent' = 0 /\ UNCHANGED clock
        /\ "status" \in due /\ due' = due \ {"status"}
    BY <1>9 DEF SendStatus, Yield
  <2>2. CASE due = {"stats", "status"}
    <3>1. due' = {"stats"}
      BY <2>1, <2>2
    <3> QED  BY <2>1, <2>2, <3>1
  <2>3. CASE due = {"status"}
    <3>1. due' = {}
      BY <2>1, <2>3
    <3> QED  BY <2>1, <2>3, <3>1
  <2> QED  BY <2>1, <2>2, <2>3
<1>10. CASE SendStats
  BY <1>10 DEF SendStats, Yield
<1>11. CASE CheckSilence
  BY <1>11 DEF CheckSilence, Yield
<1>12. CASE Publish
  BY <1>12 DEF Publish
<1>13. CASE Tick
  BY <1>13, Deadline DEF Tick
<1>14. CASE Cancelled
  BY <1>14, ExpiredTimers DEF Cancelled
<1>15. CASE UNCHANGED vars
  BY <1>15 DEF vars
<1> QED
  BY <1>1, <1>2, <1>3, <1>4, <1>5, <1>6, <1>7, <1>8, <1>9,
     <1>10, <1>11, <1>12, <1>13, <1>14, <1>15 DEF Next, Generator

LEMMA StatusSteps ==
    ASSUME TypeOK, Counted, WantStatus, StatusOnTime, [Next]_vars
    PROVE  StatusOnTime'
<1>0. /\ StatsInterval \in Nat /\ StatsInterval > 0
      /\ KeepaliveInterval \in Nat /\ KeepaliveInterval > 0
      /\ StatusInterval \in Nat /\ StatusInterval > 0
  BY Intervals
<1> USE <1>0, Fixed, Delays, Bounds DEF TypeOK, clock, Counted, SpentBounded, SilenceCounted,
           DueInOrder, StatusOnTime
<1>1. CASE HelloSent
  BY <1>1 DEF HelloSent
<1>2. CASE ItemSent
  BY <1>2 DEF ItemSent
<1>3. CASE StatusSent
  BY <1>3 DEF StatusSent
<1>4. CASE StatsSent
  <2>1. /\ pc = "stats" /\ pc' = "timers" /\ due' = {} /\ status_in' = status_in
        /\ silence' = 0 /\ spent <= MaxWrite
    BY <1>4 DEF StatsSent
  <2> QED  BY <2>1
<1>5. CASE KeepaliveSent
  BY <1>5 DEF KeepaliveSent
<1>6. CASE Poll
  <2>1. CASE TimedOut
    BY <1>6, <2>1, Deadline DEF Poll
  <2>2. CASE ~TimedOut
    BY <1>6, <2>2, Deadline DEF Poll
  <2> QED  BY <2>1, <2>2
<1>7. CASE Got
  BY <1>7 DEF Got, Yield
<1>8. CASE Expire
  BY <1>8, Deadline DEF Expire
<1>9. CASE SendStatus
  BY <1>9 DEF SendStatus, Yield
<1>10. CASE SendStats
  BY <1>10 DEF SendStats, Yield
<1>11. CASE CheckSilence
  BY <1>11 DEF CheckSilence, Yield
<1>12. CASE Publish
  BY <1>12 DEF Publish
<1>13. CASE Tick
  BY <1>13, Deadline DEF Tick
<1>14. CASE Cancelled
  BY <1>14, ExpiredTimers DEF Cancelled
<1>15. CASE UNCHANGED vars
  BY <1>15 DEF vars
<1> QED
  BY <1>1, <1>2, <1>3, <1>4, <1>5, <1>6, <1>7, <1>8, <1>9,
     <1>10, <1>11, <1>12, <1>13, <1>14, <1>15 DEF Next, Generator

\* For any intervals, any lateness of the loop and of the client, and any load: an
\* event that is due is late by two resumptions and two writes at most, and the silence
\* is bounded by the shorter interval and what delays its end.
THEOREM TimetableAlwaysKept == Spec => []TimetableKept
<1>1. Init => Timetable
  BY Delays DEF Init, Timetable, Counted, SpentBounded, SilenceCounted, DueInOrder,
     StatsOnTime, StatusOnTime
<1>2. TypeOK /\ StatsBreakSilence /\ Timetable /\ [Next]_vars => Timetable'
  <2> SUFFICES ASSUME TypeOK, StatsBreakSilence, Timetable, [Next]_vars PROVE Timetable'
    OBVIOUS
  <2> QED  BY Fixed, CountedSteps, StatsSteps, StatusSteps DEF Timetable
<1>3. TypeOK /\ Timetable => TimetableKept
  <2> SUFFICES ASSUME TypeOK, Timetable PROVE TimetableKept
    OBVIOUS
  <2> USE Delays, Intervals DEF TypeOK, Counted, SpentBounded
  <2>1. PeriodicOnTime
    <3>1. pc \notin {"hello", "stats"} => stats_in >= -Overdue
      <4>1. CASE pc = "timers"
        <5>1. due = {} \/ due = {"status"} \/ "stats" \in due
          OBVIOUS
        <5> QED  BY <4>1, <5>1 DEF Timetable, StatsOnTime, Overdue
      <4>2. CASE pc = "status"
        BY <4>2 DEF Timetable, StatsOnTime, Overdue
      <4>3. CASE pc \in {"head", "get", "cancel", "item", "keepalive", "closed"}
        BY <4>3 DEF Timetable, StatsOnTime, Overdue
      <4> QED  BY <4>1, <4>2, <4>3
    <3>2. ASSUME WantStatus, pc \notin {"hello", "status"} PROVE status_in >= -Overdue
      <4> USE <3>2
      <4>1. CASE pc = "timers"
        <5>1. due \in {{}, {"stats"}} \/ "status" \in due
          OBVIOUS
        <5> QED  BY <4>1, <5>1 DEF Timetable, StatusOnTime, Overdue
      <4>2. CASE pc \in {"stats", "head", "get", "cancel", "item", "keepalive", "closed"}
        BY <4>2 DEF Timetable, StatusOnTime, Overdue
      <4> QED  BY <4>1, <4>2
    <3> QED  BY <3>1, <3>2 DEF PeriodicOnTime
  <2>2. SilenceBounded
    BY DEF Timetable, SilenceCounted, SilenceBounded, Min2
  <2> QED  BY <2>1, <2>2 DEF TimetableKept
<1> QED  BY <1>1, <1>2, <1>3, TypeCorrect, SilenceAlwaysBroken, PTL DEF Spec
=============================================================================
