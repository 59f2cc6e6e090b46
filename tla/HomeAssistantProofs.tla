------------------------ MODULE HomeAssistantProofs ------------------------
(***************************************************************************)
(* Proofs about HomeAssistant, for every value of its constants.           *)
(*                                                                         *)
(* Three layers, each on the one below: the session and the process        *)
(* (SessionInv), what is on the broker and on the screen while a session   *)
(* publishes (ShownInv), and the feeds it publishes without (LossInv).     *)
(***************************************************************************)
EXTENDS HomeAssistant, TLAPS

(* The session *)

\* Which tasks there are, and when the broker sees a live connection.
Shape ==
    /\ main # "off" <=> run = "session"
    /\ listener # "off" <=> main = "gather"
    /\ ticker # "off" <=> main = "gather"
    /\ stopping = "done" <=> run = "ended"
    /\ link = "up" => run = "session"
    /\ client <=> connected
    /\ published /\ run = "session" => main \in {"gather", "leaving"}
    /\ main = "leaving" => link # "up"

\* AvailabilityHonest and what it takes through a farewell that overlaps with
\* announcements, losses and a restart.
AvailInv ==
    /\ stopping = "no" /\ link = "up" => avail = "online"
    /\ stopping = "farewell" /\ link = "up" /\ ~spoke => avail # "online"
    /\ link = "none" /\ ~excused /\ ~spoke => avail # "online"
    /\ spoke => stopping # "no"

\* TypeOK in three parts.
States ==
    /\ run \in {"connecting", "session", "backoff", "ended"}
    /\ main \in {"off", "subscribe", "gather", "leaving"} \cup Announcing
    /\ listener \in {"off", "wait", "state", "failed"} \cup Announcing
    /\ ticker \in {"off", "eval", "state", "sleep", "failed"}
    /\ stopping \in {"no", "farewell", "done"}
    /\ link \in {"none", "up", "half"}
    /\ avail \in {"none", "online", "offline"}

FlagsOK ==
    /\ connected \in BOOLEAN /\ client \in BOOLEAN /\ last_error \in BOOLEAN
    /\ ha \in BOOLEAN /\ reached \in BOOLEAN /\ published \in BOOLEAN
    /\ excused \in BOOLEAN /\ spoke \in BOOLEAN

Numbers == backoff \in BackoffMin..BackoffMax /\ drops \in 0..MaxDrops

SessionInv == TypeOK /\ Shape /\ HealthHonest /\ BackoffFresh /\ AvailInv

\* The part of Die and of BrokerRestarts that the session sees.
Dies ==
    /\ run' = "ended" /\ main' = "off" /\ listener' = "off" /\ ticker' = "off"
    /\ Disconnected
    /\ stopping' = "done"
    /\ link' = IF link = "up" THEN "half" ELSE link
    /\ ha' = FALSE
    /\ Forget
    /\ UNCHANGED <<avail, drops, excused, spoke>>

BrokerGone ==
    /\ drops < MaxDrops /\ drops' = drops + 1 /\ link' = "none"
    /\ \/ excused' = TRUE /\ UNCHANGED avail
       \/ avail' = "none" /\ UNCHANGED excused
    /\ UNCHANGED <<run, tasks, health, backoff, stopping, ha, reached, published,
                   spoke>>

SessionMoves ==
    \/ Publisher \/ Stop \/ FarewellOver \/ HaOnline
    \/ (run = "ended" /\ NewPublisher) \/ Dies \/ BrokerGone

USE ConstantsAssumption DEF ConstantsAssumption

LEMMA BackoffGrows ==
    ASSUME backoff \in BackoffMin..BackoffMax
    PROVE  Doubled \in BackoffMin..BackoffMax
  BY DEF Doubled

LEMMA SessionStep == SessionInv /\ SessionMoves => SessionInv'
<1> USE DEF SessionInv, TypeOK, Shape, HealthHonest, BackoffFresh, AvailInv,
            tasks, health, history, Announcing
<1> SUFFICES ASSUME SessionInv, SessionMoves PROVE SessionInv'
  OBVIOUS
<1>1. CASE Connect
  BY <1>1 DEF Connect, AnnounceOnline, ErrorForgotten
<1>2. CASE MainStep
  BY <1>2 DEF MainStep, MainNext
<1>3. CASE ConnectFails
  BY <1>3 DEF ConnectFails, EndSession, EarnsFresh, Disconnected
<1>4. CASE SessionLost \/ SessionError
  <2>1. Failure /\ drops' \in 0..MaxDrops
    BY <1>4 DEF SessionLost, SessionError
  <2> USE DEF Failure
  <2>2. CASE MainFails
    <3>1. TypeOK'
      BY <2>1, <2>2 DEF MainFails, Leave
    <3>2. Shape' /\ HealthHonest' /\ BackoffFresh' /\ AvailInv'
      BY <2>1, <2>2 DEF MainFails, Leave, MainNext
    <3> QED
      BY <3>1, <3>2
  <2>3. CASE ListenerFails
    <3>1. TypeOK'
      BY <2>1, <2>3 DEF ListenerFails
    <3>2. Shape' /\ HealthHonest' /\ BackoffFresh' /\ AvailInv'
      BY <2>1, <2>3 DEF ListenerFails, ListenerNext
    <3> QED
      BY <3>1, <3>2
  <2>4. CASE TickerFails
    <3>1. TypeOK'
      BY <2>1, <2>4 DEF TickerFails
    <3>2. Shape' /\ HealthHonest' /\ BackoffFresh' /\ AvailInv'
      BY <2>1, <2>4 DEF TickerFails
    <3> QED
      BY <3>1, <3>2
  <2> QED
    BY <2>1, <2>2, <2>3, <2>4
<1>5. CASE Unwind \/ SessionEnds
  <2>1. CASE Unwind
    <3>1. TypeOK'
      BY <2>1 DEF Unwind, Leave
    <3>2. Shape' /\ HealthHonest' /\ BackoffFresh' /\ AvailInv'
      BY <2>1 DEF Unwind, Leave
    <3> QED
      BY <3>1, <3>2
  <2>2. CASE SessionEnds
    <3> USE DEF SessionEnds, EndSession, EarnsFresh, Disconnected
    <3>1. TypeOK'
      <4>1. States'
        BY <2>2 DEF States
      <4>2. FlagsOK'
        BY <2>2 DEF FlagsOK
      <4>3. Numbers'
        BY <2>2 DEF Numbers
      <4> QED
        BY <4>1, <4>2, <4>3 DEF States, FlagsOK, Numbers
    <3>2. Shape' /\ HealthHonest' /\ BackoffFresh' /\ AvailInv'
      BY <2>2
    <3> QED
      BY <3>1, <3>2
  <2> QED
    BY <1>5, <2>1, <2>2
<1>6. CASE Wake
  BY <1>6, BackoffGrows DEF Wake
<1>7. CASE Listen
  BY <1>7 DEF Listen, AnnounceOnline
<1>8. CASE ListenerStep
  BY <1>8 DEF ListenerStep, ListenerNext
<1>9. CASE Ticker
  <2>1. TypeOK'
    <3>1. States'
      BY <1>9 DEF States, Ticker
    <3>2. FlagsOK'
      BY <1>9 DEF FlagsOK, Ticker
    <3>3. Numbers'
      BY <1>9 DEF Numbers, Ticker
    <3> QED
      BY <3>1, <3>2, <3>3 DEF States, FlagsOK, Numbers
  <2>2. Shape'
    BY <1>9 DEF Ticker
  <2>3. HealthHonest'
    BY <1>9 DEF Ticker
  <2>4. BackoffFresh'
    BY <1>9 DEF Ticker
  <2>5. AvailInv'
    BY <1>9 DEF Ticker
  <2> QED
    BY <2>1, <2>2, <2>3, <2>4, <2>5
<1>10. CASE Drop
  BY <1>10 DEF Drop
<1>11. CASE LastWill
  BY <1>11 DEF LastWill
<1>12. CASE Stop
  <2>1. TypeOK'
    <3>1. States'
      BY <1>12 DEF States, Stop, SayOffline, CancelRun, Forget
    <3>2. FlagsOK'
      BY <1>12 DEF FlagsOK, Stop, SayOffline, CancelRun, Forget
    <3>3. Numbers'
      BY <1>12 DEF Numbers, Stop, SayOffline, CancelRun, Forget
    <3> QED
      BY <3>1, <3>2, <3>3 DEF States, FlagsOK, Numbers
  <2>2. Shape'
    BY <1>12 DEF Stop, SayOffline, CancelRun, Forget
  <2>3. HealthHonest'
    BY <1>12 DEF Stop, SayOffline, CancelRun, Forget
  <2>4. BackoffFresh'
    BY <1>12 DEF Stop, SayOffline, CancelRun, Forget
  <2>5. AvailInv'
    BY <1>12 DEF Stop, SayOffline, CancelRun, Forget
  <2> QED
    BY <2>1, <2>2, <2>3, <2>4, <2>5
<1>13. CASE FarewellOver
  <2>1. TypeOK'
    <3>1. States'
      BY <1>13 DEF States, FarewellOver, CancelRun, Forget
    <3>2. FlagsOK'
      BY <1>13 DEF FlagsOK, FarewellOver, CancelRun, Forget
    <3>3. Numbers'
      BY <1>13 DEF Numbers, FarewellOver, CancelRun, Forget
    <3> QED
      BY <3>1, <3>2, <3>3 DEF States, FlagsOK, Numbers
  <2>2. Shape' /\ HealthHonest' /\ BackoffFresh' /\ AvailInv'
    BY <1>13 DEF FarewellOver, CancelRun, Forget
  <2> QED
    BY <2>1, <2>2
<1>14. CASE HaOnline
  BY <1>14 DEF HaOnline
<1>15. CASE run = "ended" /\ NewPublisher
  <2>1. TypeOK'
    <3>1. States'
      BY <1>15 DEF States, NewPublisher
    <3>2. FlagsOK'
      BY <1>15 DEF FlagsOK, NewPublisher
    <3>3. Numbers'
      BY <1>15 DEF Numbers, NewPublisher
    <3> QED
      BY <3>1, <3>2, <3>3 DEF States, FlagsOK, Numbers
  <2>2. Shape'
    BY <1>15 DEF NewPublisher
  <2>3. HealthHonest'
    BY <1>15 DEF NewPublisher
  <2>4. BackoffFresh'
    BY <1>15 DEF NewPublisher
  <2>5. AvailInv'
    BY <1>15 DEF NewPublisher
  <2> QED
    BY <2>1, <2>2, <2>3, <2>4, <2>5
<1>16. CASE Dies
  <2>1. TypeOK'
    <3>1. States'
      BY <1>16 DEF States, Dies, Disconnected, Forget
    <3>2. FlagsOK'
      BY <1>16 DEF FlagsOK, Dies, Disconnected, Forget
    <3>3. Numbers'
      BY <1>16 DEF Numbers, Dies, Disconnected, Forget
    <3> QED
      BY <3>1, <3>2, <3>3 DEF States, FlagsOK, Numbers
  <2>2. Shape' /\ HealthHonest' /\ BackoffFresh' /\ AvailInv'
    BY <1>16 DEF Dies, Disconnected, Forget
  <2> QED
    BY <2>1, <2>2
<1>17. CASE BrokerGone
  <2>1. TypeOK'
    <3>1. States'
      BY <1>17 DEF States, BrokerGone
    <3>2. FlagsOK'
      BY <1>17 DEF FlagsOK, BrokerGone
    <3>3. Numbers'
      BY <1>17 DEF Numbers, BrokerGone
    <3> QED
      BY <3>1, <3>2, <3>3 DEF States, FlagsOK, Numbers
  <2>2. Shape'
    BY <1>17 DEF BrokerGone
  <2>3. HealthHonest'
    BY <1>17 DEF BrokerGone
  <2>4. BackoffFresh'
    BY <1>17 DEF BrokerGone
  <2>5. AvailInv'
    BY <1>17 DEF BrokerGone
  <2> QED
    BY <2>1, <2>2, <2>3, <2>4, <2>5
<1> QED
  BY <1>1, <1>2, <1>3, <1>4, <1>5, <1>6, <1>7, <1>8, <1>9, <1>10, <1>11, <1>12,
     <1>13, <1>14, <1>15, <1>16, <1>17 DEF SessionMoves, Publisher
-----------------------------------------------------------------------------
(* The process *)

\* ServiceSound and what it takes: the order of the exit is not begun before
\* streams are gone, and sources are not stopped before the publisher.
ProcessInv ==
    /\ ServiceTypeOK
    /\ phase = "down" => stopping = "done" /\ running = {}
    /\ phase # "stopping" => leaving = <<>>
    /\ phase \in {"serving", "draining"} => stopping = "no"
    /\ phase = "stopping" /\ stopping # "done" => leaving = ExitOrder
    /\ phase = "stopping" => running \subseteq ToSet(leaving)
    /\ phase \in {"stopping", "down"} => streams = 0
    /\ phase # "down" /\ stopping # "done" => ToSet(Sources) \ broken \subseteq running

ServiceInv == SessionInv /\ ProcessInv

USE ServiceAssumption DEF ServiceAssumption

LEMMA ExitFacts ==
    /\ ExitOrder \in Seq(ToSet(ExitOrder)) /\ ExitOrder # <<>>
    /\ Head(ExitOrder) = "mqtt"
    /\ ToSet(Sources) \cup Helpers \subseteq ToSet(ExitOrder)
    /\ "mqtt" \notin ToSet(Sources) \cup Helpers
<1> DEFINE Names == {"mqtt", "loopmon", "sampler", "demo", "chrony", "gpsd"}
           first == <<"mqtt", "loopmon", "sampler">>
<1>1. first \in Seq(Names) /\ Len(first) = 3
      /\ first[1] = "mqtt" /\ first[2] = "loopmon" /\ first[3] = "sampler"
  OBVIOUS
<1>2. /\ Sources \in Seq(Names) /\ Reverse(Sources) \in Seq(Names)
      /\ Len(Reverse(Sources)) = Len(Sources)
      /\ \A i \in 1..Len(Sources) : Reverse(Sources)[Len(Sources) - i + 1] = Sources[i]
      /\ ToSet(Sources) \subseteq {"demo", "chrony", "gpsd"}
  <2>1. /\ Sources \in Seq(Names)
        /\ \A i \in 1..Len(Sources) : Sources[i] \in {"demo", "chrony", "gpsd"}
    <3>1. CASE Demo
      <4>1. Sources = <<"demo">>
        BY <3>1 DEF Sources
      <4> QED
        BY <4>1
    <3>2. CASE ~Demo
      <4>1. Sources = <<"chrony", "gpsd">>
        BY <3>2 DEF Sources
      <4> QED
        BY <4>1
    <3> QED
      BY <3>1, <3>2
  <2>2. \A i \in 1..Len(Sources) : Len(Sources) - i + 1 \in 1..Len(Sources)
    BY <2>1
  <2>3. Reverse(Sources) \in [1..Len(Sources) -> Names]
    BY <2>1, <2>2 DEF Reverse
  <2> HIDE DEF Names
  <2>4. Reverse(Sources) \in Seq(Names) /\ Len(Reverse(Sources)) = Len(Sources)
    BY <2>1, <2>3
  <2>5. \A i \in 1..Len(Sources) : Reverse(Sources)[Len(Sources) - i + 1] = Sources[i]
    BY <2>1, <2>2 DEF Reverse
  <2>6. ToSet(Sources) \subseteq {"demo", "chrony", "gpsd"}
    BY <2>1 DEF ToSet
  <2> QED
    BY <2>1, <2>4, <2>5, <2>6
<1> HIDE DEF Names, first
<1>3. /\ ExitOrder \in Seq(Names) /\ Len(ExitOrder) = 3 + Len(Sources)
      /\ \A i \in 1..3 : ExitOrder[i] = first[i]
      /\ \A i \in 1..Len(Sources) : ExitOrder[3 + i] = Reverse(Sources)[i]
  BY <1>1, <1>2 DEF ExitOrder, first
<1>4. ToSet(Sources) \subseteq ToSet(ExitOrder)
  <2> SUFFICES ASSUME NEW i \in 1..Len(Sources) PROVE Sources[i] \in ToSet(ExitOrder)
    BY <1>2 DEF ToSet
  <2>1. /\ Len(Sources) - i + 1 \in 1..Len(Sources)
        /\ ExitOrder[3 + (Len(Sources) - i + 1)] = Sources[i]
    BY <1>2, <1>3
  <2>2. 3 + (Len(Sources) - i + 1) \in DOMAIN ExitOrder
    BY <2>1, <1>2, <1>3
  <2> QED
    BY <2>1, <2>2 DEF ToSet
<1>5. Helpers \subseteq ToSet(ExitOrder)
  <2>1. {2, 3} \subseteq DOMAIN ExitOrder
    BY <1>2, <1>3
  <2> QED
    BY <2>1, <1>1, <1>3 DEF Helpers, ToSet
<1>6. ExitOrder # <<>> /\ Head(ExitOrder) = "mqtt"
  BY <1>1, <1>2, <1>3
<1>7. ExitOrder \in Seq(ToSet(ExitOrder))
  BY <1>3 DEF ToSet
<1> QED
  BY <1>2, <1>4, <1>5, <1>6, <1>7 DEF Helpers

LEMMA TailFacts ==
    ASSUME NEW S, NEW s \in Seq(S), s # <<>>
    PROVE  /\ Tail(s) \in Seq(S) /\ Len(Tail(s)) <= Len(s)
           /\ ToSet(s) \subseteq {Head(s)} \cup ToSet(Tail(s))
           /\ Head(s) \in S
<1>1. \A i \in 2..Len(s) : i - 1 \in DOMAIN Tail(s) /\ Tail(s)[i - 1] = s[i]
  OBVIOUS
<1>2. ToSet(s) \subseteq {Head(s)} \cup ToSet(Tail(s))
  <2> SUFFICES ASSUME NEW i \in 1..Len(s) PROVE s[i] \in {Head(s)} \cup ToSet(Tail(s))
    BY DEF ToSet
  <2>1. CASE i = 1
    BY <2>1
  <2>2. CASE i \in 2..Len(s)
    <3>1. Tail(s)[i - 1] \in ToSet(Tail(s))
      BY <2>2, <1>1 DEF ToSet
    <3> QED
      BY <3>1, <2>2, <1>1
  <2> QED
    BY <2>1, <2>2
<1> QED
  BY <1>2

\* What the session sees of a step of the composed system.
LEMMA SessionSees ==
    ASSUME ServiceInv, [HaNext]_haVars
    PROVE  SessionMoves \/ UNCHANGED vars
<1> USE DEF SessionMoves
<1>1. CASE ServiceStep
  <2>1. CASE Publisher /\ UNCHANGED process
    BY <2>1
  <2>2. CASE StartUp
    BY <2>2 DEF StartUp, ServiceInv, SessionInv, ProcessInv, Shape
  <2>3. CASE StreamOpens \/ StreamEnds \/ Terminate \/ Drained \/ StopNext \/ Exited
    BY <2>3 DEF StreamOpens, StreamEnds, Terminate, Drained, StopNext, Exited
  <2>4. CASE StopMqtt
    BY <2>4 DEF StopMqtt
  <2>5. CASE Die
    BY <2>5 DEF Die, Dies
  <2> QED
    BY <1>1, <2>1, <2>2, <2>3, <2>4, <2>5 DEF ServiceStep, ServiceNext
<1>2. CASE HaStops \/ Tick \/ (\E f \in Feeds : Collect(f))
  BY <1>2 DEF HaStops, Tick, Collect, serviceVars
<1>3. CASE HaStarts
  BY <1>3 DEF HaStarts
<1>4. CASE BrokerRestarts
  BY <1>4 DEF BrokerRestarts, BrokerGone
<1>5. CASE UNCHANGED haVars
  BY <1>5 DEF haVars, serviceVars
<1> QED
  BY <1>1, <1>2, <1>3, <1>4, <1>5 DEF HaNext

LEMMA PublisherKeepsStopping ==
    ASSUME Publisher PROVE UNCHANGED stopping
  BY DEF Publisher, Connect, MainStep, ConnectFails, SessionLost, SessionError, Failure,
         Unwind, SessionEnds, Wake, Listen, ListenerStep, Ticker, Drop, LastWill

LEMMA ProcessStep == ServiceInv /\ [HaNext]_haVars => ProcessInv'
<1> SUFFICES ASSUME ServiceInv, [HaNext]_haVars PROVE ProcessInv'
  OBVIOUS
<1> USE DEF ServiceInv, ProcessInv, ServiceTypeOK, process
<1>1. CASE UNCHANGED process /\ UNCHANGED stopping
  BY <1>1
<1>2. CASE StartUp
  BY <1>2, ExitFacts DEF StartUp, NewPublisher
<1>3. CASE StreamOpens
  BY <1>3 DEF StreamOpens, vars
<1>4. CASE StreamEnds
  BY <1>4 DEF StreamEnds, vars
<1>5. CASE Terminate
  BY <1>5 DEF Terminate, vars
<1>6. CASE Drained
  BY <1>6, ExitFacts DEF Drained, vars
<1>7. CASE StopMqtt
  <2>1. leaving = ExitOrder \/ stopping = "done"
    BY <1>7 DEF StopMqtt
  <2>2. stopping # "done" /\ phase = "stopping" /\ leaving = ExitOrder
    BY <1>7, <2>1 DEF StopMqtt, Stop, FarewellOver
  <2>3. stopping' \in {"farewell", "done"}
    BY <1>7 DEF StopMqtt, Stop, FarewellOver, CancelRun
  <2>4. CASE stopping' = "done"
    <3>1. leaving' = Tail(ExitOrder) /\ UNCHANGED <<phase, running, broken, streams, starts>>
      BY <1>7, <2>2, <2>4 DEF StopMqtt
    <3>2. /\ Tail(ExitOrder) \in Seq(ToSet(ExitOrder)) /\ Len(Tail(ExitOrder)) <= Len(ExitOrder)
          /\ ToSet(ExitOrder) \subseteq {"mqtt"} \cup ToSet(Tail(ExitOrder))
      BY ExitFacts, TailFacts
    <3>3. running \subseteq ToSet(Tail(ExitOrder))
      BY <2>2, <3>2, ExitFacts
    <3> QED
      BY <2>2, <2>4, <3>1, <3>2, <3>3
  <2>5. CASE stopping' = "farewell"
    BY <1>7, <2>2, <2>5 DEF StopMqtt
  <2> QED
    BY <2>3, <2>4, <2>5
<1>8. CASE StopNext
  BY <1>8, ExitFacts, TailFacts DEF StopNext, vars
<1>9. CASE Exited
  <2>1. leaving = <<>> /\ ToSet(<<>>) = {}
    BY <1>9 DEF Exited, ToSet
  <2> QED
    BY <1>9, <2>1, ExitFacts DEF Exited, vars
<1>10. CASE Die
  BY <1>10 DEF Die
<1>11. CASE HaStops \/ Tick \/ (\E f \in Feeds : Collect(f)) \/ UNCHANGED haVars
  BY <1>11, <1>1 DEF HaStops, Tick, Collect, serviceVars, haVars, vars
<1>12. CASE HaStarts \/ BrokerRestarts
  BY <1>12, <1>1 DEF HaStarts, BrokerRestarts, HaOnline, vars
<1> QED
  BY <1>1, <1>2, <1>3, <1>4, <1>5, <1>6, <1>7, <1>8, <1>9, <1>10, <1>11, <1>12,
     PublisherKeepsStopping DEF HaNext, ServiceStep, ServiceNext

LEMMA ServiceInitially == HaInit => ServiceInv
<1> SUFFICES ASSUME HaInit PROVE ServiceInv
  OBVIOUS
<1> USE DEF HaInit, ServiceInit, NoPublisher
<1>1. TypeOK
  <2>1. States
    BY DEF States
  <2>2. FlagsOK
    BY DEF FlagsOK
  <2>3. Numbers
    BY DEF Numbers
  <2> QED
    BY <2>1, <2>2, <2>3 DEF TypeOK, States, FlagsOK, Numbers
<1>3. Shape /\ HealthHonest /\ BackoffFresh /\ AvailInv
  BY DEF Shape, HealthHonest, BackoffFresh, AvailInv
<1>2. ProcessInv
  BY DEF ProcessInv, ServiceTypeOK
<1> QED
  BY <1>1, <1>2, <1>3 DEF ServiceInv, SessionInv

LEMMA ServiceSteps == ServiceInv /\ [HaNext]_haVars => ServiceInv'
<1> SUFFICES ASSUME ServiceInv, [HaNext]_haVars PROVE ServiceInv'
  OBVIOUS
<1>1. SessionInv /\ UNCHANGED vars => SessionInv'
  BY DEF SessionInv, TypeOK, Shape, HealthHonest, BackoffFresh, AvailInv, vars
<1> QED
  BY <1>1, SessionSees, SessionStep, ProcessStep DEF ServiceInv

LEMMA ServiceAlways == HaSpec => []ServiceInv
  BY ServiceInitially, ServiceSteps, PTL DEF HaSpec

\* At any moment /health, the backoff and the types of the publisher are right, for
\* any number of losses, restarts and exits of the service.
THEOREM SessionsAlwaysSound == HaSpec => []SessionsSound
<1>1. ServiceInv => SessionsSound
  BY DEF ServiceInv, SessionInv, SessionsSound
<1> QED
  BY <1>1, ServiceAlways, PTL

\* The availability topic tells the truth while the service runs and after it, but for
\* the two exceptions it names, for any number of losses, restarts and exits.
THEOREM AvailabilityAlwaysHonest == HaSpec => []AvailabilityHonest
<1>1. ServiceInv => AvailabilityHonest
  BY DEF ServiceInv, SessionInv, AvailInv, AvailabilityHonest, AvailabilityTracks,
         FarewellStands
<1> QED
  BY <1>1, ServiceAlways, PTL

\* Sources outlive whoever reads them, and nothing outlives the process, whichever
\* sources there are and whichever of them failed to start.
THEOREM ServiceAlwaysSound == HaSpec => []ServiceSound
<1>1. ServiceInv => ServiceSound
  BY DEF ServiceInv, SessionInv, Shape, ProcessInv, ServiceSound, ServiceTypeOK
<1> QED
  BY <1>1, ServiceAlways, PTL
-----------------------------------------------------------------------------
(* What is shown *)

USE HomeAssistantAssumption DEF HomeAssistantAssumption

HaTypes ==
    /\ source \subseteq Feeds /\ doc \subseteq Groups
    /\ device \in BOOLEAN /\ home \in BOOLEAN /\ known \in BOOLEAN
    /\ told \in {"none", "online", "offline"}
    /\ docAge \in 0..(Interval + 1) /\ age \in [Groups -> 0..(Interval + 1)]
    /\ fresh \in [Groups -> 0..ExpireAfter]
    /\ outages \in 0..MaxOutages

\* What Home Assistant was told is what was last announced, and while a session
\* publishes its entities are no older than the document, which is recent.
ShownInv ==
    /\ HaTypes
    /\ known => home
    /\ known /\ avail # "none" => told = avail
    /\ Publishing => "flags" \in doc /\ docAge <= Interval
    /\ Publishing /\ known => \A g \in doc : fresh[g] <= docAge /\ age[g] = docAge

LEMMA AtMostType ==
    ASSUME NEW b \in Nat, NEW n \in Nat
    PROVE  AtMost(b, n) \in 0..b /\ AtMost(b, n) <= n /\ (n <= b => AtMost(b, n) = n)
  BY DEF AtMost

\* A document goes out only in a session that has published by then, and no session
\* has published unless one went out.
LEMMA PublishFacts ==
    ASSUME ServiceInv, ServiceNext
    PROVE  /\ Published => Publishing' /\ phase' # "down"
           /\ Publishing' /\ ~Published => Publishing
<1> USE DEF Published, Enters, Publishing, tasks, health, history
<1> SUFFICES ASSUME SessionInv, ProcessInv, ServiceNext
             PROVE  /\ Published => Publishing' /\ phase' # "down"
                    /\ Publishing' /\ ~Published => Publishing
  BY DEF ServiceInv
<1> USE DEF SessionInv, Shape
<1>1. CASE Connect /\ UNCHANGED process
  BY <1>1 DEF Connect
<1>2. CASE MainStep /\ UNCHANGED process
  BY <1>2 DEF MainStep, MainNext
<1>3. CASE /\ ConnectFails \/ SessionLost \/ SessionError \/ Unwind \/ SessionEnds
           /\ UNCHANGED process
  <2>1. ~Published
    BY <1>3 DEF ConnectFails, SessionLost, SessionError, Failure, MainFails,
                ListenerFails, TickerFails, Unwind, SessionEnds, EndSession
  <2>2. Publishing' => Publishing
    BY <1>3 DEF ConnectFails, SessionLost, SessionError, Failure, MainFails,
                ListenerFails, TickerFails, Unwind, SessionEnds, Leave
  <2> QED
    BY <2>1, <2>2
<1>4. CASE (Wake \/ Listen \/ Drop \/ LastWill) /\ UNCHANGED process
  BY <1>4 DEF Wake, Listen, Drop, LastWill
<1>5. CASE ListenerStep /\ UNCHANGED process
  <2>1. phase # "down" /\ link = "up" /\ UNCHANGED <<link, ticker, phase>>
    BY <1>5 DEF ListenerStep, ProcessInv, process
  <2>2. listener' = "state" => published' = TRUE
    BY <1>5 DEF ListenerStep
  <2>3. listener' # "state" /\ published' => published
    BY <1>5 DEF ListenerStep
  <2>4. listener # listener'
    BY <1>5 DEF ListenerStep, ListenerNext
  <2> QED
    BY <2>1, <2>2, <2>3, <2>4
<1>6. CASE Ticker /\ UNCHANGED process
  <2>1. phase # "down"
    BY <1>6 DEF Ticker, ProcessInv
  <2> QED
    BY <1>6, <2>1 DEF Ticker, process
<1>7. CASE StartUp
  BY <1>7 DEF StartUp, NewPublisher
<1>8. CASE StreamOpens \/ StreamEnds \/ Terminate \/ Drained \/ StopNext \/ Exited
  BY <1>8 DEF StreamOpens, StreamEnds, Terminate, Drained, StopNext, Exited, vars
<1>9. CASE StopMqtt
  BY <1>9 DEF StopMqtt, Stop, FarewellOver, CancelRun
<1>10. CASE Die
  BY <1>10 DEF Die
<1> QED
  BY <1>1, <1>2, <1>3, <1>4, <1>5, <1>6, <1>7, <1>8, <1>9, <1>10
  DEF ServiceNext, Publisher

LEMMA DeliveryShown ==
    ASSUME ServiceInv, ServiceInv', ServiceNext, Deliver, ShownInv
    PROVE  ShownInv'
<1> USE DEF ShownInv, HaTypes
<1>1. /\ Published => Publishing' /\ phase' # "down"
      /\ Publishing' /\ ~Published => Publishing
  BY PublishFacts
<1>2. Document \subseteq Groups /\ "flags" \in Document
  BY DEF Document, Groups
<1>3. avail' \in {"none", "online", "offline"}
  BY DEF ServiceInv, SessionInv, TypeOK
<1>4. /\ known => known'
      /\ device' \in BOOLEAN /\ known' \in BOOLEAN /\ home' \in BOOLEAN /\ (known' => home')
  BY DEF Deliver, AnnounceDevice
<1>5. told' \in {"none", "online", "offline"} /\ (known' /\ avail' # "none" => told' = avail')
  BY <1>3, <1>4 DEF Deliver
<1>8. source' \subseteq Feeds /\ outages' \in 0..MaxOutages
  BY DEF Deliver
<1>6. CASE Published
  <2>1. doc' = Document /\ docAge' = 0
    BY <1>6 DEF Deliver
  <2>2. IF known' THEN Receive(Document, 0) ELSE UNCHANGED <<fresh, age>>
    BY <1>6, <1>4 DEF Deliver
  <2>3. CASE known'
    <3>1. /\ fresh' = [g \in Groups |-> IF g \in Document THEN 0 ELSE fresh[g]]
          /\ age' = [g \in Groups |-> IF g \in Document THEN 0 ELSE age[g]]
      BY <2>2, <2>3 DEF Receive, Takes
    <3>2. \A g \in Document : fresh'[g] = 0 /\ age'[g] = 0
      BY <3>1, <1>2
    <3>3. fresh' \in [Groups -> 0..ExpireAfter] /\ age' \in [Groups -> 0..(Interval + 1)]
      BY <3>1
    <3> QED
      BY <2>1, <3>2, <3>3, <1>2, <1>4, <1>5, <1>8
  <2>4. CASE ~known'
    BY <2>1, <2>2, <2>4, <1>2, <1>4, <1>5, <1>8
  <2> QED
    BY <2>3, <2>4
<1>7. CASE ~Published
  <2>1. doc' = doc /\ docAge' = docAge
    BY <1>7 DEF Deliver
  <2>2. IF known' /\ ~known THEN Receive(doc, docAge) ELSE UNCHANGED <<fresh, age>>
    BY <1>7, <1>4 DEF Deliver, Retained
  <2>3. CASE known' /\ ~known
    <3>1. /\ fresh' = [g \in Groups |-> IF g \in doc THEN 0 ELSE fresh[g]]
          /\ age' = [g \in Groups |-> IF g \in doc THEN docAge ELSE age[g]]
      BY <2>2, <2>3 DEF Receive, Takes
    <3>2. \A g \in doc : fresh'[g] = 0 /\ age'[g] = docAge
      BY <3>1
    <3>3. fresh' \in [Groups -> 0..ExpireAfter] /\ age' \in [Groups -> 0..(Interval + 1)]
      BY <3>1
    <3> QED
      BY <2>1, <3>2, <3>3, <1>1, <1>7, <1>4, <1>5, <1>8
  <2>4. CASE ~(known' /\ ~known)
    BY <2>1, <2>2, <2>4, <1>1, <1>7, <1>4, <1>5, <1>8
  <2> QED
    BY <2>3, <2>4
<1> QED
  BY <1>6, <1>7

LEMMA ShownSteps ==
    ServiceInv /\ ServiceInv' /\ ShownInv /\ [HaNext]_haVars => ShownInv'
<1> SUFFICES ASSUME ServiceInv, ServiceInv', ShownInv, [HaNext]_haVars
             PROVE  ShownInv'
  OBVIOUS
<1> USE DEF ShownInv, HaTypes, Publishing, serviceVars, vars, broker, shown
<1>1. CASE ServiceStep
  BY <1>1, DeliveryShown DEF ServiceStep
<1>2. CASE HaStops
  <2>1. UNCHANGED <<source, broker, vars>> /\ ~known' /\ ~home' /\ told' = "none"
    BY <1>2 DEF HaStops
  <2>2. outages' \in 0..MaxOutages
    BY <1>2 DEF HaStops
  <2>3. fresh' \in [Groups -> 0..ExpireAfter] /\ age' \in [Groups -> 0..(Interval + 1)]
    BY <1>2 DEF HaStops, Blank
  <2>4. known' = FALSE /\ home' = FALSE
    BY <1>2 DEF HaStops
  <2> QED
    BY <2>1, <2>2, <2>3, <2>4
<1>3. CASE HaStarts
  <2>1. UNCHANGED <<published, link, avail, broker, source, outages>>
    BY <1>3 DEF HaStarts, HaOnline, history
  <2>2. CASE device
    BY <1>3, <2>1, <2>2 DEF HaStarts, Receive, Takes, Retained, ServiceInv, SessionInv, TypeOK
  <2>3. CASE ~device
    BY <1>3, <2>1, <2>3 DEF HaStarts
  <2> QED
    BY <2>2, <2>3
<1>4. CASE BrokerRestarts
  <2>1. ~Publishing' /\ UNCHANGED <<source, shown, outages>>
    BY <1>4 DEF BrokerRestarts
  <2>2. CASE UNCHANGED <<avail, device, doc, docAge>>
    BY <2>1, <2>2
  <2>3. CASE avail' = "none" /\ device' = FALSE /\ doc' = NoDoc /\ docAge' = 0
    <3>1. doc' \subseteq Groups /\ docAge' \in 0..(Interval + 1)
      BY <2>3 DEF NoDoc
    <3>2. device' \in BOOLEAN
      BY <2>3
    <3> QED
      BY <2>1, <2>3, <3>1, <3>2
  <2> QED
    BY <1>4, <2>2, <2>3 DEF BrokerRestarts
<1>5. CASE \E f \in Feeds : Collect(f)
  BY <1>5 DEF Collect
<1>6. CASE Tick
  <2>1. /\ UNCHANGED <<published, link, avail, doc, device, home, known, told, source, outages>>
        /\ Publishing => docAge < Interval
    BY <1>6 DEF Tick, ServiceInv, SessionInv, Shape
  <2>2. docAge' \in 0..(Interval + 1) /\ (Publishing => docAge' = docAge + 1)
    <3>1. docAge' = IF doc = NoDoc THEN 0 ELSE AtMost(Interval + 1, docAge + 1)
      BY <1>6 DEF Tick
    <3>2. /\ AtMost(Interval + 1, docAge + 1) \in 0..(Interval + 1)
          /\ docAge + 1 <= Interval + 1 => AtMost(Interval + 1, docAge + 1) = docAge + 1
      BY AtMostType
    <3>3. Publishing => doc # NoDoc
      BY DEF NoDoc
    <3> QED
      BY <2>1, <3>1, <3>2, <3>3
  <2>3. /\ fresh' \in [Groups -> 0..ExpireAfter]
        /\ \A g \in Groups : fresh'[g] <= fresh[g] + 1
    <3>1. fresh' = [g \in Groups |-> AtMost(ExpireAfter, fresh[g] + 1)]
      BY <1>6 DEF Tick, Older
    <3>2. \A g \in Groups : /\ AtMost(ExpireAfter, fresh[g] + 1) \in 0..ExpireAfter
                            /\ AtMost(ExpireAfter, fresh[g] + 1) <= fresh[g] + 1
      <4> TAKE g \in Groups
      <4>1. fresh[g] \in Nat /\ fresh[g] + 1 \in Nat
        OBVIOUS
      <4> QED
        BY <4>1, AtMostType
    <3> QED
      BY <3>1, <3>2
  <2>4. /\ age' \in [Groups -> 0..(Interval + 1)]
        /\ \A g \in Groups : fresh'[g] < ExpireAfter /\ age[g] <= Interval
                                 => age'[g] = age[g] + 1
    <3>1. age' = [g \in Groups |-> IF fresh'[g] = ExpireAfter THEN 0
                                   ELSE AtMost(Interval + 1, age[g] + 1)]
      BY <1>6 DEF Tick
    <3>2. \A g \in Groups :
             /\ AtMost(Interval + 1, age[g] + 1) \in 0..(Interval + 1)
             /\ age[g] <= Interval => AtMost(Interval + 1, age[g] + 1) = age[g] + 1
      <4> TAKE g \in Groups
      <4>1. age[g] \in Nat /\ age[g] + 1 \in Nat
        OBVIOUS
      <4> QED
        BY <4>1, AtMostType
    <3>3. \A g \in Groups : fresh'[g] < ExpireAfter => fresh'[g] # ExpireAfter
      BY <2>3
    <3> QED
      BY <3>1, <3>2, <3>3
  <2>5. Publishing /\ known => \A g \in doc : fresh'[g] <= docAge' /\ age'[g] = docAge'
    <3> SUFFICES ASSUME Publishing, known, NEW g \in doc
                 PROVE  fresh'[g] <= docAge' /\ age'[g] = docAge'
      OBVIOUS
    <3>1. fresh[g] <= docAge /\ age[g] = docAge /\ docAge < Interval /\ g \in Groups
      BY <2>1
    <3>2. fresh'[g] <= docAge + 1 /\ docAge' = docAge + 1 /\ docAge + 1 < ExpireAfter
      BY <2>2, <2>3, <3>1
    <3> QED
      BY <2>3, <2>4, <3>1, <3>2
  <2> QED
    BY <2>1, <2>2, <2>3, <2>4, <2>5
<1>7. CASE UNCHANGED haVars
  BY <1>7 DEF haVars
<1> QED
  BY <1>1, <1>2, <1>3, <1>4, <1>5, <1>6, <1>7 DEF HaNext
-----------------------------------------------------------------------------
(* The feeds that are lost *)

\* A document that holds a lost feed was built before the loss, and an entity that
\* shows it took it within Interval of the loss.
LossInv ==
    /\ lost \in [Feeds -> 0..(Interval + ExpireAfter)]
    /\ \A f \in Feeds :
          /\ f \in doc => lost[f] <= docAge
          /\ fresh[f] < ExpireAfter => lost[f] <= Interval + fresh[f]

LEMMA LostFacts ==
    ASSUME LossInv, NEW t \in {0, 1}, CountLost(t)
    PROVE  /\ lost' \in [Feeds -> 0..(Interval + ExpireAfter)]
           /\ \A f \in Feeds : /\ lost'[f] <= lost[f] + t
                               /\ lost'[f] # 0 => Publishing' /\ f \notin source'
<1> DEFINE bound == Interval + ExpireAfter
<1>1. \A f \in Feeds : /\ AtMost(bound, lost[f] + t) \in 0..bound
                       /\ AtMost(bound, lost[f] + t) <= lost[f] + t
  <2> TAKE f \in Feeds
  <2>1. lost[f] + t \in Nat /\ bound \in Nat
    BY DEF LossInv
  <2> HIDE DEF bound
  <2> QED
    BY <2>1, AtMostType
<1>2. lost' = [f \in Feeds |-> IF Publishing' /\ f \notin source'
                              THEN AtMost(bound, lost[f] + t) ELSE 0]
  BY DEF CountLost, Publishing
<1> HIDE DEF bound
<1>3. \A f \in Feeds : 0 <= lost[f] + t
  BY DEF LossInv
<1>4. lost' \in [Feeds -> 0..bound]
  <2>1. bound \in Nat
    BY HomeAssistantAssumption DEF bound
  <2>2. 0 \in 0..bound
    BY <2>1
  <2> QED
    BY <1>1, <1>2, <2>2
<1> QED
  BY <1>1, <1>2, <1>3, <1>4 DEF bound

LEMMA LossSteps ==
    ServiceInv /\ ShownInv /\ ShownInv' /\ LossInv /\ [HaNext]_haVars => LossInv'
<1> SUFFICES ASSUME ServiceInv, ShownInv, ShownInv', LossInv, [HaNext]_haVars
             PROVE  LossInv'
  OBVIOUS
<1>1. /\ fresh \in [Groups -> 0..ExpireAfter] /\ docAge \in Nat /\ Feeds \subseteq Groups
      /\ fresh' \in [Groups -> 0..ExpireAfter] /\ docAge' \in Nat
      /\ Publishing => docAge <= Interval
  BY DEF ShownInv, HaTypes, Groups
<1>2. ASSUME CountLost(0),
             \A f \in Feeds : lost'[f] # 0 =>
                /\ f \in doc' => f \in doc /\ docAge' = docAge
                /\ fresh'[f] = fresh[f] \/ (f \in doc /\ docAge <= Interval)
                   \/ fresh'[f] = ExpireAfter
      PROVE  LossInv'
  <2>1. /\ lost' \in [Feeds -> 0..(Interval + ExpireAfter)]
        /\ \A f \in Feeds : lost'[f] <= lost[f] + 0
    BY <1>2, LostFacts
  <2> SUFFICES ASSUME NEW f \in Feeds
               PROVE  /\ f \in doc' => lost'[f] <= docAge'
                      /\ fresh'[f] < ExpireAfter => lost'[f] <= Interval + fresh'[f]
    BY <2>1 DEF LossInv
  <2>2. /\ lost[f] \in Nat /\ lost'[f] \in Nat /\ lost'[f] <= lost[f]
        /\ fresh[f] \in Nat /\ fresh'[f] \in Nat
    BY <2>1, <1>1 DEF LossInv
  <2>3. CASE lost'[f] = 0
    BY <2>2, <2>3, <1>1
  <2>4. CASE lost'[f] # 0
    BY <2>2, <2>4, <1>1, <1>2 DEF LossInv
  <2> QED
    BY <2>3, <2>4
<1>3. CASE ServiceStep /\ CountLost(0)
  <2>1. /\ Published => Publishing' /\ phase' # "down"
        /\ Publishing' /\ ~Published => Publishing
    BY <1>3, PublishFacts DEF ServiceStep
  <2>2. \A f \in Feeds : lost'[f] # 0 => Publishing' /\ f \notin source'
    BY <1>3, LostFacts
  <2>3. CASE Published
    <3>1. doc' = Document /\ source' = source
      BY <2>1, <2>3, <1>3 DEF ServiceStep, Deliver
    <3>2. \A f \in Feeds : f \notin source' => f \notin Document
      BY <3>1 DEF Document
    <3>3. known' => fresh' = [g \in Groups |-> IF g \in Document THEN 0 ELSE fresh[g]]
      BY <2>3, <1>3 DEF ServiceStep, Deliver, Receive, Takes
    <3>4. ~known' => fresh' = fresh
      BY <2>3, <1>3 DEF ServiceStep, Deliver
    <3> QED
      BY <1>1, <1>2, <1>3, <2>2, <3>1, <3>2, <3>3, <3>4
  <2>4. CASE ~Published
    <3>1. doc' = doc /\ docAge' = docAge
      BY <2>4, <1>3 DEF ServiceStep, Deliver
    <3>2. fresh' = fresh \/ fresh' = [g \in Groups |-> IF g \in doc THEN 0 ELSE fresh[g]]
      BY <2>4, <1>3 DEF ServiceStep, Deliver, Receive, Takes, Retained
    <3> QED
      BY <1>1, <1>2, <1>3, <2>1, <2>2, <2>4, <3>1, <3>2
  <2> QED
    BY <2>3, <2>4
<1>4. CASE HaStops /\ CountLost(0)
  BY <1>1, <1>2, <1>4 DEF HaStops, Blank, broker
<1>5. CASE HaStarts /\ CountLost(0)
  <2>1. UNCHANGED <<doc, docAge, published, link>>
    BY <1>5 DEF HaStarts, broker, HaOnline, vars, history
  <2>2. \A f \in Feeds : lost'[f] # 0 => Publishing'
    BY <1>5, LostFacts
  <2>3. Publishing' => docAge <= Interval
    BY <2>1, <1>1 DEF Publishing
  <2>4. fresh' = fresh \/ fresh' = [g \in Groups |-> IF g \in doc THEN 0 ELSE fresh[g]]
    BY <1>5 DEF HaStarts, Receive, Takes, Retained
  <2> QED
    BY <1>1, <1>2, <1>5, <2>1, <2>2, <2>3, <2>4
<1>6. CASE BrokerRestarts /\ CountLost(0)
  <2>1. ~Publishing'
    BY <1>6 DEF BrokerRestarts, Publishing
  <2>2. \A f \in Feeds : lost'[f] = 0
    BY <1>6, <2>1, LostFacts
  <2> QED
    BY <1>2, <1>6, <2>2
<1>7. CASE (\E f \in Feeds : Collect(f)) /\ CountLost(0)
  BY <1>2, <1>7 DEF Collect, broker, shown
<1>8. CASE Tick /\ CountLost(1)
  <2>1. /\ lost' \in [Feeds -> 0..(Interval + ExpireAfter)]
        /\ \A f \in Feeds : lost'[f] <= lost[f] + 1 /\ (lost'[f] # 0 => Publishing')
    BY <1>8, LostFacts
  <2>2. doc' = doc /\ (Publishing' => Publishing)
    BY <1>8 DEF Tick, Publishing, serviceVars, vars
  <2>3. Publishing => docAge' = docAge + 1
    <3> SUFFICES ASSUME Publishing PROVE docAge' = docAge + 1
      OBVIOUS
    <3>1. docAge < Interval /\ doc # NoDoc
      BY <1>8 DEF Tick, Publishing, ServiceInv, SessionInv, Shape, ShownInv, NoDoc
    <3>2. docAge + 1 \in Nat /\ Interval + 1 \in Nat /\ docAge + 1 <= Interval + 1
      BY <3>1, <1>1
    <3> QED
      BY <1>8, <3>1, <3>2, AtMostType DEF Tick
  <2>4. \A f \in Feeds : fresh'[f] < ExpireAfter => fresh'[f] = fresh[f] + 1
    BY <1>8, <1>1 DEF Tick, Older, AtMost
  <2> SUFFICES ASSUME NEW f \in Feeds
               PROVE  /\ f \in doc' => lost'[f] <= docAge'
                      /\ fresh'[f] < ExpireAfter => lost'[f] <= Interval + fresh'[f]
    BY <2>1 DEF LossInv
  <2>5. /\ lost[f] \in Nat /\ lost'[f] \in Nat /\ fresh[f] \in Nat /\ fresh'[f] \in Nat
    BY <2>1, <1>1 DEF LossInv
  <2>6. CASE lost'[f] = 0
    BY <2>5, <2>6, <1>1
  <2>7. CASE lost'[f] # 0
    BY <2>1, <2>2, <2>3, <2>4, <2>5, <2>7, <1>1 DEF LossInv
  <2> QED
    BY <2>6, <2>7
<1>9. CASE UNCHANGED haVars
  BY <1>9 DEF haVars, broker, shown, LossInv
<1> QED
  BY <1>3, <1>4, <1>5, <1>6, <1>7, <1>8, <1>9 DEF HaNext
-----------------------------------------------------------------------------
HaInv == ServiceInv /\ ShownInv /\ LossInv

LEMMA HaInitially == HaInit => HaInv
<1> SUFFICES ASSUME HaInit PROVE HaInv
  OBVIOUS
<1>1. ServiceInv
  BY ServiceInitially
<1>2. published = FALSE /\ link = "none"
  BY DEF HaInit, ServiceInit
<1>3. ShownInv
  <2>1. ExpireAfter \in 0..ExpireAfter /\ 0 \in 0..(Interval + 1)
    BY HomeAssistantAssumption
  <2>2. Blank \in [Groups -> 0..ExpireAfter]
        /\ [g \in Groups |-> 0] \in [Groups -> 0..(Interval + 1)]
    BY <2>1 DEF Blank
  <2>3. source = {} /\ doc = {} /\ docAge = 0 /\ told = "none" /\ outages = 0
        /\ fresh = Blank /\ age = [g \in Groups |-> 0]
    BY DEF HaInit, NoDoc
  <2>4. device = FALSE /\ home = TRUE /\ known = FALSE
    BY DEF HaInit
  <2>5. HaTypes
    <3>1. source \subseteq Feeds /\ doc \subseteq Groups
          /\ told \in {"none", "online", "offline"} /\ outages \in 0..MaxOutages
          /\ docAge \in 0..(Interval + 1)
      BY <2>1, <2>3, HomeAssistantAssumption
    <3>2. age \in [Groups -> 0..(Interval + 1)] /\ fresh \in [Groups -> 0..ExpireAfter]
      BY <2>2, <2>3
    <3>3. device \in BOOLEAN /\ home \in BOOLEAN /\ known \in BOOLEAN
      BY <2>4
    <3> QED
      BY <3>1, <3>2, <3>3 DEF HaTypes
  <2>6. ~Publishing /\ ~known
    BY <1>2, <2>4 DEF Publishing
  <2> QED
    BY <2>5, <2>6 DEF ShownInv
<1>4. LossInv
  BY DEF HaInit, LossInv, NoDoc, Groups, Blank
<1> QED
  BY <1>1, <1>3, <1>4 DEF HaInv

LEMMA HaAlways == HaSpec => []HaInv
<1>1. HaInv /\ [HaNext]_haVars => HaInv'
  BY ServiceSteps, ShownSteps, LossSteps DEF HaInv
<1> QED
  BY <1>1, HaInitially, PTL DEF HaSpec

\* As long as a session publishes, Home Assistant shows what was last published, and
\* nothing older than the interval, for any feeds, any intervals in the right order and
\* any number of restarts of the service, the broker and Home Assistant.
THEOREM NothingStaleShown == HaSpec => []ShowsCurrent
<1>1. HaInv => HaTypeOK
  BY DEF HaInv, ServiceInv, SessionInv, ShownInv, HaTypes, LossInv, HaTypeOK
<1>2. HaInv => NeverStale
  <2> SUFFICES ASSUME HaInv, stopping = "no", Publishing, home, known,
                      NEW e \in Entities, Group(e) \in doc
               PROVE  Shows(e) /\ age[Group(e)] <= Interval
    BY DEF NeverStale, Publishing
  <2>1. told = "online"
    BY DEF HaInv, ServiceInv, SessionInv, AvailInv, ShownInv, Publishing
  <2>2. /\ fresh[Group(e)] <= docAge /\ age[Group(e)] = docAge /\ docAge <= Interval
        /\ fresh[Group(e)] \in Nat /\ docAge \in Nat
    BY DEF HaInv, ShownInv, HaTypes
  <2> QED
    BY <2>1, <2>2 DEF Shows
<1> QED
  BY <1>1, <1>2, HaAlways, PTL DEF ShowsCurrent

\* The reading of a feed that is gone is shown for less than the interval and the expiry
\* together, whatever they are and however often anything was restarted meanwhile.
THEOREM LossesAlwaysAge == HaSpec => []LossAges
<1>1. HaInv => LossAges
  <2> SUFFICES ASSUME HaInv, NEW e \in Entities, Group(e) \in Feeds, Shows(e)
               PROVE  lost[Group(e)] < Interval + ExpireAfter
    BY DEF LossAges
  <2>1. fresh[Group(e)] < ExpireAfter
    BY DEF Shows
  <2>2. lost[Group(e)] \in Nat /\ fresh[Group(e)] \in Nat
        /\ lost[Group(e)] <= Interval + fresh[Group(e)]
    <3>1. Group(e) \in Groups /\ fresh \in [Groups -> 0..ExpireAfter]
      BY DEF Groups, HaInv, ShownInv, HaTypes
    <3>2. fresh[Group(e)] \in Nat
      BY <3>1
    <3>3. lost[Group(e)] \in Nat
      <4>1. lost \in [Feeds -> 0..(Interval + ExpireAfter)]
        BY DEF HaInv, LossInv
      <4>2. lost[Group(e)] \in 0..(Interval + ExpireAfter)
        BY <4>1
      <4> QED
        BY <4>2
    <3>4. lost[Group(e)] <= Interval + fresh[Group(e)]
      BY <2>1 DEF HaInv, LossInv
    <3> QED
      BY <3>2, <3>3, <3>4
  <2> QED
    BY <2>1, <2>2, HomeAssistantAssumption
<1> QED
  BY <1>1, HaAlways, PTL
=============================================================================
