------------------------------- MODULE Service -------------------------------
(***************************************************************************)
(* The life of the process (stratumtap/app.py's lifespan, under the unit   *)
(* deploy/stratumtap.service): the start of the sources, the sampler, the  *)
(* loop monitor and the MQTT publisher, the exit in the opposite order, a  *)
(* crash at any moment and the restart that follows any exit.              *)
(*                                                                         *)
(* Nothing in the start suspends, so it is one step; every stop awaits a   *)
(* cancelled task, so whatever still runs goes on in between.  uvicorn,    *)
(* which is external, enters the exit only when no response is open: an    *)
(* SSE stream that its client keeps open keeps the process until systemd   *)
(* loses patience and kills it.                                            *)
(***************************************************************************)
EXTENDS MqttSession, Sequences, SequencesExt

CONSTANTS
    Demo,         \* settings.demo
    MaxStreams,   \* bound on the streams open at a time
    MaxStarts     \* bound on the starts of the process

ASSUME ServiceAssumption ==
    /\ Demo \in BOOLEAN
    /\ MaxStreams \in Nat /\ MaxStarts \in Nat \ {0}

VARIABLES
    phase,     \* down, serving, draining (SIGTERM was received), stopping
    running,   \* the components with a task, the publisher apart
    broken,    \* the sources whose start() raised
    leaving,   \* what the lifespan has still to stop
    streams,   \* stream responses open
    starts

process == <<phase, running, broken, leaving, streams, starts>>
serviceVars == <<vars, process>>

Sources == IF Demo THEN <<"demo">> ELSE <<"chrony", "gpsd">>

Helpers == {"sampler", "loopmon"}

\* Mutant: the sources are stopped before what reads them.
SourcesFirst == Reverse(Sources) \o <<"mqtt", "loopmon", "sampler">>

\* The finally clause of lifespan.
ExitOrder == <<"mqtt", "loopmon", "sampler">> \o Reverse(Sources)

NoPublisher ==
    /\ run = "ended" /\ main = "off" /\ listener = "off" /\ ticker = "off"
    /\ connected = FALSE /\ client = FALSE /\ last_error = FALSE
    /\ backoff = BackoffMin /\ stopping = "done" /\ ha = FALSE

ServiceInit ==
    /\ NoPublisher
    /\ link = "none" /\ avail = "none" /\ drops = 0
    /\ reached = FALSE /\ published = FALSE /\ excused = FALSE /\ spoke = FALSE
    /\ phase = "down" /\ running = {} /\ broken = {} /\ leaving = <<>>
    /\ streams = 0 /\ starts = 0

\* MqttPublisher.__init__ and start.  What the last process left on the broker
\* is still there, an "online" that nothing will take back included.
NewPublisher ==
    /\ run' = "connecting" /\ stopping' = "no"
    /\ backoff' = BackoffMin /\ last_error' = FALSE
    /\ reached' = FALSE /\ published' = FALSE
    /\ excused' = (excused \/ spoke) /\ spoke' = FALSE
    /\ UNCHANGED <<tasks, connected, client, link, avail, ha, drops>>

\* A source whose start() raises is logged and done without.
StartUp ==
    /\ phase = "down" /\ starts < MaxStarts
    /\ starts' = starts + 1
    /\ phase' = "serving"
    /\ broken' \in SUBSET ToSet(Sources)
    /\ running' = (ToSet(Sources) \ broken') \cup Helpers
    /\ NewPublisher
    /\ UNCHANGED <<leaving, streams>>

StreamOpens ==
    /\ phase = "serving" /\ streams < MaxStreams
    /\ streams' = streams + 1
    /\ UNCHANGED <<vars, phase, running, broken, leaving, starts>>

StreamEnds ==
    /\ streams > 0 /\ streams' = streams - 1
    /\ UNCHANGED <<vars, phase, running, broken, leaving, starts>>

Terminate ==
    /\ phase = "serving" /\ phase' = "draining"
    /\ UNCHANGED <<vars, running, broken, leaving, streams, starts>>

Drained ==
    /\ phase = "draining" /\ streams = 0
    /\ phase' = "stopping" /\ leaving' = ExitOrder
    /\ UNCHANGED <<vars, running, broken, streams, starts>>

StopMqtt ==
    /\ leaving # <<>> /\ Head(leaving) = "mqtt"
    /\ Stop \/ FarewellOver
    /\ leaving' = IF stopping' = "done" THEN Tail(leaving) ELSE leaving
    /\ UNCHANGED <<phase, running, broken, streams, starts>>

StopNext ==
    /\ leaving # <<>> /\ Head(leaving) # "mqtt"
    /\ running' = running \ {Head(leaving)}
    /\ leaving' = Tail(leaving)
    /\ UNCHANGED <<vars, phase, broken, streams, starts>>

Exited ==
    /\ phase = "stopping" /\ leaving = <<>>
    /\ phase' = "down" /\ broken' = {}
    /\ UNCHANGED <<vars, running, leaving, streams, starts>>

\* A crash, or the kill of systemd TimeoutStopSec after SIGTERM.  The kernel closes
\* the connections of a process that dies: the broker sees the end of one that was
\* never said goodbye to.
Die ==
    /\ phase # "down" /\ phase' = "down"
    /\ running' = {} /\ broken' = {} /\ leaving' = <<>> /\ streams' = 0
    /\ run' = "ended" /\ main' = "off" /\ listener' = "off" /\ ticker' = "off"
    /\ Disconnected
    /\ stopping' = "done"
    /\ link' = IF link = "up" THEN "half" ELSE link
    /\ ha' = FALSE
    /\ Forget
    /\ UNCHANGED <<avail, drops, excused, spoke, starts>>

Publisher ==
    \/ Connect \/ MainStep \/ ConnectFails \/ Wake
    \/ SessionLost \/ SessionError \/ Unwind \/ SessionEnds
    \/ Listen \/ ListenerStep \/ Ticker
    \/ Drop \/ LastWill

ServiceNext ==
    \/ Publisher /\ UNCHANGED process
    \/ StartUp \/ StreamOpens \/ StreamEnds
    \/ Terminate \/ Drained \/ StopMqtt \/ StopNext \/ Exited \/ Die
-----------------------------------------------------------------------------
ServiceTypeOK ==
    /\ phase \in {"down", "serving", "draining", "stopping"}
    /\ running \subseteq ToSet(Sources) \cup Helpers
    /\ broken \subseteq ToSet(Sources)
    /\ leaving \in Seq(ToSet(ExitOrder)) /\ Len(leaving) <= Len(ExitOrder)
    /\ streams \in 0..MaxStreams /\ starts \in 0..MaxStarts

\* Whoever still reads the collectors, a stream that is open or a publisher that
\* may publish, has every one that could be started, through a shutdown as well:
\* no subscriber is told that a source is gone because the service is stopping.
\* And nothing of a process outlives it.
ServiceSound ==
    /\ ServiceTypeOK
    /\ streams > 0 \/ stopping # "done" => ToSet(Sources) \ broken \subseteq running
    /\ phase = "down" => running = {} /\ run = "ended" /\ streams = 0
=============================================================================
