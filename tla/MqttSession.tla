---------------------------- MODULE MqttSession ----------------------------
(***************************************************************************)
(* The life of the broker connection of MqttPublisher (stratumtap/mqtt.py):*)
(* _run, _session, the listener and the ticker it gathers, stop with its   *)
(* farewell, and the retained availability topic with its last will.       *)
(* What is published when is MqttPacing; Service starts the publisher and  *)
(* puts these actions together with the rest of the process.               *)
(*                                                                         *)
(* A control state of an asyncio task names the await it is suspended in.  *)
(* A publish takes effect at the broker when it is issued: one connection  *)
(* delivers in order, so this is the order the retained topic sees.  The   *)
(* broker and the aiomqtt client are external and modelled from their use: *)
(* a connection lost without a DISCONNECT makes the broker publish the     *)
(* will, leaving `async with client` sends a DISCONNECT, which discards it.*)
(***************************************************************************)
EXTENDS Naturals

CONSTANTS
    BackoffMin, BackoffMax,   \* BACKOFF_MIN_S, BACKOFF_MAX_S
    HaRestarts,               \* does Home Assistant announce itself again?
    MaxDrops                  \* bound on the sessions lost in a behaviour

ASSUME ConstantsAssumption ==
    /\ BackoffMin \in Nat \ {0} /\ BackoffMax \in Nat
    /\ BackoffMin <= BackoffMax
    /\ HaRestarts \in BOOLEAN
    /\ MaxDrops \in Nat

VARIABLES
    run,         \* the _run task
    main,        \* where _session is: announcing, subscribing, gathering, leaving
    listener,    \* the _listen task
    ticker,      \* the _ticker task
    connected,   \* self.connected
    client,      \* self._client is not None
    last_error,  \* self.last_error is not None
    backoff,     \* _run's local backoff
    stopping,    \* where stop() is
    link,        \* the connection, as the broker sees it
    avail,       \* the retained availability topic
    ha,          \* an "online" of Home Assistant waits for the listener
    drops,       \* connections lost so far
    reached,     \* history: this attempt reached the broker
    published,   \* history: a state message went out in this session
    excused,     \* history: an error ended the last session with a DISCONNECT
    spoke        \* history: "online" was announced during the farewell

vars == <<run, main, listener, ticker, connected, client, last_error, backoff,
          stopping, link, avail, ha, drops, reached, published,
          excused, spoke>>
tasks == <<main, listener, ticker>>
health == <<connected, client, last_error>>
history == <<reached, published, excused, spoke>>

Announcing == {"online", "discovery", "tracker"}
-----------------------------------------------------------------------------
(* _run and _session *)

\* Mutant: availability is not announced.
AnnounceNothing == UNCHANGED avail

\* The first publish of _announce.
AnnounceOnline == avail' = "online"

\* Mutant: the error of the last attempt is not taken back.
ErrorStays == UNCHANGED last_error

ErrorForgotten == last_error' = FALSE

\* The client connects; a half-open predecessor is taken over, its will first.
\* _session then issues the first publish of _announce.
Connect ==
    /\ run = "connecting"
    /\ run' = "session" /\ main' = "online"
    /\ connected' = TRUE /\ client' = TRUE /\ ErrorForgotten
    /\ link' = "up" /\ AnnounceOnline
    /\ reached' = TRUE /\ published' = FALSE
    /\ excused' = FALSE /\ spoke' = (stopping = "farewell")
    /\ UNCHANGED <<listener, ticker, backoff, stopping, ha, drops>>

\* _announce goes on, then the subscription, then both tasks are started.
MainNext == [online |-> "discovery", discovery |-> "tracker",
             tracker |-> "subscribe", subscribe |-> "gather"]

MainStep ==
    /\ run = "session" /\ main \in DOMAIN MainNext
    /\ link = "up"
    /\ main' = MainNext[main]
    /\ IF main' = "gather"
       THEN listener' = "wait" /\ ticker' = "eval"
       ELSE UNCHANGED <<listener, ticker>>
    /\ UNCHANGED <<run, health, backoff, stopping, link, avail, ha, drops,
                   history>>

Disconnected == connected' = FALSE /\ client' = FALSE /\ last_error' = TRUE

\* Mutant: the flag is read after it was cleared.
EarnsNothing(was_connected) == FALSE

\* had_connected.
EarnsFresh(was_connected) == was_connected

\* except / finally of _run: had_connected is read before the flag is cleared.
EndSession(was_connected) ==
    /\ run' = "backoff"
    /\ main' = "off" /\ listener' = "off" /\ ticker' = "off"
    /\ Disconnected
    /\ backoff' = IF EarnsFresh(was_connected) THEN BackoffMin ELSE backoff
    /\ ha' = FALSE

ConnectFails ==
    /\ run = "connecting"
    /\ EndSession(connected)
    /\ reached' = FALSE /\ published' = FALSE
    /\ UNCHANGED <<stopping, link, avail, drops, excused, spoke>>

\* The awaits of _listen for one "online": _announce, then _publish_state.
ListenerNext == [online |-> "discovery", discovery |-> "tracker",
                 tracker |-> "state", state |-> "wait"]

\* The exception leaves `async with client`: a connection that lives gets a
\* DISCONNECT, and _session waits in __aexit__ with the health unchanged.
Leave ==
    /\ main' = "leaving"
    /\ link' = IF link = "up" THEN "none" ELSE link
    /\ excused' = (excused \/ link = "up")

\* An await of the announcement or the subscription raises.
MainFails ==
    /\ run = "session" /\ main \in DOMAIN MainNext
    /\ Leave
    /\ UNCHANGED <<listener, ticker, last_error>>

\* A publish of _listen raises, which it notes in last_error; waiting for messages
\* raises only when the connection is gone, which it does not.
ListenerFails ==
    /\ listener \in DOMAIN ListenerNext \/ (listener = "wait" /\ link # "up")
    /\ listener' = "failed"
    /\ last_error' = (last_error \/ listener # "wait")
    /\ UNCHANGED <<main, ticker, link, excused>>

\* A publish of _ticker raises; without a connection its next evaluation comes to
\* one that does.
TickerFails ==
    /\ ticker = "state" \/ (ticker \in {"eval", "sleep"} /\ link # "up")
    /\ ticker' = "failed"
    /\ UNCHANGED <<main, listener, last_error, link, excused>>

Failure ==
    /\ MainFails \/ ListenerFails \/ TickerFails
    /\ UNCHANGED <<run, connected, client, backoff, stopping, avail, ha, reached,
                   published, spoke>>

\* Any await of the session raises once the connection is gone.
SessionLost == link # "up" /\ Failure /\ UNCHANGED drops

\* A publish fails although the connection lives (a missing acknowledgement).
SessionError ==
    /\ link = "up" /\ drops < MaxDrops
    /\ drops' = drops + 1
    /\ Failure

\* gather raises what a task raised; its finally cancels both and waits for them,
\* in which nothing of the session happens.
Unwind ==
    /\ main = "gather" /\ "failed" \in {listener, ticker}
    /\ listener' = "off" /\ ticker' = "off"
    /\ Leave
    /\ UNCHANGED <<run, health, backoff, stopping, avail, ha, drops, reached,
                   published, spoke>>

\* __aexit__ returns, or gives up, and the exception reaches _run.
SessionEnds ==
    /\ main = "leaving"
    /\ EndSession(connected)
    /\ published' = FALSE
    /\ UNCHANGED <<stopping, link, avail, drops, reached, excused, spoke>>

Doubled == IF backoff * 2 <= BackoffMax THEN backoff * 2 ELSE BackoffMax

\* Mutant: the publisher gives up at the longest wait.
WakeUntilMax ==
    /\ run = "backoff" /\ backoff < BackoffMax
    /\ run' = "connecting" /\ backoff' = Doubled /\ reached' = FALSE
    /\ UNCHANGED <<tasks, health, stopping, link, avail, ha, drops, published,
                   excused, spoke>>

Wake ==
    /\ run = "backoff"
    /\ run' = "connecting"
    /\ backoff' = Doubled /\ reached' = FALSE
    /\ UNCHANGED <<tasks, health, stopping, link, avail, ha, drops, published,
                   excused, spoke>>
-----------------------------------------------------------------------------
(* The two halves of a session *)

\* "online" from Home Assistant: announce again, then publish the state.
Listen ==
    /\ listener = "wait" /\ ha
    /\ link = "up"
    /\ ha' = FALSE
    /\ listener' = "online"
    /\ AnnounceOnline
    /\ spoke' = (stopping = "farewell")
    /\ UNCHANGED <<run, main, ticker, health, backoff, stopping, link, drops,
                   reached, published, excused>>

ListenerStep ==
    /\ listener \in DOMAIN ListenerNext
    /\ link = "up"
    /\ listener' = ListenerNext[listener]
    /\ published' = (published \/ listener' = "state")
    /\ UNCHANGED <<run, main, ticker, health, backoff, stopping, link, avail,
                   ha, drops, reached, excused, spoke>>

\* The first evaluation of a session always publishes (last_publish_at is
\* None); later ones may or may not.
Ticker ==
    /\ link = "up"
    /\ \/ /\ ticker = "eval"
          /\ ticker' = "state" /\ published' = TRUE
       \/ /\ ticker = "eval" /\ published
          /\ ticker' = "sleep" /\ UNCHANGED published
       \/ ticker = "state" /\ ticker' = "sleep" /\ UNCHANGED published
       \/ ticker = "sleep" /\ ticker' = "eval" /\ UNCHANGED published
    /\ UNCHANGED <<run, main, listener, health, backoff, stopping, link, avail,
                   ha, drops, reached, excused, spoke>>
-----------------------------------------------------------------------------
(* stop *)

\* What _run had in its locals is gone.
Forget == backoff' = BackoffMin /\ reached' = FALSE /\ published' = FALSE

\* The task is cancelled where it is suspended; a live session disconnects.  stop()
\* waits for it to unwind, when no request is served that could see it do so.
CancelRun ==
    /\ stopping' = "done"
    /\ run' = "ended"
    /\ main' = "off" /\ listener' = "off" /\ ticker' = "off"
    /\ connected' = FALSE /\ client' = FALSE
    /\ link' = IF run = "session" /\ link = "up" THEN "none" ELSE link
    /\ ha' = FALSE
    /\ Forget
    /\ UNCHANGED <<last_error, avail, drops, excused, spoke>>

\* Mutant: the farewell is not said.
LeaveSilently == UNCHANGED avail

SayOffline == avail' = IF link = "up" THEN "offline" ELSE avail

\* The farewell is issued only over a connection thought to be alive.
Stop ==
    /\ stopping = "no"
    /\ \/ /\ client /\ connected
          /\ stopping' = "farewell"
          /\ SayOffline
          /\ UNCHANGED <<run, tasks, health, backoff, link, ha, drops, history>>
       \/ ~(client /\ connected) /\ CancelRun

\* The farewell is acknowledged, fails, or times out; the session has been
\* running all this while.
FarewellOver == stopping = "farewell" /\ CancelRun
-----------------------------------------------------------------------------
(* The broker and Home Assistant *)

Drop ==
    /\ link = "up"
    /\ drops < MaxDrops
    /\ drops' = drops + 1
    /\ link' = "half"
    /\ UNCHANGED <<run, tasks, health, backoff, stopping, avail, ha, history>>

LastWill ==
    /\ link = "half"
    /\ link' = "none"
    /\ avail' = "offline"
    /\ UNCHANGED <<run, tasks, health, backoff, stopping, ha, drops, history>>

HaOnline ==
    /\ HaRestarts
    /\ link = "up" /\ main = "gather"
    /\ ha' = TRUE
    /\ UNCHANGED <<run, tasks, health, backoff, stopping, link, avail, drops,
                   history>>
-----------------------------------------------------------------------------
TypeOK ==
    /\ run \in {"connecting", "session", "backoff", "ended"}
    /\ main \in {"off", "subscribe", "gather", "leaving"} \cup Announcing
    /\ listener \in {"off", "wait", "state", "failed"} \cup Announcing
    /\ ticker \in {"off", "eval", "state", "sleep", "failed"}
    /\ connected \in BOOLEAN /\ client \in BOOLEAN /\ last_error \in BOOLEAN
    /\ ha \in BOOLEAN /\ reached \in BOOLEAN /\ published \in BOOLEAN
    /\ excused \in BOOLEAN /\ spoke \in BOOLEAN
    /\ backoff \in BackoffMin..BackoffMax
    /\ stopping \in {"no", "farewell", "done"}
    /\ link \in {"none", "up", "half"}
    /\ avail \in {"none", "online", "offline"}
    /\ drops \in 0..MaxDrops

\* What /health shows is true: connected only in a session, and through the whole
\* of one that the broker still knows; a publisher that waits to retry says why,
\* and one that is connected shows an error only of the session that it is losing.
HealthHonest ==
    /\ connected <=> run = "session"
    /\ link = "up" => connected
    /\ run = "backoff" => last_error
    /\ connected /\ last_error => listener = "failed" \/ main = "leaving"

\* "A session that actually worked earns a fresh, short backoff."
BackoffFresh ==
    run = "backoff" /\ reached => backoff = BackoffMin

\* However a session ends, what is left of it is right.
SessionsSound == TypeOK /\ HealthHonest /\ BackoffFresh

\* While the service runs, subscribers see it online exactly when its session
\* lives: whatever was announced, lost and taken over in between.  Only a session
\* left with a clean DISCONNECT after an error discards its will.
AvailabilityTracks ==
    stopping = "no" =>
        /\ run = "session" /\ link = "up" => avail = "online"
        /\ ~excused /\ link = "none" => avail # "online"

\* After stop() the availability topic does not say "online", however the
\* session was doing, unless it was announced again while the farewell was
\* awaited: the session is cancelled only afterwards.
FarewellStands ==
    stopping = "done" /\ link = "none" /\ ~excused /\ ~spoke => avail # "online"

\* What subscribers are told of the service is so while it runs and after it.
AvailabilityHonest == AvailabilityTracks /\ FarewellStands

\* A session has published over the connection that it has.
Publishing == published /\ link = "up"
=============================================================================
