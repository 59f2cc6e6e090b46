--------------------------- MODULE HomeAssistant ---------------------------
(***************************************************************************)
(* What Home Assistant shows of the service: the documents of              *)
(* stratumtap/mqtt.py (build_state, build_discovery) on their way through  *)
(* the broker's retained topics, across restarts of the service, of the    *)
(* broker and of Home Assistant.                                           *)
(*                                                                         *)
(* A reading is told apart by its feed and its age, in ticks.  The broker  *)
(* and Home Assistant are external, modelled from what build_discovery     *)
(* and _nullable ask of them: a retained message is delivered again to     *)
(* who subscribes, an entity whose template renders nothing ignores the    *)
(* document, and an entity that got nothing for expire_after shows nothing.*)
(* When a session publishes is MqttPacing's matter: here it publishes at   *)
(* least once in Interval, which FloorKept is about.                       *)
(***************************************************************************)
EXTENDS Service

CONSTANTS
    Feeds,          \* the collectors' feeds, of "ntp" and "gps"
    Interval,       \* mqtt_interval_s
    ExpireAfter,    \* mqtt_expire_after_s
    MaxOutages      \* bound on the restarts of Home Assistant

ASSUME HomeAssistantAssumption ==
    /\ Feeds \subseteq {"ntp", "gps"}
    /\ Interval \in Nat \ {0} /\ ExpireAfter \in Nat /\ Interval < ExpireAfter
    /\ MaxOutages \in Nat

VARIABLES
    source,   \* the feeds whose snapshot is available
    device,   \* is the discovery message retained?
    doc,      \* what the retained state document holds a value for
    docAge,   \* ticks since it was built
    home,     \* is Home Assistant up?
    known,    \* does it know the device?
    told,     \* the availability it was told
    fresh,    \* ticks since an entity last took a value, up to ExpireAfter
    age,      \* ticks since that value was built
    lost,     \* ticks a live session has published without the feed
    outages

broker == <<device, doc, docAge>>
shown == <<home, known, told, fresh, age>>
haVars == <<serviceVars, source, broker, shown, lost, outages>>
-----------------------------------------------------------------------------
(* The entities *)

\* The sensors of _COMPONENTS that a feed's availability makes null together,
\* by the fields of build_state.  (A field may be null on its own too, as the PPS
\* offset without PPS: the fields of a feed are treated as one.)
NtpSensors == {"system_offset", "last_offset", "rms_offset", "frequency", "skew",
               "root_dispersion", "stratum", "reference", "ref_time", "leap_status"}

GpsSensors == {"pps_offset", "fix_text", "sats_used", "sats_seen", "hdop", "eph_m",
               "alt_msl", "grid_square"}

\* _BINARY_KEYS: a value in every document, off without the feed.
Flags == {"synchronized", "gps_fix"}

\* What the entities take their value by: a feed, or any document at all.
Groups == Feeds \cup {"flags"}

Group(entity) == IF entity \in Flags THEN "flags"
                 ELSE IF entity \in NtpSensors THEN "ntp" ELSE "gps"

Entities == {e \in NtpSensors \cup GpsSensors \cup Flags : Group(e) \in Groups}

NoDoc == {}

\* Mutant: a feed that is gone keeps its last values in the document.
KeepsLast == doc \cup source \cup {"flags"}

\* build_state: null, rather than a zero, for a feed that is not available.
Document == source \cup {"flags"}

AtMost(bound, n) == IF n < bound THEN n ELSE bound

\* Mutant: a document without the value keeps the entity alive.
TakesAny(group, values) ==
    group \in values \/ (values # NoDoc /\ fresh[group] < ExpireAfter)

\* The value_template: _nullable renders nothing for null, _flag always
\* something.
Takes(group, values) == group \in values

\* Mutant: an entity that never expires.
KeepsShowing(group) ==
    IF fresh[group] < ExpireAfter THEN AtMost(ExpireAfter - 1, fresh[group] + 1)
                                  ELSE ExpireAfter

\* expire_after of build_discovery: at ExpireAfter it shows nothing.
Older(group) == AtMost(ExpireAfter, fresh[group] + 1)

Blank == [g \in Groups |-> ExpireAfter]

\* Does an entity show a value now?
Shows(entity) ==
    home /\ known /\ told = "online" /\ fresh[Group(entity)] < ExpireAfter
-----------------------------------------------------------------------------
(* The broker delivers *)

HaInit ==
    /\ ServiceInit
    /\ source = {} /\ device = FALSE /\ doc = NoDoc /\ docAge = 0
    /\ home = TRUE /\ known = FALSE /\ told = "none"
    /\ fresh = Blank /\ age = [g \in Groups |-> 0]
    /\ lost = [f \in Feeds |-> 0] /\ outages = 0

Enters(task, where) == task # where /\ task' = where

Published == Enters(ticker, "state") \/ Enters(listener, "state")

Announced == Enters(main, "discovery") \/ Enters(listener, "discovery")

\* Mutant: the state is not retained.
Forgotten == NoDoc

\* What a new subscriber is sent.
Retained == doc

\* A document reaches the entities.
Receive(values, built) ==
    /\ fresh' = [g \in Groups |-> IF Takes(g, values) THEN 0 ELSE fresh[g]]
    /\ age' = [g \in Groups |-> IF Takes(g, values) THEN built ELSE age[g]]

\* Mutant: the discovery message is not retained.
AnnounceOnce == UNCHANGED device

\* The discovery publish of _announce.
AnnounceDevice == device' = (device \/ Announced)

\* The publishes of a step of the service, and who hears them.
Deliver ==
    /\ source' = IF phase' = "down" THEN {} ELSE source
    /\ AnnounceDevice
    /\ doc' = IF Published THEN Document ELSE doc
    /\ docAge' = IF Published THEN 0 ELSE docAge
    /\ known' = (known \/ (home /\ Announced))
    /\ told' = IF known' /\ (~known \/ avail' # avail) THEN avail' ELSE told
    /\ \/ known' /\ Published /\ Receive(Document, 0)
       \/ known' /\ ~known /\ ~Published /\ Receive(Retained, docAge)
       \/ ~(known' /\ (~known \/ Published)) /\ UNCHANGED <<fresh, age>>
    /\ UNCHANGED <<home, outages>>

ServiceStep == ServiceNext /\ Deliver
-----------------------------------------------------------------------------
(* The environment *)

Collector(feed) ==
    IF Demo THEN "demo" ELSE IF feed = "ntp" THEN "chrony" ELSE "gpsd"

\* A collector finds its source, or loses it.
Collect(feed) ==
    /\ Collector(feed) \in running
    /\ source' = IF feed \in source THEN source \ {feed} ELSE source \cup {feed}
    /\ UNCHANGED <<serviceVars, broker, shown, outages>>

HaStops ==
    /\ home /\ outages < MaxOutages
    /\ home' = FALSE /\ known' = FALSE /\ told' = "none"
    /\ fresh' = Blank /\ age' = [g \in Groups |-> 0]
    /\ outages' = outages + 1
    /\ UNCHANGED <<serviceVars, source, broker>>

\* It subscribes, is sent what is retained, and says "online".
HaStarts ==
    /\ ~home /\ home' = TRUE
    /\ known' = device
    /\ told' = IF device THEN avail ELSE told
    /\ IF device THEN Receive(Retained, docAge) ELSE UNCHANGED <<fresh, age>>
    /\ IF link = "up" /\ main = "gather" THEN HaOnline ELSE UNCHANGED vars
    /\ UNCHANGED <<process, source, broker, outages>>

\* A restart of the broker ends the session without a will; what was retained
\* survives or does not.
BrokerRestarts ==
    /\ link # "none" /\ drops < MaxDrops
    /\ drops' = drops + 1 /\ link' = "none"
    /\ \/ excused' = TRUE /\ UNCHANGED <<avail, device, doc, docAge>>
       \/ /\ avail' = "none" /\ device' = FALSE /\ doc' = NoDoc /\ docAge' = 0
          /\ UNCHANGED excused
    /\ UNCHANGED <<run, tasks, health, backoff, stopping, ha, reached, published,
                   spoke, process, source, shown, outages>>

\* A tick passes; a live session has published within Interval.
Tick ==
    /\ link = "up" /\ main = "gather" => published /\ docAge < Interval
    /\ docAge' = IF doc = NoDoc THEN 0 ELSE AtMost(Interval + 1, docAge + 1)
    /\ fresh' = [g \in Groups |-> Older(g)]
    /\ age' = [g \in Groups |->
                 IF fresh'[g] = ExpireAfter THEN 0 ELSE AtMost(Interval + 1, age[g] + 1)]
    /\ UNCHANGED <<serviceVars, source, device, doc, home, known, told, outages>>

\* lost counts from when a live session has first published without the feed.
CountLost(ticks) ==
    lost' = [f \in Feeds |->
               IF published' /\ link' = "up" /\ f \notin source'
               THEN AtMost(Interval + ExpireAfter, lost[f] + ticks)
               ELSE 0]

HaNext ==
    \/ /\ \/ ServiceStep \/ HaStops \/ HaStarts \/ BrokerRestarts
          \/ \E f \in Feeds : Collect(f)
       /\ CountLost(0)
    \/ Tick /\ CountLost(1)

HaSpec == HaInit /\ [][HaNext]_haVars

Live(step) == step /\ UNCHANGED process /\ Deliver /\ CountLost(0)

\* The publisher's tasks run, a broker tried again and again is reached again, and
\* time passes; that the will is said, or the listener heard, is not assumed.
FairHaSpec ==
    /\ HaSpec
    /\ SF_haVars(Live(Connect))
    /\ WF_haVars(Live(MainStep \/ SessionLost \/ Unwind \/ SessionEnds \/ Wake))
    /\ WF_haVars(Live(Ticker))
    /\ WF_haVars(Tick /\ CountLost(1))
-----------------------------------------------------------------------------
HaTypeOK ==
    /\ TypeOK
    /\ source \subseteq Feeds /\ doc \subseteq Groups
    /\ device \in BOOLEAN /\ home \in BOOLEAN /\ known \in BOOLEAN
    /\ told \in {"none", "online", "offline"}
    /\ docAge \in 0..(Interval + 1) /\ age \in [Groups -> 0..(Interval + 1)]
    /\ fresh \in [Groups -> 0..ExpireAfter]
    /\ lost \in [Feeds -> 0..(Interval + ExpireAfter)]
    /\ outages \in 0..MaxOutages

\* Whoever restarted and in whatever order, as long as the session publishes
\* Home Assistant shows what the service last published, never older than
\* Interval.
NeverStale ==
    stopping = "no" /\ published /\ link = "up" /\ home /\ known =>
        \A e \in Entities : Group(e) \in doc => Shows(e) /\ age[Group(e)] <= Interval

\* The types hold, and nothing stale is shown.
ShowsCurrent == HaTypeOK /\ NeverStale

\* The reading of a feed that is gone ages out, although the service goes on
\* publishing: null is not a value.
LossAges ==
    \A e \in Entities :
        Group(e) \in Feeds /\ Shows(e) => lost[Group(e)] < Interval + ExpireAfter

\* A service that is gone for good, however it went, stops being shown: by its
\* farewell, by its will, or by expiry when neither was said.
GoneShows ==
    <>[](phase = "down") => <>[](\A e \in Entities : ~Shows(e))

\* A session publishes, and Home Assistant, if it is up, knows the device.
Restored == Publishing /\ (home => known)

\* As long as nobody stops it, the publisher gets back to publishing after every
\* loss, of a session that had published too, and a device that Home Assistant or
\* the broker forgot comes back with it, whichever of the three restarted with which.
Recovers == (stopping = "no" /\ ~Restored) ~> (Restored \/ stopping # "no")
=============================================================================
