-------------------------------- MODULE Gpsd --------------------------------
(***************************************************************************)
(* The gpsd collector (stratumtap/gpsd.py): GpsdClient's connect, watch,   *)
(* read, probe and back-off loop with the GpsdState it folds messages into *)
(* and the snapshot it publishes to the store.                             *)
(*                                                                         *)
(* A step ends at an await of the client.  Of a folded message the model   *)
(* keeps where it came from: Fresh for the present connection, Stale for   *)
(* an earlier one, and of the clock offsets how old they are.  gpsd may be *)
(* slow, silent, closed or unreachable at any await.                       *)
(***************************************************************************)
EXTENDS Integers

CONSTANTS
    Devices,       \* the receivers gpsd may know
    BackoffMin, BackoffMax,   \* BACKOFF_MIN_S, BACKOFF_MAX_S
    PreferPps,     \* TIME_OFFSET_PREFER_PPS_S
    ClockSteps,    \* wall-clock corrections
    MaxAge, MaxSteps          \* bounds on the age of an offset and on the steps

ASSUME ConstantsAssumption ==
    /\ BackoffMin \in Nat \ {0} /\ BackoffMax \in Nat /\ BackoffMin <= BackoffMax
    /\ {PreferPps, MaxAge, MaxSteps} \subseteq Nat /\ PreferPps < MaxAge
    /\ ClockSteps \subseteq Int

VARIABLES
    phase,       \* the await of the client
    writer,      \* GpsdClient._writer is set
    sockets,     \* connections open
    backoff,
    strikes,     \* idle_strikes
    owed,        \* a probe has been sent and gpsd has said nothing since
    ended,       \* gpsd has closed its side
    connected, error, devices,    \* of GpsdState
    got,         \* of GpsdState: the origin of each kind of message it holds
    mode,        \* of GpsdState: what the TPV it holds says of the fix
    wall,        \* of GpsdState: time.time() - pps_at and - toff_at
    since,       \* history: how old the two really are
    steps,
    published,   \* the store's snapshot but for its time offset,
    offset       \* which is here, with the offsets that were recent by then

client == <<phase, writer, sockets, backoff, strikes, owed, ended>>
ages == <<wall, since>>
state == <<connected, error, devices, got, mode, ages>>
shown == <<published, offset>>
vars == <<client, state, steps, shown>>

\* "satellites" is the list inside the last SKY, "sky" its other fields.
Fixes == {"tpv", "sky", "satellites", "gst"}
Offsets == {"pps", "toff"}
Parts == Fixes \cup Offsets \cup {"collected"}
Origins == {"none", "stale", "fresh"}
Nothing == [p \in Parts |-> "none"]

\* A TPV of mode 0 or 1, or without one, and a TPV of mode 2 or 3.
Modes == {"none", "fix"}

\* What `error` says of a connected client without a failure.
Explanation(devs, parts) ==
    IF devs = {} THEN "no device"
    ELSE IF parts["tpv"] = "none" THEN "waiting" ELSE "none"

snapshot(conn, err, devs, parts, m) ==
    [available |-> conn /\ parts["tpv"] # "none",
     connected |-> conn,
     error     |-> IF conn /\ err = "none" THEN Explanation(devs, parts) ELSE err,
     devices   |-> devs,
     got       |-> parts,
     mode      |-> m]

\* What the others make of a snapshot: /health, the MQTT document and its position
\* (a TPV with a fix has one).
get_health(snap) == [gpsd_connected |-> snap.connected, gps_fix |-> snap.mode = "fix"]
build_state(snap) == [gps_available |-> snap.available,
                      gps_fix |-> snap.available /\ snap.mode = "fix",
                      gpsd_connected |-> snap.connected]
build_position(snap) == IF snap.available THEN snap.mode ELSE "none"

\* The API adds the age of the snapshot: of what it counts from, the origin.
_gps_aged(snap) == snap.got["collected"]

Recent(parts, age) == {p \in Offsets : parts[p] # "none" /\ age[p] <= PreferPps}

\* Mutant: the newer of the two.
time_offset_newer(parts) ==
    LET seen == {p \in Offsets : parts[p] # "none"} IN
    CASE seen = {} -> "none"
      [] seen = Offsets -> IF wall'["pps"] <= wall'["toff"] THEN "pps" ELSE "toff"
      [] OTHER -> CHOOSE p \in seen : TRUE

\* The source of the offset: PPS if both are recent, else the newer of the two.
time_offset(parts) ==
    LET seen == {p \in Offsets : parts[p] # "none"} IN
    CASE seen = {} -> "none"
      [] Recent(parts, wall') = Offsets -> "pps"
      [] seen = Offsets /\ Recent(parts, wall') # Offsets ->
            IF wall'["pps"] <= wall'["toff"] THEN "pps" ELSE "toff"
      [] OTHER -> CHOOSE p \in seen : TRUE

Publish ==
    /\ published' = snapshot(connected', error', devices', got', mode')
    /\ offset' = [source |-> time_offset(got'), recent |-> Recent(got', since')]

Init ==
    /\ phase = "off" /\ writer = FALSE /\ sockets = 0
    /\ backoff = BackoffMin /\ strikes = 0 /\ owed = FALSE /\ ended = FALSE
    /\ connected = FALSE /\ error = "not connected" /\ devices = {}
    /\ got = Nothing /\ mode = "none"
    /\ wall = [p \in Offsets |-> 0] /\ since = [p \in Offsets |-> 0] /\ steps = 0
    /\ published = snapshot(FALSE, "not connected", {}, Nothing, "none")
    /\ offset = [source |-> "none", recent |-> {}]

\* What the last connection left behind is stale from here on.
Aged(parts) == [p \in Parts |-> IF parts[p] = "fresh" THEN "stale" ELSE parts[p]]

on_connect ==
    /\ connected' = TRUE /\ error' = "none"
    /\ got' = [p \in Parts |-> IF p \in Offsets THEN Aged(got)[p] ELSE "none"]
    /\ mode' = "none"
    /\ UNCHANGED <<devices, ages>>

\* Mutant: the clock offsets survive.
on_disconnect_keeping(why) ==
    /\ connected' = FALSE /\ error' = why
    /\ got' = [p \in Parts |-> IF p \in Fixes THEN "none" ELSE got[p]]
    /\ mode' = "none"
    /\ UNCHANGED <<devices, ages>>

\* Mutant: the position is dropped and its mode is not.
on_disconnect_fixed(why) ==
    /\ connected' = FALSE /\ error' = why
    /\ got' = [p \in Parts |-> IF p = "collected" THEN got[p] ELSE "none"]
    /\ wall' = [p \in Offsets |-> 0] /\ since' = [p \in Offsets |-> 0]
    /\ UNCHANGED <<devices, mode>>

on_disconnect(why) ==
    /\ connected' = FALSE /\ error' = why
    /\ got' = [p \in Parts |-> IF p = "collected" THEN got[p] ELSE "none"]
    /\ wall' = [p \in Offsets |-> 0] /\ since' = [p \in Offsets |-> 0]
    /\ mode' = "none"
    /\ UNCHANGED devices

Fold(parts) ==
    /\ got' = [p \in Parts |-> IF p \in parts THEN "fresh" ELSE got[p]]
    /\ wall' = [p \in Offsets |-> IF p \in parts THEN 0 ELSE wall[p]]
    /\ since' = [p \in Offsets |-> IF p \in parts THEN 0 ELSE since[p]]

\* A SKY without satellites keeps the list of the SKY before it.
_fold_sky(withSatellites) ==
    IF withSatellites THEN Fold({"sky", "satellites", "collected"})
    ELSE Fold({"sky", "collected"})

\* One decoded message; VERSION, WATCH, ERROR and the unknown change nothing here.
fold ==
    \/ mode' \in Modes /\ Fold({"tpv", "collected"}) /\ UNCHANGED devices
    \/ (\E with \in BOOLEAN : _fold_sky(with)) /\ UNCHANGED <<devices, mode>>
    \/ (\E p \in Offsets \cup {"gst"} : Fold({p})) /\ UNCHANGED <<devices, mode>>
    \/ devices' \in SUBSET Devices /\ UNCHANGED <<got, mode, ages>>   \* DEVICES
    \/ \E d \in Devices :                                           \* DEVICE
          /\ devices' \in {devices \cup {d}, devices \ {d}}
          /\ UNCHANGED <<got, mode, ages>>
    \/ UNCHANGED <<devices, got, mode, ages>>
-----------------------------------------------------------------------------
Start ==
    /\ phase = "off" /\ phase' = "connecting"
    /\ UNCHANGED <<writer, sockets, backoff, strikes, owed, ended, state, steps, shown>>

Connect ==
    /\ phase = "connecting" /\ phase' = "greeting"
    /\ writer' = TRUE /\ sockets' = sockets + 1
    /\ on_connect
    /\ ended' = FALSE /\ owed' = FALSE
    /\ UNCHANGED <<backoff, strikes, steps, shown>>

\* The greeting, which may be the end of the stream, and the watch command.
Greeted ==
    /\ phase = "greeting" /\ phase' = "watching"
    /\ strikes' = 0
    /\ UNCHANGED <<writer, sockets, backoff, owed, connected, error, steps>>
    /\ \/ /\ ended' = TRUE
          /\ UNCHANGED <<devices, got, mode, ages, shown>>
       \/ fold /\ Publish /\ UNCHANGED ended

Watching ==
    /\ phase = "watching" /\ phase' = "reading"
    /\ UNCHANGED state /\ Publish
    /\ UNCHANGED <<writer, sockets, backoff, strikes, owed, ended, steps>>

\* Mutant: an answer does not clear the strike.
ReadUnforgiving ==
    /\ phase = "reading" /\ ~ended
    /\ owed' = FALSE
    /\ \/ fold /\ UNCHANGED <<connected, error>> /\ Publish
       \/ UNCHANGED <<state, shown>>
    /\ UNCHANGED <<phase, writer, sockets, backoff, strikes, ended, steps>>

\* A line: JSON is folded and published, raw NMEA and rubbish are not.
Read ==
    /\ phase = "reading" /\ ~ended
    /\ strikes' = 0 /\ owed' = FALSE
    /\ \/ fold /\ UNCHANGED <<connected, error>> /\ Publish
       \/ UNCHANGED <<state, shown>>
    /\ UNCHANGED <<phase, writer, sockets, backoff, ended, steps>>

\* The session is over: down, published, and the writer still to be closed.
Over(why) ==
    /\ phase' = "closing"
    /\ on_disconnect(why) /\ Publish
    /\ UNCHANGED <<writer, sockets, strikes, owed, ended, steps>>

EndOfStream ==
    /\ phase = "reading"
    /\ backoff' = BackoffMin
    /\ Over("closed")

\* Mutant: probes are sent for ever.
IdlePatiently ==
    /\ phase = "reading" /\ ~ended
    /\ phase' = "probing" /\ strikes' = 1 /\ owed' = TRUE
    /\ UNCHANGED <<writer, sockets, backoff, ended, state, steps, shown>>

\* IDLE_TIMEOUT_S without a line: probe once, give up the second time.
Idle ==
    /\ phase = "reading" /\ ~ended
    /\ IF strikes = 0
       THEN /\ phase' = "probing"
            /\ strikes' = 1 /\ owed' = TRUE
            /\ UNCHANGED <<writer, sockets, backoff, ended, state, steps, shown>>
       ELSE Over("idle") /\ UNCHANGED backoff

Probed ==
    /\ phase = "probing" /\ phase' = "reading"
    /\ UNCHANGED <<writer, sockets, backoff, strikes, owed, ended, state, steps, shown>>

\* Refused, unreachable, reset, a line too long, or a timeout while connecting,
\* greeting or writing.
Fails ==
    /\ phase \in {"connecting", "greeting", "watching", "reading", "probing"}
    /\ Over("failed") /\ UNCHANGED backoff

\* Mutant: the writer is dropped without being closed.
_drop_writer == writer' = FALSE /\ UNCHANGED sockets

_close_writer ==
    /\ writer' = FALSE
    /\ sockets' = IF writer THEN sockets - 1 ELSE sockets

Closed ==
    /\ phase = "closing" /\ phase' = "asleep"
    /\ _close_writer
    /\ UNCHANGED <<backoff, strikes, owed, ended, state, steps, shown>>

Doubled == IF 2 * backoff < BackoffMax THEN 2 * backoff ELSE BackoffMax

Wake ==
    /\ phase = "asleep" /\ phase' = "connecting"
    /\ backoff' = Doubled
    /\ UNCHANGED <<writer, sockets, strikes, owed, ended, state, steps, shown>>

Stop ==
    /\ phase \notin {"off", "stopped"} /\ phase' = "stopped"
    /\ _close_writer
    /\ UNCHANGED <<backoff, strikes, owed, ended, state, steps, shown>>

\* Time passes while an offset grows old.
Second ==
    /\ \A p \in Offsets : got[p] # "none" => since[p] < MaxAge
    /\ wall' = [p \in Offsets |-> IF got[p] = "none" THEN 0 ELSE wall[p] + 1]
    /\ since' = [p \in Offsets |-> IF got[p] = "none" THEN 0 ELSE since[p] + 1]
    /\ UNCHANGED <<client, connected, error, devices, got, mode, steps, shown>>

ClockStep ==
    /\ steps < MaxSteps /\ steps' = steps + 1
    /\ \E d \in ClockSteps :
          wall' = [p \in Offsets |-> IF got[p] = "none" THEN 0 ELSE wall[p] + d]
    /\ UNCHANGED <<client, connected, error, devices, got, mode, since, shown>>

Next ==
    \/ Second \/ ClockStep
    \/ Start \/ Connect \/ Greeted \/ Watching \/ Read \/ EndOfStream
    \/ Idle \/ Probed \/ Fails \/ Closed \/ Wake \/ Stop

Spec == Init /\ [][Next]_vars

\* Nothing awaits for ever: every await has its timeout.  A gpsd that accepts
\* again and again is connected to at last.
FairSpec ==
    /\ Spec
    /\ WF_vars(Start) /\ WF_vars(Closed) /\ WF_vars(Wake)
    /\ WF_vars(Connect \/ Greeted \/ Watching \/ Probed \/ Fails)
    /\ WF_vars(Read \/ Idle \/ EndOfStream)
    /\ SF_vars(Connect) /\ SF_vars(Greeted) /\ SF_vars(Watching)
-----------------------------------------------------------------------------
TypeOK ==
    /\ phase \in {"off", "connecting", "greeting", "watching", "reading", "probing",
                  "closing", "asleep", "stopped"}
    /\ {writer, connected, owed, ended} \subseteq BOOLEAN
    /\ sockets \in 0..1
    /\ backoff \in BackoffMin..BackoffMax /\ strikes \in 0..1
    /\ error \in {"none", "not connected", "closed", "idle", "failed"}
    /\ devices \subseteq Devices
    /\ got \in [Parts -> Origins] /\ mode \in Modes
    /\ published.got \in [Parts -> Origins]
    /\ wall \in [Offsets -> Int] /\ since \in [Offsets -> 0..MaxAge]
    /\ offset.source \in Offsets \cup {"none"} /\ offset.recent \subseteq Offsets

\* What is published is of one connection: while connected nothing of an earlier
\* one, while disconnected no fix and no offset at all.
OneConnectionOnly ==
    \A p \in Fixes \cup Offsets :
       published.got[p] \in IF published.connected THEN {"none", "fresh"} ELSE {"none"}

\* A lost gpsd shows: from the moment the session is over, through the wait and
\* the next attempt, the snapshot says so.
LossShows ==
    phase \in {"off", "connecting", "closing", "asleep"} =>
        /\ ~published.connected /\ ~published.available
        /\ published.error # "none"

\* While lines are read the snapshot is never behind the state.
SnapshotCurrent ==
    phase \in {"reading", "probing"} =>
        published = snapshot(connected, error, devices, got, mode)

\* Whoever is asked says the same: a monitor that probes /health, Home Assistant and
\* its map agree on the fix and the connection, although only two of the three ask
\* whether the snapshot is available, and a fix is never reported without gpsd, nor with
\* an age that counts from what another connection brought, or without an age.
OneAnswer ==
    LET health == get_health(published)
        doc == build_state(published)
    IN  /\ health.gps_fix = doc.gps_fix /\ health.gpsd_connected = doc.gpsd_connected
        /\ build_position(published) = "fix" <=> health.gps_fix
        /\ health.gps_fix => health.gpsd_connected
        /\ doc.gps_available => _gps_aged(published) = "fresh"

\* What the page, the API and the broker are shown is true.
SnapshotHonest ==
    TypeOK /\ OneConnectionOnly /\ LossShows /\ SnapshotCurrent /\ OneAnswer

\* "Prefers PPS when a recent one exists and falls back to TOFF otherwise"
\* (docs/technical/measurements.md:280): while the wall clock has not been stepped,
\* and nothing of either is shown that this connection has not brought.
OffsetPreferred ==
    /\ steps = 0 =>
          /\ "pps" \in offset.recent => offset.source = "pps"
          /\ offset.recent = {"toff"} => offset.source = "toff"
    /\ offset.source # "none" => published.connected /\ published.got[offset.source] = "fresh"

\* Retries never accumulate connections.
OneSocket ==
    /\ sockets = IF writer THEN 1 ELSE 0
    /\ phase \in {"off", "connecting", "asleep", "stopped"} => sockets = 0

\* "A receiver with no device attached is legitimately silent": gpsd is given up
\* for being idle only when it has not answered the probe it was last sent.
QuietIsKept == error = "idle" => owed

\* Sessions are given up for a reason, and given up entirely.
SessionsSound == OneSocket /\ QuietIsKept

\* A gpsd that goes silent for good is noticed, and the client is back reading
\* after any loss, unless it was stopped.
Recovers ==
    /\ owed ~> (~owed \/ phase \notin {"reading", "probing"})
    /\ []<>(phase = "reading" \/ phase = "stopped")
=============================================================================
