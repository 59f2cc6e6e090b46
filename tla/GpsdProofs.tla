----------------------------- MODULE GpsdProofs -----------------------------
(***************************************************************************)
(* Proofs about Gpsd, for any devices, backoffs, clock steps and ages.     *)
(*                                                                         *)
(* ClientInv is the connection's bookkeeping, StateInv what GpsdState may  *)
(* hold with and without one, AgesInv the two ages of an offset.  What is  *)
(* published is made of such a state (Published), at the moment it is made *)
(* (PublishSound), and stays so until the next (NothingPublished).         *)
(***************************************************************************)
EXTENDS Gpsd, TLAPS

USE ConstantsAssumption DEF ConstantsAssumption

Phases == {"off", "connecting", "greeting", "watching", "reading", "probing",
           "closing", "asleep", "stopped"}

InSession == {"greeting", "watching", "reading", "probing"}

\* A connection is open exactly while the writer is set.
SocketInv ==
    /\ phase \in Phases
    /\ writer \in BOOLEAN
    /\ sockets = IF writer THEN 1 ELSE 0
    /\ phase \in {"off", "connecting", "asleep", "stopped"} => ~writer
    /\ phase \in InSession => writer

\* A strike is counted only while a probe is unanswered.
ProbeInv ==
    /\ owed \in BOOLEAN
    /\ ended \in BOOLEAN
    /\ strikes \in 0..1
    /\ phase \in {"watching", "reading", "probing"} /\ strikes # 0 => owed
    /\ error = "idle" => owed

BackoffInv == backoff \in BackoffMin..BackoffMax

ClientInv == SocketInv /\ ProbeInv /\ BackoffInv

\* Without a connection GpsdState holds nothing of one, with one nothing of another.
StateInv ==
    /\ connected \in BOOLEAN
    /\ error \in {"none", "not connected", "closed", "idle", "failed"}
    /\ devices \subseteq Devices
    /\ got \in [Parts -> Origins] /\ mode \in Modes
    /\ phase # "stopped" => (connected <=> phase \in InSession)
    /\ connected <=> error = "none"
    /\ \A p \in Fixes \cup Offsets :
          got[p] \in IF connected THEN {"none", "fresh"} ELSE {"none"}
    /\ mode = "fix" => got["tpv"] # "none"
    /\ got["tpv"] # "none" => got["collected"] = "fresh"

\* While the clock was not stepped the age by it is the true one.
AgesInv ==
    /\ wall \in [Offsets -> Int] /\ since \in [Offsets -> 0..MaxAge]
    /\ steps \in Nat
    /\ steps = 0 => wall = since

\* What was published was made of such a state.
Published ==
    /\ published.connected \in BOOLEAN
    /\ published.available <=> published.connected /\ published.got["tpv"] # "none"
    /\ published.got \in [Parts -> Origins]
    /\ published.mode \in Modes
    /\ OneConnectionOnly
    /\ published.mode = "fix" => published.got["tpv"] # "none"
    /\ published.got["tpv"] # "none" => published.got["collected"] = "fresh"
    /\ ~published.connected => published.error # "none"

Offset ==
    /\ offset.source \in Offsets \cup {"none"} /\ offset.recent \subseteq Offsets
    /\ OffsetPreferred

ShownInv ==
    /\ Published
    /\ Offset
    /\ phase \in {"off", "connecting", "greeting", "closing", "asleep"}
          => ~published.connected
    /\ SnapshotCurrent

GpsdInv == ClientInv /\ StateInv /\ AgesInv /\ ShownInv
-----------------------------------------------------------------------------
(* The state *)

LEMMA FoldSound ==
    ASSUME StateInv, AgesInv, fold, connected, UNCHANGED <<connected, error>>,
           phase' \in InSession
    PROVE  StateInv' /\ wall' \in [Offsets -> Int] /\ since' \in [Offsets -> 0..MaxAge]
           /\ (steps = 0 => wall' = since')
<1>1. ASSUME NEW parts \in SUBSET Parts, Fold(parts)
      PROVE  /\ got' \in [Parts -> Origins]
             /\ \A p \in Fixes \cup Offsets : got'[p] \in {"none", "fresh"}
             /\ got["tpv"] # "none" \/ "tpv" \in parts => got'["tpv"] # "none"
             /\ "tpv" \notin parts \/ "collected" \in parts =>
                   (got'["tpv"] # "none" => got'["collected"] = "fresh")
             /\ wall' \in [Offsets -> Int] /\ since' \in [Offsets -> 0..MaxAge]
             /\ steps = 0 => wall' = since'
  <2>1. "tpv" \notin parts \/ "collected" \in parts =>
           (got'["tpv"] # "none" => got'["collected"] = "fresh")
    BY <1>1 DEF Fold, StateInv, Parts, Fixes
  <2> QED
    BY <1>1, <2>1 DEF Fold, StateInv, AgesInv, Parts, Fixes, Offsets, Origins
<1>2. CASE mode' \in Modes /\ Fold({"tpv", "collected"}) /\ UNCHANGED devices
  <2>1. {"tpv", "collected"} \in SUBSET Parts
    BY DEF Parts, Fixes
  <2> QED
    BY <1>1, <1>2, <2>1 DEF StateInv
<1>3. CASE (\E with \in BOOLEAN : _fold_sky(with)) /\ UNCHANGED <<devices, mode>>
  <2>1. {"sky", "collected"} \in SUBSET Parts
        /\ {"sky", "satellites", "collected"} \in SUBSET Parts
    BY DEF Parts, Fixes
  <2>2. Fold({"sky", "collected"}) \/ Fold({"sky", "satellites", "collected"})
    BY <1>3 DEF _fold_sky
  <2> QED
    BY <1>1, <1>3, <2>1, <2>2 DEF StateInv
<1>4. CASE (\E p \in Offsets \cup {"gst"} : Fold({p})) /\ UNCHANGED <<devices, mode>>
  <2>1. \A p \in Offsets \cup {"gst"} : {p} \in SUBSET Parts /\ "tpv" \notin {p}
    BY DEF Parts, Fixes, Offsets
  <2> QED
    BY <1>1, <1>4, <2>1 DEF StateInv
<1>5. CASE UNCHANGED <<got, mode, ages>> /\ devices' \subseteq Devices
  BY <1>5 DEF StateInv, AgesInv, ages
<1> QED
  <2>1. (\E d \in Devices : devices' \in {devices \cup {d}, devices \ {d}})
           => devices' \subseteq Devices
    BY DEF StateInv
  <2> QED
    BY <1>2, <1>3, <1>4, <1>5, <2>1 DEF fold, StateInv

LEMMA LossSound ==
    ASSUME NEW why \in {"closed", "idle", "failed"}, StateInv, AgesInv, on_disconnect(why),
           phase' = "closing", UNCHANGED steps
    PROVE  StateInv' /\ AgesInv'
<1>1. StateInv'
  <2>1. got' \in [Parts -> Origins]
    BY DEF on_disconnect, StateInv, Origins
  <2>2. (\A p \in Fixes \cup Offsets : got'[p] = "none") /\ got'["tpv"] = "none"
    BY DEF on_disconnect, Parts, Fixes, Offsets
  <2>3. /\ connected' = FALSE /\ error' = why /\ mode' = "none" /\ devices' = devices
        /\ phase' = "closing"
    BY DEF on_disconnect
  <2>4. connected' \in BOOLEAN /\ (connected' <=> error' = "none") /\ ~connected'
    BY <2>3
  <2> QED
    BY <2>1, <2>2, <2>3, <2>4 DEF StateInv, Modes, InSession
<1>2. AgesInv'
  <2>1. 0 \in Int /\ 0 \in 0..MaxAge
    OBVIOUS
  <2> QED
    BY <2>1 DEF on_disconnect, AgesInv
<1> QED
  BY <1>1, <1>2

LEMMA ConnectSound ==
    ASSUME StateInv, ~connected, on_connect, phase' = "greeting"
    PROVE  StateInv'
  BY DEF on_connect, Aged, StateInv, Parts, Fixes, Offsets, Origins, Modes, InSession
-----------------------------------------------------------------------------
(* The snapshot *)

LEMMA OffsetSound ==
    ASSUME StateInv', AgesInv', Publish
    PROVE  Offset'
<1> DEFINE seen == {p \in Offsets : got'[p] # "none"}
           best == time_offset(got')
           trueOnes == Recent(got', since')
<1>1. offset'.source = best /\ offset'.recent = trueOnes
  BY DEF Publish
<1>2. published'.connected = connected' /\ published'.got = got'
  BY DEF Publish, snapshot
<1>3. seen \in SUBSET Offsets /\ trueOnes \in SUBSET seen
  BY DEF Recent
<1>4. wall'["pps"] \in Int /\ wall'["toff"] \in Int
  BY DEF AgesInv, Offsets
<1>5. seen = {} \/ seen = {"pps"} \/ seen = {"toff"} \/ seen = Offsets
  BY <1>3 DEF Offsets
<1>6. CASE seen = {}
  <2>1. best = "none"
    <3>1. Recent(got', wall') # Offsets /\ seen # Offsets
      BY <1>6 DEF Recent, Offsets
    <3> QED
      BY <1>6, <3>1 DEF time_offset
  <2>2. trueOnes = {}
    BY <1>3, <1>6
  <2> QED
    BY <1>1, <2>1, <2>2 DEF Offset, OffsetPreferred, Offsets
<1>7. ASSUME NEW p \in Offsets, seen = {p}
      PROVE  best = p
  <2>1. Recent(got', wall') # Offsets /\ seen # Offsets /\ seen # {}
    BY <1>7 DEF Recent, Offsets
  <2>2. best = CHOOSE q \in seen : TRUE
    BY <2>1 DEF time_offset
  <2> QED
    BY <1>7, <2>2
<1>8. CASE seen = Offsets
  <2>1. /\ "pps" \in Recent(got', wall') <=> wall'["pps"] <= PreferPps
        /\ "toff" \in Recent(got', wall') <=> wall'["toff"] <= PreferPps
    BY <1>8 DEF Recent, Offsets
  <2>2. best = IF Recent(got', wall') = Offsets THEN "pps"
               ELSE IF wall'["pps"] <= wall'["toff"] THEN "pps" ELSE "toff"
    <3>1. seen # {}
      BY <1>8 DEF Offsets
    <3>2. CASE Recent(got', wall') = Offsets
      BY <1>8, <3>1, <3>2 DEF time_offset
    <3>3. CASE Recent(got', wall') # Offsets
      BY <1>8, <3>1, <3>3 DEF time_offset
    <3> QED
      BY <3>2, <3>3
  <2>3. Recent(got', wall') = Offsets
           <=> wall'["pps"] <= PreferPps /\ wall'["toff"] <= PreferPps
    BY <2>1 DEF Recent, Offsets
  <2>4. wall'["pps"] <= PreferPps => best = "pps"
    BY <2>2, <2>3, <1>4
  <2>5. wall'["pps"] > PreferPps /\ wall'["toff"] <= PreferPps => best = "toff"
    BY <2>2, <2>3, <1>4
  <2>6. steps' = 0 => trueOnes = Recent(got', wall')
    BY DEF AgesInv
  <2>7. best \in Offsets
    BY <2>2 DEF Offsets
  <2>8. steps' = 0 => ("pps" \in trueOnes => best = "pps")
                      /\ (trueOnes = {"toff"} => best = "toff")
    BY <2>1, <2>4, <2>5, <2>6, <1>4
  <2>9. connected' /\ got'[best] = "fresh"
    BY <1>8, <2>7 DEF StateInv
  <2> QED
    BY <1>1, <1>2, <1>3, <2>7, <2>8, <2>9 DEF Offset, OffsetPreferred
<1>9. CASE \E p \in Offsets : seen = {p}
  <2>1. PICK p \in Offsets : seen = {p} /\ best = p
    BY <1>7, <1>9
  <2>2. connected' /\ got'[p] = "fresh"
    BY <2>1 DEF StateInv
  <2>3. trueOnes \subseteq {p}
    BY <1>3, <2>1
  <2> QED
    BY <1>1, <1>2, <2>1, <2>2, <2>3 DEF Offset, OffsetPreferred, Offsets
<1> QED
  BY <1>5, <1>6, <1>8, <1>9 DEF Offsets

LEMMA PublishSound ==
    ASSUME StateInv', AgesInv', Publish,
           phase' \in {"watching", "closing", "reading", "probing"}
    PROVE  ShownInv'
<1>1. published' = snapshot(connected', error', devices', got', mode')
  BY DEF Publish
<1>2. Published'
  BY <1>1 DEF snapshot, Explanation, StateInv, Published, OneConnectionOnly, Fixes
<1>3. phase' = "closing" => ~published'.connected
  BY <1>1 DEF snapshot, StateInv, InSession
<1> QED
  BY <1>1, <1>2, <1>3, OffsetSound DEF ShownInv, SnapshotCurrent

LEMMA NothingPublished ==
    ASSUME ShownInv, UNCHANGED shown, steps' = 0 => steps = 0,
           phase' \in {"off", "connecting", "greeting", "closing", "asleep"}
              => ~published.connected,
           phase' \in {"reading", "probing"} =>
              phase \in {"reading", "probing"}
              /\ UNCHANGED <<connected, error, devices, got, mode>>
    PROVE  ShownInv'
  BY DEF ShownInv, Published, Offset, OffsetPreferred, OneConnectionOnly, SnapshotCurrent,
         shown
-----------------------------------------------------------------------------
LEMMA Initially == Init => GpsdInv
<1> SUFFICES ASSUME Init PROVE GpsdInv
  OBVIOUS
<1>1. ClientInv
  <2>1. SocketInv
    BY DEF Init, SocketInv, Phases, InSession
  <2>2. ProbeInv
    <3>1. owed = FALSE /\ ended = FALSE
      BY DEF Init
    <3>2. owed \in BOOLEAN /\ ended \in BOOLEAN
      BY <3>1
    <3>3. strikes = 0 /\ error = "not connected"
      BY DEF Init
    <3>4. strikes \in 0..1
      <4>1. 0 \in 0..1
        OBVIOUS
      <4> QED
        BY <3>3, <4>1
    <3>5. error # "idle"
      BY <3>3
    <3> QED
      BY <3>2, <3>3, <3>4, <3>5 DEF ProbeInv
  <2>3. BackoffInv
    <3>1. BackoffMin \in BackoffMin..BackoffMax
      OBVIOUS
    <3> QED
      BY <3>1 DEF Init, BackoffInv
  <2> QED
    BY <2>1, <2>2, <2>3 DEF ClientInv
<1>2. StateInv
  BY DEF Init, StateInv, Nothing, Origins, Parts, Fixes, Offsets, Modes, InSession
<1>3. AgesInv
  <2>1. 0 \in Int /\ 0 \in 0..MaxAge
    OBVIOUS
  <2> QED
    BY <2>1 DEF Init, AgesInv
<1>4. Published
  BY DEF Init, Published, snapshot, Nothing, Origins, Parts, Fixes, Offsets, Modes,
         OneConnectionOnly
<1>5. Offset
  BY DEF Init, Offset, OffsetPreferred, Offsets
<1> QED
  BY <1>1, <1>2, <1>3, <1>4, <1>5 DEF GpsdInv, ShownInv, SnapshotCurrent, Init, snapshot

LEMMA SocketSteps == SocketInv /\ [Next]_vars => SocketInv'
<1> SUFFICES ASSUME SocketInv, [Next]_vars PROVE SocketInv'
  OBVIOUS
<1> USE DEF SocketInv, Phases, InSession, client, state, vars
<1>1. CASE Second
  BY <1>1 DEF Second
<1>2. CASE ClockStep
  BY <1>2 DEF ClockStep
<1>3. CASE Start
  BY <1>3 DEF Start
<1>4. CASE Connect
  BY <1>4 DEF Connect
<1>5. CASE Greeted
  BY <1>5 DEF Greeted
<1>6. CASE Watching
  BY <1>6 DEF Watching
<1>7. CASE Read
  BY <1>7 DEF Read
<1>8. CASE EndOfStream
  BY <1>8 DEF EndOfStream, Over
<1>9. CASE Idle
  BY <1>9 DEF Idle, Over
<1>10. CASE Probed
  BY <1>10 DEF Probed
<1>11. CASE Fails
  BY <1>11 DEF Fails, Over
<1>12. CASE Closed
  <2>1. writer' = FALSE /\ sockets' = 0 /\ phase' = "asleep"
    BY <1>12 DEF Closed, _close_writer
  <2> QED
    BY <2>1
<1>13. CASE Wake
  BY <1>13 DEF Wake
<1>14. CASE Stop
  <2>1. writer' = FALSE /\ sockets' = 0 /\ phase' = "stopped"
    BY <1>14 DEF Stop, _close_writer
  <2> QED
    BY <2>1
<1>15. CASE UNCHANGED vars
  BY <1>15
<1> QED
  BY <1>1, <1>2, <1>3, <1>4, <1>5, <1>6, <1>7, <1>8, <1>9, <1>10, <1>11, <1>12,
     <1>13, <1>14, <1>15 DEF Next

LEMMA ProbeSteps == ProbeInv /\ StateInv /\ [Next]_vars => ProbeInv'
<1> SUFFICES ASSUME ProbeInv, StateInv, [Next]_vars PROVE ProbeInv'
  OBVIOUS
<1> USE DEF ProbeInv, client, state, vars
<1>1. CASE Second
  BY <1>1 DEF Second
<1>2. CASE ClockStep
  BY <1>2 DEF ClockStep
<1>3. CASE Start
  BY <1>3 DEF Start
<1>4. CASE Connect
  BY <1>4 DEF Connect, on_connect
<1>5. CASE Greeted
  <2>1. error' = error /\ strikes' = 0 /\ owed' = owed /\ (ended' = TRUE \/ ended' = ended)
    BY <1>5 DEF Greeted
  <2>2. ended' \in BOOLEAN
    BY <2>1
  <2> QED
    BY <2>1, <2>2
<1>6. CASE Watching
  BY <1>6 DEF Watching
<1>7. CASE Read
  <2>1. error = "none"
    BY <1>7 DEF Read, StateInv, InSession
  <2>2. error' = error /\ strikes' = 0 /\ owed' = FALSE /\ ended' = ended
    BY <1>7 DEF Read
  <2>3. owed' \in BOOLEAN /\ ended' \in BOOLEAN
    BY <2>2
  <2>4. strikes' \in 0..1 /\ ~(strikes' # 0) /\ error' # "idle"
    BY <2>1, <2>2
  <2> QED
    BY <2>3, <2>4
<1>8. CASE EndOfStream
  BY <1>8 DEF EndOfStream, Over, on_disconnect
<1>9. CASE Idle
  <2>1. CASE strikes = 0
    BY <1>9, <2>1 DEF Idle
  <2>2. CASE strikes # 0
    <3>1. owed /\ UNCHANGED <<owed, strikes, ended>> /\ phase' = "closing"
      BY <1>9, <2>2 DEF Idle, Over
    <3> QED
      BY <3>1
  <2> QED
    BY <2>1, <2>2
<1>10. CASE Probed
  BY <1>10 DEF Probed
<1>11. CASE Fails
  BY <1>11 DEF Fails, Over, on_disconnect
<1>12. CASE Closed
  BY <1>12 DEF Closed
<1>13. CASE Wake
  BY <1>13 DEF Wake
<1>14. CASE Stop
  BY <1>14 DEF Stop
<1>15. CASE UNCHANGED vars
  BY <1>15
<1> QED
  BY <1>1, <1>2, <1>3, <1>4, <1>5, <1>6, <1>7, <1>8, <1>9, <1>10, <1>11, <1>12,
     <1>13, <1>14, <1>15 DEF Next

LEMMA BackoffSteps == BackoffInv /\ [Next]_vars => BackoffInv'
<1> SUFFICES ASSUME BackoffInv, [Next]_vars PROVE BackoffInv'
  OBVIOUS
<1> USE DEF BackoffInv, client, state, vars
<1>1. CASE Second
  BY <1>1 DEF Second
<1>2. CASE ClockStep
  BY <1>2 DEF ClockStep
<1>3. CASE Start
  BY <1>3 DEF Start
<1>4. CASE Connect
  BY <1>4 DEF Connect
<1>5. CASE Greeted
  BY <1>5 DEF Greeted
<1>6. CASE Watching
  BY <1>6 DEF Watching
<1>7. CASE Read
  BY <1>7 DEF Read
<1>8. CASE EndOfStream
  BY <1>8 DEF EndOfStream, Over
<1>9. CASE Idle
  BY <1>9 DEF Idle, Over
<1>10. CASE Probed
  BY <1>10 DEF Probed
<1>11. CASE Fails
  BY <1>11 DEF Fails, Over
<1>12. CASE Closed
  BY <1>12 DEF Closed
<1>13. CASE Wake
  BY <1>13 DEF Wake, Doubled
<1>14. CASE Stop
  BY <1>14 DEF Stop
<1>15. CASE UNCHANGED vars
  BY <1>15
<1> QED
  BY <1>1, <1>2, <1>3, <1>4, <1>5, <1>6, <1>7, <1>8, <1>9, <1>10, <1>11, <1>12,
     <1>13, <1>14, <1>15 DEF Next

LEMMA ClientSteps == ClientInv /\ StateInv /\ [Next]_vars => ClientInv'
  BY SocketSteps, ProbeSteps, BackoffSteps DEF ClientInv

LEMMA StateSteps ==
    ClientInv /\ StateInv /\ AgesInv /\ [Next]_vars => StateInv' /\ AgesInv'
<1> SUFFICES ASSUME ClientInv, StateInv, AgesInv, [Next]_vars PROVE StateInv' /\ AgesInv'
  OBVIOUS
<1>1. ASSUME UNCHANGED <<state, steps>>,
             phase' = "stopped" \/ (phase \in InSession <=> phase' \in InSession),
             phase # "stopped"
      PROVE  StateInv' /\ AgesInv'
  BY <1>1 DEF StateInv, AgesInv, state, ages
<1>2. ASSUME NEW why \in {"closed", "idle", "failed"}, Over(why)
      PROVE  StateInv' /\ AgesInv'
  BY <1>2, LossSound DEF Over
<1>3. ASSUME fold, UNCHANGED <<connected, error, steps>>, phase \in InSession,
             phase' \in InSession
      PROVE  StateInv' /\ AgesInv'
  <2>1. connected
    BY <1>3 DEF StateInv, InSession
  <2> QED
    BY <1>3, <2>1, FoldSound DEF AgesInv
<1>4. CASE Second
  <2>1. /\ wall' \in [Offsets -> Int] /\ since' \in [Offsets -> 0..MaxAge]
        /\ steps = 0 => wall' = since'
    BY <1>4 DEF Second, AgesInv
  <2> QED
    BY <1>4, <2>1 DEF Second, StateInv, AgesInv, client
<1>5. CASE ClockStep
  <2>1. wall' \in [Offsets -> Int] /\ steps' \in Nat /\ steps' # 0 /\ since' = since
    BY <1>5 DEF ClockStep, AgesInv
  <2> QED
    BY <1>5, <2>1 DEF ClockStep, StateInv, AgesInv, client
<1>6. CASE Start
  BY <1>1, <1>6 DEF Start, InSession
<1>7. CASE Connect
  <2>1. ~connected
    BY <1>7 DEF Connect, StateInv, InSession
  <2> QED
    BY <1>7, <2>1, ConnectSound DEF Connect, on_connect, AgesInv, ages
<1>8. CASE Greeted
  <2>1. CASE fold
    BY <1>3, <1>8, <2>1 DEF Greeted, InSession
  <2>2. CASE UNCHANGED <<devices, got, mode, ages>>
    BY <1>1, <1>8, <2>2 DEF Greeted, InSession, state
  <2> QED
    BY <1>8, <2>1, <2>2 DEF Greeted
<1>9. CASE Watching
  BY <1>1, <1>9 DEF Watching, InSession
<1>10. CASE Read
  <2>1. CASE fold /\ UNCHANGED <<connected, error>>
    BY <1>3, <1>10, <2>1 DEF Read, InSession
  <2>2. CASE UNCHANGED state
    BY <1>1, <1>10, <2>2 DEF Read, InSession
  <2> QED
    BY <1>10, <2>1, <2>2 DEF Read
<1>11. CASE EndOfStream
  BY <1>2, <1>11 DEF EndOfStream
<1>12. CASE Idle
  BY <1>1, <1>2, <1>12 DEF Idle, InSession
<1>13. CASE Probed
  BY <1>1, <1>13 DEF Probed, InSession
<1>14. CASE Fails
  BY <1>2, <1>14 DEF Fails
<1>15. CASE Closed
  BY <1>1, <1>15 DEF Closed, InSession
<1>16. CASE Wake
  BY <1>1, <1>16 DEF Wake, InSession
<1>17. CASE Stop
  BY <1>1, <1>17 DEF Stop
<1>18. CASE UNCHANGED vars
  BY <1>18 DEF vars, StateInv, AgesInv, state, client, ages
<1> QED
  BY <1>4, <1>5, <1>6, <1>7, <1>8, <1>9, <1>10, <1>11, <1>12, <1>13, <1>14, <1>15, <1>16,
     <1>17, <1>18 DEF Next

LEMMA ShownSteps == GpsdInv /\ [Next]_vars => ShownInv'
<1> SUFFICES ASSUME GpsdInv, [Next]_vars PROVE ShownInv'
  OBVIOUS
<1>1. /\ ClientInv /\ StateInv /\ AgesInv /\ ShownInv
      /\ StateInv' /\ AgesInv' /\ ClientInv'
  BY ClientSteps, StateSteps DEF GpsdInv
<1>2. ASSUME Publish, phase' \in {"watching", "closing", "reading", "probing"}
      PROVE  ShownInv'
  BY <1>1, <1>2, PublishSound
<1>3. steps' = 0 => steps = 0
  BY <1>1 DEF Next, AgesInv, Second, ClockStep, Start, Connect, Greeted, Watching, Read,
     EndOfStream, Idle, Probed, Fails, Closed, Wake, Stop, Over, vars
<1>4. ASSUME UNCHANGED shown, phase' \notin {"reading", "probing"},
             phase' \in {"off", "connecting", "greeting", "closing", "asleep"}
                => phase \in {"off", "connecting", "closing", "asleep"}
      PROVE  ShownInv'
  <2>1. phase' \in {"off", "connecting", "greeting", "closing", "asleep"}
           => ~published.connected
    BY <1>1, <1>4 DEF ShownInv
  <2> QED
    BY <1>1, <1>3, <1>4, <2>1, NothingPublished
<1>5. ASSUME UNCHANGED shown, UNCHANGED <<connected, error, devices, got, mode>>,
             phase' = phase \/ (phase \in {"reading", "probing"}
                                /\ phase' \in {"reading", "probing"})
      PROVE  ShownInv'
  <2>1. phase' \in {"off", "connecting", "greeting", "closing", "asleep"}
           => ~published.connected
    BY <1>1, <1>5 DEF ShownInv
  <2> QED
    BY <1>1, <1>3, <1>5, <2>1, NothingPublished
<1>6. CASE Second \/ ClockStep \/ UNCHANGED vars
  BY <1>5, <1>6 DEF Second, ClockStep, vars, client, state
<1>7. CASE Start \/ Connect \/ Closed \/ Wake \/ Stop
  BY <1>4, <1>7 DEF Start, Connect, Closed, Wake, Stop
<1>8. CASE Greeted
  BY <1>2, <1>4, <1>8 DEF Greeted
<1>9. CASE Watching
  BY <1>2, <1>9 DEF Watching
<1>10. CASE Read
  BY <1>2, <1>5, <1>10 DEF Read, state
<1>11. CASE EndOfStream \/ Fails
  BY <1>2, <1>11 DEF EndOfStream, Fails, Over
<1>12. CASE Idle
  BY <1>2, <1>5, <1>12 DEF Idle, Over, state
<1>13. CASE Probed
  BY <1>5, <1>13 DEF Probed, state
<1> QED
  BY <1>6, <1>7, <1>8, <1>9, <1>10, <1>11, <1>12, <1>13 DEF Next

LEMMA Always == Spec => []GpsdInv
<1>1. GpsdInv /\ [Next]_vars => GpsdInv'
  BY ClientSteps, StateSteps, ShownSteps DEF GpsdInv
<1> QED
  BY <1>1, Initially, PTL DEF Spec
-----------------------------------------------------------------------------
\* What the page, the API and the broker are shown is of one connection, says when
\* gpsd is lost, is never behind the state while lines are read, and is the same to
\* all who ask, whatever gpsd sends and wherever it stops.
THEOREM SnapshotAlwaysHonest == Spec => []SnapshotHonest
<1>1. ASSUME GpsdInv PROVE SnapshotHonest
  <2> USE <1>1 DEF GpsdInv
  <2>1. TypeOK
    <3>1. {writer, connected, owed, ended} \subseteq BOOLEAN
      BY DEF ClientInv, SocketInv, ProbeInv, StateInv
    <3>2. sockets \in 0..1
      BY DEF ClientInv, SocketInv
    <3> QED
      BY <3>1, <3>2 DEF TypeOK, ClientInv, SocketInv, ProbeInv, BackoffInv,
         Phases, StateInv, AgesInv, ShownInv, Published, Offset
  <2>2. LossShows
    BY DEF LossShows, ShownInv, Published
  <2>3. OneAnswer
    BY DEF OneAnswer, get_health, build_state, build_position, _gps_aged, ShownInv,
       Published, OneConnectionOnly, Modes, Fixes
  <2> QED
    BY <2>1, <2>2, <2>3 DEF SnapshotHonest, ShownInv, Published
<1> QED
  BY <1>1, Always, PTL

\* PPS is shown whenever it is recent and TOFF when only it is, for any limit of
\* recency, as long as the clock is not stepped; and neither outlives its connection.
THEOREM OffsetAlwaysPreferred == Spec => []OffsetPreferred
<1>1. GpsdInv => OffsetPreferred
  BY DEF GpsdInv, ShownInv, Offset
<1> QED
  BY <1>1, Always, PTL

\* However often gpsd is lost no socket is left open, and a session is given up for
\* being idle only when a probe went unanswered.
THEOREM SessionsAlwaysSound == Spec => []SessionsSound
<1>1. GpsdInv => SessionsSound
  BY DEF GpsdInv, ClientInv, SocketInv, ProbeInv, SessionsSound, OneSocket, QuietIsKept
<1> QED
  BY <1>1, Always, PTL
=============================================================================
