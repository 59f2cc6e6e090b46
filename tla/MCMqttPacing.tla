---------------------------- MODULE MCMqttPacing ----------------------------
(* Small instances of MqttPacing for TLC. *)
EXTENDS MqttPacing

\* Drift within the deadband, and jumps beyond it.
MCValues == {0, 1, 2}
\* chrony steps the clock forwards or backwards by more than the floor.
MCClockSteps == {-8, 8}
=============================================================================
