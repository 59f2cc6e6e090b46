---------------------------- MODULE MCClockSync ----------------------------
(* Small instances of ClockSync for TLC. *)
EXTENDS ClockSync

\* A step the slack can hide, and one that makes either sign of it nonsense.
SmallAndLarge == {-3, 40}
=============================================================================
