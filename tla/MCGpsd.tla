------------------------------- MODULE MCGpsd -------------------------------
(* Small instances of Gpsd for TLC. *)
EXTENDS Gpsd

EitherWay == {-3, 3}
=============================================================================
