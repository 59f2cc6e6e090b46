------------------------------ MODULE MCStore ------------------------------
(* Small instances of Store for TLC. *)
EXTENDS Store

\* chrony steps the clock back by more than the rate window.
Backward == {-5}
=============================================================================
