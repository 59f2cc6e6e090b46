------------------------------- MODULE MCPage -------------------------------
(* Small instances of Page for TLC. *)
EXTENDS Page

\* Too small, not a cap, too large.
MCCaps == {-1, 0, 4}
=============================================================================
