----------------------------- MODULE MCRefresh -----------------------------
(* Small instances of Refresh for TLC. *)
EXTENDS Refresh

\* Off, the default, and the longest choice, beyond the backoff's cap.
OffDefaultLong == {0, 2, 60}
=============================================================================
