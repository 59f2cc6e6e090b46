--------------------------- MODULE MCBroadcaster ---------------------------
(* Small instances of Broadcaster for TLC. *)
EXTENDS Broadcaster

CONSTANTS c1, c2

MCClients == {c1, c2}
OneResponsive == {c1}
=============================================================================
