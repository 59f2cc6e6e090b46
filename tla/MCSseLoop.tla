----------------------------- MODULE MCSseLoop -----------------------------
(* Small instances of SseLoop for TLC. *)
EXTENDS SseLoop

\* The intervals of the code in seconds, with status events and without, and
\* intervals shrunk as the tests shrink them, so that silence is reached.
MCSettings ==
    {[stats |-> 10, keepalive |-> 15, status |-> 3, wants_status |-> TRUE],
     [stats |-> 6, keepalive |-> 3, status |-> 1, wants_status |-> FALSE]}
=============================================================================
