------------------------------ MODULE MCChrony ------------------------------
(* Small instances of Chrony for TLC. *)
EXTENDS Chrony

\* Slow and synchronised, fast and on its own with a stratum but no leap status.
SlowAndFast ==
    {[offset |-> -1, stratum |-> 1, leap |-> "normal"],
     [offset |-> 2, stratum |-> 10, leap |-> "not synchronised"]}
=============================================================================
