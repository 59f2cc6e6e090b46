----------------------------- MODULE FreshFeed -----------------------------
(***************************************************************************)
(* What the stream fan-out promises, without queues, generators or timers: *)
(* a bounded number of readers, each with a backlog of event numbers.  An  *)
(* event reaches the backlog of every reader that wants it at once; a      *)
(* reader gets the oldest event of its backlog; only the oldest event is   *)
(* ever lost, and only from a backlog that is full.  Emitting is always    *)
(* possible: no reader can hold the producers back.                        *)
(***************************************************************************)
EXTENDS Naturals, FiniteSets

CONSTANTS
    Readers,      \* who may listen
    Topics,       \* what an event may be about
    MaxReaders,   \* how many may listen at once
    Capacity      \* size of a full backlog

VARIABLES
    emitted,      \* how many events were emitted, their numbers are 1..emitted
    listening,    \* the readers that take part
    interests,    \* the topics of each reader
    backlog       \* the events each reader still has to get

vars == <<emitted, listening, interests, backlog>>

Oldest(b) == CHOOSE i \in b : \A j \in b : i <= j

Push(b, i) ==
    (IF Cardinality(b) >= Capacity THEN b \ {Oldest(b)} ELSE b) \cup {i}

Init ==
    /\ emitted = 0
    /\ listening = {}
    /\ interests = [r \in Readers |-> {}]
    /\ backlog = [r \in Readers |-> {}]

Join(r) ==
    /\ r \notin listening
    /\ Cardinality(listening) < MaxReaders
    /\ listening' = listening \cup {r}
    /\ \E topics \in SUBSET Topics :
          interests' = [interests EXCEPT ![r] = topics]
    /\ UNCHANGED <<emitted, backlog>>

Leave(r) ==
    /\ r \in listening
    /\ listening' = listening \ {r}
    /\ interests' = [interests EXCEPT ![r] = {}]
    /\ backlog' = [backlog EXCEPT ![r] = {}]
    /\ UNCHANGED emitted

Emit(t) ==
    /\ emitted' = emitted + 1
    /\ backlog' = [r \in Readers |->
                      IF r \in listening /\ t \in interests[r]
                      THEN Push(backlog[r], emitted + 1)
                      ELSE backlog[r]]
    /\ UNCHANGED <<listening, interests>>

Get(r) ==
    /\ backlog[r] # {}
    /\ backlog' = [backlog EXCEPT ![r] = @ \ {Oldest(@)}]
    /\ UNCHANGED <<emitted, listening, interests>>

Next ==
    \/ \E t \in Topics : Emit(t)
    \/ \E r \in Readers : Join(r) \/ Leave(r) \/ Get(r)

Spec == Init /\ [][Next]_vars
=============================================================================
