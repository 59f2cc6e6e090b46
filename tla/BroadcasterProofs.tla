------------------------- MODULE BroadcasterProofs -------------------------
(***************************************************************************)
(* Theorems about Broadcaster, for any number of clients, any cap, any     *)
(* queue size and any number of events.                                    *)
(***************************************************************************)
EXTENDS Broadcaster, SequenceTheorems, FiniteSetTheorems, FunctionTheorems,
        TLAPS

USE DEF Open, Streaming, States

LEMMA Limits == /\ max_clients \in Nat /\ max_clients >= 1
                /\ queue_size \in Nat /\ queue_size >= 1
  BY ConstantsAssumption DEF max_clients, queue_size, ConstantsAssumption

\* Taking moves one item from the queue's count to the taken count; a drop
\* to make room for an accepted item leaves the length alone.
LEMMA Balance ==
  \A t, d, l \in Int : /\ t + d + l = (t + 1) + d + (l - 1)
                       /\ (t + d + l) + 1 = t + (d + 1) + l
  OBVIOUS

\* What appending does to a queue.
LEMMA AppendFacts ==
  ASSUME NEW q \in Seq(Nat), NEW i \in Nat
  PROVE  /\ Append(q, i) \in Seq(Nat)
         /\ Len(q) \in Nat
         /\ Len(Append(q, i)) = Len(q) + 1
         /\ \A k \in 1..Len(q) : Append(q, i)[k] = q[k]
         /\ Append(q, i)[Len(q) + 1] = i
  BY AppendProperties, LenProperties

\* What taking the front item does to a queue.
LEMMA TailFacts ==
  ASSUME NEW q \in Seq(Nat), q # <<>>
  PROVE  /\ Tail(q) \in Seq(Nat)
         /\ Len(q) \in Nat /\ Len(q) >= 1
         /\ Len(Tail(q)) = Len(q) - 1
         /\ \A k \in 1..(Len(q) - 1) : Tail(q)[k] = q[k + 1]
         /\ Head(q) = q[1] /\ q[1] \in Nat
  BY HeadTailProperties, LenProperties, ElementOfSeq
-----------------------------------------------------------------------------
(* Types *)

\* Every variable keeps its type: counters and ids are naturals, queues hold
\* positions of the event log, whatever the clients do.
THEOREM TypeCorrect == Spec => []TypeOK
<1>1. Init => TypeOK
  BY DEF Init, TypeOK
<1>2. TypeOK /\ [Next]_vars => TypeOK'
  <2> SUFFICES ASSUME TypeOK, [Next]_vars PROVE TypeOK'
    OBVIOUS
  <2> USE DEF TypeOK, counters, history
  <2>1. ASSUME NEW e \in Events, publish(e) PROVE TypeOK'
    <3>1. log' \in Seq(Events)
      BY <2>1 DEF publish
    <3>2. ASSUME NEW c \in Clients
          PROVE  /\ queue'[c] \in Seq(Nat) /\ sent'[c] \in Nat
                 /\ dropped'[c] \in Nat /\ horizon'[c] \in Nat
      <4>1. Len(log) + 1 \in Nat
        OBVIOUS
      <4>2. CASE Full(c)
        <5>1. queue[c] # <<>>
          BY <4>2, Limits DEF Full
        <5>2. Tail(queue[c]) \in Seq(Nat) /\ Head(queue[c]) \in Nat
          BY <5>1, TailFacts
        <5> QED  BY <2>1, <4>1, <4>2, <5>2 DEF publish, Full, Enqueue
      <4>3. CASE ~Full(c)
        BY <2>1, <4>1, <4>3 DEF publish, Full, Enqueue
      <4> QED  BY <4>2, <4>3
    <3>3. /\ queue' \in [Clients -> Seq(Nat)] /\ sent' \in [Clients -> Nat]
          /\ dropped' \in [Clients -> Nat] /\ horizon' \in [Clients -> Nat]
      BY <2>1, <3>2 DEF publish
    <3> QED  BY <2>1, <3>1, <3>3 DEF publish
  <2>2. ASSUME NEW c \in Clients, Request(c) PROVE TypeOK'
    <3>1. ASSUME NEW k \in {"sse", "raw"}, NEW wanted \in SUBSET Events,
                 subscribe(c, k, wanted)
          PROVE  TypeOK'
      <4>1. /\ subs' \in SUBSET Nat /\ next_id' \in Nat
            /\ sid' \in [Clients -> Nat]
        BY <3>1 DEF subscribe, HasRoom, NewId
      <4>2. /\ kind' \in [Clients -> {"sse", "raw"}]
            /\ wants' \in [Clients -> SUBSET Events]
            /\ pc' \in [Clients -> States]
        BY <3>1 DEF subscribe, HasRoom, NewId
      <4>3. <<>> \in Seq(Nat) /\ Len(log) \in Nat
        OBVIOUS
      <4>4. /\ queue' \in [Clients -> Seq(Nat)] /\ sent' \in [Clients -> Nat]
            /\ dropped' \in [Clients -> Nat] /\ taken' \in [Clients -> Nat]
            /\ horizon' \in [Clients -> Nat]
        BY <3>1, <4>3 DEF subscribe, HasRoom, NewId
      <4> QED  BY <3>1, <4>1, <4>2, <4>4 DEF subscribe, HasRoom, NewId
    <3>2. Refuse(c) => TypeOK'
      BY DEF Refuse
    <3>3. {"nmea"} \in SUBSET Events
      BY ConstantsAssumption DEF ConstantsAssumption
    <3> QED  BY <2>2, <3>1, <3>2, <3>3
             DEF Request, get_stream, get_stream_nmea_text, ParsedEvents
  <2>3. ASSUME NEW c \in Clients, Take(c) PROVE TypeOK'
    <3>1. Tail(queue[c]) \in Seq(Nat) /\ Head(queue[c]) \in Nat
      BY <2>3, TailFacts DEF Take
    <3>2. /\ queue' \in [Clients -> Seq(Nat)]
          /\ horizon' \in [Clients -> Nat]
      BY <2>3, <3>1 DEF Take
    <3>3. taken[c] + 1 \in Nat
      OBVIOUS
    <3>4. taken' \in [Clients -> Nat]
      BY <2>3, <3>3 DEF Take
    <3>5. pc' \in [Clients -> States]
      BY <2>3 DEF Take
    <3> QED  BY <2>3, <3>2, <3>4, <3>5 DEF Take
  <2>4. ASSUME NEW c \in Clients,
               Retry(c) \/ Start(c) \/ Timer(c) \/ Written(c) \/ HangUp(c)
        PROVE  TypeOK'
    BY <2>4 DEF Retry, Start, Timer, Written, HangUp
  <2>5. ASSUME NEW c \in Clients, Cancel(c) \/ Probe(c) \/ AbortUnstarted(c)
        PROVE  TypeOK'
    <3>1. Close(c) /\ subs' \in SUBSET Nat
      BY <2>5 DEF Cancel, Probe, AbortUnstarted, unsubscribe
    <3>4. leaked' \in SUBSET Nat
      <4>1. CASE Cancel(c) \/ Probe(c)
        BY <4>1 DEF Cancel, Probe, unsubscribe
      <4>2. CASE AbortUnstarted(c)
        <5>1. sid[c] \in Nat /\ leaked' = leaked \cup {sid[c]}
          BY <4>2 DEF AbortUnstarted
        <5> QED  BY <5>1
      <4> QED  BY <2>5, <4>1, <4>2
    <3>2. /\ pc' \in [Clients -> States] /\ kind' \in [Clients -> {"sse", "raw"}]
          /\ sid' \in [Clients -> Nat] /\ wants' \in [Clients -> SUBSET Events]
      BY <3>1 DEF Close
    <3>3. /\ queue' \in [Clients -> Seq(Nat)] /\ sent' \in [Clients -> Nat]
          /\ dropped' \in [Clients -> Nat] /\ taken' \in [Clients -> Nat]
          /\ horizon' \in [Clients -> Nat]
      <4>1. <<>> \in Seq(Nat)
        OBVIOUS
      <4> QED  BY <3>1, <4>1 DEF Close
    <3> QED  BY <3>1, <3>2, <3>3, <3>4 DEF Close
  <2>6. CASE UNCHANGED vars
    BY <2>6 DEF vars
  <2> QED  BY <2>1, <2>2, <2>3, <2>4, <2>5, <2>6 DEF Next
<1> QED  BY <1>1, <1>2, PTL DEF Spec
-----------------------------------------------------------------------------
(* Slots.  The inductive invariant adds that no id in use exceeds next_id, *)
(* so that the next subscriber's id is new.                                *)

IdsGiven ==
    /\ \A i \in subs : i <= next_id
    /\ \A c \in Clients : sid[c] <= next_id

SlotInv == ClientCap /\ OwnSlot /\ IdsGiven

\* The steps that neither open nor close a stream.
LEMMA QuietStep ==
  ASSUME TypeOK, NEW c \in Clients,
         \/ \E e \in Events : publish(e)
         \/ Refuse(c) /\ pc[c] = "idle"
         \/ Retry(c) \/ Start(c) \/ Take(c) \/ Timer(c) \/ Written(c)
         \/ HangUp(c)
         \/ UNCHANGED vars
  PROVE  /\ UNCHANGED <<subs, next_id, sid, leaked>>
         /\ \A d \in Clients : pc'[d] \in Open <=> pc[d] \in Open
<1> USE DEF TypeOK
<1>1. CASE \/ Refuse(c) /\ pc[c] = "idle"
           \/ Retry(c) \/ Start(c) \/ Timer(c) \/ Written(c)
  BY <1>1 DEF Refuse, Retry, Start, Timer, Written
<1>2. CASE Take(c)
  BY <1>2 DEF Take
<1>3. CASE (\E e \in Events : publish(e)) \/ HangUp(c) \/ UNCHANGED vars
  BY <1>3 DEF publish, HangUp, vars
<1> QED  BY <1>1, <1>2, <1>3

\* Every step is quiet, opens a stream or closes one.
LEMMA StepCases ==
  ASSUME TypeOK, [Next]_vars
  PROVE  \/ /\ UNCHANGED <<subs, next_id, sid, leaked>>
            /\ \A d \in Clients : pc'[d] \in Open <=> pc[d] \in Open
         \/ \E c \in Clients, k \in {"sse", "raw"}, w \in SUBSET Events :
               pc[c] = "idle" /\ subscribe(c, k, w)
         \/ \E c \in Clients : /\ pc[c] \in Open /\ Close(c)
                               /\ \/ unsubscribe(c)
                                  \/ subs' = subs /\ leaked' = leaked \cup {sid[c]}
<1>1. ASSUME NEW c \in Clients, Request(c)
      PROVE  \/ Refuse(c) /\ pc[c] = "idle"
             \/ \E k \in {"sse", "raw"}, w \in SUBSET Events :
                   pc[c] = "idle" /\ subscribe(c, k, w)
  <2>1. {"nmea"} \in SUBSET Events
    BY ConstantsAssumption DEF ConstantsAssumption
  <2> QED  BY <1>1, <2>1 DEF Request, get_stream, get_stream_nmea_text,
                             ParsedEvents
<1>2. ASSUME NEW c \in Clients, Cancel(c) \/ Probe(c) \/ AbortUnstarted(c)
      PROVE  /\ pc[c] \in Open /\ Close(c)
             /\ \/ unsubscribe(c)
                \/ subs' = subs /\ leaked' = leaked \cup {sid[c]}
  BY <1>2 DEF Cancel, Probe, AbortUnstarted
<1>3. CASE \E c \in Clients : Request(c) \/ Cancel(c) \/ Probe(c)
                               \/ AbortUnstarted(c)
  <2> PICK c \in Clients : Request(c) \/ Cancel(c) \/ Probe(c)
                               \/ AbortUnstarted(c)
    BY <1>3
  <2>1. CASE Refuse(c) /\ pc[c] = "idle"
    BY <2>1, QuietStep
  <2> QED  BY <1>1, <1>2, <2>1
<1>4. CASE \E c \in Clients : Retry(c) \/ Start(c) \/ Take(c) \/ Timer(c)
                               \/ Written(c) \/ HangUp(c)
  BY <1>4, QuietStep
<1>5. CASE \E e \in Events : publish(e)
  BY <1>5 DEF publish
<1>6. CASE UNCHANGED vars
  BY <1>6 DEF vars
<1> QED  BY <1>3, <1>4, <1>5, <1>6 DEF Next

LEMMA SlotStep == TypeOK /\ SlotInv /\ [Next]_vars => SlotInv'
<1> SUFFICES ASSUME TypeOK, SlotInv, [Next]_vars PROVE SlotInv'
  OBVIOUS
<1> USE DEF TypeOK, SlotInv, ClientCap, OwnSlot, IdsGiven
<1>1. CASE /\ UNCHANGED <<subs, next_id, sid>>
           /\ \A d \in Clients : pc'[d] \in Open <=> pc[d] \in Open
  BY <1>1
<1>2. ASSUME NEW c \in Clients, NEW k \in {"sse", "raw"},
             NEW w \in SUBSET Events, pc[c] = "idle", subscribe(c, k, w)
      PROVE  SlotInv'
  <2>1. next_id + 1 \notin subs /\ next_id + 1 \in Nat
    OBVIOUS
  <2>2. subs' = subs \cup {next_id + 1} /\ next_id' = next_id + 1
    BY <1>2 DEF subscribe, HasRoom, NewId
  <2>3. /\ IsFiniteSet(subs')
        /\ Cardinality(subs') = Cardinality(subs) + 1
        /\ Cardinality(subs) \in Nat
    BY <2>1, <2>2, FS_AddElement, FS_CardinalityType
  <2>4. ClientCap'
    BY <1>2, <2>3, Limits DEF subscribe, HasRoom, NewId
  <2>5. /\ sid' = [sid EXCEPT ![c] = next_id + 1]
        /\ pc' = [pc EXCEPT ![c] = "accepted"]
    BY <1>2 DEF subscribe, HasRoom, NewId
  <2>6. IdsGiven'
    <3>1. ASSUME NEW i \in subs' PROVE i <= next_id'
      BY <2>2, <3>1
    <3>2. ASSUME NEW d \in Clients PROVE sid'[d] <= next_id'
      BY <2>2, <2>5
    <3> QED  BY <3>1, <3>2
  <2>7. OwnSlot'
    <3> SUFFICES ASSUME NEW d \in Clients, pc'[d] \in Open
                 PROVE  /\ sid'[d] \in subs'
                        /\ \A f \in Clients \ {d} :
                              pc'[f] \in Open => sid'[f] # sid'[d]
      OBVIOUS
    <3>1. \A f \in Clients : f # c => sid'[f] = sid[f] /\ pc'[f] = pc[f]
      BY <2>5
    <3>2. \A f \in Clients : sid[f] # next_id + 1
      OBVIOUS
    <3>3. sid'[c] = next_id + 1
      BY <2>5
    <3>4. CASE d = c
      BY <2>2, <3>1, <3>2, <3>3, <3>4
    <3>5. CASE d # c
      BY <2>2, <3>1, <3>2, <3>3, <3>5
    <3> QED  BY <3>4, <3>5
  <2> QED  BY <2>4, <2>6, <2>7
<1>3. ASSUME NEW c \in Clients, pc[c] \in Open, Close(c),
             unsubscribe(c) \/ UNCHANGED subs
      PROVE  SlotInv'
  <2>1. subs' \subseteq subs
    BY <1>3 DEF unsubscribe
  <2>2. IsFiniteSet(subs') /\ Cardinality(subs') <= Cardinality(subs)
    BY <2>1, FS_Subset
  <2>3. Cardinality(subs) \in Nat /\ Cardinality(subs') \in Nat
    BY <2>2, FS_CardinalityType
  <2>4. ClientCap'
    BY <2>2, <2>3, Limits
  <2>5. /\ sid' = [sid EXCEPT ![c] = 0] /\ pc' = [pc EXCEPT ![c] = "idle"]
        /\ next_id' = next_id
    BY <1>3 DEF Close
  <2>6. IdsGiven'
    BY <2>1, <2>5
  <2>7. OwnSlot'
    BY <1>3, <2>5 DEF unsubscribe
  <2> QED  BY <2>4, <2>6, <2>7
<1> QED  BY <1>1, <1>2, <1>3, StepCases

\* The client cap holds in every reachable state, and every open stream holds
\* a slot of its own, for any cap and any number of clients.
THEOREM CapAndOwnership == Spec => [](ClientCap /\ OwnSlot)
<1>1. Init => SlotInv
  BY Limits, FS_EmptySet
     DEF Init, SlotInv, ClientCap, OwnSlot, IdsGiven
<1>2. SlotInv => ClientCap /\ OwnSlot
  BY DEF SlotInv
<1> QED  BY <1>1, <1>2, SlotStep, TypeCorrect, PTL DEF Spec

\* Every registered subscriber belongs to an open stream or to a response that
\* died before its body was first pulled: no other path loses a slot.
THEOREM NoSlotLeak == Spec => []SlotsOwned
<1>1. Init => SlotsOwned
  BY DEF Init, SlotsOwned
<1>2. TypeOK /\ SlotInv /\ SlotsOwned /\ [Next]_vars => SlotsOwned'
  <2> SUFFICES ASSUME TypeOK, SlotInv, SlotsOwned, [Next]_vars,
                      NEW i \in subs' \ leaked'
               PROVE  \E c \in Clients : pc'[c] \in Open /\ sid'[c] = i
    BY DEF SlotsOwned
  <2> USE DEF TypeOK, SlotsOwned
  <2>1. CASE /\ UNCHANGED <<subs, next_id, sid, leaked>>
             /\ \A d \in Clients : pc'[d] \in Open <=> pc[d] \in Open
    BY <2>1
  <2>2. ASSUME NEW c \in Clients, NEW k \in {"sse", "raw"},
               NEW w \in SUBSET Events, pc[c] = "idle", subscribe(c, k, w)
        PROVE  \E d \in Clients : pc'[d] \in Open /\ sid'[d] = i
    BY <2>2 DEF subscribe, HasRoom, NewId
  <2>3. ASSUME NEW c \in Clients, pc[c] \in Open, Close(c), unsubscribe(c)
        PROVE  \E d \in Clients : pc'[d] \in Open /\ sid'[d] = i
    BY <2>3 DEF Close, unsubscribe
  <2>4. CASE \E c \in Clients, k \in {"sse", "raw"}, w \in SUBSET Events :
               pc[c] = "idle" /\ subscribe(c, k, w)
    BY <2>2, <2>4
  <2>6. ASSUME NEW c \in Clients, Close(c), subs' = subs,
               leaked' = leaked \cup {sid[c]}
        PROVE  \E d \in Clients : pc'[d] \in Open /\ sid'[d] = i
    <3>1. i \in subs \ leaked /\ i # sid[c]
      BY <2>6
    <3>2. PICK d \in Clients : pc[d] \in Open /\ sid[d] = i
      BY <3>1
    <3> QED  BY <2>6, <3>1, <3>2 DEF Close
  <2>5. CASE \E c \in Clients : /\ pc[c] \in Open /\ Close(c)
                               /\ \/ unsubscribe(c)
                                  \/ subs' = subs /\ leaked' = leaked \cup {sid[c]}
    BY <2>3, <2>5, <2>6
  <2> QED  BY <2>1, <2>4, <2>5, StepCases
<1>3. Init => SlotInv
  BY Limits, FS_EmptySet
     DEF Init, SlotInv, ClientCap, OwnSlot, IdsGiven
<1> QED  BY <1>1, <1>2, <1>3, SlotStep, TypeCorrect, PTL DEF Spec

\* What the fan-out keeps of its subscribers is sound for any clients, events
\* and limits: types, the cap, ownership, and no slot without a stream.
THEOREM SlotsAlwaysSound == Spec => []SlotsSound
<1>1. TypeOK /\ (ClientCap /\ OwnSlot) /\ SlotsOwned => SlotsSound
  BY DEF SlotsSound
<1> QED  BY <1>1, TypeCorrect, CapAndOwnership, NoSlotLeak, PTL
-----------------------------------------------------------------------------
(* Queues.  The three invariants are proved together: order is what makes  *)
(* the head of a full queue the oldest wanted event.                       *)

\* q is in publication order and lies between the positions h and n.
Ordered(q, h, n) ==
    \A k \in 1..Len(q) : /\ h < q[k] /\ q[k] <= n
                         /\ \A j \in 1..(k - 1) : q[j] < q[k]

\* Every position of W above h, up to n, is in q.
Covers(q, h, n, W) ==
    \A i \in (h + 1)..n : i \in W => \E k \in 1..Len(q) : q[k] = i

WantedAt(c) == {i \in 1..Len(log) : log[i] \in wants[c]}

QueueOf(c) ==
    /\ Len(queue[c]) <= queue_size
    /\ horizon[c] <= Len(log)
    /\ Ordered(queue[c], horizon[c], Len(log))
    /\ pc[c] \in Open =>
          /\ sent[c] = taken[c] + dropped[c] + Len(queue[c])
          /\ Covers(queue[c], horizon[c], Len(log), WantedAt(c))

QueueInv == \A c \in Clients : QueueOf(c)

LEMMA QueueParts == TypeOK /\ QueueInv => QueuesSound
<1> SUFFICES ASSUME TypeOK, QueueInv PROVE QueuesSound
  OBVIOUS
<1>1. \A c \in Clients : DOMAIN queue[c] = 1..Len(queue[c])
  BY LenProperties DEF TypeOK
<1>2. Accounting /\ InOrder
  BY <1>1 DEF QueueInv, QueueOf, Ordered, Accounting, InOrder
<1>3. Fresh
  <2> SUFFICES ASSUME NEW c \in Clients, pc[c] \in Open,
                      NEW i \in (horizon[c] + 1)..Len(log),
                      log[i] \in wants[c]
               PROVE  \E k \in DOMAIN queue[c] : queue[c][k] = i
    BY DEF Fresh
  <2>1. horizon[c] \in Nat /\ Len(log) \in Nat
    BY LenProperties DEF TypeOK
  <2>2. i \in WantedAt(c)
    BY <2>1 DEF WantedAt
  <2> QED  BY <1>1, <2>2 DEF QueueInv, QueueOf, Covers
<1> QED  BY <1>2, <1>3 DEF QueuesSound

\* A queue that grows by the newest position stays ordered and complete.
LEMMA Grow ==
  ASSUME NEW q \in Seq(Nat), NEW h \in Nat, NEW n \in Nat, NEW W, NEW X,
         h <= n, Ordered(q, h, n)
  PROVE  /\ Ordered(Append(q, n + 1), h, n + 1)
         /\ Covers(q, h, n, W) /\ (\A i \in 1..n : i \in X => i \in W)
              => Covers(Append(q, n + 1), h, n + 1, X)
<1>1. PICK r : r = Append(q, n + 1)
  OBVIOUS
<1>2. /\ Len(q) \in Nat /\ Len(r) = Len(q) + 1
      /\ \A k \in 1..Len(q) : r[k] = q[k]
      /\ r[Len(q) + 1] = n + 1
  BY <1>1, AppendFacts
<1>3. \A k \in 1..Len(q) : q[k] \in Nat
  BY ElementOfSeq
<1>4. ASSUME NEW k \in 1..Len(r)
      PROVE  /\ h < r[k] /\ r[k] <= n + 1
             /\ \A j \in 1..(k - 1) : r[j] < r[k]
  <2>1. CASE k \in 1..Len(q)
    <3>1. \A j \in 1..(k - 1) : j \in 1..Len(q)
      BY <1>2, <2>1
    <3> QED  BY <1>2, <1>3, <2>1, <3>1 DEF Ordered
  <2>2. CASE k = Len(q) + 1
    <3>1. \A j \in 1..(k - 1) : j \in 1..Len(q)
      BY <1>2, <2>2
    <3> QED  BY <1>2, <1>3, <2>2, <3>1 DEF Ordered
  <2> QED  BY <1>2, <2>1, <2>2
<1>5. ASSUME Covers(q, h, n, W), \A i \in 1..n : i \in X => i \in W,
             NEW i \in (h + 1)..(n + 1), i \in X
      PROVE  \E k \in 1..Len(r) : r[k] = i
  <2>1. CASE i = n + 1
    BY <1>2, <2>1
  <2>2. CASE i # n + 1
    <3>1. i \in (h + 1)..n /\ i \in 1..n
      BY <2>2
    <3>2. PICK k \in 1..Len(q) : q[k] = i
      BY <1>5, <3>1 DEF Covers
    <3> QED  BY <1>2, <3>2
  <2> QED  BY <2>1, <2>2
<1> QED  BY <1>1, <1>4, <1>5 DEF Ordered, Covers

\* A queue that loses its front stays ordered and complete above it.
LEMMA Shift ==
  ASSUME NEW q \in Seq(Nat), q # <<>>, NEW h \in Nat, NEW n \in Nat, NEW W,
         Ordered(q, h, n)
  PROVE  /\ Head(q) \in Nat /\ h < Head(q) /\ Head(q) <= n
         /\ Ordered(Tail(q), Head(q), n)
         /\ Covers(q, h, n, W) => Covers(Tail(q), Head(q), n, W)
<1>1. PICK r : r = Tail(q)
  OBVIOUS
<1>2. /\ Len(q) \in Nat /\ Len(q) >= 1 /\ Len(r) = Len(q) - 1
      /\ \A k \in 1..(Len(q) - 1) : r[k] = q[k + 1]
      /\ Head(q) = q[1] /\ q[1] \in Nat
  BY <1>1, TailFacts
<1>3. \A k \in 1..Len(q) : q[k] \in Nat
  BY ElementOfSeq
<1>4. h < q[1] /\ q[1] <= n
  BY <1>2 DEF Ordered
<1>5. ASSUME NEW k \in 1..Len(r)
      PROVE  /\ q[1] < r[k] /\ r[k] <= n
             /\ \A j \in 1..(k - 1) : r[j] < r[k]
  <2>1. k + 1 \in 1..Len(q) /\ 1 \in 1..((k + 1) - 1) /\ k \in 1..(Len(q) - 1)
    BY <1>2
  <2>2. q[1] < q[k + 1] /\ q[k + 1] <= n
    BY <2>1 DEF Ordered
  <2>3. ASSUME NEW j \in 1..(k - 1) PROVE r[j] < r[k]
    <3>1. j + 1 \in 1..((k + 1) - 1) /\ j \in 1..(Len(q) - 1)
      BY <1>2, <2>1
    <3>2. q[j + 1] < q[k + 1]
      BY <2>1, <3>1 DEF Ordered
    <3> QED  BY <1>2, <2>1, <3>1, <3>2
  <2> QED  BY <1>2, <2>1, <2>2, <2>3
<1>6. ASSUME Covers(q, h, n, W), NEW i \in (q[1] + 1)..n, i \in W
      PROVE  \E k \in 1..Len(r) : r[k] = i
  <2>1. i \in (h + 1)..n /\ i # q[1]
    BY <1>2, <1>4
  <2>2. PICK k \in 1..Len(q) : q[k] = i
    BY <1>6, <2>1 DEF Covers
  <2>3. k - 1 \in 1..(Len(q) - 1) /\ (k - 1) + 1 = k
    BY <1>2, <2>1, <2>2
  <2>4. r[k - 1] = i /\ k - 1 \in 1..Len(r)
    BY <1>2, <2>2, <2>3
  <2> QED  BY <2>4
<1> QED  BY <1>1, <1>2, <1>4, <1>5, <1>6 DEF Ordered, Covers

\* A step that leaves the queue of c, and what is said of it, alone.
LEMMA QueueFrame ==
  ASSUME NEW c \in Clients, QueueOf(c),
         log' = log, queue'[c] = queue[c], sent'[c] = sent[c],
         dropped'[c] = dropped[c], taken'[c] = taken[c],
         horizon'[c] = horizon[c], wants'[c] = wants[c],
         pc'[c] \in Open => pc[c] \in Open
  PROVE  QueueOf(c)'
BY DEF QueueOf, WantedAt

LEMMA QueuePublish ==
  ASSUME TypeOK, OwnSlot, NEW e \in Events, publish(e), NEW c \in Clients,
         QueueOf(c)
  PROVE  QueueOf(c)'
<1>1. /\ log' = Append(log, e) /\ log \in Seq(Events)
      /\ UNCHANGED <<pc, wants, taken>>
      /\ queue[c] \in Seq(Nat) /\ horizon[c] \in Nat
      /\ sent[c] \in Nat /\ dropped[c] \in Nat /\ taken[c] \in Nat
  BY DEF publish, TypeOK
<1>2. PICK n \in Nat : n = Len(log)
  BY <1>1, LenProperties
<1>3. /\ Len(log') = n + 1 /\ log'[n + 1] = e
      /\ \A i \in 1..n : log'[i] = log[i]
  BY <1>1, <1>2, AppendProperties
<1>4. /\ \A i \in 1..n : i \in WantedAt(c)' => i \in WantedAt(c)
      /\ n + 1 \in WantedAt(c)' => e \in wants[c]
  BY <1>1, <1>2, <1>3 DEF WantedAt
<1>5. /\ Len(queue[c]) \in Nat /\ Len(queue[c]) <= queue_size
      /\ pc[c] \in Open => sent[c] = taken[c] + dropped[c] + Len(queue[c])
  BY <1>1, LenProperties DEF QueueOf
<1>6. CASE ~Wanted(c, e)
  <2>1. /\ queue'[c] = queue[c] /\ sent'[c] = sent[c]
        /\ dropped'[c] = dropped[c] /\ horizon'[c] = horizon[c]
    BY <1>6 DEF publish
  <2>2. pc[c] \in Open => e \notin wants[c]
    BY <1>6 DEF Wanted, Registered, OwnSlot
  <2>3. Ordered(queue[c], horizon[c], n + 1)
    <3>1. \A k \in 1..Len(queue[c]) : queue[c][k] \in Nat
      BY <1>1, ElementOfSeq
    <3> QED  BY <1>2, <3>1 DEF QueueOf, Ordered
  <2>4. pc[c] \in Open => Covers(queue[c], horizon[c], n + 1, WantedAt(c)')
    <3> SUFFICES ASSUME pc[c] \in Open, NEW i \in (horizon[c] + 1)..(n + 1),
                        i \in WantedAt(c)'
                 PROVE  \E k \in 1..Len(queue[c]) : queue[c][k] = i
      BY DEF Covers
    <3>1. i # n + 1
      BY <1>4, <2>2
    <3>2. i \in (horizon[c] + 1)..n /\ i \in 1..n
      BY <1>1, <3>1
    <3> QED  BY <1>2, <1>4, <3>2 DEF QueueOf, Covers
  <2>5. horizon[c] <= n + 1
    BY <1>1, <1>2 DEF QueueOf
  <2> QED  BY <1>1, <1>2, <1>3, <2>1, <2>3, <2>4, <2>5 DEF QueueOf
<1>7. CASE Wanted(c, e) /\ ~Full(c)
  <2>1. /\ queue'[c] = Append(queue[c], n + 1) /\ sent'[c] = sent[c] + 1
        /\ dropped'[c] = dropped[c] /\ horizon'[c] = horizon[c]
    BY <1>2, <1>7 DEF publish, Full, Enqueue
  <2>2. Len(queue'[c]) = Len(queue[c]) + 1
    BY <1>1, <2>1, AppendFacts
  <2>3. Len(queue'[c]) <= queue_size
    BY <1>5, <1>7, <2>2, Limits DEF Full
  <2>4. horizon[c] <= n /\ Ordered(queue[c], horizon[c], n)
    BY <1>2 DEF QueueOf
  <2>5. /\ Ordered(queue'[c], horizon'[c], n + 1)
        /\ pc[c] \in Open =>
             Covers(queue'[c], horizon'[c], n + 1, WantedAt(c)')
    BY <1>1, <1>2, <1>4, <2>1, <2>4, Grow DEF QueueOf
  <2>6. pc[c] \in Open => sent'[c] = taken[c] + dropped'[c] + Len(queue'[c])
    <3>1. sent'[c] = sent[c] + 1 /\ dropped'[c] = dropped[c]
      BY <2>1
    <3>2. taken[c] \in Nat /\ dropped[c] \in Nat /\ Len(queue[c]) \in Nat
      BY <1>1, <1>5
    <3> QED  BY <1>5, <2>2, <3>1, <3>2
  <2>7. horizon'[c] <= n + 1
    BY <1>1, <2>1, <2>4
  <2> QED  BY <1>1, <1>3, <2>3, <2>5, <2>6, <2>7 DEF QueueOf
<1>8. CASE Wanted(c, e) /\ Full(c)
  <2>1. /\ queue'[c] = Append(Tail(queue[c]), n + 1)
        /\ sent'[c] = sent[c] + 1
        /\ dropped'[c] = dropped[c] + 1 /\ horizon'[c] = Head(queue[c])
    BY <1>2, <1>8 DEF publish, Full, Enqueue
  <2>2. queue[c] # <<>> /\ Len(queue[c]) = queue_size
    BY <1>5, <1>8, Limits DEF Full
  <2>3. Tail(queue[c]) \in Seq(Nat) /\ Len(Tail(queue[c])) = Len(queue[c]) - 1
    BY <1>1, <2>2, TailFacts
  <2>4. Len(queue'[c]) = Len(queue[c])
    BY <1>5, <2>1, <2>3, AppendFacts
  <2>5. Ordered(queue[c], horizon[c], n)
    BY <1>2 DEF QueueOf
  <2>6. /\ Head(queue[c]) \in Nat /\ Head(queue[c]) <= n
        /\ Ordered(Tail(queue[c]), Head(queue[c]), n)
        /\ pc[c] \in Open =>
             Covers(Tail(queue[c]), Head(queue[c]), n, WantedAt(c))
    BY <1>1, <1>2, <2>2, <2>5, Shift DEF QueueOf
  <2>7. /\ Ordered(queue'[c], horizon'[c], n + 1)
        /\ pc[c] \in Open =>
             Covers(queue'[c], horizon'[c], n + 1, WantedAt(c)')
    BY <1>4, <2>1, <2>3, <2>6, Grow
  <2>8. pc[c] \in Open => sent'[c] = taken[c] + dropped'[c] + Len(queue'[c])
    <3>1. sent'[c] = sent[c] + 1 /\ dropped'[c] = dropped[c] + 1
      BY <2>1
    <3>2. taken[c] \in Nat /\ dropped[c] \in Nat /\ Len(queue[c]) \in Nat
      BY <1>1, <1>5
    <3>3. (taken[c] + dropped[c] + Len(queue[c])) + 1
             = taken[c] + (dropped[c] + 1) + Len(queue[c])
      BY <3>2, Balance
    <3> QED  BY <1>5, <2>4, <3>1, <3>3
  <2>9. horizon'[c] <= n + 1 /\ Len(queue'[c]) <= queue_size
    BY <1>5, <2>1, <2>4, <2>6
  <2> QED  BY <1>1, <1>3, <2>7, <2>8, <2>9 DEF QueueOf
<1> QED  BY <1>6, <1>7, <1>8

LEMMA QueueTake ==
  ASSUME TypeOK, NEW c \in Clients, Take(c), QueueOf(c)
  PROVE  QueueOf(c)'
<1>1. /\ queue[c] \in Seq(Nat) /\ queue[c] # <<>> /\ Len(log) \in Nat
      /\ queue'[c] = Tail(queue[c]) /\ taken'[c] = taken[c] + 1
      /\ horizon'[c] = Head(queue[c])
      /\ UNCHANGED <<log, wants, sent, dropped>>
      /\ pc[c] \in Open
      /\ sent[c] \in Nat /\ dropped[c] \in Nat /\ taken[c] \in Nat
      /\ horizon[c] \in Nat
  BY LenProperties DEF Take, counters, TypeOK
<1>2. /\ Len(queue[c]) \in Nat /\ Len(queue[c]) >= 1
      /\ Len(queue'[c]) = Len(queue[c]) - 1
  BY <1>1, TailFacts
<1>3. Ordered(queue[c], horizon[c], Len(log))
  BY DEF QueueOf
<1>4. /\ horizon'[c] <= Len(log)
      /\ Ordered(queue'[c], horizon'[c], Len(log))
      /\ Covers(queue'[c], horizon'[c], Len(log), WantedAt(c))
  BY <1>1, <1>3, Shift DEF QueueOf
<1>5. /\ sent[c] = taken[c] + dropped[c] + Len(queue[c])
      /\ Len(queue[c]) <= queue_size
  BY <1>1 DEF QueueOf
<1>7. sent[c] = taken'[c] + dropped[c] + Len(queue'[c])
  <2>1. taken[c] \in Nat /\ dropped[c] \in Nat /\ taken'[c] = taken[c] + 1
    BY <1>1
  <2>2. /\ Len(queue[c]) \in Nat /\ Len(queue[c]) >= 1
        /\ Len(queue'[c]) = Len(queue[c]) - 1
    BY <1>2
  <2>3. sent[c] = taken[c] + dropped[c] + Len(queue[c])
    BY <1>5
  <2>4. PICK t \in Int, d \in Int, l \in Int :
           t = taken[c] /\ d = dropped[c] /\ l = Len(queue[c])
    BY <2>1, <2>2
  <2>5. t + d + l = (t + 1) + d + (l - 1)
    BY Balance
  <2>6. taken'[c] = t + 1 /\ Len(queue'[c]) = l - 1 /\ sent[c] = t + d + l
    BY <2>1, <2>2, <2>3, <2>4
  <2> QED  BY <2>4, <2>5, <2>6
<1>8. Len(queue'[c]) <= queue_size
  BY <1>2, <1>5, Limits
<1>6. WantedAt(c)' = WantedAt(c)
  BY <1>1 DEF WantedAt
<1> QED  BY <1>1, <1>4, <1>6, <1>7, <1>8 DEF QueueOf

LEMMA QueueStep ==
  TypeOK /\ OwnSlot /\ QueueInv /\ [Next]_vars => QueueInv'
<1> SUFFICES ASSUME TypeOK, OwnSlot, QueueInv, [Next]_vars,
                    NEW d \in Clients
             PROVE  QueueOf(d)'
  BY DEF QueueInv
<1> USE DEF TypeOK
<1>0. QueueOf(d)
  BY DEF QueueInv
<1>1. ASSUME NEW e \in Events, publish(e) PROVE QueueOf(d)'
  BY <1>0, <1>1, QueuePublish
<1>2. ASSUME NEW c \in Clients, Take(c) PROVE QueueOf(d)'
  <2>1. CASE c = d
    BY <1>0, <1>2, <2>1, QueueTake
  <2>2. CASE c # d
    BY <1>0, <1>2, <2>2, QueueFrame DEF Take, counters
  <2> QED  BY <2>1, <2>2
<1>3. ASSUME NEW c \in Clients, NEW k \in {"sse", "raw"},
             NEW w \in SUBSET Events, subscribe(c, k, w)
      PROVE  QueueOf(d)'
  <2>1. CASE c = d
    <3>1. /\ queue'[d] = <<>> /\ sent'[d] = 0 /\ taken'[d] = 0
          /\ dropped'[d] = 0 /\ horizon'[d] = Len(log) /\ log' = log
      BY <1>3, <2>1 DEF subscribe, HasRoom, NewId
    <3>2. Len(<<>>) = 0 /\ Len(log) \in Nat
      OBVIOUS
    <3> QED  BY <3>1, <3>2, Limits DEF QueueOf, Ordered, Covers
  <2>2. CASE c # d
    BY <1>0, <1>3, <2>2, QueueFrame DEF subscribe, HasRoom, NewId
  <2> QED  BY <2>1, <2>2
<1>4. ASSUME NEW c \in Clients, Close(c) PROVE QueueOf(d)'
  <2>1. CASE c = d
    <3>1. /\ queue'[d] = <<>> /\ pc'[d] = "idle" /\ horizon'[d] = 0
          /\ log' = log
      BY <1>4, <2>1 DEF Close
    <3>2. Len(<<>>) = 0 /\ Len(log) \in Nat
      OBVIOUS
    <3> QED  BY <3>1, <3>2, Limits DEF QueueOf, Ordered, Covers
  <2>2. CASE c # d
    BY <1>0, <1>4, <2>2, QueueFrame DEF Close
  <2> QED  BY <2>1, <2>2
<1>5. ASSUME NEW c \in Clients,
             \/ Refuse(c) /\ pc[c] = "idle"
             \/ Retry(c) \/ Start(c)
             \/ Timer(c) \/ Written(c) \/ HangUp(c)
      PROVE  QueueOf(d)'
  <2>1. pc'[d] \in Open => pc[d] \in Open
    BY <1>5, QuietStep
  <2>2. UNCHANGED <<log, queue, sent, dropped, taken, horizon, wants>>
    BY <1>5 DEF Refuse, Retry, Start, Timer, Written, HangUp, counters, history
  <2> QED  BY <1>0, <2>1, <2>2, QueueFrame
<1>6. CASE UNCHANGED vars
  BY <1>0, <1>6, QueueFrame DEF vars
<1>7. ASSUME NEW c \in Clients, Request(c) PROVE QueueOf(d)'
  <2>1. {"nmea"} \in SUBSET Events
    BY ConstantsAssumption DEF ConstantsAssumption
  <2> QED  BY <1>3, <1>5, <1>7, <2>1
           DEF Request, get_stream, get_stream_nmea_text, ParsedEvents
<1>8. ASSUME NEW c \in Clients, Cancel(c) \/ Probe(c) \/ AbortUnstarted(c)
      PROVE  QueueOf(d)'
  BY <1>4, <1>8 DEF Cancel, Probe, AbortUnstarted
<1> QED  BY <1>1, <1>2, <1>5, <1>6, <1>7, <1>8 DEF Next

\* For any queue size and any number of events: the counters of every open
\* stream add up, its queue is bounded and in publication order, and it still
\* holds every wanted event newer than what it has let go of.
THEOREM QueuesCorrect == Spec => []QueuesSound
<1>1. Init => QueueInv
  BY Limits DEF Init, QueueInv, QueueOf, Ordered, Covers
<1>2. Init => SlotInv
  BY Limits, FS_EmptySet
     DEF Init, SlotInv, ClientCap, OwnSlot, IdsGiven
<1>3. SlotInv => OwnSlot
  BY DEF SlotInv
<1> QED  BY <1>1, <1>2, <1>3, QueueStep, SlotStep, TypeCorrect, QueueParts, PTL
         DEF Spec
-----------------------------------------------------------------------------
(* The drop-oldest feed.  A queue in publication order is its set of items, *)
(* whose oldest is the head; a stream that is closed has an empty queue.    *)

Vacant == \A c \in Clients : pc[c] \notin Open => queue[c] = <<>>

Listening == {c \in Clients : pc[c] \in Open}

FeedInv == TypeOK /\ SlotInv /\ QueueInv /\ Vacant

\* The feed counts as the fan-out does.
LEMMA SameCount == \A S : Feed!Cardinality(S) = Cardinality(S)
  BY DEF Cardinality, Feed!Cardinality

LEMMA ItemsOf ==
  ASSUME NEW q \in Seq(Nat), NEW h \in Nat, NEW n \in Nat, Ordered(q, h, n)
  PROVE  /\ IsFiniteSet(Items(q)) /\ Cardinality(Items(q)) = Len(q)
         /\ \A i \in Nat : Items(Append(q, i)) = Items(q) \cup {i}
         /\ q # <<>> => /\ Feed!Oldest(Items(q)) = Head(q)
                        /\ Items(Tail(q)) = Items(q) \ {Head(q)}
<1>1. /\ Len(q) \in Nat /\ DOMAIN q = 1..Len(q)
      /\ \A k \in 1..Len(q) : q[k] \in Nat
  BY LenProperties, ElementOfSeq
<1>2. Items(q) = {q[k] : k \in 1..Len(q)}
  BY <1>1 DEF Items
<1>3. \A j, k \in 1..Len(q) : j < k => q[j] < q[k]
  <2> SUFFICES ASSUME NEW j \in 1..Len(q), NEW k \in 1..Len(q), j < k
               PROVE  q[j] < q[k]
    OBVIOUS
  <2>1. j \in 1..(k - 1)
    BY <1>1
  <2> QED  BY <2>1 DEF Ordered
<1>4. IsFiniteSet(Items(q)) /\ Cardinality(Items(q)) = Len(q)
  <2> DEFINE place == [k \in 1..Len(q) |-> q[k]]
  <2>1. \A j, k \in 1..Len(q) : q[j] = q[k] => j = k
    <3> SUFFICES ASSUME NEW j \in 1..Len(q), NEW k \in 1..Len(q), j # k
                 PROVE  q[j] # q[k]
      OBVIOUS
    <3>1. j < k \/ k < j
      BY <1>1
    <3> QED  BY <1>1, <1>3, <3>1
  <2>2. place \in Bijection(1..Len(q), Items(q))
    <3>1. place \in [1..Len(q) -> Items(q)]
      BY <1>2
    <3>2. \A j, k \in 1..Len(q) : place[j] = place[k] => j = k
      BY <2>1
    <3>3. \A i \in Items(q) : \E k \in 1..Len(q) : place[k] = i
      BY <1>2
    <3> HIDE DEF place
    <3> QED  BY <3>1, <3>2, <3>3, Fun_IsBij
  <2>3. ExistsBijection(1..Len(q), Items(q))
    BY <2>2 DEF ExistsBijection
  <2> QED  BY <1>1, <2>3, FS_CountingElements, FS_NatBijection
<1>5. ASSUME NEW i \in Nat PROVE Items(Append(q, i)) = Items(q) \cup {i}
  <2>1. PICK r : r = Append(q, i)
    OBVIOUS
  <2>2. /\ Len(r) = Len(q) + 1 /\ DOMAIN r = 1..(Len(q) + 1)
        /\ \A k \in 1..Len(q) : r[k] = q[k]
        /\ r[Len(q) + 1] = i
    BY <2>1, AppendFacts, LenProperties
  <2>3. Items(r) = Items(q) \cup {i}
    <3>1. ASSUME NEW x \in Items(r) PROVE x \in Items(q) \cup {i}
      <4>1. PICK k \in 1..(Len(q) + 1) : x = r[k]
        BY <2>2, <3>1 DEF Items
      <4>2. k \in 1..Len(q) \/ k = Len(q) + 1
        BY <1>1
      <4> QED  BY <1>2, <2>2, <4>1, <4>2
    <3>2. ASSUME NEW x \in Items(q) PROVE x \in Items(r)
      <4>1. PICK k \in 1..Len(q) : x = q[k]
        BY <1>2, <3>2
      <4>2. k \in 1..(Len(q) + 1) /\ r[k] = x
        BY <1>1, <2>2, <4>1
      <4> QED  BY <2>2, <4>2 DEF Items
    <3>3. i \in Items(r)
      <4>1. Len(q) + 1 \in 1..(Len(q) + 1)
        BY <1>1
      <4> QED  BY <2>2, <4>1 DEF Items
    <3> QED  BY <3>1, <3>2, <3>3
  <2> QED  BY <2>1, <2>3
<1>6. ASSUME q # <<>>
      PROVE  /\ Feed!Oldest(Items(q)) = Head(q)
             /\ Items(Tail(q)) = Items(q) \ {Head(q)}
  <2>1. PICK r : r = Tail(q)
    OBVIOUS
  <2>2. /\ Len(q) >= 1 /\ Len(r) = Len(q) - 1 /\ DOMAIN r = 1..(Len(q) - 1)
        /\ \A k \in 1..(Len(q) - 1) : r[k] = q[k + 1]
        /\ Head(q) = q[1] /\ q[1] \in Nat
    BY <1>6, <2>1, TailFacts, LenProperties
  <2>3. 1 \in 1..Len(q) /\ q[1] \in Items(q)
    BY <1>1, <1>2, <2>2
  <2>4. \A k \in 1..Len(q) : k # 1 => q[1] < q[k]
    BY <1>1, <1>3, <2>3
  <2>5. \A i \in Items(q) : i \in Nat /\ (i # q[1] => q[1] < i)
    BY <1>1, <1>2, <2>4
  <2>6. Feed!Oldest(Items(q)) = q[1]
    <3>1. \A j \in Items(q) : q[1] <= j
      BY <2>2, <2>5
    <3>2. \A i \in Items(q) : (\A j \in Items(q) : i <= j) => i = q[1]
      <4> SUFFICES ASSUME NEW i \in Items(q), i <= q[1], i # q[1]
                   PROVE  FALSE
        BY <2>3
      <4> QED  BY <2>2, <2>5
    <3> QED  BY <2>3, <3>1, <3>2 DEF Feed!Oldest
  <2>7. ASSUME NEW x \in Items(r) PROVE x \in Items(q) \ {q[1]}
    <3>1. PICK k \in 1..(Len(q) - 1) : x = r[k]
      BY <2>2, <2>7 DEF Items
    <3>2. k + 1 \in 1..Len(q) /\ k + 1 # 1 /\ x = q[k + 1]
      BY <1>1, <2>2, <3>1
    <3> QED  BY <1>1, <1>2, <2>2, <2>4, <3>2
  <2>8. ASSUME NEW x \in Items(q), x # q[1] PROVE x \in Items(r)
    <3>1. PICK k \in 1..Len(q) : x = q[k]
      BY <1>2, <2>8
    <3>2. k - 1 \in 1..(Len(q) - 1) /\ (k - 1) + 1 = k
      BY <1>1, <2>8, <3>1
    <3>3. r[k - 1] = x
      BY <2>2, <3>1, <3>2
    <3> QED  BY <2>2, <3>2, <3>3 DEF Items
  <2> QED  BY <2>1, <2>2, <2>6, <2>7, <2>8
<1> QED  BY <1>4, <1>5, <1>6

\* A free slot means that the feed has room for a listener: the open streams
\* have slots of their own.
LEMMA RoomToListen ==
  ASSUME TypeOK, SlotInv, HasRoom
  PROVE  Cardinality(Listening) < max_clients
<1> DEFINE holds == [c \in Listening |-> sid[c]]
<1>1. holds \in Injection(Listening, subs)
  <2>1. holds \in [Listening -> subs]
    BY DEF SlotInv, OwnSlot, Listening
  <2>2. \A c, d \in Listening : holds[c] = holds[d] => c = d
    BY DEF SlotInv, OwnSlot, Listening
  <2> HIDE DEF holds
  <2> QED  BY <2>1, <2>2, Fun_IsInj
<1>2. IsFiniteSet(subs)
  BY DEF SlotInv, ClientCap
<1>3. IsFiniteSet(Listening) /\ Cardinality(Listening) <= Cardinality(subs)
  BY <1>1, <1>2, FS_Injection
<1>4. Cardinality(Listening) \in Nat /\ Cardinality(subs) \in Nat
  BY <1>2, <1>3, FS_CardinalityType
<1> QED  BY <1>3, <1>4, Limits DEF HasRoom
-----------------------------------------------------------------------------
(* Each step of the fan-out is a step of the feed, or none. *)

LEMMA PublishEmits ==
  ASSUME FeedInv, NEW e \in Events, publish(e)
  PROVE  Feed!Emit(e)
<1>1. /\ log \in Seq(Events) /\ log' = Append(log, e)
      /\ UNCHANGED <<pc, wants>>
  BY DEF FeedInv, TypeOK, publish
<1>2. PICK n \in Nat : n = Len(log)
  BY <1>1, LenProperties
<1>3. Len(log') = n + 1
  BY <1>1, <1>2, AppendProperties
<1>4. ASSUME NEW c \in Clients
      PROVE  Items(queue'[c]) =
               IF c \in Listening /\ e \in wants[c]
               THEN Feed!Push(Items(queue[c]), n + 1)
               ELSE Items(queue[c])
  <2>1. /\ queue[c] \in Seq(Nat) /\ horizon[c] \in Nat
        /\ Ordered(queue[c], horizon[c], n)
    BY <1>2 DEF FeedInv, TypeOK, QueueInv, QueueOf
  <2>2. Wanted(c, e) <=> c \in Listening /\ e \in wants[c]
    BY DEF FeedInv, SlotInv, OwnSlot, Wanted, Registered, Listening
  <2>3. /\ Len(queue[c]) \in Nat
        /\ Cardinality(Items(queue[c])) = Len(queue[c])
        /\ Items(Append(queue[c], n + 1)) = Items(queue[c]) \cup {n + 1}
    BY <2>1, ItemsOf, LenProperties
  <2>4. CASE ~Wanted(c, e)
    BY <2>2, <2>4 DEF publish
  <2>5. CASE Wanted(c, e) /\ ~Full(c)
    <3>1. queue'[c] = Append(queue[c], n + 1)
      BY <1>2, <2>5 DEF publish, Full, Enqueue
    <3>2. ~(Cardinality(Items(queue[c])) >= queue_size)
      BY <2>3, <2>5 DEF Full
    <3> QED  BY <2>2, <2>3, <2>5, <3>1, <3>2, SameCount DEF Feed!Push
  <2>6. CASE Wanted(c, e) /\ Full(c)
    <3>1. queue'[c] = Append(Tail(queue[c]), n + 1)
      BY <1>2, <2>6 DEF publish, Full, Enqueue
    <3>2. Cardinality(Items(queue[c])) >= queue_size /\ queue[c] # <<>>
      BY <2>3, <2>6, Limits DEF Full
    <3>3. /\ Feed!Oldest(Items(queue[c])) = Head(queue[c])
          /\ Items(Tail(queue[c])) = Items(queue[c]) \ {Head(queue[c])}
      BY <2>1, <3>2, ItemsOf
    <3>4. /\ Head(queue[c]) \in Nat /\ Tail(queue[c]) \in Seq(Nat)
          /\ Ordered(Tail(queue[c]), Head(queue[c]), n)
      BY <2>1, <3>2, Shift, TailFacts
    <3>5. Items(Append(Tail(queue[c]), n + 1)) = Items(Tail(queue[c])) \cup {n + 1}
      <4>1. PICK r \in Seq(Nat) : r = Tail(queue[c])
        BY <3>4
      <4>2. Ordered(r, Head(queue[c]), n) /\ n + 1 \in Nat
        BY <3>4, <4>1
      <4>3. Items(Append(r, n + 1)) = Items(r) \cup {n + 1}
        BY <3>4, <4>2, ItemsOf
      <4> QED  BY <4>1, <4>3
    <3> QED  BY <2>2, <2>6, <3>1, <3>2, <3>3, <3>5, SameCount
            DEF Feed!Push
  <2> QED  BY <2>4, <2>5, <2>6
<1> QED  BY <1>1, <1>2, <1>3, <1>4 DEF Feed!Emit, Listening

LEMMA SubscribeJoins ==
  ASSUME FeedInv, NEW c \in Clients, NEW k, NEW w \in SUBSET Events,
         pc[c] = "idle", subscribe(c, k, w)
  PROVE  Feed!Join(c)
<1> USE DEF FeedInv, TypeOK
<1>1. Cardinality(Listening) < max_clients
  BY RoomToListen DEF subscribe
<1>2. /\ pc' = [pc EXCEPT ![c] = "accepted"] /\ wants' = [wants EXCEPT ![c] = w]
      /\ queue' = [queue EXCEPT ![c] = <<>>] /\ log' = log
  BY DEF subscribe
<1>3. queue[c] = <<>>
  BY DEF Vacant
<1>4. queue' = queue
  BY <1>2, <1>3
<1>5. c \notin Listening /\ Listening' = Listening \cup {c}
  BY <1>2 DEF Listening
<1> QED  BY <1>1, <1>2, <1>4, <1>5, SameCount DEF Feed!Join, Listening

LEMMA CloseLeaves ==
  ASSUME FeedInv, NEW c \in Clients, pc[c] \in Open, Close(c)
  PROVE  Feed!Leave(c)
<1> USE DEF FeedInv, TypeOK
<1>1. /\ pc' = [pc EXCEPT ![c] = "idle"] /\ wants' = [wants EXCEPT ![c] = {}]
      /\ queue' = [queue EXCEPT ![c] = <<>>] /\ log' = log
  BY DEF Close
<1>2. c \in Listening /\ Listening' = Listening \ {c}
  BY <1>1 DEF Listening
<1>3. Items(<<>>) = {}
  BY DEF Items
<1>4. \A d \in Clients :
         Items(queue'[d]) = IF d = c THEN {} ELSE Items(queue[d])
  BY <1>1, <1>3
<1> QED  BY <1>1, <1>2, <1>4 DEF Feed!Leave, Listening

LEMMA TakeGets ==
  ASSUME FeedInv, NEW c \in Clients, Take(c)
  PROVE  Feed!Get(c)
<1> USE DEF FeedInv, TypeOK
<1>1. /\ queue[c] # <<>> /\ queue' = [queue EXCEPT ![c] = Tail(@)]
      /\ UNCHANGED <<log, wants>>
  BY DEF Take
<1>2. Listening' = Listening
  BY DEF Take, Listening
<1>3. /\ queue[c] \in Seq(Nat) /\ horizon[c] \in Nat /\ Len(log) \in Nat
      /\ Ordered(queue[c], horizon[c], Len(log))
  BY LenProperties DEF QueueInv, QueueOf
<1>4. /\ Feed!Oldest(Items(queue[c])) = Head(queue[c])
      /\ Items(Tail(queue[c])) = Items(queue[c]) \ {Head(queue[c])}
  BY <1>1, <1>3, ItemsOf
<1>5. Items(queue[c]) # {}
  <2>1. 1 \in DOMAIN queue[c]
    BY <1>1, <1>3, TailFacts, LenProperties
  <2> QED  BY <2>1 DEF Items
<1>6. \A d \in Clients :
         Items(queue'[d]) = IF d = c
                            THEN Items(queue[d]) \ {Feed!Oldest(Items(queue[d]))}
                            ELSE Items(queue[d])
  BY <1>1, <1>4
<1> QED  BY <1>1, <1>2, <1>5, <1>6 DEF Feed!Get, Listening

LEMMA StepImplements == FeedInv /\ [Next]_vars => [Feed!Next]_(Feed!vars)
<1> SUFFICES ASSUME FeedInv, [Next]_vars PROVE [Feed!Next]_(Feed!vars)
  OBVIOUS
<1>1. ASSUME NEW e \in Events, publish(e) PROVE Feed!Next
  BY <1>1, PublishEmits DEF Feed!Next
<1>2. ASSUME NEW c \in Clients, Take(c) PROVE Feed!Next
  BY <1>2, TakeGets DEF Feed!Next
<1>3. ASSUME NEW c \in Clients, Cancel(c) \/ Probe(c) \/ AbortUnstarted(c)
      PROVE  Feed!Next
  <2>1. pc[c] \in Open /\ Close(c)
    BY <1>3 DEF Cancel, Probe, AbortUnstarted
  <2> QED  BY <2>1, CloseLeaves DEF Feed!Next
<1>4. ASSUME NEW c \in Clients,
             \/ Refuse(c) /\ pc[c] = "idle"
             \/ Retry(c) \/ Start(c)
             \/ Timer(c) \/ Written(c) \/ HangUp(c)
      PROVE  UNCHANGED Feed!vars
  <2>1. \A d \in Clients : pc'[d] \in Open <=> pc[d] \in Open
    BY <1>4, QuietStep DEF FeedInv
  <2>2. UNCHANGED <<log, queue, wants>>
    BY <1>4 DEF Refuse, Retry, Start, Timer, Written, HangUp, counters, history
  <2>3. Listening' = Listening
    BY <2>1 DEF Listening
  <2> QED  BY <2>2, <2>3 DEF Feed!vars, Listening
<1>5. ASSUME NEW c \in Clients, Request(c) PROVE [Feed!Next]_(Feed!vars)
  <2>1. {"nmea"} \in SUBSET Events
    BY ConstantsAssumption DEF ConstantsAssumption
  <2>2. \/ Refuse(c) /\ pc[c] = "idle"
        \/ \E k \in {"sse", "raw"}, w \in SUBSET Events :
              pc[c] = "idle" /\ subscribe(c, k, w)
    BY <1>5, <2>1 DEF Request, get_stream, get_stream_nmea_text, ParsedEvents
  <2>3. ASSUME NEW k \in {"sse", "raw"}, NEW w \in SUBSET Events,
               pc[c] = "idle", subscribe(c, k, w)
        PROVE  Feed!Next
    BY <2>3, SubscribeJoins DEF Feed!Next
  <2> QED  BY <1>4, <2>2, <2>3
<1>6. CASE UNCHANGED vars
  BY <1>6 DEF vars, Feed!vars
<1> QED  BY <1>1, <1>2, <1>3, <1>4, <1>5, <1>6 DEF Next

LEMMA VacantStep == TypeOK /\ Vacant /\ [Next]_vars => Vacant'
<1> SUFFICES ASSUME TypeOK, Vacant, [Next]_vars, NEW d \in Clients,
                    pc'[d] \notin Open
             PROVE  queue'[d] = <<>>
  BY DEF Vacant
<1> USE DEF TypeOK, Vacant
<1>1. ASSUME NEW e \in Events, publish(e) PROVE queue'[d] = <<>>
  BY <1>1 DEF publish, Wanted, Registered
<1>2. ASSUME NEW c \in Clients, Take(c) PROVE queue'[d] = <<>>
  BY <1>2 DEF Take
<1>3. ASSUME NEW c \in Clients, Close(c) PROVE queue'[d] = <<>>
  BY <1>3 DEF Close
<1>4. ASSUME NEW c \in Clients,
             \/ Refuse(c) /\ pc[c] = "idle"
             \/ Retry(c) \/ Start(c)
             \/ Timer(c) \/ Written(c) \/ HangUp(c)
      PROVE  queue'[d] = <<>>
  <2>1. pc[d] \notin Open
    BY <1>4, QuietStep
  <2>2. UNCHANGED queue
    BY <1>4 DEF Refuse, Retry, Start, Timer, Written, HangUp, counters, history
  <2> QED  BY <2>1, <2>2
<1>5. ASSUME NEW c \in Clients, NEW k, NEW w, subscribe(c, k, w)
      PROVE  queue'[d] = <<>>
  BY <1>5 DEF subscribe
<1>6. ASSUME NEW c \in Clients, Request(c) PROVE queue'[d] = <<>>
  BY <1>4, <1>5, <1>6 DEF Request, get_stream, get_stream_nmea_text
<1>7. ASSUME NEW c \in Clients, Cancel(c) \/ Probe(c) \/ AbortUnstarted(c)
      PROVE  queue'[d] = <<>>
  BY <1>3, <1>7 DEF Cancel, Probe, AbortUnstarted
<1>8. CASE UNCHANGED vars
  BY <1>8 DEF vars
<1> QED  BY <1>1, <1>2, <1>4, <1>6, <1>7, <1>8 DEF Next

\* The fan-out implements the drop-oldest feed, for any clients, events, cap
\* and queue size: whatever subscribe, publish, the generators, hang-ups and
\* cancellations do is a join, an emission, a delivery of the oldest event, a
\* departure or nothing that the feed can see.
THEOREM FeedImplemented == Spec => ImplementsFeed
<1>1. Init => Feed!Init
  <2> SUFFICES ASSUME Init PROVE Feed!Init
    OBVIOUS
  <2>1. Len(log) = 0 /\ Items(<<>>) = {}
    BY DEF Init, Items
  <2>2. \A c \in Clients : queue[c] = <<>>
    BY DEF Init
  <2> QED  BY <2>1, <2>2 DEF Init, Feed!Init
<1>2. Init => Vacant /\ QueueInv /\ SlotInv
  BY Limits, FS_EmptySet
     DEF Init, Vacant, QueueInv, QueueOf, Ordered, Covers, SlotInv, ClientCap,
         OwnSlot, IdsGiven
<1>3. SlotInv => OwnSlot
  BY DEF SlotInv
<1>4. TypeOK /\ SlotInv /\ QueueInv /\ Vacant => FeedInv
  BY DEF FeedInv
<1>5. Spec => []FeedInv
  BY <1>2, <1>3, <1>4, QueueStep, SlotStep, VacantStep, TypeCorrect, PTL DEF Spec
<1> QED  BY <1>1, <1>5, StepImplements, PTL DEF Spec, ImplementsFeed, Feed!Spec
=============================================================================
