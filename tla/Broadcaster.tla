---------------------------- MODULE Broadcaster ----------------------------
(***************************************************************************)
(* The fan-out of producer events to stream clients: class Broadcaster of  *)
(* stratumtap/stream.py with the two endpoints of stratumtap/api.py that   *)
(* feed from it, /stream (SSE) and /stream/nmea.txt (raw text).            *)
(*                                                                         *)
(* The service is one asyncio thread, so code between two awaits is one    *)
(* step.  A published event is identified by its position in log, the      *)
(* history of everything published; a queue holds such positions.  Time is *)
(* abstract here (SseLoop has the clock): a timer may expire whenever the  *)
(* generator waits on an empty queue, or on a queue filled while it wrote. *)
(***************************************************************************)
EXTENDS Naturals, Integers, Sequences, FiniteSets

CONSTANTS
    Clients,            \* HTTP connections that ask for a stream
    Events,             \* the event names of EVENTS, "nmea" among them
    Unknown,            \* an event name the service does not know
    StreamMaxClients,   \* STRATUMTAP_STREAM_MAX_CLIENTS, any integer
    StreamQueue,        \* STRATUMTAP_STREAM_QUEUE, any integer
    Responsive,         \* the clients that read what is written to them
    MaxPublished,       \* bound on the events published in a behaviour
    MaxSubscriptions    \* bound on the subscriptions made in a behaviour

ASSUME ConstantsAssumption ==
    /\ "nmea" \in Events
    /\ Unknown \notin Events
    /\ StreamMaxClients \in Int
    /\ StreamQueue \in Int
    /\ Responsive \subseteq Clients
    /\ MaxPublished \in Nat
    /\ MaxSubscriptions \in Nat

VARIABLES
    log,        \* history: the event name of everything published, in order
    subs,       \* _subs: the ids of the registered subscribers
    next_id,    \* _next_id
    pc,         \* where the connection's response is
    kind,       \* which endpoint the connection asked for
    sid,        \* Subscriber.id held by the connection's generator
    wants,      \* Subscriber.events
    queue,      \* Subscriber.queue, as positions in log
    sent,       \* Subscriber.sent
    dropped,    \* Subscriber.dropped
    taken,      \* history: how many items the generator took from the queue
    horizon,    \* history: newest position the queue has let go of
    away,       \* the connections whose client has hung up
    leaked      \* history: the ids of responses that died before they began

vars == <<log, subs, next_id, pc, kind, sid, wants, queue, sent, dropped,
          taken, horizon, away, leaked>>
counters == <<sent, dropped>>
history == <<taken, horizon>>

max_clients == IF StreamMaxClients >= 1 THEN StreamMaxClients ELSE 1
queue_size == IF StreamQueue >= 1 THEN StreamQueue ELSE 1

\* "accepted": subscribed, the generator exists but its body never ran;
\* "waiting": in queue.get(); "writing": suspended at a yield.
States == {"idle", "refused", "accepted", "waiting", "writing"}
Streaming == {"waiting", "writing"}
Open == {"accepted"} \cup Streaming

Registered(c) == pc[c] \in Open /\ sid[c] \in subs

Init ==
    /\ log = <<>>
    /\ subs = {}
    /\ next_id = 0
    /\ pc = [c \in Clients |-> "idle"]
    /\ kind = [c \in Clients |-> "sse"]
    /\ sid = [c \in Clients |-> 0]
    /\ wants = [c \in Clients |-> {}]
    /\ queue = [c \in Clients |-> <<>>]
    /\ sent = [c \in Clients |-> 0]
    /\ dropped = [c \in Clients |-> 0]
    /\ taken = [c \in Clients |-> 0]
    /\ horizon = [c \in Clients |-> 0]
    /\ away = {}
    /\ leaked = {}
-----------------------------------------------------------------------------
(* The endpoints: parse the request, then take a slot or answer 503. *)

ParsedEvents(wanted) == wanted # {} /\ wanted \subseteq Events

HasRoom == Cardinality(subs) < max_clients

NewId == next_id + 1

subscribe(c, k, wanted) ==
    /\ next_id < MaxSubscriptions
    /\ HasRoom
    /\ next_id' = next_id + 1
    /\ subs' = subs \cup {NewId}
    /\ sid' = [sid EXCEPT ![c] = NewId]
    /\ kind' = [kind EXCEPT ![c] = k]
    /\ wants' = [wants EXCEPT ![c] = wanted]
    /\ queue' = [queue EXCEPT ![c] = <<>>]
    /\ sent' = [sent EXCEPT ![c] = 0]
    /\ dropped' = [dropped EXCEPT ![c] = 0]
    /\ taken' = [taken EXCEPT ![c] = 0]
    /\ horizon' = [horizon EXCEPT ![c] = Len(log)]
    /\ pc' = [pc EXCEPT ![c] = "accepted"]
    /\ UNCHANGED <<log, away, leaked>>

Refuse(c) ==
    /\ pc' = [pc EXCEPT ![c] = "refused"]
    /\ UNCHANGED <<log, subs, next_id, kind, sid, wants, queue, counters,
                   history, away, leaked>>

get_stream(c, wanted) ==
    /\ pc[c] = "idle"
    /\ \/ ParsedEvents(wanted) /\ subscribe(c, "sse", wanted)
       \/ ParsedEvents(wanted) /\ ~HasRoom /\ Refuse(c)
       \/ ~ParsedEvents(wanted) /\ Refuse(c)

get_stream_nmea_text(c) ==
    /\ pc[c] = "idle"
    /\ \/ subscribe(c, "raw", {"nmea"})
       \/ ~HasRoom /\ Refuse(c)

\* The client of a refused request may ask again.
Retry(c) ==
    /\ pc[c] = "refused"
    /\ pc' = [pc EXCEPT ![c] = "idle"]
    /\ UNCHANGED <<log, subs, next_id, kind, sid, wants, queue, counters,
                   history, away, leaked>>
-----------------------------------------------------------------------------
(* publish: synchronous, over every registered subscriber; a full queue    *)
(* loses its oldest item to make room.                                     *)

Wanted(c, e) == Registered(c) /\ e \in wants[c]
Full(c) == Len(queue[c]) >= queue_size

\* Mutants: the newest is lost; room is made too early.
DropNewest(q, i) == IF Len(q) >= queue_size THEN q ELSE Append(q, i)
EnqueueEarly(q, i) ==
    Append(IF q # <<>> /\ Len(q) >= queue_size - 1 THEN Tail(q) ELSE q, i)

Enqueue(q, i) == Append(IF Len(q) >= queue_size THEN Tail(q) ELSE q, i)

publish(e) ==
    /\ Len(log) < MaxPublished
    /\ log' = Append(log, e)
    /\ queue' = [c \in Clients |->
                    IF Wanted(c, e) THEN Enqueue(queue[c], Len(log) + 1)
                                    ELSE queue[c]]
    /\ sent' = [c \in Clients |->
                    IF Wanted(c, e) THEN sent[c] + 1 ELSE sent[c]]
    /\ dropped' = [c \in Clients |->
                    IF Wanted(c, e) /\ Full(c) THEN dropped[c] + 1
                                               ELSE dropped[c]]
    /\ horizon' = [c \in Clients |->
                    IF Wanted(c, e) /\ Full(c) THEN Head(queue[c])
                                               ELSE horizon[c]]
    /\ UNCHANGED <<subs, next_id, pc, kind, sid, wants, taken, away, leaked>>
-----------------------------------------------------------------------------
(* The generators. *)

\* Mutant: a stream begins only when no other client is being written to.
StartAlone(c) ==
    /\ pc[c] = "accepted" /\ \A d \in Clients : pc[d] # "writing"
    /\ pc' = [pc EXCEPT ![c] = IF kind[c] = "sse" THEN "writing" ELSE "waiting"]
    /\ UNCHANGED <<log, subs, next_id, kind, sid, wants, queue, counters,
                   history, away, leaked>>

\* First pull of the body: SSE yields "hello", raw goes straight to the queue.
Start(c) ==
    /\ pc[c] = "accepted"
    /\ pc' = [pc EXCEPT ![c] = IF kind[c] = "sse" THEN "writing" ELSE "waiting"]
    /\ UNCHANGED <<log, subs, next_id, kind, sid, wants, queue, counters,
                   history, away, leaked>>

\* queue.get() returns; a raw item without a line is skipped, not yielded.
Take(c) ==
    /\ pc[c] = "waiting"
    /\ queue[c] # <<>>
    /\ queue' = [queue EXCEPT ![c] = Tail(@)]
    /\ taken' = [taken EXCEPT ![c] = @ + 1]
    /\ horizon' = [horizon EXCEPT ![c] = Head(queue[c])]
    /\ \/ pc' = [pc EXCEPT ![c] = "writing"]
       \/ kind[c] = "raw" /\ pc' = pc
    /\ UNCHANGED <<log, subs, next_id, kind, sid, wants, counters, away, leaked>>

\* wait_for times out: SSE yields status, stats or a keepalive.
Timer(c) ==
    /\ pc[c] = "waiting"
    /\ kind[c] = "sse"
    /\ pc' = [pc EXCEPT ![c] = "writing"]
    /\ UNCHANGED <<log, subs, next_id, kind, sid, wants, queue, counters,
                   history, away, leaked>>

\* The client has read the frame, the body is pulled again.
Written(c) ==
    /\ pc[c] = "writing"
    /\ pc' = [pc EXCEPT ![c] = "waiting"]
    /\ UNCHANGED <<log, subs, next_id, kind, sid, wants, queue, counters,
                   history, away, leaked>>
-----------------------------------------------------------------------------
(* The end of a stream. *)

\* Mutant: the finally clause is missing.
keepSubscribed(c) == UNCHANGED <<subs, leaked>>

unsubscribe(c) == subs' = subs \ {sid[c]} /\ UNCHANGED leaked

\* The connection is closed and its Subscriber is garbage.
Close(c) ==
    /\ pc' = [pc EXCEPT ![c] = "idle"]
    /\ kind' = [kind EXCEPT ![c] = "sse"]
    /\ sid' = [sid EXCEPT ![c] = 0]
    /\ wants' = [wants EXCEPT ![c] = {}]
    /\ queue' = [queue EXCEPT ![c] = <<>>]
    /\ sent' = [sent EXCEPT ![c] = 0]
    /\ dropped' = [dropped EXCEPT ![c] = 0]
    /\ taken' = [taken EXCEPT ![c] = 0]
    /\ horizon' = [horizon EXCEPT ![c] = 0]
    /\ away' = away \ {c}
    /\ UNCHANGED <<log, next_id>>

HangUp(c) ==
    /\ pc[c] \in Open
    /\ c \notin away
    /\ away' = away \cup {c}
    /\ UNCHANGED <<log, subs, next_id, pc, kind, sid, wants, queue, counters,
                   history, leaked>>

\* The server cancels the response: a generator that has run leaves through
\* its finally clause.
Cancel(c) ==
    /\ c \in away
    /\ pc[c] \in Streaming
    /\ unsubscribe(c)
    /\ Close(c)

\* The generator's own probe, request.is_disconnected(): raw after a silent
\* KEEPALIVE_INTERVAL_S, SSE before it writes a keepalive.
Probe(c) ==
    /\ pc[c] = "waiting"
    /\ kind[c] = "raw" => queue[c] = <<>>
    /\ c \in away
    /\ unsubscribe(c)
    /\ Close(c)

\* The response dies while its headers are being sent: the generator was
\* never pulled, so it has no finally clause to run.
AbortUnstarted(c) ==
    /\ c \in away
    /\ pc[c] = "accepted"
    /\ leaked' = leaked \cup {sid[c]}
    /\ Close(c)
    /\ UNCHANGED subs
-----------------------------------------------------------------------------
Request(c) ==
    \/ \E wanted \in SUBSET (Events \cup {Unknown}) : get_stream(c, wanted)
    \/ get_stream_nmea_text(c)

Next ==
    \/ \E e \in Events : publish(e)
    \/ \E c \in Clients :
         \/ Request(c) \/ Retry(c)
         \/ Start(c) \/ Take(c) \/ Timer(c) \/ Written(c)
         \/ HangUp(c) \/ Cancel(c) \/ Probe(c) \/ AbortUnstarted(c)

Spec == Init /\ [][Next]_vars

\* The event loop runs every task that is ready; wait_for with an expired
\* deadline never takes an item, but the next deadline is then in the future,
\* so a queue that stays non-empty is served again and again (strong fairness
\* of Take: a timer can only interrupt it for one turn).  Only a responsive
\* client is bound to read what is written to it.
Fairness ==
    \A c \in Clients :
        /\ WF_vars(Start(c))
        /\ SF_vars(Take(c))
        /\ c \in Responsive => WF_vars(Written(c))

FairSpec == Spec /\ Fairness
-----------------------------------------------------------------------------
TypeOK ==
    /\ log \in Seq(Events)
    /\ subs \in SUBSET Nat
    /\ next_id \in Nat
    /\ pc \in [Clients -> States]
    /\ kind \in [Clients -> {"sse", "raw"}]
    /\ sid \in [Clients -> Nat]
    /\ wants \in [Clients -> SUBSET Events]
    /\ queue \in [Clients -> Seq(Nat)]
    /\ sent \in [Clients -> Nat]
    /\ dropped \in [Clients -> Nat]
    /\ taken \in [Clients -> Nat]
    /\ horizon \in [Clients -> Nat]
    /\ away \in SUBSET Clients
    /\ leaked \in SUBSET Nat

\* The cap of subscribe is never exceeded, however requests, hang-ups and
\* cancellations interleave: the check and the registration are one step.
ClientCap == IsFiniteSet(subs) /\ Cardinality(subs) <= max_clients

\* Every slot is held by an open connection: a client that departs, by whatever
\* path, leaves no subscriber behind in _subs, unless its response died before
\* its body was first pulled.
SlotsOwned ==
    \A i \in subs \ leaked : \E c \in Clients : pc[c] \in Open /\ sid[c] = i

\* An open connection is registered under an id no other connection holds, so
\* unsubscribe, which pops by id, can never evict somebody else.
OwnSlot ==
    \A c \in Clients : pc[c] \in Open =>
        /\ sid[c] \in subs
        /\ \A d \in Clients \ {c} : pc[d] \in Open => sid[d] # sid[c]

\* Every subscriber has its slot, and every slot its subscriber.
SlotsSound == TypeOK /\ ClientCap /\ SlotsOwned /\ OwnSlot

\* The counters of the stats event add up: an accepted event was taken, was
\* discarded or still waits.
Accounting ==
    \A c \in Clients : pc[c] \in Open =>
        sent[c] = taken[c] + dropped[c] + Len(queue[c])

\* A queue holds at most queue_size items, in publication order, all newer
\* than anything the client got or lost.
InOrder ==
    \A c \in Clients :
        /\ Len(queue[c]) <= queue_size
        /\ \A k \in DOMAIN queue[c] :
              /\ horizon[c] < queue[c][k] /\ queue[c][k] <= Len(log)
              /\ \A j \in 1..(k - 1) : queue[c][j] < queue[c][k]

\* Only the oldest events are lost: whatever a client wants that is newer than
\* what its queue let go of is still in the queue.
Fresh ==
    \A c \in Clients : pc[c] \in Open =>
        \A i \in (horizon[c] + 1)..Len(log) :
            log[i] \in wants[c] => \E k \in DOMAIN queue[c] : queue[c][k] = i

\* Queues are bounded, in order, complete but for their oldest events, and
\* honestly counted.
QueuesSound == Accounting /\ InOrder /\ Fresh

\* A slow or stuck client never delays another one: an item queued for a
\* responsive client leaves its queue, whatever the others do.
Served ==
    \A c \in Responsive : \A i \in 1..MaxPublished :
        (\E k \in DOMAIN queue[c] : queue[c][k] = i)
            ~> ~(\E k \in DOMAIN queue[c] : queue[c][k] = i)

\* Items of a queue, as a set.
Items(q) == {q[k] : k \in DOMAIN q}

Feed == INSTANCE FreshFeed WITH
    Readers <- Clients,
    Topics <- Events,
    MaxReaders <- max_clients,
    Capacity <- queue_size,
    emitted <- Len(log),
    listening <- {c \in Clients : pc[c] \in Open},
    interests <- wants,
    backlog <- [c \in Clients |-> Items(queue[c])]

\* The fan-out with its generators, timers, hang-ups and cancellations does
\* nothing the drop-oldest feed would not do.
ImplementsFeed == Feed!Spec
=============================================================================
