------------------------------- MODULE RawLog -------------------------------
(***************************************************************************)
(* The list of lines of the live raw panel (static/js/components/          *)
(* rawlog.js), fed by the stream of RawStream: what is kept for export,    *)
(* what waits for the next animation frame, and what is on the screen,     *)
(* under pauses, filters, snapshots, and everything that may happen to the *)
(* connection.                                                             *)
(*                                                                         *)
(* The server emits the events of Feed once and in order, and replays none *)
(* to a new connection; an event is its place in Feed, and what it says is *)
(* whether it matches the filter, if there is one.                         *)
(***************************************************************************)
EXTENDS RawStream, SequencesExt

CONSTANTS
    Feed,          \* the families of the events, in the order of emission
    Nmea,          \* the family a snapshot is of
    Hits,          \* the events that match the filter
    MaxEntries,    \* MAX_ENTRIES
    MaxRows,       \* MAX_ROWS
    SnapshotN      \* SNAPSHOT_N

ASSUME LogAssumption ==
    /\ Feed \in Seq(Kinds) /\ Nmea \in Kinds /\ Hits \subseteq DOMAIN Feed
    /\ {MaxEntries, MaxRows, SnapshotN} \subseteq Nat \ {0}
    /\ SnapshotN <= MaxEntries

VARIABLES
    emitted,    \* how many events the server has emitted
    pos,        \* the last event that was delivered or is not to be
    log,        \* the panel's data
    mixed       \* history: the entries are a snapshot taken beside a connection

logVars == <<vars, emitted, pos, log, mixed>>

NewLog(filter) ==
    [entries |-> <<>>, pending |-> <<>>, rows |-> <<>>, paused |-> FALSE,
     frame |-> FALSE, filter |-> filter]

Newest(s, n) == IF Len(s) <= n THEN s ELSE SubSeq(s, Len(s) - n + 1, Len(s))

Matching(events, filter, kinds) ==
    Kept(events, {e \in DOMAIN Feed : Feed[e] \in kinds /\ (filter => e \in Hits)})

\* Mutant: what waits for the frame is drawn again by it.
rerenderOnly(l, kinds) ==
    [l EXCEPT !.rows = Newest(Matching(l.entries, l.filter, kinds), MaxRows)]

rerender(l, kinds) ==
    [l EXCEPT !.pending = <<>>,
              !.rows = Newest(Matching(l.entries, l.filter, kinds), MaxRows)]

resetData(l) == [l EXCEPT !.entries = <<>>, !.pending = <<>>]

addEntry(l, e) ==
    [l EXCEPT !.entries = Newest(Append(@, e), MaxEntries),
              !.pending = Newest(Append(@, e), MaxEntries), !.frame = TRUE]

flush(l, kinds) ==
    IF l.paused THEN [l EXCEPT !.frame = FALSE]
    ELSE [l EXCEPT !.frame = FALSE, !.pending = <<>>,
                   !.rows = Newest(@ \o Matching(l.pending, l.filter, kinds), MaxRows)]

LogInit ==
    /\ Init
    /\ emitted = 0 /\ pos = 0 /\ mixed = FALSE
    /\ \E filter \in BOOLEAN : log = NewLog(filter)
-----------------------------------------------------------------------------
\* A new connection begins with what is emitted from now on.
Subscribes ==
    pos' = IF es' = "connecting" /\ <<stream, sel>>' # <<stream, sel>>
           THEN emitted ELSE pos

Answered ==
    /\ Opened \/ Refused
    /\ UNCHANGED <<emitted, log, mixed>> /\ Subscribes

Broken ==
    /\ Dropped
    /\ UNCHANGED <<emitted, log, mixed>> /\ Subscribes

Retried ==
    /\ RetryFires
    /\ UNCHANGED <<emitted, log, mixed>> /\ Subscribes

Passes == Tick /\ UNCHANGED <<emitted, pos, log, mixed>>

Switched ==
    /\ Click \/ Retry \/ Hide \/ Show
    /\ UNCHANGED <<emitted, log, mixed>> /\ Subscribes

Select(k) ==
    /\ TickBox(k)
    /\ log' = rerender(log, sel')
    /\ UNCHANGED <<emitted, mixed>> /\ Subscribes

\* The stored filter comes back, which is an older one if the last was typed within
\* persistLater's 400 ms.
Leave ==
    /\ Unmount
    /\ \E filter \in BOOLEAN : log' = NewLog(filter)
    /\ mixed' = FALSE
    /\ UNCHANGED <<emitted, pos>>

Enter ==
    /\ Mount
    /\ UNCHANGED <<emitted, log, mixed>> /\ Subscribes

Emit ==
    /\ emitted < Len(Feed) /\ emitted' = emitted + 1
    /\ UNCHANGED <<vars, pos, log, mixed>>

\* An event of the ticked families arrives; a full queue may have lost some before.
onServerEvent ==
    /\ es = "open"
    /\ \E e \in (pos + 1)..emitted :
          /\ Feed[e] \in sel
          /\ pos' = e /\ log' = addEntry(log, e)
    /\ UNCHANGED <<vars, emitted, mixed>>

\* The browser draws no frames of a hidden tab.
Flush ==
    /\ log.frame /\ ~hidden
    /\ log' = flush(log, sel)
    /\ UNCHANGED <<vars, emitted, pos, mixed>>
-----------------------------------------------------------------------------
AtPanel == mounted /\ ~hidden

setPaused ==
    /\ AtPanel
    /\ log' = [log EXCEPT !.paused = ~@, !.frame = @ \/ log.paused]
    /\ UNCHANGED <<vars, emitted, pos, mixed>>

SetFilter ==
    /\ AtPanel
    /\ log' = rerender([log EXCEPT !.filter = ~@], sel)
    /\ UNCHANGED <<vars, emitted, pos, mixed>>

Clear ==
    /\ AtPanel
    /\ log' = rerender(resetData(log), sel) /\ mixed' = FALSE
    /\ UNCHANGED <<vars, emitted, pos>>

\* The answer to a snapshot asked for at any time before: its lines are those of the
\* ring at some moment, which replace the list.
SnapshotArrives ==
    /\ mounted
    /\ \E e \in 0..emitted :
          LET ring == Kept([k \in 1..e |-> k], {k \in DOMAIN Feed : Feed[k] = Nmea})
          IN  log' = rerender([resetData(log) EXCEPT !.entries = Newest(ring, SnapshotN)], sel)
    /\ mixed' = (es # "none")
    /\ UNCHANGED <<vars, emitted, pos>>

LogNext ==
    \/ Answered \/ Broken \/ Retried \/ Passes \/ Switched
    \/ (\E k \in Kinds : Select(k)) \/ Leave \/ Enter
    \/ Emit \/ onServerEvent \/ Flush
    \/ setPaused \/ SetFilter \/ Clear
    \/ SnapshotArrives

LogSpec == LogInit /\ [][LogNext]_logVars

\* As in FairSpec, whatever happens to the list.
LogFairSpec ==
    /\ LogSpec
    /\ WF_logVars(Trying /\ (Answered \/ Broken))
    /\ WF_logVars(Retried) /\ WF_logVars(Passes)
-----------------------------------------------------------------------------
LogTypeOK ==
    /\ emitted \in 0..Len(Feed) /\ pos \in 0..emitted
    /\ {mixed, log.paused, log.frame, log.filter} \subseteq BOOLEAN
    /\ {Len(log.entries), Len(log.pending)} \subseteq 0..MaxEntries
    /\ Len(log.rows) <= MaxRows

\* What the panel promises of its list ("Keep buffering, stop drawing", "resuming
\* replays the whole buffer", "newest last", rawlog.js:125, 276, 112): the screen
\* shows matching lines only, and with what waits for a frame it ends in the newest
\* matching entries, each once; what waits will be drawn; and the entries are in the
\* server's order without repetition, but for a snapshot taken beside a connection.
LogSound ==
    LET matching(s) == Matching(s, log.filter, sel)
    IN  /\ LogTypeOK
        /\ matching(log.rows) = log.rows
        /\ IsSuffix(Newest(matching(log.entries), MaxRows), log.rows \o matching(log.pending))
        /\ mounted /\ log.pending # <<>> => log.frame \/ log.paused
        /\ mixed \/ IsSorted(log.entries, <)
=============================================================================
