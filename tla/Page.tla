-------------------------------- MODULE Page --------------------------------
(***************************************************************************)
(* The page across its views and reloads: the router of Router, and what   *)
(* the detail view (static/js/views/detail.js) does with the polled        *)
(* status: the history charts (components/history.js), which merge what    *)
(* they load from the server with what is polled, and the recorder         *)
(* (recorder.js), which outlives the views but not the page.  The range    *)
(* and the cap are settings, which the browser stores (store.js).          *)
(*                                                                         *)
(* The server has a history row for every unit of time, stamped by its     *)
(* clock.  What it answers may be on its way for one unit.  The charts     *)
(* modelled are those on the screen.                                       *)
(***************************************************************************)
EXTENDS Router, Sequences

CONSTANTS
    Detail,            \* "#/detail"
    Ranges,            \* RANGES, and historyRangeS among them
    Caps,              \* what is typed into the cap field
    MinCap, MaxCap, DefaultCap,
    MaxPolls, MaxReloads

ASSUME PageAssumption ==
    /\ Detail \in Views
    /\ Ranges \subseteq Nat \ {0} /\ Caps \subseteq Int
    /\ {MinCap, MaxCap, DefaultCap} \subseteq Nat
    /\ MinCap <= DefaultCap /\ DefaultCap <= MaxCap
    /\ {MaxPolls, MaxReloads} \subseteq Nat

VARIABLES
    now,         \* the server's clock, which counts the polls
    stored,      \* the stored settings: historyRangeS, recordCap
    panel,       \* the HistoryPanels on the screen, if any
    recorder,
    recorded,    \* history: how many samples it took since it was last cleared
    loadedCap,   \* history: the cap this page was loaded with
    reloads

router == <<hash, events, currentRoute, currentUnmount, live, awaiting, fetched,
            failed, missing, navs, overlapped>>
pageVars == <<router, now, stored, panel, recorder, recorded, loadedCap, reloads>>

\* `asked`: the range of the request in flight; `rows`: the first and the last
\* stamp held; `missed`, a history: another range was chosen during the load.
NoPanel == [range |-> 0, asked |-> 0, loading |-> FALSE, columns |-> FALSE,
            failed |-> FALSE, from |-> 0, to |-> -1, missed |-> FALSE]

load(p) ==
    IF p.loading THEN p
    ELSE [p EXCEPT !.loading = TRUE, !.asked = p.range, !.missed = FALSE]

\* mount of the detail view: the panels are built and loaded.
mount(range) == load([NoPanel EXCEPT !.range = range])

\* A sample is its number since the recorder was cleared.
NewRecorder(cap) == [cap |-> cap, recording |-> FALSE, samples |-> <<>>, dropped |-> 0]

\* Mutant: the newest are dropped.
trimNewest(r) ==
    LET over == Len(r.samples) - r.cap IN
    IF over <= 0 THEN r
    ELSE [r EXCEPT !.dropped = @ + over, !.samples = SubSeq(@, 1, Len(@) - over)]

trim(r) ==
    LET over == Len(r.samples) - r.cap IN
    IF over <= 0 THEN r
    ELSE [r EXCEPT !.dropped = @ + over, !.samples = SubSeq(@, over + 1, Len(@))]

\* What setCap makes of a number.
Clamped(n) ==
    LET wish == IF n = 0 THEN DefaultCap ELSE n IN
    IF wish < MinCap THEN MinCap ELSE IF wish > MaxCap THEN MaxCap ELSE wish

PageInit ==
    /\ Init
    /\ now = 0 /\ panel = NoPanel /\ recorded = 0 /\ reloads = 0
    /\ stored \in [historyRangeS : Ranges, recordCap : {DefaultCap}]
    /\ recorder = NewRecorder(stored.recordCap) /\ loadedCap = stored.recordCap
-----------------------------------------------------------------------------
\* A view comes: what was on the screen goes.
Enter ==
    /\ Route \/ \E v \in Views : Fetched(v)
    /\ panel' = IF currentUnmount' = Detail THEN mount(stored.historyRangeS)
                ELSE NoPanel
    /\ UNCHANGED <<now, stored, recorder, recorded, loadedCap, reloads>>

Elsewhere ==
    /\ Navigate \/ Redirect \/ AlreadyThere \/ \E v \in Views : FetchFails(v)
    /\ UNCHANGED <<now, stored, panel, recorder, recorded, loadedCap, reloads>>

OnScreen == currentUnmount = Detail

\* Stamps of answers that may arrive now.
Recently == {t \in {now - 1, now} : t >= 0}

Since(t, range) == IF t > range THEN t - range ELSE 0

\* Mutant: live points are never trimmed.
appendForEver(p, t) ==
    IF ~p.columns \/ t <= p.to THEN p ELSE [p EXCEPT !.to = t]

appendLive(p, t) ==
    IF ~p.columns \/ t <= p.to THEN p
    ELSE [p EXCEPT !.to = t,
                   !.from = IF @ < Since(t, p.range) THEN Since(t, p.range) ELSE @]

add(r, n) ==
    IF r.recording THEN trim([r EXCEPT !.samples = Append(@, n)]) ELSE r

\* poll(): a status arrives; the charts and then the recorder take it.
Poll ==
    /\ now < MaxPolls /\ now' = now + 1
    /\ \E t \in {now, now + 1} : panel' = appendLive(panel, t)
    /\ recorder' = add(recorder, recorded + 1)
    /\ recorded' = IF recorder.recording THEN recorded + 1 ELSE recorded
    /\ UNCHANGED <<router, stored, loadedCap, reloads>>

Loaded ==
    /\ panel.loading
    /\ \E t \in Recently :
          panel' = [panel EXCEPT !.loading = FALSE, !.columns = TRUE, !.failed = FALSE,
                                 !.from = Since(t, panel.asked), !.to = t]
    /\ UNCHANGED <<router, now, stored, recorder, recorded, loadedCap, reloads>>

LoadFails ==
    /\ panel.loading
    /\ panel' = [panel EXCEPT !.loading = FALSE, !.failed = TRUE]
    /\ UNCHANGED <<router, now, stored, recorder, recorded, loadedCap, reloads>>

setRange(s) ==
    /\ OnScreen /\ s # panel.range
    /\ stored' = [stored EXCEPT !.historyRangeS = s]
    /\ panel' = load([panel EXCEPT !.range = s, !.missed = panel.loading])
    /\ UNCHANGED <<router, now, recorder, recorded, loadedCap, reloads>>

toggle ==
    /\ OnScreen
    /\ recorder' = [recorder EXCEPT !.recording = ~@]
    /\ UNCHANGED <<router, now, stored, panel, recorded, loadedCap, reloads>>

clear ==
    /\ OnScreen
    /\ recorder' = [recorder EXCEPT !.samples = <<>>, !.dropped = 0]
    /\ recorded' = 0
    /\ UNCHANGED <<router, now, stored, panel, loadedCap, reloads>>

\* The number is stored as it was typed, and clamped for the recorder.
setCap(n) ==
    /\ OnScreen
    /\ stored' = [stored EXCEPT !.recordCap = n]
    /\ recorder' = trim([recorder EXCEPT !.cap = Clamped(n)])
    /\ UNCHANGED <<router, now, panel, recorded, loadedCap, reloads>>

\* The browser keeps the address and the stored settings, nothing else.
Reload ==
    /\ reloads < MaxReloads /\ reloads' = reloads + 1
    /\ events' = 1
    /\ currentRoute' = None /\ currentUnmount' = None
    /\ live' = [v \in Views |-> 0] /\ awaiting' = [v \in Views |-> 0]
    /\ fetched' = {} /\ failed' = FALSE /\ missing' = FALSE /\ overlapped' = FALSE
    /\ panel' = NoPanel
    /\ recorder' = NewRecorder(stored.recordCap) /\ recorded' = 0
    /\ loadedCap' = stored.recordCap
    /\ UNCHANGED <<hash, navs, now, stored>>

PageNext ==
    \/ Enter \/ Elsewhere \/ Poll \/ Loaded \/ LoadFails
    \/ (\E s \in Ranges : setRange(s)) \/ (\E n \in Caps : setCap(n))
    \/ toggle \/ clear \/ Reload

PageSpec == PageInit /\ [][PageNext]_pageVars
-----------------------------------------------------------------------------
PageTypeOK ==
    /\ TypeOK
    /\ now \in 0..MaxPolls /\ reloads \in 0..MaxReloads
    /\ stored \in [historyRangeS : Ranges, recordCap : Caps \cup {DefaultCap}]
    /\ recorder.cap \in Int /\ recorder.samples \in Seq(Nat)

\* "Maximum samples kept (default 50 000, clamped to 100 ... 1 000 000).  When the
\* cap is reached the oldest sample is dropped and the tiles report how many"
\* (docs/user-guide/recording-export.md:33): the samples are the last that were
\* recorded, in order, across views, never more than the cap, and the others were
\* counted; the cap is within its limits, unless it is the one the page was loaded
\* with, which is what had been typed.
RecorderSound ==
    LET kept == Len(recorder.samples) IN
    /\ PageTypeOK
    /\ \A k \in 1..kept : recorder.samples[k] = recorded - kept + k
    /\ recorder.cap >= 0 => kept <= recorder.cap
    /\ loadedCap >= 0 => recorder.dropped + kept = recorded
    /\ recorder.cap \in MinCap..MaxCap \cup {loadedCap}

\* The buttons, the stored choice and the charts agree: once a load has ended the
\* charts reach back as far as the range says and no further, however loads, polls,
\* clicks and changes of the view were interleaved, unless it failed (which is
\* shown) or another range was chosen while it was under way.
HistoryCurrent ==
    OnScreen =>
       /\ panel.range = stored.historyRangeS
       /\ ~panel.loading /\ ~panel.failed /\ ~panel.missed =>
             panel.columns /\ panel.from = Since(panel.to, panel.range)
=============================================================================
