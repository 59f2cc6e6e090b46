----------------------------- MODULE RawStream -----------------------------
(***************************************************************************)
(* The live raw stream in the browser: the RawStream class (static/js/     *)
(* stream.js) with the panel that drives it (static/js/components/         *)
(* rawlog.js): the Connect button, the source check boxes, the pause when  *)
(* the tab is hidden, mounting and unmounting.                             *)
(*                                                                         *)
(* The EventSource is the browser's: it reconnects by itself after a       *)
(* dropped connection, closes for good after a refusal, and delivers       *)
(* nothing once closed.  Time passes in units of RETRY_MS; a connection    *)
(* attempt succeeds or fails within MaxAnswer of them, in which the        *)
(* browser's own delay before it reconnects is included, and is prompt     *)
(* when it does so within Prompt.                                          *)
(***************************************************************************)
EXTENDS Filter, Integers, Sequences

CONSTANTS
    Kinds,           \* the event families with a check box
    RefuseErrors,    \* REFUSE_ERRORS
    RefuseWindow,    \* REFUSE_WINDOW_MS
    MaxAnswer,       \* bound on the wait for an answer
    Prompt           \* the wait for an answer that is prompt

\* RefuseErrors prompt failures in a row, the wait of RETRY_MS before each included,
\* fall inside the window.  With the code's numbers, 1 is prompt and 2 is not.
ASSUME ConstantsAssumption ==
    /\ {RefuseErrors, RefuseWindow} \subseteq Nat \ {0}
    /\ {MaxAnswer, Prompt} \subseteq Nat
    /\ (RefuseErrors - 1) * (Prompt + 1) < RefuseWindow

VARIABLES
    state,         \* RawStream.state
    wanted,        \* RawStream.wanted
    es,            \* readyState of the current source, "none" without one
    held,          \* sources created and not closed: connections to the server
    errorTimes,    \* the ages of the remembered errors, oldest first
    retry,         \* is the retry timer armed?
    waited,        \* time since the timer was armed or the attempt began
    sel,           \* the ticked families; RawStream.events follows it
    userOn, hiddenPaused, mounted,   \* of the panel
    hidden,        \* document.hidden
    failures,      \* history: errors since the last success or connect()
    late           \* history: an attempt since then was not prompt

stream == <<state, wanted, es, held, errorTimes, retry, waited, failures, late>>
panel == <<sel, userOn, hiddenPaused, mounted, hidden>>
vars == <<stream, panel>>

Trying == es = "connecting"

\* What the operators below compute: the stream as one record.
Now == [state |-> state, wanted |-> wanted, es |-> es, held |-> held,
        errorTimes |-> errorTimes, retry |-> retry, waited |-> waited,
        failures |-> failures, late |-> late]

New == [state |-> "disconnected", wanted |-> FALSE, es |-> "none", held |-> 0,
        errorTimes |-> <<>>, retry |-> FALSE, waited |-> 0, failures |-> 0,
        late |-> FALSE]

Becomes(s) ==
    /\ state' = s.state /\ wanted' = s.wanted /\ es' = s.es /\ held' = s.held
    /\ errorTimes' = s.errorTimes /\ retry' = s.retry /\ waited' = s.waited
    /\ failures' = s.failures /\ late' = s.late

dropSource(s) ==
    [s EXCEPT !.es = "none",
              !.held = IF s.es \in {"connecting", "open"} THEN @ - 1 ELSE @]

\* Mutant: the retry timer is left armed.
stopSourceOnly(s) == dropSource(s)

\* stop(true): the timer and the source go, the state's text stays.
stop(s) == [dropSource(s) EXCEPT !.retry = FALSE]

close(s) ==
    [stop(s) EXCEPT !.wanted = FALSE, !.errorTimes = <<>>, !.state = "disconnected"]

open(s, events) ==
    IF events = {} THEN [s EXCEPT !.state = "disconnected"]
    ELSE [stop(s) EXCEPT
            !.state = IF s.errorTimes = <<>> THEN "connecting" ELSE "reconnecting",
            !.es = "connecting", !.held = @ + 1, !.waited = 0]

connect(s, events) ==
    open([s EXCEPT !.wanted = TRUE, !.errorTimes = <<>>, !.failures = 0,
                   !.late = FALSE], events)

Recent(ages) == Kept(ages, 0..(RefuseWindow - 1))

\* onerror; `s` has the source's readyState as the browser left it.
onError(s) ==
    LET e == [s EXCEPT !.errorTimes = Append(Recent(@), 0),
                       !.failures = IF @ > RefuseErrors THEN @ ELSE @ + 1,
                       !.state = "reconnecting", !.waited = 0]
    IN  IF Len(e.errorTimes) >= RefuseErrors
        THEN [stop(e) EXCEPT !.wanted = FALSE, !.state = "refused"]
        ELSE IF e.es = "closed" THEN [dropSource(e) EXCEPT !.retry = TRUE]
        ELSE e

\* mount: a new stream, connected if the user left it connected.
Panel(on, events) == IF on THEN connect(New, events) ELSE New

Init ==
    /\ sel \in SUBSET Kinds /\ userOn \in BOOLEAN
    /\ hiddenPaused = FALSE /\ mounted = TRUE /\ hidden \in BOOLEAN
    /\ LET s == Panel(userOn, sel) IN
         /\ state = s.state /\ wanted = s.wanted /\ es = s.es /\ held = s.held
         /\ errorTimes = s.errorTimes /\ retry = s.retry /\ waited = s.waited
         /\ failures = s.failures /\ late = s.late
-----------------------------------------------------------------------------
\* onopen, or any payload: the attempt succeeded.
Opened ==
    /\ Trying
    /\ Becomes([Now EXCEPT !.es = "open", !.state = "live", !.errorTimes = <<>>,
                           !.failures = 0, !.late = FALSE])
    /\ UNCHANGED panel

\* 503, or any answer that is fatal to an EventSource.
Refused ==
    /\ Trying
    /\ Becomes(onError([Now EXCEPT !.es = "closed", !.held = @ - 1]))
    /\ UNCHANGED panel

\* A network error, or the end of a stream that was open: the browser retries.
Dropped ==
    /\ es \in {"connecting", "open"}
    /\ Becomes(onError([Now EXCEPT !.es = "connecting"]))
    /\ UNCHANGED panel

\* Mutant: the timer does not reopen the stream.
RetryFizzles ==
    /\ retry /\ waited > 0
    /\ Becomes([Now EXCEPT !.retry = FALSE])
    /\ UNCHANGED panel

RetryFires ==
    /\ retry /\ waited > 0
    /\ Becomes(IF wanted THEN open([Now EXCEPT !.retry = FALSE], sel)
               ELSE [Now EXCEPT !.retry = FALSE])
    /\ UNCHANGED panel

\* RETRY_MS pass; what is due is not left undone meanwhile.
Tick ==
    /\ \/ retry /\ waited = 0
       \/ Trying /\ waited < MaxAnswer
       \/ ~retry /\ ~Trying /\ \E k \in DOMAIN errorTimes : errorTimes[k] < RefuseWindow
    /\ errorTimes' = [k \in DOMAIN errorTimes |->
                        IF errorTimes[k] < RefuseWindow THEN errorTimes[k] + 1
                        ELSE errorTimes[k]]
    /\ waited' = IF retry \/ Trying THEN waited + 1 ELSE waited
    /\ late' = (late \/ (Trying /\ waited' > Prompt))
    /\ UNCHANGED <<state, wanted, es, held, retry, failures, panel>>
-----------------------------------------------------------------------------
\* The Connect / Disconnect button: setOn(!userOn).
Click ==
    /\ mounted /\ ~hidden
    /\ userOn' = ~userOn
    /\ IF userOn' THEN hiddenPaused' = FALSE /\ Becomes(connect(Now, sel))
       ELSE Becomes(close(Now)) /\ UNCHANGED hiddenPaused
    /\ UNCHANGED <<sel, mounted, hidden>>

\* The Retry button, which is shown beside a refusal.
Retry ==
    /\ mounted /\ ~hidden /\ state = "refused"
    /\ userOn' = TRUE /\ Becomes(connect(Now, sel))
    /\ UNCHANGED <<sel, hiddenPaused, mounted, hidden>>

setEvents(s, events) == IF s.wanted THEN connect(stop(s), events) ELSE s

\* A source check box.
TickBox(k) ==
    /\ mounted /\ ~hidden
    /\ sel' = IF k \in sel THEN sel \ {k} ELSE sel \cup {k}
    /\ LET s == setEvents(Now, sel') IN
         Becomes(IF sel' = {} THEN close(s)
                 ELSE IF userOn /\ ~hiddenPaused /\ ~s.wanted /\ s.state # "refused"
                 THEN connect(s, sel') ELSE s)
    /\ UNCHANGED <<userOn, hiddenPaused, mounted, hidden>>

\* The tab goes to the background, with pauseWhenHidden on or off.
Hide ==
    /\ ~hidden /\ hidden' = TRUE
    /\ \E pauseWhenHidden \in BOOLEAN :
          IF /\ mounted /\ userOn /\ pauseWhenHidden
             /\ es # "none" \/ retry \/ wanted
          THEN hiddenPaused' = TRUE /\ Becomes(close(Now))
          ELSE UNCHANGED <<hiddenPaused, stream>>
    /\ UNCHANGED <<sel, userOn, mounted>>

\* Mutant: coming back reconnects whether or not hiding had disconnected.
ShowAlways ==
    /\ hidden /\ hidden' = FALSE
    /\ IF mounted /\ userOn
       THEN hiddenPaused' = FALSE /\ Becomes(connect(Now, sel))
       ELSE UNCHANGED <<hiddenPaused, stream>>
    /\ UNCHANGED <<sel, userOn, mounted>>

Show ==
    /\ hidden /\ hidden' = FALSE
    /\ IF mounted /\ userOn /\ hiddenPaused
       THEN hiddenPaused' = FALSE /\ Becomes(connect(Now, sel))
       ELSE UNCHANGED <<hiddenPaused, stream>>
    /\ UNCHANGED <<sel, userOn, mounted>>

Unmount ==
    /\ mounted /\ mounted' = FALSE
    /\ Becomes(close(Now))
    /\ UNCHANGED <<sel, userOn, hiddenPaused, hidden>>

Mount ==
    /\ ~mounted /\ mounted' = TRUE
    /\ hiddenPaused' = FALSE
    /\ Becomes([Panel(userOn, sel) EXCEPT !.held = @ + held])
    /\ UNCHANGED <<sel, userOn, hidden>>

User == Click \/ Retry \/ (\E k \in Kinds : TickBox(k)) \/ Mount \/ Unmount

Next ==
    \/ Opened \/ Refused \/ Dropped \/ RetryFires \/ Tick
    \/ User \/ Hide \/ Show

Spec == Init /\ [][Next]_vars

\* An attempt succeeds or fails.
Settles == Trying /\ (Opened \/ Refused \/ Dropped)

\* Attempts settle, timers fire, time passes.
FairSpec ==
    /\ Spec
    /\ WF_vars(Settles) /\ WF_vars(RetryFires) /\ WF_vars(Tick)
-----------------------------------------------------------------------------
TypeOK ==
    /\ state \in {"disconnected", "connecting", "live", "reconnecting", "refused"}
    /\ es \in {"none", "connecting", "open"}
    /\ {wanted, retry, userOn, hiddenPaused, mounted, hidden} \subseteq BOOLEAN
    /\ held \in Nat /\ failures \in Nat /\ waited \in Nat /\ late \in BOOLEAN
    /\ errorTimes \in Seq(0..RefuseWindow) /\ Len(errorTimes) <= RefuseErrors
    /\ sel \subseteq Kinds

\* One connection at most, and it is the current one: reconnecting, changing the
\* sources or coming back to the tab never leaves one behind on the server.
OneConnection == held = IF es = "none" THEN 0 ELSE 1

\* Nothing is open and nothing will reopen by itself while the panel is gone,
\* switched off, paused by the hidden tab, or refused.
Quiet ==
    ~mounted \/ ~userOn \/ hiddenPaused \/ state = "refused" =>
        es = "none" /\ ~retry /\ ~wanted

\* The state shown is the truth: live exactly when the source is open.
LiveIsHonest == state = "live" <=> es = "open"

\* The server, the browser and the panel agree on what is open.
ConnectionsSound == TypeOK /\ OneConnection /\ Quiet /\ LiveIsHonest

\* "Give up after REFUSE_ERRORS failures inside REFUSE_WINDOW_MS": a server is not
\* tried again after that many prompt failures in a row.
GivesUp ==
    ~late => /\ failures <= RefuseErrors
             /\ failures = RefuseErrors => es = "none" /\ ~retry

\* Only the user leaves the refused state: not a timer, not coming back to the tab.
RefusedWaitsForUser == state = "refused" /\ state' # "refused" => User

\* A refusal comes after so many prompt failures in a row, and stands until the user
\* undoes it.
RefusalStands == [][GivesUp' /\ RefusedWaitsForUser]_vars

\* The panel is left on, in a visible tab, with this selection.
LeftOn(kinds) == mounted /\ userOn /\ ~hidden /\ sel = kinds

\* A panel left on, in a visible tab, with a selection left as it is, ends up
\* live or tells the user that it was refused, unless an attempt is not prompt:
\* failures too far apart are forgotten.  It then tries anew, time and again.
Resolves ==
    \A kinds \in SUBSET Kinds \ {{}} :
       LeftOn(kinds) ~> (\/ state \in {"live", "refused"} \/ ~LeftOn(kinds)
                         \/ late /\ es = "connecting" /\ waited = 0)
=============================================================================
