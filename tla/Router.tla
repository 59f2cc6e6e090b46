------------------------------- MODULE Router -------------------------------
(***************************************************************************)
(* The hash router of the page (route() in static/js/app.js).  route()     *)
(* unmounts the current view, awaits the import of the next one's module,  *)
(* and mounts it; a hashchange may start another route() during the await. *)
(* A module that has been fetched once is imported before the next task.   *)
(* A view empties the element it is mounted in, of another view and of a   *)
(* banner: on the screen is the view mounted last, the one whose unmount   *)
(* function is stored.                                                     *)
(***************************************************************************)
EXTENDS Integers

CONSTANTS
    Views,        \* the keys of ROUTES
    Home,         \* "#/"
    Unknown,      \* any other hash
    None,         \* no view
    MaxNavs       \* bound on the navigations

ASSUME ConstantsAssumption ==
    /\ Home \in Views /\ Unknown \notin Views /\ None \notin Views \cup {Unknown}
    /\ MaxNavs \in Nat

VARIABLES
    hash,             \* location.hash
    events,           \* hashchange events not handled yet
    currentRoute,
    currentUnmount,   \* the view the stored unmount function belongs to
    live,             \* how many instances of each view are mounted
    awaiting,         \* how many calls of route() wait for the module of each view
    fetched,          \* the modules the browser has
    failed,           \* the page shows "View failed to load"
    missing,          \* history: the import of currentRoute's view has failed
    navs,
    overlapped        \* history: a route() began while another one awaited

vars == <<hash, events, currentRoute, currentUnmount, live, awaiting, fetched,
          failed, missing, navs, overlapped>>

Init ==
    /\ hash \in Views \cup {Unknown}
    /\ events = 1                       \* boot() calls route() itself
    /\ currentRoute = None /\ currentUnmount = None
    /\ live = [v \in Views |-> 0] /\ awaiting = [v \in Views |-> 0]
    /\ fetched = {} /\ failed = FALSE /\ missing = FALSE
    /\ navs = 0 /\ overlapped = FALSE

Navigate ==
    /\ navs < MaxNavs
    /\ hash' \in (Views \cup {Unknown}) \ {hash}
    /\ events' = events + 1
    /\ navs' = navs + 1
    /\ UNCHANGED <<currentRoute, currentUnmount, live, awaiting, fetched, failed,
                   missing, overlapped>>

\* Mutant: an unknown hash is ignored.
RedirectNowhere ==
    /\ events > 0 /\ hash \notin Views
    /\ events' = events - 1
    /\ UNCHANGED <<hash, currentRoute, currentUnmount, live, awaiting, fetched,
                   failed, missing, navs, overlapped>>

\* location.replace("#/") for a hash that names no view.
Redirect ==
    /\ events > 0 /\ hash \notin Views
    /\ hash' = Home
    /\ UNCHANGED <<events, currentRoute, currentUnmount, live, awaiting, fetched,
                   failed, missing, navs, overlapped>>

AlreadyThere ==
    /\ events > 0 /\ hash = currentRoute
    /\ events' = events - 1
    /\ UNCHANGED <<hash, currentRoute, currentUnmount, live, awaiting, fetched,
                   failed, missing, navs, overlapped>>

\* Mutant: the old view is never unmounted.
StillMounted == live

Unmounted ==
    IF currentUnmount = None THEN live
    ELSE [live EXCEPT ![currentUnmount] = @ - 1]

Awaited == {v \in Views : awaiting[v] > 0}

Suspend ==
    /\ live' = Unmounted
    /\ currentUnmount' = None
    /\ awaiting' = [awaiting EXCEPT ![hash] = @ + 1]

\* route(): unmount, remember the route, empty the element and import; mount at
\* once if the module is there, otherwise suspend.
Route ==
    /\ events > 0 /\ hash \in Views /\ hash # currentRoute
    /\ events' = events - 1
    /\ currentRoute' = hash
    /\ failed' = FALSE /\ missing' = FALSE
    /\ overlapped' = (overlapped \/ Awaited # {})
    /\ IF hash \in fetched
       THEN /\ live' = [Unmounted EXCEPT ![hash] = @ + 1]
            /\ currentUnmount' = hash
            /\ UNCHANGED awaiting
       ELSE Suspend
    /\ UNCHANGED <<hash, fetched, navs>>

\* The module arrives: every route() that awaits it goes on to mount its view,
\* which takes the place of whatever the element holds.
Fetched(v) ==
    /\ v \in Awaited
    /\ fetched' = fetched \cup {v}
    /\ live' = [live EXCEPT ![v] = @ + awaiting[v]]
    /\ currentUnmount' = v
    /\ awaiting' = [awaiting EXCEPT ![v] = 0]
    /\ failed' = FALSE
    /\ UNCHANGED <<hash, events, currentRoute, missing, navs, overlapped>>

\* The import fails: a banner, below what the element holds.  A mount that throws
\* is not modelled.
FetchFails(v) ==
    /\ v \in Awaited
    /\ awaiting' = [awaiting EXCEPT ![v] = 0]
    /\ failed' = TRUE
    /\ missing' = (missing \/ v = currentRoute)
    /\ UNCHANGED <<hash, events, currentRoute, currentUnmount, live, fetched, navs,
                   overlapped>>

Next ==
    \/ Navigate \/ Redirect \/ AlreadyThere \/ Route
    \/ \E v \in Views : Fetched(v) \/ FetchFails(v)

Spec == Init /\ [][Next]_vars
-----------------------------------------------------------------------------
TypeOK ==
    /\ hash \in Views \cup {Unknown} /\ events \in 0..(MaxNavs + 1)
    /\ {currentRoute, currentUnmount} \subseteq Views \cup {None}
    /\ live \in [Views -> Nat]
    /\ awaiting \in [Views -> Nat] /\ fetched \subseteq Views
    /\ {failed, missing, overlapped} \subseteq BOOLEAN /\ navs \in 0..MaxNavs

\* "Exactly one view is mounted at a time and its unmount() is always called
\* before the next mount" (app.js:3-5): never two, and the one there is is the one
\* that will be unmounted.
ExactlyOneView == \A v \in Views : live[v] = IF v = currentUnmount THEN 1 ELSE 0

\* So it is, and the types hold, as long as no navigation begins while another
\* one awaits its view.
OneView == TypeOK /\ (~overlapped => ExactlyOneView)

\* Once everything has settled, the view the address names is mounted, unless its
\* own import failed; and if no loads overlapped it is the one on the screen, or a
\* banner says why it is not.
AddressIsShown ==
    events = 0 /\ Awaited = {} =>
        /\ hash = currentRoute
        /\ missing \/ live[hash] > 0
        /\ ~overlapped => (failed <=> missing) /\ (missing \/ currentUnmount = hash)

\* However navigations and loads interleave.
RightView == OneView /\ AddressIsShown
=============================================================================
