# StratumTap: a verification project

StratumTap is a dashboard for a GPS-disciplined time server: a Python asyncio
service (`stratumtap/`) that reads gpsd and chrony, publishes to MQTT and serves
an HTTP API with live streams, and a page without a framework
(`stratumtap/static/js/`) that polls and streams from it.  This directory holds
TLA+ modules of its parts that have state and order, the TLC configurations
that check them on small instances, and TLAPS proofs of the properties that
matter most.  Paths below are relative to the repository's root.

Run everything from this directory: `tlc -config X.cfg M` for a row of
[Runs](#runs), `tlapm MProofs.tla` for a proof module.

## 1. The system

One process, one asyncio thread: code between two awaits is atomic, everything
else interleaves.  The collectors write the store and publish to the
broadcaster; the API reads the store and feeds streams from the broadcaster;
the MQTT publisher reads the store on a ticker.  The page is one thread too: its
"awaits" are fetches, imports, timers and DOM events.

```
 gpsd  --socket-->  GpsdClient --+--> StateStore --> API (JSON) ---> Api/Scheduler --> views
 chronyd -chronyc-> Chrony     --+        |                                   ^
                                 |        +------> MqttPublisher -> broker    | Router mounts
                                 +--> Broadcaster -> SSE / raw text -> RawStream (raw log panel)
```

| Component | State it keeps | Operations | What is hard | What makes it correct |
|---|---|---|---|---|
| stream fan-out (`stream.py`, stream endpoints of `api.py`) | `_subs`, `_next_id`, a queue and two counters per subscriber | subscribe, publish, the two generators, unsubscribe | clients that stall, hang up or die before their response starts, between any two awaits | cap, no slot lost, order, only the oldest dropped, counters add up, a slow client delays nobody |
| SSE generator against the clock (`stream.py`) | `last_out`, `next_stats`, `next_status` | one loop over one `wait_for` | three deadlines and a queue share one wait | nothing starves, silence is bounded |
| Home Assistant and the broker (external; `build_state`, `build_discovery`, `_nullable` of `mqtt.py`) | the retained topics; what each entity shows, and since when | deliver, expire, restart, subscribe again | three parties that restart in any order; a retained document is delivered again however old it is; null is not a value | nothing stale is shown, a lost feed and a dead service stop being shown, a forgotten device comes back |
| MQTT session (`mqtt.py`) | `connected`, `_client`, `last_error`, backoff, the retained availability topic | connect, announce, listen, tick, lose, retry, stop | the will, the farewell and a session that runs on while stop awaits | health and availability tell the truth; publishing resumes |
| MQTT pacing (`mqtt.py`) | `last_publish_at`, `_prev_state` | `should_publish`, `_publish_state` from two tasks | bookkeeping after an await; arithmetic on a clock that is being steered | ceiling, floor, promptness, deadband measured from what was sent |
| gpsd client (`gpsd.py`) | connection, backoff, idle strikes, the folded messages | connect, greet, watch, read, probe, lose, retry | silence that is legitimate, stale data after a reconnect | the snapshot is of one connection, losses show, sockets do not pile up |
| chrony collector (`chrony.py`) | one snapshot per loop, a child process | two poll loops | a chronyc that hangs, a chronyd that changes between two runs of a poll | one child, honest snapshots |
| state store (`state.py`) | NMEA ring, arrival times, history ring | append, prune, sample, downsample, export | off-by-one at the edges, a wall clock that steps, an export that reads the ring from another thread | exactly the newest lines, fair thinning, a truthful rate, an export that is whole or breaks off |
| polling scheduler of the page (`refresh.js`, `api.js`, `store.js`, header of `app.js`) | timer, `inFlight`, backoff, settings, connection state | run, schedule, reschedule, refreshNow, visibility | six event sources re-arm one timer | one request at a time, the right timer, trouble shows, polling never stops |
| router of the page (`app.js`) | `currentRoute`, `currentUnmount`, mounted views | route | navigation while a view is being imported | one view, the one of the address |
| raw stream of the page (`stream.js`, `components/rawlog.js`) | EventSource, retry timer, error times, panel switches | connect, close, setEvents, onError, hide, show | the browser's retries, ours and the user's | one connection, an honest state, retries that end |
| list of the raw panel (`components/rawlog.js`) | entries, lines waiting for a frame, rows on the screen, pause, filter | addEntry, flush, rerender, setPaused, Clear, snapshot | three lists cut and refilled by different handlers; a snapshot beside a stream | nothing missing, repeated or out of order |
| history charts (`components/history.js`, `views/detail.js`) | range, rows, a load under way | load, setRange, appendLive | loads, polls, choices and changes of view interleave | the charts reach back as far as the stored range says |
| lifespan (`app.py`, under `deploy/stratumtap.service`) | which components run, what is still to be stopped | start all, stop all in the opposite order | every stop is awaited while the rest goes on; an open stream holds up the exit until systemd kills; a source whose start fails; crash and restart | who still reads a source has it; nothing outlives the process |
| browser clock (`clock.js`, `api.js`) | a ring of samples, the best of them | addSample, fed by every exchange | clocks that are stepped, exchanges that overlap | the offset shown is as good as the delay shown beside it says |
| recorder (`recorder.js`) | recorded samples, cap, count of the dropped | toggle, add, clear, setCap, export | a cap reached or lowered while recording, across views and reloads | the last samples in order, never more than the cap, the others counted |
| API, models, geo, nmea, config, demo, loop monitor, rendering, scripts | none that lasts, or plain assignments | | | not modelled, see [Not modelled](#8-not-modelled) |

## 2. Modules

| Module | Models | Composes / refines |
|---|---|---|
| `FreshFeed` | the abstract feed: readers, backlogs, drop the oldest, emitting never blocks | |
| `Broadcaster` | `Broadcaster`, `Subscriber`, both generators, `get_stream`, `get_stream_nmea_text` | implements `FreshFeed` |
| `SseLoop` | one run of `sse_generator` against the clock | the timers `Broadcaster` abstracts |
| `MqttSession` | `_run`, `_session`, `_announce`, `_listen`, `_ticker`, `stop`, the broker's will | |
| `Service` | `lifespan` of `create_app`, systemd and uvicorn as far as they end the process | extends `MqttSession`: its `Stop` is one step of the exit, a new process starts a new publisher |
| `HomeAssistant` | `build_state`, `_COMPONENTS`, `build_discovery`, the templates; the retained topics, Home Assistant, the restarts of both | extends `Service`: every step of it that publishes is delivered |
| `MqttPacing` | `should_publish`, `significant_change`, `_publish_state` with both publishers | inside a session of `MqttSession` |
| `Gpsd` | `GpsdClient` and `GpsdState`; `get_health`, `build_state` and `build_position` as readers of the snapshot | |
| `Chrony` | one poll loop, `run_chronyc` | |
| `Store` | the rings of `StateStore`, the export in its worker thread | |
| `Refresh` | `Scheduler`, `Api.#request`, the header controls, `setStatus` and `setError` of the store | |
| `ClockSync` | `ClockSync`, fed by `Api.#request` | |
| `Router` | `route` | |
| `Page` | `HistoryPanels`, `Recorder`, the stored settings, a reload of the page | extends `Router`: the charts live as long as their view, the recorder as long as the page |
| `RawStream` | `RawStream` and the panel that drives it | |
| `RawLog` | the panel's list | extends `RawStream`: its events, connections and check boxes drive the list |
| `Filter` | `Array.prototype.filter` and the list comprehension, as a recursive function, which the prover can expand where it has no rule for `SelectSeq` | used by `RawStream`, `RawLog`, `Store` |
| `MC...` | small instances for TLC | |
| `...Proofs` | theorems of the module of that name | `PageProofs`: `Refresh`, `ClockSync`, `Page`; `BufferProofs`: `RawStream`, `RawLog`, `Store` |

How state and actions correspond to the code:

- **Broadcaster.**  `subs` is `_subs`, `pc[c]` the await the response of `c` is
  suspended in: `accepted` (subscribed, body never pulled), `waiting` (in
  `queue.get`), `writing` (at a `yield`).  A queue holds positions in `log`, the
  history of everything published.  `publish` is one step, as it has no await.
  `AbortUnstarted` is a response that dies before its generator first runs, so
  that no `finally` runs; its id is remembered in `leaked`.
- **SseLoop.**  Instants are kept relative to `loop.time()`.  `Poll` is the code
  from the head of the loop to the await.  `wait_for` suspends whether there is time
  left or not: in `get` the task waits for an item or the deadline (`Got`, `Expire`),
  in `cancel` for the cancelled get to unwind, which is a second await, and where
  `wait_for(timeout=0)` goes at once (`Cancelled`).  `SendStatus`, `SendStats` and
  `CheckSilence` are the timer half of the body in its order.
- **MqttSession.**  One control variable per task (`run`, `main`, `listener`,
  `ticker`, `stopping`).  `link` is the connection as the broker sees it, `half`
  while the broker has not noticed that it is lost; `LastWill` is the broker.  A session
  that fails goes through the awaits of its exception: the task or the await that raises
  (`MainFails`, `ListenerFails`, which sets `last_error`, `TickerFails`), `gather`'s
  `finally` (`Unwind`), `__aexit__` with its DISCONNECT (`leaving`), and only then the
  `finally` of `_run` (`SessionEnds`).
- **Service.**  `phase` goes from `serving` to `draining` when SIGTERM arrives and to
  `stopping` when no response is open, where uvicorn enters the lifespan's exit;
  `leaving` is what the `finally` clause has still to stop, one action for each stop,
  because each is awaited.  `Die` is a crash, or systemd's kill, at any moment; what it
  leaves at the broker stays there for `StartUp` of the next process.
- **HomeAssistant.**  A document is the set of feeds it holds values for, and `flags`
  for the two binary sensors that always have one.  `Deliver` goes with every step of
  `Service`: it finds out which publishes the step issued from the await the task has
  entered (`Published`, `Announced`), keeps them where they are retained and hands
  them to a Home Assistant that is up.  `fresh` is the time since an entity took a
  value, which `expire_after` looks at, `age` the time since that value was built,
  which nobody looks at and the reader means.  `Tick` does not pass a session that has
  not published for `Interval`: that it does is `FloorKept` of `MqttPacing`.
- **MqttPacing.**  `inflight` are the publishes issued and not acknowledged, in
  order; `Record` is the bookkeeping after the await, from the values read
  before it.  `elapsed` is wall-clock age, `since`, `own`, `gap` and `stale` are
  real time and only histories.
- **Gpsd.**  A folded message is reduced to its origin: this connection
  (`fresh`) or an earlier one (`stale`).  `snapshot` and `Publish` are called
  exactly where the code calls them.  `mode` is what the TPV held says of the fix, and
  outlives nothing it came with.  Of PPS and TOFF the ages by the wall clock are kept as
  well, which `Second` and `ClockStep` change and `time_offset` reads.  `get_health`,
  `build_state`, `build_position` and `_gps_aged` are what the snapshot's readers make
  of it.
- **Chrony.**  Two loops that share nothing: a behaviour follows one of them,
  `loop` says which.  `chronyd` has a true reading, and the output of a run reports
  one in the convention of its format (a correction in the CSV, a size and a word
  in the text), is rubbish, or is missing because the run failed; the parsers turn
  it into the API's.  `told` is the last "ntp" event published to the streams.
  `get_raw` is what the raw endpoints answer: a text verbatim, or why there is none.
- **Store.**  A sentence is its serial number, a row its serial number and stamp.
  `csv` is the export: `history_csv` is a plain generator, which the response pulls
  in a worker thread, so that its scan of the deque (`CsvRow`) interleaves with the
  sampler's appends; `Mutated` is the deque's own check.
- **Refresh.**  One action per browser task.  A request has not got its headers,
  waits for its body, or was aborted.
- **ClockSync.**  `theta` is the true difference of the clocks.  An exchange under
  way carries the values `theta` has had since it was sent; its answer picks those
  at which its outer and its inner stamps were taken, as far as the order of the
  server's two allows (`Received`, `Sent`).  Offsets are kept doubled.  The browser's
  stamps lose the fraction of their millisecond (`Dropped`): the unit of time is a part of
  one.
- **Router.**  `awaiting` counts, per view, the calls of `route()` suspended in its
  import; `live` counts mounted views.  A view empties the element it is mounted in: on the
  screen is the one mounted last, `currentUnmount`.
- **Page.**  `panel` is the `HistoryPanels` on the screen, its rows reduced to the
  first and the last stamp; a load and a poll bring stamps of the server's clock
  `now`, up to one unit late.  A sample is its number since the recorder was
  cleared.  `Enter` is what of `Router` brings a view, `Elsewhere` the rest.  `Reload`
  keeps the address and the settings.
- **RawStream.**  The operators of the class take and return the stream as one
  record, so that a handler that calls three of them is one step.  The panel's buttons
  are `Click` and `Retry`, which is there beside a refusal.
- **RawLog.**  The operators take and return the list as one record, `log`.  An event is
  its place in `Feed`; `emitted` is the server's position and `pos` the connection's.
  The wait for a snapshot is not a state: its answer may be of any moment before.

## 3. Runs

| Run | Instance and bounds | Shows |
|---|---|---|
| `Broadcaster` | 2 clients of which one reads, cap 2, queue 2, 3 events, 2 subscriptions | `SlotsSound`: types, cap, ownership, no slot lost; `QueuesSound`: counters, order, only the oldest lost; `ImplementsFeed`; `Served` |
| `SseLoop` | the intervals of the code in seconds with status events, and shrunk ones without; writes up to 2 s, lateness up to 1 s | `TimetableKept`: periodic events on time, silence bounded; `KeepaliveShadowed`, `NothingStarves` |
| `HomeAssistant` | 2 starts of the process with the demo source, a stream, one lost or failed session or restart of the broker beside crashes and refused attempts, a restart of Home Assistant; backoff 1..2, the gps feed, interval 1, expiry 2 | `SessionsSound`: health and backoff; `AvailabilityHonest`; `ServiceSound`: readers have their sources; `ShowsCurrent`: nothing stale; `LossAges`: null expires; `Recovers`: publishing is resumed after every loss, to a Home Assistant that knows the device; `GoneShows` |
| `MqttPacing` | floor 6, ceiling 2, publishes of up to 1 tick, values 0..2 with a deadband of 1, one clock step of 8 either way | `CeilingKept`; `FloorKept`: silence lasts at most the interval or one `Turn` of the ticker (`2 * MaxWrite + 1`); `ChangesShow`: changes within the minimum interval or one `Turn`, measured from what was sent |
| `Refresh` | intervals off, 2 s and 60 s, cap 30 s | `OneRequest`, `Armed`, `TroubleShows`, `PollsKeepComing` |
| `Page` | 2 views, 2 navigations, unknown hashes, ranges 1 and 3, caps typed -1, 0 and 4 for limits 2..3, 3 polls, 1 reload | `RightView`: one view, the one of the address, or a banner; `RecorderSound`, `HistoryCurrent` |
| `Router_impatient` | `Router` alone: 2 views, 5 navigations, unknown hashes | the finding below: `ExactlyOneView` is violated |
| `RawLog` | 2 families, 2 errors within 2 retries, answers within 1, prompt within 0; 3 events, 2 entries, 2 rows, snapshots of 2 | `ConnectionsSound`, `LogSound`; `RefusalStands`: a refusal after so many prompt failures; `Resolves`: live, refused, or a new attempt time and again |
| `Gpsd` | 2 devices, backoff 1..4, recency limit 1, ages to 2, one clock step of 3 either way | `SnapshotHonest`, `OffsetPreferred`, `SessionsSound`, `Recovers` |
| `Store` | ring 2, history 5, window 2 s, 6 s, 3 sentences, one backward step, exports of 2 rows | `LinesSound`: the newest lines, a recent rate; `DownsamplingFair`, `ExportWhole` |
| `ClockSync` | half milliseconds; ring 2, delays 0 and 3, delays from -10 to 20 accepted, two steps of -3 or 40, 2 exchanges at once | `EstimateSound` |
| `Chrony` | either loop, two readings (slow and synchronised, fast and not), up to 2 children that survive their kill by a second | `OneChild`, `HonestSnapshot`, `LossShows` |

Why the bounds are enough. In `HomeAssistant` two starts let one process find what
another left behind, and losses, restarts of the broker and one of Home Assistant
may fall anywhere between; the theorems of `HomeAssistantProofs` are about any number
of each, any feeds, both sets of sources and any intervals. So are the theorems of the
other modules: what a bound below leaves out, they cover. An expiry of two ticks is
longer than the interval and short enough to run out twice. `Recovers` after one loss is
`Recovers` after each; the safety was checked with two losses as well. Two clients are
all that ownership relates, and three events overflow a queue of two; the safety of
any number of clients, subscriptions and events is proved. The floor of `MqttPacing`
is three times its ceiling and a clock step is longer than both, so every branch of
`should_publish` is taken before and after a step. `Refresh` has an interval above and
one below the cap. The retry window of `RawLog` holds the errors of prompt attempts and
not those of the others, so both giving up and forgetting happen (the code's numbers,
3 errors in 5 retries, answers within 3 and prompt within 1, were checked with
`RawStream` alone); the list and the screen hold less than the events (the safety of
4 events, 3 entries and 2 rows was checked as well). The recorder of `Page` takes more
samples than the lower limit of its cap, and the shorter range is outlived by the
polls. The history ring of `Store` holds five rows, the least for which a step of 2
and of 3 both leave a remainder. A step of -3 in `ClockSync` is hidden by the
slack below zero, one of 40 is beyond what is accepted either way, and two of them let
the ring turn over in between. Where a bound matters to a property it appears in it:
`MaxWrite` and `MaxLag` as terms, `Prompt` in `late`, which `RefusalStands` and `Resolves`
except; `MaxAnswer` bounds an attempt that is late, and it is in none of them.

Deadlock is not checked where the system may stop: after `stop()`, in a closed
stream, when the bounded events of a run are used up.

## 4. Fairness

Fairness is assumed only of what the code or its runtime guarantees, and each
`FairSpec` names it.  The event loop runs every task that is ready: weak
fairness of each task's steps.  Awaits that have a timeout end: weak fairness of
the disjunction of answer and timeout.  Beyond that:

- `Broadcaster`: strong fairness of `Take`.  A timer may win a turn, but its next
  deadline then lies in the future, so it cannot win every turn.  Only a
  responsive client reads.
- `SseLoop`: strong fairness of `Tick` says only that time diverges.  Nothing is
  assumed of producers or of the queue; `NothingStarves` follows from the
  deadlines themselves.
- `HomeAssistant`, `Gpsd`: strong fairness of connecting.  A broker or gpsd that is
  never reached is not recovered from; one reached again and again is.
- `HomeAssistant`: time passes.  Nothing is assumed of the broker's will, of Home
  Assistant's "online" or of the listener, of collectors, streams, stops or restarts:
  `GoneShows` holds although the will may never be said, by the expiry.
- `RawLog`: an attempt to connect succeeds or fails (`Settles`), within `MaxAnswer`, in
  which the browser's own delay before it reconnects, 3 to 5 s, is included.  The code
  does not enforce it: an EventSource has no timeout, and a server that accepts a
  connection and never answers leaves the panel "connecting".  How fast it settles is
  not assumed.  Attempts that settle within `Prompt` fail inside the window,
  `(RefuseErrors - 1) * (Prompt + 1) < RefuseWindow`: with 3 errors in 10 s, retried after
  2 s, those within 2 s.  Slower failures are forgotten and retried for ever
  (`stream.js:166`), so `GivesUp` and `Resolves` except the time since one (`late`): all
  that `Resolves` then promises is another attempt, time and again, and the panel
  may be neither live nor refused.
- `Refresh`: a request whose headers have come settles.  The code does not
  enforce it: `api.js:55` clears the timeout when the headers arrive.  A body that
  never ends blocks polling for good.

## 5. Proofs

Every safety invariant and action property that a run checks, and the refinement, is
also a theorem.  The theorems hold for every value of the constants that satisfies the
module's assumption (`ConstantsAssumption`, or `StoreAssumption` and the like in a
module that shares its proofs with others), TLC's instances among them.  One assumes
more, and names it: `RightOrder` below.

- `BroadcasterProofs!SlotsAlwaysSound`: `Spec => []SlotsSound`.  Three inductive
  steps, each on the one before: types; `SlotInv`, which adds to the cap and the
  ownership that ids are given in increasing order (`IdsGiven`: no id in use is
  above `next_id`), without which a new id might collide; and `SlotsOwned`, for
  which a step is quiet, opens one stream or closes one (`StepCases`).
- `BroadcasterProofs!QueuesCorrect`: `Spec => []QueuesSound`.  The three parts are
  proved together, per client (`QueueOf`): the queue is ordered between the
  horizon and the length of the log, covers the wanted events in between, and
  the counters add up.  Order is needed to see that the head of a full queue is
  the oldest; completeness, to see that it moves the horizon by no more.
- `BroadcasterProofs!FeedImplemented`: `Spec => ImplementsFeed`, that is, `Broadcaster`
  with its ids, counters and generators implements `FreshFeed`, whose readers have sets of
  positions for backlogs.  Initial states map to initial states, and every step to a join,
  an emission, a delivery, a departure or a stutter.  It needs the invariants above and
  `Vacant` (a stream that is closed has nothing queued); an ordered queue is the set
  of its items, with the oldest at its head, which makes "drop the head" and "drop the
  oldest" the same (`ItemsOf`).
- `SseLoopProofs!TypeCorrect`, `KeepaliveNeverReached`: for all intervals with stats
  no rarer than keepalives, silence never lasts (`StatsBreakSilence`: silence plus
  the time to the next stats is at most the stats interval), so that at the
  check of the keepalive a frame has just been sent.  The branch is dead code with
  the constants of the module.
- `SseLoopProofs!TimetableAlwaysKept`: `PeriodicOnTime` and `SilenceBounded` for all
  intervals, queue sizes and delays.  `Timetable` says for each place of the generator
  what may yet delay a timer: at `timers`, a stats event that is due has waited for two
  resumptions (of the get whose item was sent before it, and of the next one's
  cancellation) and one write, and for the status event's write if that has gone first; one
  that was not due when `now` was read has one write to wait for and a new turn.
- `GpsdProofs`, in four layers.  `ClientInv` is the connection's bookkeeping (socket,
  probe, backoff), `StateInv` what `GpsdState` may hold with and without a connection,
  `AgesInv` the two ages of an offset, `ShownInv` what was published of them.  A
  snapshot is honest when it is made, because the state it is made of is
  (`PublishSound`), and stays so until the next (`NothingPublished`); that the choice of
  the offset is the documented one is a case analysis of its three guards
  (`OffsetSound`).  Theorems: `SnapshotAlwaysHonest`, `OffsetAlwaysPreferred`,
  `SessionsAlwaysSound`.
- `MqttPacingProofs!CeilingAlwaysKept`, assuming `MinInterval <= Interval`
  (`RightOrder`: `should_publish` asks the floor before the ceiling): two messages
  the ticker sends in a session are at least the minimum interval apart.  The
  invariant `Paced` says that wall-clock age is at most real age since the ticker's
  last message (`Behind`), of the recorded publish and of every message in flight
  that may yet be recorded (`Fits`): the listener's publishes are recorded late
  and out of turn, but never with an age beyond that.  Each task has at most one
  message in flight (`Single`).
- `MqttPacingProofs!FloorAlwaysKept` and `ChangesAlwaysShow`, with the intervals in any
  order: the invariant `Timely` stands beside `Paced`.  The state message in flight that
  was sent last is what the broker shows (`Shows`), no message is older than `MaxWrite`
  (`Prompt`), a ticker awaiting its own message is within its turn (`InTurn`), and one that
  sleeps has left time for the rest of its second, whatever the listener sends and records
  meanwhile.
- `PageProofs!RequestsNeverOverlap`, `TimerAlwaysRight`, `TroubleAlwaysShows`
  (with the types, `TypeCorrect`): one inductive invariant (`SchedulerInv`), since the timer is right
  only because `inFlight` is, and the pace only because backoff and error count are
  reset together.
- `PageProofs!EstimateAlwaysSound`, `ClockTypesCorrect`: the invariant `NewestClean` says
  that all but the `doubtful` oldest samples of a full ring are within half their delay
  of the truth, and what `Date.now()` dropped from `t3`.  A push moves every sample one place and takes one off `doubtful`; a
  step makes the whole ring doubtful; raising a delay to zero only widens the bound.
  What `t0` loses lengthens the delay and the offset alike, and needs no allowance.
- `PageProofs!RightViewAlways`: `RouterInv` counts, per view, the calls of `route()` under
  way and the views mounted (`Counts`), ties the last call to the address (`Underway`) and,
  as long as no two loads have overlapped, has at most one of them at a time (`InTurns`).
- `PageProofs!RecorderAlwaysSound`: `RecorderInv` says that the samples are consecutive and
  end with the last recorded, that kept and dropped are all that were recorded, and that the
  cap is within its limits unless it was loaded as it was typed.
  `PageProofs!HistoryAlwaysCurrent`: `ChartsInv` says that charts on the screen which have
  missed no choice have the stored range, and that their rows reach back as far as
  that range does (`Reaches`), through loads, polls, choices and changes of view.
- `BufferProofs` begins with lemmas on filters: what `Kept` keeps, its length and order,
  how it goes with appending and with cutting off an end.  They are inductions over the length of a
  sequence, done through the least element of the set of counterexamples, since the
  library's induction theorems cannot be instantiated.
- `BufferProofs!ConnectionsAlwaysSound`: `StreamInv` says, of the operators that the
  handlers are built from, that each leaves a sound stream (`Sound`): a connection is held
  exactly when there is a source, the retry timer is armed only without one and while
  one is wanted, and a panel that is gone, off or paused wants none.
  The first half of `RefusalAlwaysStands` is about attempts that were all prompt (`~late`):
  then no error has aged out of the window before the next, and those remembered
  are as many as the failures in a row (`Counted`).  The second half, that only the user
  leaves a refusal, is about any.
- `BufferProofs!ListAlwaysSound`, with `LogIsAStream` (a step of `RawLog` is one of
  `RawStream`, so that its theorems hold there as well): `ListInv` says that what waits
  for a frame is an end of the entries, and that the rows followed by the waiting lines that
  match end in the newest lines that match; `InOrder`, that the entries are in the server's
  order and none is ahead of the connection's position while there is one.  Drawing,
  cutting, filtering, pausing, clearing and reconnecting each keep both.
- `BufferProofs!LinesAlwaysSound`, `DownsamplingAlwaysFair`, `ExportAlwaysWhole`:
  `StoreInv` says that the ring holds the last serials and the arrival times an end of
  all arrivals, of which a clock that was not stepped has only cut old ones (`Timely`),
  that history rows are the newest samples in order (`Serial`), and of an export under way
  that it has found what a request would have found in the part it has scanned
  (`Scanned`).  The rate is the size of an interval of arrivals.  Thinning takes the rows at
  places a constant stride apart, the last one included (`EvenlySpaced`), so that
  between two kept rows as many are left out as between any other two; they are counted by
  a bijection onto an interval (`GapIs`).
- `ChronyProofs`.  `ChildInv` counts the processes phase by phase: one more than the
  strays exactly while a run is awaited (`ChildrenNeverPileUp`).  `PollInv` says that
  every output gathered is of a reading chronyd had since the poll began, and that one
  that is not a failure means it had some; so does then the snapshot made of them
  (`TrackingHonest`, `SourcesHonest`), with the sign of either form (`SignsKept`).
  Theorem: `SnapshotAlwaysHonest`.
- `HomeAssistantProofs`, in layers, each inductive on the one before.  `SessionInv`
  (with `AvailInv`) is what of a session holds at every await: which tasks run, that
  `connected` means a session, who announced last.  It is lifted to the process by
  `SessionMoves`, which says what a step of the publisher may do.  `ProcessInv` adds
  that the exit stops nothing before the publisher is done and begins only when no
  stream is open, so that until then every source that could be started runs.
  `ShownInv` ties what Home Assistant shows to the retained document: told what is retained, a value no
  older than the document while a session publishes (`PublishFacts`: no session has
  published unless a document went out).  `LossInv` says that a document with a feed
  that is lost was built before the loss, and so an entity last took it within
  `Interval` of it.  Theorems: `SessionsAlwaysSound`, `AvailabilityAlwaysHonest`,
  `ServiceAlwaysSound`, `NothingStaleShown`, `LossesAlwaysAge`.  They assume
  `Interval < ExpireAfter`, as the defaults 60 and 180 have it; `config.py` checks neither.

What stays with TLC: the liveness properties (`Served`, `NothingStarves`, `Recovers`,
`GoneShows`, `PollsKeepComing`, `Resolves` and the `LossShows` of `Chrony`), since the
prover does not handle ENABLED and hence no fairness.

## 6. Finding

`Router_impatient`: `app.js:3-5` says "Exactly one view is mounted at a time and
its unmount() is always called before the next mount".  `route()` calls
`currentUnmount` and then awaits the import of the view (`app.js:260`).  A second
navigation during the await finds `currentUnmount` null; when the modules arrive,
both views are mounted: the later empties the element of the earlier and is on the
screen, and only the later can be unmounted.  The other keeps its listeners and, if
it is the detail view, its stream.  It takes two views not yet imported, as after the
page is loaded, and since the modules may arrive in either order, the view on the screen
may be the wrong one.  `Page` shows what is left of the promise: while no two loads
overlap there is exactly one view, and it is the one of the address, or a banner says
why not; overlapping or not, the view of the address is among those mounted unless its
own import failed (`RightView`).

## 7. Observations

Where the code does less than a comment or a document suggests, the property that
is checked names the exception, so that nothing else can hide behind it:

- A response that dies before its body is first pulled keeps its slot for ever:
  the generator's `finally` never runs (`api.py:341`; `docs/technical/streaming.md`
  says a disconnect is always cleaned up).  `SlotsOwned` excepts exactly `leaked`.
- `stop()` awaits the farewell before it cancels the session (`mqtt.py:731`): a
  session that announces itself meanwhile leaves "online" behind, and the clean
  disconnect discards the will.  `AvailabilityHonest` excepts `spoke`, and a session
  whose publish failed on a live connection (`excused`), which also disconnects
  cleanly.
- The listener publishes the state without asking `should_publish` (`mqtt.py:913`;
  `docs/configuration.md:105` calls the minimum interval a ceiling, however fast
  things change).  `CeilingKept` is about the ticker's messages, whatever the listener
  does in between.
- An export of the history scans the deque in a worker thread (`state.py:148`).  If the
  sampler appends meanwhile, the scan raises and the response breaks off after the
  header line.  `ExportWhole` says that an export that does not break off is whole.
- The age of the last publish is wall-clock time (`mqtt.py:314`).  A step forward
  breaks the ceiling, a step back the floor: `forth` and `back` in `CeilingKept`,
  `FloorKept` and `ChangesShow`.  So does the sentence rate of the store
  (`state.py:99`): the rate of `LinesSound` is about a clock that was not stepped.
- The backoff of the page's scheduler starts from the interval and is capped at
  30 s (`refresh.js:83`): at an interval of 60 s the second failure shortens the
  wait from 60 s to 30 s.
- The browser's stamps are whole milliseconds (`api.js:40`, `58`), so that on a LAN whose
  round trip is shorter the page shows a delay of 0 ms beside an offset that is up to 1 ms
  too high, more than the half delay of `clock.js:11-12`; the comment at `clock.js:40-42`
  is about the delay only.  `EstimateSound` allows for it on that side.
- A receiver that is unplugged while gpsd stays up leaves its last fix available
  beside the error "it reports no GPS device" (`gpsd.py:489`).
- A range chosen while the charts are loading is stored and marked, but its load is
  dropped (`history.js:398`) and nothing repeats it: the charts keep the old range's
  rows.  `HistoryCurrent` excepts `missed`, which the next load ends.
- The recorder's cap is clamped when it is typed but stored as typed
  (`detail.js:94`): a page loaded afterwards takes the stored number as it is
  (`app.js:23`), although `docs/user-guide/recording-export.md:33` says it is clamped.
  With 0 every sample is dropped at once, and with a negative one the count of the
  dropped is too high.  `RecorderSound` excepts `loadedCap`.
- A snapshot taken beside an open stream replaces what has arrived and may hold lines
  that are yet to arrive (`rawlog.js:450`): `LogSound` excepts `mixed` from the order.
- The streams are not told when chrony is lost: "ntp" events are published of available
  snapshots only (`chrony.py:519`).  `LossShows` is about the store.
- When only the text run of a poll fails, the raw endpoint answers "unavailable: not
  collected yet" although the poll was collected and has no error (`api.py:141`;
  `docs/api-contract.md:233` has a line that says why).  `HonestSnapshot` is about polls
  without an answer, where it does.
- Whether PPS is recent is wall-clock arithmetic (`gpsd.py:364`): after a step back a
  PPS that has stopped stays preferred.  `OffsetPreferred` excepts clocks that were
  stepped.
- An SSE stream that its client keeps open keeps uvicorn from the lifespan's exit
  (`app.py:106`), so that systemd's kill after `TimeoutStopSec=10` ends the process: no
  farewell is said, and Home Assistant learns it from the will.  `GoneShows` holds on
  either path.
- `LossAges` rests on Home Assistant not restarting `expire_after` for a template that
  renders nothing, as the comment at `mqtt.py:333` has it: the mutant `TakesAny` is the
  other reading, under which a lost feed is shown for ever.
- A Home Assistant that restarts is sent the retained document whatever its age, and
  shows it for another `ExpireAfter`.  With a session that publishes that is at most one
  interval (`ShowsCurrent`); with a service that is down it shows nothing, for the
  availability says so, unless "online" was left behind (`excused`, `spoke`).
- After a restart of the broker and Home Assistant together the service announces the
  device by itself (`Recovers`); `docs/integrations/home-assistant.md:305` advises
  to restart it.
- The position is retained, is never withdrawn and has no `expire_after`
  (`mqtt.py:952`, `638`): a receiver that is gone leaves it on the map while the service
  is online.
- `/health` may show a publisher that is connected and its last error together: a
  re-announcement that fails notes the error at once (`mqtt.py:918`), and the flag is
  cleared when the session has unwound (`mqtt.py:845`).  `HealthHonest` says that it is
  then the error of that session, never one of an earlier attempt.
- A view empties the element it is mounted in, of a "View failed to load" too
  (`detail.js:18`, `dashboard.js:14`, `app.js:264`): if the loads of two navigations
  overlap, the later one's import fails first and the earlier one's module arrives then,
  the page shows the earlier view, and neither the view of the address nor why it is not
  there.  `AddressIsShown` asks for the banner only where no loads overlapped.
- The backoff of gpsd is reset only when a session ends by EOF (`gpsd.py:650`): a long one
  that ends in an error waits as long as the last failure did.
- `beforeunload` stops the scheduler for good (`app.js:315`): a page restored from the
  browser's back/forward cache polls no more.
- `sse_generator`'s keepalive, and with it its own disconnect probe, is unreachable
  with the intervals of the module (`KeepaliveNeverReached`): an SSE slot is freed
  only when the server cancels the response.

## 8. Not modelled

- `mqtt.py`: topics, names, units and rounding, which are pure; the position topic.  In
  `MqttPacing` the document is one number with a deadband, in `HomeAssistant` the feeds it
  has values for: a field that is null on its own (the PPS offset without PPS) is not
  told apart, and the state is retained (`mqtt_retain_state`, its default).
- `gpsd.py`: field conversion, satellite sorting; `chrony.py`: the columns beyond offset,
  stratum and leap status, and how numbers and words are read.
- `app.js`: a view whose `mount()` throws (it is mounted or its import fails).  `app.py`: middleware, the fallback of the SPA.  `recorder.js`: the serialisers; `components/rawlog.js`: rates,
  statistics, downloads; `views/detail.js`: the cards that draw the last status.
- The JSON endpoints of `api.py` but `/health` and the ages of `/gps` (stateless readers), `models.py`, `config.py`,
  `geo.py`, `nmea.py` (declarations and pure conversions), `demo.py` (a random
  simulator for screenshots), `loopmon.py` (its measure is `MaxLag`), the
  rest of `store.js`, rendering, scripts, deployment.

## 9. Plan

In this order, each with its MC module, its properties and, where the state is not
finite, its proof:

1. The position topic of `mqtt.py` beside the state, and the pacing of `MqttPacing`
   instead of `Tick`'s assumption in `HomeAssistant`.
2. The rest of the detail view: `pollSources` and its limit of one request in 10 s, the
   raw cards, `components/map.js`.
3. Pure algorithms with reference definitions: the NMEA checksum, the columns of the
   history.
4. `Page` with the polls of `Refresh` instead of polls at any time.
5. Theorems of the safety half of the liveness properties: while what is promised has not
   come, a fair action can be taken (its guard written out instead of ENABLED), and no
   step moves the deadline away.
