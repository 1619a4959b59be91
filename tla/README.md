# A TLA+ model of AppProcessWatcher

This directory specifies AppWatch (the Rust workspace `crates/apppw-*`), a
Windows program that captures network traffic with WinDivert, attributes it to
processes, runs an inspecting HTTP(S) proxy, stores what it saw in SQLite and
shows it in an egui window. The specifications are model-checked with TLC on
small instances; for every module that has behaviours of its own, type
correctness and all its safety properties are also proved with TLAPS, for
every size.

Contents: [parts of the system](#the-parts-of-the-system),
[modules](#modules-and-how-they-correspond-to-the-code),
[runs](#runs), [fairness](#fairness), [proofs](#proofs),
[findings](#findings), [what is not modelled](#what-is-not-modelled),
[plan](#plan).

## The parts of the system

```text
 WinDivert --> capture thread --packets--> runtime worker --messages--> window
                                            |   ^     ^  <--actions---
              clients --> proxy tasks --events--+     |
                            |  ^                      +-- processes, sockets
                  upstream servers                    +-- relaunch, certutil
                                            +--> appwatch.db
```

| Part | Source | State | Operations |
|---|---|---|---|
| Capture thread | `apppw-capture` `PacketCapture`, `CaptureHandle` | shutdown flag, channel | receive, parse, send; drop sets the flag, wakes the blocking receive with a datagram and joins |
| Packet parsing | `apppw-capture` `parse_packet` | none | direction, endpoints, end of a TCP connection, QUIC by the first payload byte |
| Connection tracker | `apppw-capture` `ConnectionTracker` | table by 5-tuple, next id | `process_packet`, `close_inactive` |
| Traffic correlator | `apppw-core` `TrafficCorrelator` | last observation per connection id | observe, correlate |
| Storage | `apppw-storage` `Database` | three tables with foreign keys | three upserts |
| Runtime worker | `apppw-ui` `runtime.rs` `run_components` | tracker, correlator, packet counts, process list, capture and proxy handles | one loop: one packet, all proxy events, all actions, a process list each second |
| Proxy | `apppw-proxy` | next request id, event channel; one task per client connection | accept, CONNECT, TLS interception, passthrough, forward, upgrade, shutdown |
| Proxy worker, CA store | `runtime.rs` `ProxyWorker` | key and certificate file, own thread with a tokio runtime | start, event loop, trust, drop |
| Relaunch | `apppw-windows` | none of its own; processes, handles and pids of Windows | relaunch one, relaunch all, launch |
| Process attribution | `apppw-windows` `SocketProcessResolver`, `runtime.rs` `resolve_packet_process` | none but the worker's list of processes; socket tables and processes of Windows | resolve |
| Application state | `apppw-ui` `application.rs`, `domain.rs` | rows, process list, selection, filters, baselines, timer | filter, classify, tick |
| User interface | `apppw-ui` `adapters/egui_ui.rs` | the same state, confirmations | receive messages, replace the list, clicks |
| Command line | `apppw-ui` `main.rs` | none | `launch`, `relaunch` |

Interaction is by unbounded channels, except for three places: the window and
the worker share nothing else, proxy tasks share the id counter and a channel,
and the key and certificate files, the database and the port are shared with
other runs of the program. Connection ids tie tracker, packet counts,
correlator, database and rows together: everything after the tracker keys on
the id alone.

What is hard here, and what makes each part correct:

* **Tracker**: one packet may sweep, update, reopen and close. Ids name one
  connection; entries stay under their own key; the returned events describe
  the change of the table; a packet removes what is idle and nothing else,
  under a clock that may jump; counters saturate.
* **Attribution**: a packet is resolved after it was captured, with up to two
  queries of the socket tables and two lists of processes, one of them up to a
  second old, while ports and pids are reused. A packet is given to nobody who
  did not have its socket, and is not left without an owner that was there all
  the time.
* **Worker, tables, rows**: the tracker is ahead of the events still to be
  handled, the window is behind them, the user pauses and clears in between.
  Counts agree with the tracker, no row outlives its connection, rows are
  current and never go back, requests and connections do not collide.
* **Correlator and storage**: a request is matched after the fact, statements
  fail and their errors are ignored, sessions share a database. A request is
  linked only to what alone can have carried it; history is only added to.
* **Threads**: four kinds of threads start, fail and end on their own. Closing
  the window ends everything; failures are shown; requests are answered.
* **Proxy**: tasks interleave and are dropped where they await. What a client
  was answered is recorded once, truthfully, without credentials; ids are
  unique; records arrive in order; shutdown does not wait for peers.
* **CA store**: files are rewritten on every start, perhaps by two programs.
  A trusted certificate stays the one that is served.
* **Relaunch**: pids are looked up more than once while processes come and go.
  A process is not started again while it runs, and twice only where two
  callers stopped it while it ran down or a wait ran out; what is started again
  had the pid that was chosen.
* **Window**: lists and rows change under the selection, frames are drawn only
  when asked for. Selection, baselines, pictures and visible rows agree;
  every message is read; the timer counts recorded time.

`PROJECT.json` lists these hazards one by one, at the line where each bites,
with the properties that cover it or the reason why none does.

## Modules and how they correspond to the code

State variables and actions carry the names of the fields and functions they
stand for wherever there is one; `map` in `PROJECT.json` has the lines.

| Module | Models | Remarks |
|---|---|---|
| `AppCore` | records of `apppw-core` | `U64` arithmetic saturates as `saturating_add`; `Elapsed` is `duration_since().unwrap_or_default()` |
| `ConnectionTracker` | `process_packet`, `close_inactive` | `returned` holds the call's events: the ids that expired, the one change, the id that ended. A TCP packet's FIN and RST are one flag, as the code only uses their disjunction |
| `PacketParsing` | `parse_packet`, `classify_udp_protocol` | a frame is what etherparse finds in it; `Parsed` is what the capture thread sends |
| `Attribution` | `resolve_packet_process`, `resolve_process`, `SocketProcessResolver` | one action per query of Windows (`Query`, `QueryAgain`, `ListProcesses`), since processes and sockets change between them; `WindowsRefuses` is any of them failing, the size race of `query_table` included; then `Track` hands the packet to the tracker. EXTENDS `ConnectionTracker` and `PacketParsing` |
| `ConnectionFeed` | abstract | what a stream of connection events promises: an id begins once, ends at most once, never returns in a session |
| `ProxyFeed` | abstract | what worker and proxy agree on: an exchange takes an id, leads to one event in a second step, and is not lost between the two. `Monitor`'s own proxy consists of its steps |
| `TrafficCorrelator` | `observe_connection`, `correlate_http_request` | a request matches exactly one resolved observation inside the window, or none |
| `Storage` | the upserts | `save_connection` is two statements; the second may fail after the first; a request with an unknown connection id violates its foreign key. `lost_connections` and `lost_requests` are auxiliary and remember what failed |
| `Monitor` | `run_components` with channels, database and table | one action per step between two channel operations: `ReceivePacket`, one action per kind of event, `HandleProxyEvent`, `EndIteration`, and the frame's `ReceiveConnection`/`ReceiveClosed`. `Restart` loses everything but the database, at any point. `heard` is auxiliary: all that the correlator was shown in the session |
| `MonitorProperties` | properties, inductive invariant's parts | |
| `Lifecycle` | starts, failures, actions, shutdown | the same worker by stages: `start_capture`, `start_proxy`, the loop, the drops in order. Contents of channels are reduced to counts |
| `Relaunch` | `relaunch_through_proxy` and its callers | processes have a pid, an executable and a state `live`, `dying`, `gone`; one that is dying can be stopped again, and may stay so for ever; a handle keeps a pid from being reused. `current` is the process that was chosen, from a list that may be old by the time its path is read. `launched`, `contested` and `stuck` are auxiliary: what was replaced by what, which processes one call stopped while another waited for them, and which outlasted a wait |
| `ExchangeLog` | abstract | what the proxy promises of its records: one an exchange, ids of their own and in a client's order, delivered in the order made, nobody answered before |
| `HttpProxy` | `apppw-proxy` and the loop of `ProxyWorker` | per client: the state of its link and of its current exchange, one action per stretch of code between two awaits |
| `CertificateStore` | abstract | what a user who trusts the certificate relies on: one authority, chosen once, served by whoever serves, nothing else trusted; no promise after a disturbance |
| `CaStore` | key and certificate files over restarts, by any number of programs | `fs::write` is two steps, empty and fill |
| `AppView` | `AppState` and the handlers, the pictures of processes | messages are arbitrary inputs here |
| `FrameLoop` | repaint requests, frames, timer | messages are counted; one of them is marked to ask whether it is read, and `owed` says that a repaint was or will be asked for it |
| `ConnectionTrackerProofs`, `AttributionProofs`, `MonitorProofs`, `WorkerProofs`, `RelaunchProofs`, `HttpProxyProofs`, `CaStoreProofs`, `AppViewProofs` | theorems | `WorkerProofs` has those of `Lifecycle` and of `FrameLoop` |

`Monitor` EXTENDS tracker, correlator and storage and composes them. `Lifecycle`
and `FrameLoop` are two further views of `run_components`, one for its threads
and one for its timing; together the three have every state change of the
loop, and keeping them apart keeps each small enough to explore. Their
connections: `Monitor`'s fairness of the frame loop is what `FrameLoop` checks
(`MessagesAreRead`); `Lifecycle`'s stop of the proxy is what `HttpProxy` checks
(`StopCompletes`); and what `Monitor` takes the proxy for is `ProxyFeed`, which
`HttpProxy` implements (`FeedsTheWorker`): its connections, failures and
dropped tasks can be left out of `Monitor` because of that. The worker's own
stop is the limit of this: while the proxy shuts down, events that it has not
handed on are dropped with its channel, which `Monitor` has as a `Restart`.

`Attribution` and `Monitor` divide the way of a packet: the first has
everything up to the tracker, with Windows beside it; the second starts from
packets to which resolution gave any process or none, and has everything
after.

Abstractions used throughout: names, addresses and paths are model values;
wording (toasts, messages, formatting) is left out; one tick of time is as
long as the model needs it to be. Auxiliary variables, which the code does not
have and no guard of a modelled action reads except to bound a run, are marked
as such where they are declared.

## Runs

`MC*` modules hold the small instances. Where no instance is needed beyond the
`.cfg` the module is checked itself. Deadlock checking is off throughout: each
model may stop for good, because its bounds are used up or because the program
has ended.

| Run | Instance and why it is enough | Shows |
|---|---|---|
| `attribution` | a browser and the proxy over the loopback, where both ends have an owner, a UDP port that two processes may share, QUIC and plain UDP, frames that do not parse; a pid that a second program may take over; two packets, three changes of processes or sockets at any moment, so that a socket and its process can change between two queries; times 0 and 1 in any order, timeout 1, counters that saturate at 4 | `NamedOwnedIt`, `SteadyOwnerIsFound`; `TrackerInv` (types, ids, keys), `EventsTellTheTable`, `ExactlyTheIdleGo` |
| `rows` | three packets of two flows, one request, a backlog of two, the user pauses and clears, one restart; timeout of one tick, so that a sweep can close a connection whose update is still queued. Without a database a second session starts as the first did, so states that differ only in the session's number, or in `heard`, which nothing in this run reads, are explored once (`RowsView`) | `MonitorInv` (with `CountsMatchTracker`), `NoGhostRows`, `RowsCurrent`, `RowsNeverRegress`, `RequestRowsStay`, and refinement of `ConnectionFeed` (`FeedPromise`) |
| `history` | one session, both directions of the client's connection to the proxy, two packets, one request, statements that fail; fair worker and frames | `HistoryComplete`, `HistoryKept`, `LinkedToOnlyCandidate`; `ClosedRowsLeave`, `RequestsShown`, `BacklogDrains` |
| `restart_history` | two sessions, statements succeed | *violation* of `HistoryKept`, see findings |
| `lifecycle` | every combination of failing starts, a dying capture, a dying accept loop, a wake-up that cannot be sent; two packets, two requests of the user | `LifecycleInv`, `NothingOutlivesTheWindow`, `ShutdownCompletes`, `RequestsAnswered` |
| `lifecycle_dead` | everything starts, the capture may die | *violation* of `DeadCaptureShown` |
| `relaunch` | the window's worker and a command line, each able to hit the other and a browser, two requests, one process that starts or exits on its own, four pids: enough for a process to be stopped twice while it runs down, to be stuck past a wait, and for a pid to change hands between being chosen, its path being read and its process being opened | `OneReplacementEach`, `RestartsWhatWasChosen`, `CallsEnd` |
| `http_proxy` | two clients, an inspected and a passthrough host, three kinds of requests, two exchanges: two that overlap are enough for ids and events to be interleaved | `ProxyInv`, refinement of `ExchangeLog` (`LogPromise`) and of `ProxyFeed` (`FeedsTheWorker`), `EventsTellWhatWentUpstream`, `StopCompletes`, `RecordedHandedOn` |
| `ca_store` | two programs, also side by side, five starts, four keys; programs end anywhere, files are cut off, unreadable, or read while the other program writes | `ServedIsExported`, `TrustedUnlessDisturbed`, refinement of `CertificateStore` (`StorePromise`) |
| `ca_store_torn` | one program, a key file that can always be read | *violation* of `TrustedStaysValid` |
| `app_view` | a browser with a child that restarts under another pid, an editor that takes over its pid, rows of unknown and vanished processes, two fingerprints, two rows, three filters | `AppViewInv`, `IconsShowTheirProgram`, `OneFingerprintShown`, `SelectionKeepsRows` |
| `frame_loop` | two messages per frame, queue of four, so that a frame leaves some behind; a second of two ticks, so that fractions are dropped | `PausesNotCounted`, `NoLostWakeup`, `MessagesAreRead` |

Bounds are CONSTANTS and appear only in guards of actions that bring in
something from outside (a packet, a request, a start, a tick), apart from
`FrameLoop`, whose queue bound also stops the worker from sending a row. In
the `Monitor` configurations `MaxU64` is 5, so that byte counters saturate
within three packets of size 3, while `HighBit` is 10: in the code 2^63 is
below 2^64, but a row's tag only has to be above every id, and shrinking the
counter's width for bytes shrinks it for ids.

## Fairness

Safety runs use the specification without fairness. Liveness runs assume only
what the code's own scheduling gives:

* `Monitor`: `WF` of the worker (a thread in a loop) and of the frame loop.
  The latter is justified by `FrameLoop`. Packets, requests, the clock, the
  user and restarts owe nothing.
* `Lifecycle`: `WF` of the threads' own steps. That an external program
  started by an action returns (`ActionsReturn`), and that some packet arrives
  after the capture was told to stop (`SomePacketArrives`, which the wake-up
  datagram provides when it can be sent), are explicit premises of the
  properties that need them, because nothing in the code enforces them.
* `HttpProxy`: `WF` of every task's step between two awaits, of the event loop
  and of shutdown. Clients and upstream servers owe nothing, which is why
  `StopCompletes` says something: it holds because ending the runtime drops
  waiting tasks, not because they finish. Dropping the runtime also waits for
  name lookups that have begun, on threads of their own; they end by
  themselves and are left out.
* `Relaunch`: `WF` of each relauncher's next step, including the end of the
  five-second wait. No process has to exit.
* `FrameLoop`: `WF` of worker, frames and time, `SF` of a successful process
  listing: listing may fail any number of times, not for ever. Without it
  `MessagesAreRead` fails for messages that ask for no repaint while recording
  is paused. Input is owed by nobody.

## Proofs

TLAPS proves, for every set of packets, processes and endpoints, every timeout
and every bound:

* `ConnectionTrackerProofs!TrackerInvariant`: `TrackerTypeOK`, `IdsIdentify`
  and `FiledUnderOwnKey` together are an invariant of the tracker. They are
  inductive as a conjunction: an opened connection gets an id above all others
  only because all others are known to be below `next_id`, and the update of
  an entry keeps it under its key only because it was there. `TrackerIds`
  follows, and with it what the steps tell: `EventsAreComplete`
  (`EventsTellTheTable`), which needs that no other entry has the id of the
  one that changes, and `IdleOnesGo` (`ExactlyTheIdleGo`).
* `MonitorProofs!MonitorInvariant`: `MonitorInv` is an invariant of the whole
  program. From it follow `MonitorTyped`, `CountsAreExact`
  (`CountsMatchTracker`), `NoRowIsGhost` (`NoGhostRows`) and `RowsAreCurrent`
  (`RowsCurrent`).
* `MonitorProofs!FeedPromiseKept`: `Spec => FeedPromise`, every step of the
  program is a step of `ConnectionFeed` or leaves it unchanged, with `open`
  mapped to the packet counts' domain and `used` to the correlator's.

`MonitorInv` consists of the tracker's invariant, the types, `CountsMatchTracker`,
`NoGhostRows` and three strengthenings. `ReturnedInStep` says how the events
still to be handled relate to the tracker, which is already past them: without
it nothing excludes that handling a Closed removes the count of a connection
that is tracked. `IdsInOrder` says that every id any consumer knows is below
the next one and that an id about to be opened is new: without it a new
connection could take over another one's count or row. Its last conjunct
bounds `next_id` by the packets captured, which keeps ids clear of saturation
and below the tag of request rows. `RowsInv` follows a connection's totals to
its row: the last message about a connection that is under way shows it, and
what is not under way the row shows already.

The order of messages is a second layer, proved on top of the first:

* `MonitorProofs!OrderInvariant`: `OrderInv` and `RequestsApart`. No row and no
  queued message is newer than the tracker, the messages of an id follow one
  another, each a later state of the connection than the one before, and the
  row of a request is sent once. From this follow the action properties
  `RowsOnlyGrow` (`RowsNeverRegress`) and `RequestRowsAreSafe`
  (`RequestRowsStay`): a state predicate about the table alone could not rule
  out that an older message is still to come.
* `MonitorProofs!HistoryInvariant`: within a session, that is with
  `MaxSessions = 1` as hypothesis, a stored connection is an earlier state of
  what the tracker and the events hold (`StoredBefore`). `HistoryIsKept`
  follows; for `HistoryKept` the hypothesis is necessary, as `restart_history`
  shows.
* `MonitorProofs!HeardInvariant`: `HeardInv`, which ties the correlator's table
  to `heard`: an id's entry is the last of all it was shown under the id, at
  no earlier a time and with every owner known before, and the tracker is
  never behind what was heard. So a candidate that was heard of is not hidden
  from the correlator by a later observation, and `OnlyMatch` concludes from
  its one match that there is one candidate. What the database holds of it is
  the other half of `LinkedToOnlyCandidate`: `OnlyCandidateIsLinked` has it
  from `StoredWasHeard`, within a session and with failed writes,
  `LinksSurviveRestarts` from `SavedAsObserved`, over any number of sessions
  under `~StatementsFail`.
* `MonitorProofs!HistoryIsComplete`: `HistoryComplete`, over any number of
  sessions and with statements that fail. It is the other side of
  `HistoryIsKept`: what is tracked now is stored as it is now, although an
  upsert may hit an earlier session's row under the same id, unless a write of
  that very connection failed; and a request is missing only if its own
  statement failed or its connection's did. The latter needs
  `ObservedAccounted`: the correlator, which chooses the connection a request
  names, is told of a connection after it was saved, so that the foreign key
  cannot fail for any other reason.
* `MonitorProofs!TakesTheFeed` and `HttpProxyProofs!WorkerIsFed` are the two
  sides of `ProxyFeed`: the program's steps at the proxy's channel are steps of
  it, and so are the proxy's. The second is where the work is. `under_way` is
  mapped to the tasks between `fetch_add` and `send`, so that it has to be
  shown that none of the many steps by which a task ends, fails or is dropped
  happens there.

* `AttributionProofs!AttributionInvariant`: `AttributionInv`. Each stage of a
  resolution relies on what earlier queries said of a world that has moved on,
  so `Accounted` ties them to the past: the worker's list to processes that
  ran since the last refresh, the second query's pid to the sole owners the
  socket has had. `SocketsOwned` is what Windows guarantees; without it a TCP
  socket could have two owners, or a pid in the tables no process. From it
  follow `NeverAGuess` and `SteadyOwnersAreFound`; `TracksPackets` shows that
  `Spec` implies the tracker's own specification, so that `AttributedIds` and
  `AttributedSteps` need no proof beyond the tracker's.
* `HttpProxyProofs!ProxyInvariant`: `ProxyInv`, with `LinksAgree` (what a
  connection's state says of its host and TLS), `ExchangesAgree` (which ids
  and numbers are out, who has recorded, who may answer) and `UpstreamAgrees`
  (what went upstream). `LogPromiseKept`: `Spec => LogPromise`, the steps
  between taking an id and sending the event being stutters of the log.
* `CaStoreProofs!CaStoreInvariant`: `CaStoreInv`. `Alone` is about programs by
  themselves, whatever happened to the files before; `OneKey` about any number
  of programs as long as nothing was disturbed: whoever is yet to write will
  write what is on disk. `StorePromiseKept`: `Spec => StorePromise`. The
  authority is the key on disk or, while the file is cut off, the one that the
  program which is rewriting it holds, so that all of `fs::write` is a stutter
  but for the very first time.
* `RelaunchProofs!RelaunchInvariant`: `RelaunchInv`. `Superseded` says that of
  the processes of one pid only the last can be alive or held open, `LookedUp`
  and `PathSince` what a relauncher knows after each of its two lookups,
  `Stopped` that a stopped process belongs to one relauncher unless it is in
  `contested` or `stuck`. `OneReplacement` needs nothing of Windows but that a
  process that is gone cannot be stopped. `RestartsTheChosen` is the last step
  of this chain: chosen, looked up, opened, stopped, started.
* `WorkerProofs!LifecycleInvariant`: `LifecycleInv`, which says for each
  stage of the worker and of the window which threads may still run.
  `NothingIsLeft` and `WorkerStays` follow.
* `WorkerProofs!FrameLoopInvariant`: `FrameLoopInv`. `PausesNotCounted` is
  inductive only with `TimerIsSet`: what a tick adds after a pause is bounded
  because the tick of the paused frame started the second again.
  `NoLostWakeup` relates the two sides of the queue: the worker, which asks for
  a repaint after sending, and a frame, which stops at its limit and asks for
  another. It is the safety half of `MessagesAreRead`, proved for every limit
  and queue. `TimerCountsRecording` and `WakeupsAreKept` follow.
* `AppViewProofs!AppViewInvariant`: `AppViewInv`. Rows agree with baselines
  only because whatever was classified left a baseline behind
  (`ClassifiedHaveBaselines`), pictures with programs only because none is
  kept for a pid that is not listed (`IconsListed`). `SelectionIsSteady`
  (`SelectionKeepsRows`) follows for steps: only a new list changes the list,
  and its selection has the old one's name.

The assumptions are those of the modules. The only ones beyond typing are
`IdSpaceAssumption` (fewer than 2^63 packets and requests in a session, the
premise under which the code itself uses the top bit as a tag), that there are
finitely many pids (`AttributionAssumption`), and that a picture is its
program's (`AppViewAssumption`). The proofs go action by action: each part of
an invariant has a lemma with one step per action that can disturb it.

Only model-checked: all liveness properties (`ClosedRowsLeave`,
`RequestsShown`, `BacklogDrains`, `ShutdownCompletes`, `RequestsAnswered`,
`CallsEnd`, `StopCompletes`, `RecordedHandedOn`, `MessagesAreRead`), because
fairness and ENABLED are outside the prover's reach. Every invariant and every
action property of the passing runs is proved.

## Findings

Runs with `"expect": "violation"` show where the code and what is said of it
disagree; `PROJECT.json` quotes the lines.

* `restart_history`: connection ids start at 1 in every session and the
  database upserts by id, so a restart overwrites stored connections.
* `lifecycle_dead`: a capture that dies while the program runs ends the worker
  silently and is still shown as ready.
* `ca_store_torn`: the key file is rewritten in place on every start; ending
  the program in the middle loses the trusted key.

Weaker points are not counted as findings, because no document speaks of
them; the passing properties are stated so that they show the limit.

* `RestartsWhatWasChosen` says no more than that path and process are of
  owners of the pid since the choice, one after the other: the pid comes from a
  list that may be a second old, and `relaunch_through_proxy` looks path and
  process up separately. If the pid changes hands in between, another program
  is stopped than the one chosen, or one is stopped and the other started; TLC
  reaches both.
* `OneReplacementEach` excepts processes that two calls stopped while they ran
  down, one still waiting, and those that outlasted a wait: TerminateProcess
  refuses only a process that is gone, the result of the wait is not looked
  at, and both calls start the executable. TLC reaches both.
* `NamedOwnedIt` speaks of a pid that had the socket and a process that ran
  under it since the last refresh: within that second a reused pid gives the
  packet the old process's name. A TCP socket that lingers after its process
  is listed under pid 0, and its late packets are attributed to that.
* QUIC is told from UDP by the first payload byte of a packet, so a QUIC
  connection's short-header packets are tracked as a second, UDP connection.
* Two programs started side by side both rewrite the key and certificate files
  before either has the port, and each may miss the other's key;
  `TrustedUnlessDisturbed` excepts just that, and a program that was joined by
  another can only count on its certificate up to rewrites in progress.
* `IconsShowTheirProgram` excepts a pid handed from one program to another
  between two lists: it keeps the old picture.
* `LinkedToOnlyCandidate` speaks of candidates with a known owner. If the owner
  of the connection a request came over was not found, and an older connection
  between the same endpoints is within the window, the request is linked to
  the older one. The property holds with failed writes within a session, and
  over restarts without failed writes. With both, the row of the id can be that
  of an older session's connection.

## What is not modelled

* Decoding of headers, HTTP, TLS and ClientHello: pure functions of bytes, by
  libraries, present as sets of outcomes. The grammar of filter texts: string
  matching without state, present as texts that are invalid, empty, or name a
  process.
* The two confirmations of the Proxy menu, a flag each; `Lifecycle` starts
  from the request they send.
* Times stored in the database, bodies, sizes and durations of requests,
  toasts, detail tabs, revealed bodies, painting, the drawing of icons: they
  decide what is shown of a row or a process, not which.
* `apply_proxy_settings`: files looked for and switches set for a new process.
* SQLite, hyper, rustls, tokio and egui themselves; they appear as the
  external definitions of `map`, as the code uses them.

## Plan

In place, in the order in which it was built: `AppCore` and
`ConnectionTracker` with its proofs; `TrafficCorrelator`, `Storage` and
`Monitor` with `ConnectionFeed` and its proofs; `Lifecycle`, `Relaunch`,
`HttpProxy`, `CaStore`, `AppView`, `FrameLoop`; then `PacketParsing` and
`Attribution`, `ExchangeLog`, several programs in `CaStore`, the chosen process
in `Relaunch`, pictures in `AppView`, and the proofs of all of these and of
`Lifecycle`; the proofs of what steps may not do in the tracker, in `Monitor`
and in `AppView`; last, the proofs of `FrameLoop`, `HistoryComplete`,
`ProxyFeed` between `Monitor` and `HttpProxy`, and `CertificateStore`.

To come, most important first:

1. *Composition* of `Lifecycle` with the proxy's and the CA store's start, so
   that a failed bind and a second program are one run.
2. The filter's grammar as operators over tokens, checked against a reference
   definition; the relaunch environment by runtime kind.
