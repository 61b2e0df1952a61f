# TLA+ models of obd_session_rs

Formal models of the session library: TLA+ modules translated from the Rust
sources under `src/src/`, TLC configurations that check them on small instances,
and TLAPS proofs about eleven of them. `PROJECT.json` is the index: it names the
source lines each definition stands for, what each run checks, and the hazards of
the code with the properties that cover them.

Contents: [the system](#the-system), [hard behaviours](#hard-behaviours),
[the modules](#the-modules), [the runs](#the-runs), [fairness](#fairness),
[the proofs](#the-proofs),
[where the code and its comments differ](#where-the-code-and-its-comments-differ),
[what is not modelled](#what-is-not-modelled),
[what could come next](#what-could-come-next), [running it](#running-it).

## The system

`obd_session_rs` drives an OBD-II adapter for a host application: it discovers
connectors, opens one, initialises the adapter, identifies the vehicle, and then
polls PIDs for subscriptions until the host disconnects or the link breaks. It
is multi-threaded throughout. The threads that matter are

| thread | what it runs |
| --- | --- |
| host threads | the public API (`session_manager/api.rs`, `mod.rs`) |
| lifecycle worker | `worker.rs`: Connect, Disconnect, Drop, Engage, Stop off one mailbox |
| discovery, one per attempt | `discovery.rs`: rounds of the connectors' lists |
| command worker | `command_processor.rs`: `processing_loop` |
| delivery thread | `external_platform.rs`: answers, timeouts, the two callbacks |
| connect and reader threads | `external_platform.rs`, `transport/`: opening and breaking links |

### Components

| component | state it keeps | operations | correct when |
| --- | --- | --- | --- |
| Command processor (`command_processor.rs`, `rate_limit.rs`) | bounded queue, outstanding command, `dispatching`, `completion_guards`, `hold_dispatch`, `chain_alive`, statistics, epoch of activity | queue, clear, hold/release, abort, stop, `wait_for_idle`, `mark_command_completed`, worker loop | one exchange at a time; a true idle verdict; no lost wake-up; nothing dispatched under a hold |
| Polling chain (`callbacks.rs`, `api.rs`) | `chain_alive`, `current_controller`, `in_flight_members` | data callback (complete, pick, switch header, queue), completion callback, kicks of start/resume, clears, aborts | every active subscription is polled; the chain is one; polls go out under their header; no PID is lost in flight |
| Subscription manager and PID registry (`subscription.rs`, `pid_registry.rs`) | subscriptions and their states, run counts, tiers; who wants each PID; scheduling ticks; PIDs in flight or streamed | create, add, remove, start, pause, cancel, pause all / resume many, `get_next_commands`, `command_completed` | registry and subscriptions agree; run counts are exact; tier ratios hold; an acquisition never overrules the host's pause |
| Session lifecycle (`worker.rs`, `connect.rs`, `mod.rs`) | session epoch, `terminal_claimed`, phase, `awaiting_selection`, mailbox | connect, select, disconnect; Connect, Disconnect, Drop handlers | one owner ends an attempt; nothing of an old attempt reaches a new one; every attempt is answered, every disconnect completes |
| Connector discovery (`discovery.rs`) | the list shown to the host, the round's generation | the loop, merging and pruning lists | it stops with its attempt; the picker belongs to the current one |
| Host-fed platform and delivery thread (`external_platform.rs`, `platform.rs`, `accumulator.rs`) | `connect_epoch` (the fence), writer, status, the pending command, the accumulator | connect, disconnect, abandon, send, deliver, fallback timer | a command is answered once, by its own reply; late links are closed |
| Engagement ladder, acquisitions (`engage.rs`, `sp_runtime.rs`, `uds_stream.rs`, `sink.rs`, `acquisition.rs`) | what is live and what it will resume, `engage_pending`, `hold_dispatch`, who receives the lines, the phase | engage, stop, pin, watchdog, sink, add and remove a signal, pause/resume of the polling | a request is served once; what was paused is resumed; one owner of the wire; a value is the PID's own bytes |
| Adapter-side periodic engines (`stn_periodic.rs`, `periodic_stream.rs`, `link/stn_periodic_engine.rs`, `link/dvi/periodic.rs`) | messages and slots in the adapter, armed or not, decoders | plan, install, monitor, break, tear down | the plan fits a frame; the engine knows whether the chip monitors; nothing keeps transmitting |
| Link handlers (`link/elm.rs`, `link/dvi/*`) | outstanding request and generation, reply slot of the setup exchanges, filters, slots, capture | encode, on_frame, collect, set up, capture, handshake | a reply goes to its own request; every command ends; what the handler believes of the adapter is so |
| Batching (`acquisition.rs`, `length_cache.rs`, `response_parser.rs`, `callbacks.rs`) | lengths learned, chunk and pipe admission, excluded PIDs | pick, build, demultiplex, learn, demote | a slice is that PID's data; no PID starves |
| Vehicle identification (`connect.rs`, `vehicle_info.rs`, `tier_facts.rs`, `cache.rs`) | facts of this adapter and vehicle, per-VIN files | queries, load, save | nothing of the last pair is left; the adapter is left as it was found |
| Parsing proper (`*_parser.rs`) | none | pure functions | - |
| Health, monitor, logger (`session_health.rs`, `session_monitor.rs`, `session_logger.rs`) | the open window, counters, logs | observe | the window is on the tier in use |
| Connector memory (`reconnect.rs`) | the last platform handle | remember, read | - |
| Transports (`transport/*`) | sockets | read, write | operating-system I/O |
| FFI and JSON, configuration and data, mocks | - | conversions, tables, test code | - |

### How they interact

* The host's API locks the subscription manager, then queues a command. The
  command worker writes it. The answer comes back on the delivery thread, which
  calls the *data callback* (completes the command, reports the PIDs, picks the
  next ones, queues them) and then the *completion callback* (completes the
  outstanding command by its string). So the polling is a chain: a completion
  queues its successor, and `chain_alive` says whether a chain runs.
* An acquisition (a stream, a monitor) pauses every active subscription and
  resumes those ids later; meanwhile it may hold the dispatch and wait for the
  processor to be idle.
* The lifecycle agrees with everybody through two atomics: the epoch, whose value
  names an attempt, and the claim of whoever ends it. Platform callbacks only
  enqueue a Drop on the worker's mailbox.
* The platform has a fence of its own (`connect_epoch`) against links that come
  up, or break, after their attempt is gone.
* The engage ladder and every requested stop run on the lifecycle worker, between
  its other messages; a watchdog stops a silent engine by itself, and a sniffer takes
  the wire for a console. They meet in the hold of the dispatch, the line consumer
  and the lists of what to resume.
* Inside a UDS stream a beat thread alternates between monitoring and the prompt, where
  it keeps the diagnostic session alive and defines what the host adds.
* The link handler translates between commands and an adapter. On the binary link it
  keeps a state of its own, shared by the sender, the delivery thread, one collector per
  request, and whoever sets up slots, filters and captures.

## Hard behaviours

`PROJECT.json` lists each hazard with its source line. In short:

* condition variables with two mutexes in the command worker (lost wake-ups);
* callbacks that run on three threads, twice for one command when a disconnect
  fails what was just answered, and that match commands by their string;
* `wait_for_idle`, which reads five indicators one after the other;
* kicks that race the last callback of a dying chain;
* beliefs about the adapter (`current_controller`) that nothing corrects;
* subscriptions that share PIDs: run counts, tiers and pauses of several owners;
* handlers that run for seconds while the host disconnects and reconnects;
* compare-exchange and increment as two steps (`claim_terminal`), and a reset and
  increment as two steps (`begin_connect_attempt`);
* echoes: the session's own close comes back as a Drop;
* a reply that outlives its timeout and meets the next command, on the delivery thread
  and again, by another mechanism, on the binary link;
* exits from long set-ups, each of which has to give back exactly what was taken;
* two copies of one layout (the vehicle's records and the decode map) that are changed
  while frames of the old one are still queued;
* commands and answers that get lost, with an adapter left half configured.

## The modules

Each `MC*` module instantiates the module it is named after for TLC: named sets
of operations, maps from PIDs to subscriptions and headers, and symmetry.
Definitions named `Mutant...` are wrong versions of the definition that follows
them, each a bug that could plausibly be in the code, kept to show which property
would notice it; nothing refers to them.

Conventions: an action is one critical section or one atomic access of the code.
Program counters appear only where a thread lets go of a lock, or touches a second
atomic, in the middle of a function. Constants named `Max...` that the code does
not have are bounds on the exploration and are marked "bound:" where they are
declared. Variables marked "history" are written and never read by the actions.

### CommandProcessor (`command_processor.rs`, and how `external_platform.rs` and `callbacks.rs` call it)

| model | code |
| --- | --- |
| `queue`, `outstanding`, `dispatching`, `guards`, `activity`, `hold_dispatch`, `running`, `chain_alive`, `in_progress` | the fields of `CommandProcessor` of these names (`completion_guards`, the activity epoch, `stats.in_progress_commands`) |
| `Worker...` actions | `processing_loop`: check the outstanding command, the hold, pop, rate limit, mark, send, and the waits; `idleQueue` and `idleWoken` are the points at which it keeps a mutex from one step to the next |
| `QueueCommand`, `ClearQueue`, `Hold`, `Release`, `TryClaimChain`, `SetChainAlive`, `ResetStats` | the methods |
| `Abort...`, `Stop...` | `abort` and `stop`, cut between the mutexes they take |
| `Wait...` | `wait_for_idle`, cut at each of its five reads |
| `Deliver`, `LoseReply`, `Disconnect`, `DataCallback...`, `CompletionCallback` | the platform seen from outside: it answers an exchange on the delivery thread, a disconnect fails the last command on the host's thread, a failed write on the worker's |

Completion is by string, and the code queues a string again while an older command of it
is still being completed (a chain over a single PID, `callbacks.rs:743-783`), so the model lets
any string be queued at any time. `early` is history: the commands completed by the
callback of an older one of the same string. Of the rate limiter only its place
between the pop and the mark matters. `chain_alive` lives here as in the code, but
what it means is the business of PollChain.

### PollChain (`session_manager/callbacks.rs`, `api.rs`)

The processor is a FIFO `pending` whose head is outstanding, and the scheduler any
set of eligible PIDs of one target; both are modelled in full by their own
modules. `Complete` and `Callback` are the data callback, cut at each lock it takes
and lets go: complete the members, decide whether anything is pending, lower the
flag or pick, switch the header, queue. `Start`/`Kicker` is a start (or a resume)
and its kick: claim the flag, clear the queue, queue the kick wire. `Pause`,
`AcquisitionPauses`, `AcquisitionResumes`, `QueueOneShot`, `ClearQueue`,
`AbortFlag`/`AbortWires` and `AdapterReset` (external: the ATZ of a reconnect) are
what races it. `header` is the adapter's own header; `desync` and `lost` are
history, the exceptions the properties make. The C interface creates
subscriptions paused and starts them; the model starts with them paused.

### Subscriptions (`subscription.rs`, `pid_registry.rs`)

One action per method that changes what is scheduled; the session calls each of
them under the manager's mutex, so no finer steps exist. `GetNextCommands` is the
tick scheduler (peek the smallest tick, then the same target, up to `max_picks`,
commit each pick), `Completion` is `command_completed` for each member of the
wire at the head, with run counts, the removal of a finished PID and the single
`check_and_mark_subscription_complete`. Where the code iterates a hash map the
choice is any. `behind` is history: the PIDs the schedule went past while nothing
polled them (see TierSpread). Paused subscriptions keep their PIDs registered, as
in the code.

### Lifecycle (`worker.rs`, `connect.rs`, `discovery.rs`, `mod.rs`; the Rust route of `external_platform.rs`)

| model | code |
| --- | --- |
| `epoch`, `claimed` | `session_epoch`, `terminal_claimed` |
| `ConnectToController`, `SelectConnector`, `SelectBegin`, `BeginBump`, `BeginPhase`, `InitiateConnection` | `connect_to_controller`, `select_connector`, `begin_connect_attempt`, `initiate_connection`: the claim resets, the epoch moves and the phase follows in three steps |
| `DisconnectClaim` ... `DisconnectEnqueue` | `disconnect_and_drain` on the host's thread |
| `Discovery...` | `discovery_loop` |
| `Receive` | `run_lifecycle`: take a message, drop the stale ones |
| `Drop...`, `Drain...`, `CloseWriter` | `drop_cleanup_body`, `disconnect_drain_body`, `disconnect_from` |
| `Open` ... `Connected` | `connect_body`: ask the platform, wait, initialise, identify, commit |
| `Abandon...`, `Fail...` | `abandon_pending_connect`, `teardown_failed_attempt` |
| `OpenFails`, `OpenUp`, `Install`, `OpenTell` | the thread of `connect_to`/`connect_rust` |
| `LinkDrops`, `DropWriter`, `DropTell` | the drop sink of a link |

An attempt is known by its generation, the value the epoch took when it began. The
message `Drop` carries whether a platform was remembered (then a connected status
makes it stale) and, as history, whether it is the echo of the session's own close.

Some atomic steps are merged because nothing another thread does can tell them
apart: `connect_to_controller`'s entry and the reset of the claim; the arrival of
the connect answer and the generation check after it (`WaitAnswer`; either order of
a bump in between is also a behaviour of the merged step); in a drop sink the break
of the link and its look at the fence; in `DropTell` the status and the enqueue.
`cancel_connect_attempt` has no caller outside the tests and is left out. On this
route the platform never produces the result `Cancelled`.

### Exchange and Delivery (`platform.rs`; `external_platform.rs`, `accumulator.rs`)

`Exchange` is the abstract specification: what `OBDPlatformInterface` promises the command
processor. A command is sent, is on the wire, and is answered once unless it was abandoned
(aborted, cut by a disconnect, or settled by the sender or the host); nothing stays on the
wire for ever.

`Delivery` is the code that keeps the promise. `Send...` is `send_command` on the
processor's worker (pend, arm, write, settle when the write fails or an error is injected);
`TakeArmed`, `TakeDisarm`, `TakeLine`, `TakeResponse`, `TimerFires` are the cases of
`worker_main`; `FeedBytes` and `PostEvent` are the reader, which frames what the adapter
says under the mode of the accumulator (`Prompt` or `Line`); `Drop...` is
`update_connection_status(Disconnected)`, cut at each lock; `ReceiveResponse` is the host
that answers by itself; `EnterMonitor` ... `ExitMode` switch the tap and the mode in two
steps. The refinement maps `wire` to what is in the mail, armed or pended, and `lastSent`
to `pending`.

### DviLink (`link/dvi/handler.rs`, `link/dvi/periodic.rs`)

The binary dialect. `Encoding` is `encode` (the header switch with its FLOW filter, a
poll), `Framing` is `on_frame` and `on_rx` with the echo guard and the stray-error resync,
`Collecting` the collector thread each request gets, of its own generation, `Exchanging`
the setup exchanges over the one reply slot, `Streaming` the periodic slots of an
engine, `Capturing` the capture of bus frames with its filters and its parked pass-all.
The adapter (`tool`) is external. `untold` is history: the handler took a reply of one
exchange for another's, or heard none. The specification and its constants have names of their own
(`LinkInit`, `LinkNext`, `LinkSpec`, `FairLink`, `SlotPlan`), so that the module can be extended together
with another one.

### Engagement (`engage.rs`, `sp_runtime.rs`, `uds_stream.rs`, `sink.rs`, `api.rs`, `worker.rs`)

| model | code |
| --- | --- |
| the ladder's program counters `beat` ... `reset` | `engage_ladder`, with `start_stream`/`arm_stream_transport` (`uds...`) and `start_stn_periodic`/`arm_periodic_transport` (`sp...`) inlined, cut wherever another thread may come in between |
| `break` ... `stopped`, `streamBreak` ... | the stops of an engine and of a stream, run by the worker, the watchdog or a failing ladder |
| `pending`, `cancel`, `pinned`, `teardowns` | `engage_pending`, `engage_cancel`, `user_pinned_poll`, `teardowns_in_flight` |
| `hold`, `tap`, `sub`, `streamed` | the dispatch hold, the line consumer, the subscriptions, the PIDs the picker skips |
| `stream`, `periodic`, `sinkPaused`, `mine` | what is live and the lists of what to resume, in the shared state or in a thread's own hands |
| `Sniff...` | `sink_start`, `sink_stop` |
| `window` | the tier of the health tracker's open window; `overtaken`, history: the last report to the tracker came too late to be true |

A `car` says once and for all whether it has a stream profile, whether the adapter has
an engine, and whether the link runs both at once. Time is a choice: a wait elapses or does
not.

### StreamBeat (`uds_stream.rs`, `periodic_stream.rs`)

One stream from its definition to its stop. Data are concrete where the property needs it: a
byte is known by the PID and place it belongs to, records are packed first-fit into slots
(`BuildDefines`), refused records close the gap (`DropRefused`), and `Decode` slices frames
by the map. `Beat...` is a pass of the beat thread (wait, break, take the changes, quiet
the schedule, probe, define, restart, re-arm), `Stop...` the worker that ends it,
`StreamAdds`/`StreamRemoves` the host. `StreamInit`, `StreamNext`, `StreamSpec` carry the prefix so that
the module can be extended together with another one.

A stream starts from the PIDs the subscriptions hold, sorted by tier and then by name, and a PID that two
subscriptions hold is there twice (`active_continuous_pids` goes through the subscriptions one by one).
`drop_refused` finds a record by its PID and takes the first, so what becomes of two records of one PID
depends on the sorting: they stand side by side, and taking the wrong one moves the same neighbours.
`Grouped`, an assumption on the constant `Subscribed`, is what the sorting gives.

### StnEngine (`stn_periodic.rs`, `link/stn_periodic_engine.rs`)

`Plan` packs the active PIDs into periodic messages whose answers fit one frame; an
assumption of `MCStnEngine`, evaluated on every run, checks it on every set of the
instance's PIDs. The actions are the conversation with the chip: install, out of memory,
filters, STM repeated until it holds, the break byte, the flush, clear, protocol and probe
of the teardown. Any command or answer may be lost: STM and the break byte too, which are written
raw and not answered. The chip may abort its monitor whenever it monitors, within the 400 ms the
engine looks or later. `lost` is history: the last STM never arrived.

### Batches (`acquisition.rs`, `length_cache.rs`, `response_parser.rs`, `callbacks.rs`)

A closed loop: `Policy` and `Build` group picks into chunks and pipe segments; the vehicle
answers; frames are assembled and cut up by the learned lengths (`Slices`, `Reply`); the
outcome demotes, excludes, clamps or teaches a length, which changes the next wire. A byte
is what it can be taken for and whose it is: the code sees the first, the property compares
the second.

### Bringup (`connect.rs`, `link/elm.rs`, `vehicle_info.rs`, `catalog.rs`, `dataset_registry.rs`)

Everything said between the open link and CONNECTED, over several connects of one session
(`trip`): handshake with its swallowed first commands, addressing, VIN, cache, support
ranges, roster, the walk over the modules, the calibration read of two makes, the chunk
probe. The init list is the default one, ATE0 and ATH1: with the echo on or the headers off the line
that answers 0100 names no bus. A catalog entry overwrites only the facts it states
(`Cataloged`; cap 0 and periodic "unsaid" are what it leaves out). Modules answer in any order,
and the first one's header names the primary ECU; each gives a VIN of its own, a used module its
donor's. `session.whole` is history: all of the answer to 0902 came, with headers. Up to `MaxTrouble` commands or answers of each connect are lost. Lifecycle says when
all this may be cut short; here it runs to its end.

### The proofs' modules

Each `...Proofs` module extends the module it is about. DeliveryProofs also proves what the abstract
exchange promises, LifecycleProofs also extends Bringup (what a connect of the lifecycle does),
PollChainProofs also Batches (what the chain's wires carry and what their answers teach),
SubscriptionsProofs also extends StreamBeat, and AdapterProofs the two modules of what
an adapter does by itself, StnEngine and DviLink. FoldLemmas says what the community modules' folds
compute; PollChainProofs, SubscriptionsProofs and AdapterProofs extend it. See [the proofs](#the-proofs).

## The runs

Every run passes and is exhaustive over its instance. Every property of a run has a mutant
in `PROJECT.json`: a changed definition under which TLC finds it violated.

| run | instance | asks |
| --- | --- | --- |
| ProcessorSafety | two commands whose strings may be queued again at any time, queue of one, holds, aborts, disconnects, failed writes, one waiter | `Serial`: at most one exchange is on the wire, and it is the outstanding one, but for those given up (aborted, failed by a disconnect, completed early by an older callback of their string); `HoldStopsDispatch`: at most one more pop after a hold; `IdleVerdictSound`: `wait_for_idle` says idle over nothing |
| ProcessorLiveness | one command string, issued twice, queue of two, clears, holds, the chain flag, `reset_stats`, stop, abort | `QueueDrains`: no notification is lost on the way of a queued command |
| PollAll | two subscriptions: piped to two ECUs; piped to one with a one-shot, a wipe or an adapter reset; without a target with an abort; chunked with acquisitions | `FlagHasChain`, `HeaderTracked`, `InFlightBacked`, `LiveChainPolls` |
| SubscriptionsSafety | two subscriptions, two PIDs of tiers 1 and 3 they may share, run counts to two, two wires, three calls, ticks to four | `BooksKept` (registry and run counts), `HostPauseHolds`, `TierSpread` |
| LifecycleAll | three attempts (a connect, a selection, a reconnect), one disconnect, one breaking link | `FencedWriter`, `GivenUpIsClosed`, `NoResurrection`, `DisconnectSettles`, `AttemptAnswered` |
| DeliveryAll | two commands, two troubles (abort, disconnect, host's answer, failed write, noise, monitor), three bytes under way | `ReplyMeetsCommand`: a reply finds its own command armed, unless that was given up; `ImplementsExchange`: the refinement, fairness included |
| DviAll | two polls over two ECUs; or one poll beside the slots of an engine; or beside a capture | `EchoAnswers`: no PID gets another's payload; `AdapterKnown`: filters, slots and mode are what the handler believes; `CommandsEnd` |
| Engagement | two subscriptions, three kinds of car, any two events | `OneRequest`, `NobodyForgotten`, `Exclusive`, `Settled`, `WindowTrue`: between two bodies the health window is exactly that of what runs; `RequestsEnd`, `StopsRestore` |
| StreamAll | three PIDs (one of unknown length; one subscribed twice), two slots of three bytes, three changes, two troubles | `DecodesTrue`: a value is that PID's bytes; `BroadcastBack`: no pass of the beat leaves the schedule dead; `StopOwns`: the stop has the adapter to itself |
| BatchAll | five PIDs of two modes on two ECUs, three vehicles that differ in padding, omissions (one PID; all of a chunk) and stored lengths, one trouble | `BytesTrue`: a slice is that PID's data and no wrong length is learned; `NobodyStarves`: but in a mode-01 chunk nobody answers |
| StnAll | five sets of PIDs, room for three messages, three troubles, two frames | `MonitorKnown`: the engine knows whether the chip monitors, unless STM got lost or an abort said STOPPED; `NewestShown`, `LeavesClean` |
| BringupAll | seven pairs of connects, one adapter whose catalog entry leaves facts out, a donor's VIN, two troubles in each connect | `NonCanTrue`, `ToolRestored`, `StrategyKnown`, `FactsTrue` |

Why the bounds are enough:

* *ProcessorSafety.* Two commands are one outstanding and one in the worker's hands or
  queued; with a queue of one the queue is full as soon as one waits. A single waiter and
  aborter because each takes no state from another of its kind. The same properties hold
  with three commands issued (26.7 million states, checked once) and are proved for every bound.
* *ProcessorLiveness.* A lost wake-up needs one thread that notifies and one about to
  wait; the second issue is what tells a wake-up for an old command from one for the new.
  One string makes the completion by string as wild as it gets.
* *PollAll.* Two targets are needed for a switch to be skipped wrongly, two PIDs for a
  chunk and for a chain whose one subscription dies. Each disturbance has a scenario of its own
  because each breaks the chain by itself; all of them together, with two ECUs, were checked
  once (0.3 to 1.3 million states). One API thread calls, and the callback races it: two
  kicks meet only at `try_claim_chain`, which one of them wins.
* *SubscriptionsSafety.* Sharing needs two subscriptions, order two PIDs, a ratio other
  than one two tiers; three calls are create, add and one more. Four calls: 2.4 million
  states, checked once. Ticks to four pass the slow tier's step once and start the second.
  All three properties are proved for every bound.
* *LifecycleAll.* Three begins are the fewest with a reconnect after a selected attempt.
  Four attempts: 11.8 million states, safety, checked once; and proved for every number.
* *DeliveryAll.* A late reply needs one command to be late and one to be met by it; two
  troubles are an abort or a disconnect in the middle of another. Three commands: 4.8 million
  states, safety, checked once. The safety half of the refinement is proved for every number.
* *DviAll.* Two polls for a lagged reply; slots and captures meet a poll at the shared
  reply slot, which takes one of each. Slots beside captures (650 thousand states) and
  more header switches (7.3 million) were checked once.
* *Engagement.* Two events are a disturbance and its disturbance (a pause in a set-up, then a
  broken link); three events were checked once (2.2 million states, safety). `OneRequest`, `Exclusive` and
  `NobodyForgotten` are proved for any number.
* *StreamAll.* The smallest slots in which a record has a neighbour behind it and a
  third PID does not fit; one of the three starts has a PID twice, with another one behind; three changes
  are add, remove and add again. All three properties are proved for every bound.
* *BatchAll.* A chunk, a solo, a pair, a multi-frame answer and a chunk nobody answers all
  occur; the third vehicle is there for the last, in which its first PID is asked over and over.
* *StnAll, BringupAll.* Two or three troubles exceed what the properties excuse (at most one); two frames
  are one old and one new. Two connects
  are the fewest with something left over from the last.

Exemptions that properties make, all marked by history variables:

* `desync` (HeaderTracked): a switch failed, was refused or wiped, or the adapter was reset;
  `lost` (FlagHasChain, LiveChainPolls, InFlightBacked): wires were wiped or refused;
* `behind` (TierSpread): the schedule went past a PID while it was paused, streamed or in
  flight, and it may catch up out of ratio;
* `torn` (DisconnectSettles): an attempt began between the two atomics of a claim; the late
  bump then makes the next disconnect look superseded, its drain hands its link to nobody
  and the interface stays in DISCONNECTING. TLC finds this when the exemption is dropped;
* `stray` (GivenUpIsClosed): a drop sink looked at the fence, and took the writer when it
  was already another link's;
* `abandoned`, `early` (Serial, IdleVerdictSound): an abort or a disconnect gave the exchange up, or the
  completion callback of an older command of the same string completed it;
* `abandoned`, `late` (ReplyMeetsCommand): nobody waits for that reply;
* `untold` (AdapterKnown): the handler misheard an exchange;
* `stranded` (NobodyForgotten), `overlapped` (Settled): the header switch of a
  stream was refused by a full queue; a set-up ran into a stop of the watchdog;
* `overtaken` (WindowTrue): the last report to the tracker was a stop's "poll" after the session's end,
  the watchdog's over what the worker set up meanwhile, or "periodic" over messages the
  watchdog took between their arming and the report. It ends with the next report; without any one of the
  three TLC finds the wrong window within three events;
* `InDeafChunk` (NobodyStarves): the PID is asked in a mode-01 chunk the vehicle does not answer at all;
* `lost`, `stopped` (MonitorKnown): the STM got lost, or an abort after the look has raised a
  stopped_signal nobody reads;
* `session.whole` (FactsTrue): VIN, dataset and roster, where a reply to 0902 got lost or came without headers;
* `misled`, `lateArm` (DecodesTrue, StopOwns): the vehicle took a define whose ack came too
  late; the beat thread was spawned and not yet armed when the stop came;
* `shaken` (ToolRestored): a command that moves the header or the diagnostic session was
  disturbed. A restore that gets lost is not repeated in the code, and nothing is claimed of it.

Most of them name a place where the code does less than its comments say; these are
listed [below](#where-the-code-and-its-comments-differ).

Deadlock is checked in ProcessorSafety, BatchAll, StnAll and BringupAll. The other systems may
really stop: a session whose host asks for nothing more and whose adapter says nothing does.

## Fairness

* *CommandProcessor*: weak fairness of the worker, of each callback once it began, and
  of abort and stop once called. These are threads that run. That an exchange is
  answered is not part of the specification: it is the antecedent `AllAnswered` of
  `QueueDrains`, because the delivery thread's fallback timer
  (`external_platform.rs`) answers what nobody answers. Nothing is assumed of callers,
  or of spurious wake-ups, which exist and are not relied upon.
* *PollChain*: weak fairness of the completion of the head wire (the same fallback
  timer), of the callback, of the second half of an abort, and of an API thread in the
  middle of its kick. Nothing is assumed of what the host asks for.
* *Lifecycle*: weak fairness of a host call in progress and of the lifecycle worker,
  whose every wait is bounded in the code (the connect deadline, the query timeouts,
  the drain's deadline). Nothing is assumed of discovery, of an opening link, of a
  broken one, or of the platform's answer: the deadline is what ends the wait.
* *Delivery*: weak fairness of a `send_command` that began, of the delivery thread, whose
  wait has the fallback timer for a bound, and of callbacks that began. Nothing is assumed
  of the adapter, the reader, the host or the monitor.
* *DviLink*: every thread goes on with what it began, collectors' and exchanges' windows
  elapse, and the adapter works through its input; a request it never answers is a disturbance.
* *Engagement*: weak fairness of each thread inside one of the bodies. Their waits are bounded
  in the code (sliced sleeps, two-second and one-and-a-half-second waits).
* *Batches*: weak fairness of the callback thread and of a connect in progress, and that
  every wire in flight is answered or times out.
* *Subscriptions*, *StreamBeat*: fairness is stated (`FairSpec`, the chain of PollChain; `FairStream`,
  the beat thread); their runs check safety. *StnEngine*, *Bringup*: sequential; their runs check safety
  and the absence of deadlock.

## The proofs

All are checked by TLAPS with no assumption but the named ones on the constants
(`ConstantsAssumption` and the like: they are numbers, subsets, booleans and well-formed
records) and, where said, the theorem's own.

### CommandProcessorProofs

For every set of commands, queue size and number of commands issued:

* `StructHolds`, `TypeCorrect`. The inductive invariant `Struct` is `TypeOK`,
  `WorkerInv` (at each program point of the worker: whether it is dispatching, whether
  it holds a command, where nothing may be outstanding), `CallbackInv` (the guard
  count is the number of data callbacks in progress, so it never goes below zero)
  and `EpochInv`. `TypeOK` alone is not inductive: the counter of guards would not stay
  natural, and an unmarked worker could send None.
* `HoldBounded`: `HoldInv` adds where the worker may be once it has popped under a
  hold.
* `InProgressHolds`, assuming no `reset_stats` and a counter at least one bit wide:
  `InProgressExact` is inductive relative to `Struct`.
* `SerialHolds`, with no assumption about strings. `OrderInv`: ids move
  downstream in order, so a command in the worker's hands is younger than all that
  was sent. `SerialInv`: a command on the wire that was not given up is the outstanding
  one. A late completion callback finds its own command, or none, or a younger one of the same
  string; the last it completes early, and only then does the worker send another beside
  it (`early`). The comment at `callbacks.rs:400` denies this case; see
  [below](#where-the-code-and-its-comments-differ).
* `IdleVerdict`: `ScanInv` says what each of the reads of
  `wait_for_idle` has established and nothing since can have undone while the activity
  epoch stands still. The epoch and the guards are what makes the five reads add up.

### LifecycleProofs

For every number of attempts, disconnects and broken links:

* `FenceHolds`, `WriterFenced`: `asked` never exceeds `fence`, and the writer was asked
  for under the present one. Inductive on its own.
* `StructHolds`, `TypeCorrect`. `MailOK`, `JobInv` and `HostInv`: generations
  travel from the epoch to the host's call, to a message, to the worker, and never run
  ahead of it; those of Connects and of owning Disconnects are positive. `EpochBound`
  is an accounting argument: each begin pays for its own bump and for the bump of the
  one claim it makes possible by resetting it, so `epoch` plus what is still due
  (a won claim not yet counted, an open claim, a begin half way) never exceeds
  `2 * begins + 1`, however the compare-exchanges interleave.
* `Unresurrected`: `EndedInv`: what has ended is below the epoch, and below the job
  of a worker that connects; only the commit of that job says CONNECTED.
* `GivenUpClosed`. `FreshInv`: a generation is in one Connect, and its thread
  starts when that one is taken. `ThreadInv`: of the threads asked under the present
  fence only the current job's can still run. `OwnerInv`: the link of the worker's job
  is the writer once it is installed. `ClosedInv`: so when the fence moves, the
  link is closed or its thread still has to look. `GivenUpIsClosed` is the last of
  these restricted to the attempts given up.

The second half of LifecycleProofs is about the bring-up, which shares no variable with the lifecycle.
`UnsupportedTrue` (`NonCanTrue`), `ToolGivenBack` (`ToolRestored`), `CalibrationRead`
(`StrategyKnown`), `FactsOwned` (`FactsTrue`), for any adapters, vehicles, datasets, sequences of connects
and number of losses. `Sound` is the assumption of Bringup itself: the vehicles and datasets are
of the right shape. The invariants follow a connect through its steps. `Heard`: an
echo that is still on past its check has cost two losses, headers that are off cost one, and with neither
only a serial bus answers 0100 with data that names no header. `Restored`: the header leaves the functional one, and the PCM its
default session, only in the steps that put them back. `Placed`: past the VIN the addressing is
this vehicle's, so is a primary learned from a header, and the VIN is one its modules give: the lowest responder's, if
`whole`. A file is of the VIN it is found under, so a cache hit keeps them so.
`Fresh`: pipes and chunk are reset or probed for this adapter, cap and periodic are the catalog's where it states them. `Learned`: in an undisturbed
connect the reads find the PCM behind the header.

`FactsTrue` also speaks of the roster, which is collected one module at a time. `Counted` says at every
step of an undisturbed walk that the modules found and those still to be asked that can be found
are together the modules asked about that are there; `Struck` says that one step of
the walk keeps it, `RosterWalked` that the start of the walk makes it true, and at the end nobody is left to
ask. `Manned` carries it through the files. It needs two facts of the world, the theorem's hypotheses,
both evaluated by `MCBringup` on the run's vehicles: `OneCar`, a VIN is one
vehicle's, its lowest responder gives it, and no donor of a used module is connected to as well (a cached roster is found by VIN only); `Answering`, a module of a dataset's
table that is there gives its name if it is of the standard block, and answers or refuses the presence request
otherwise (the walk asks nothing else).

### DeliveryProofs

* `OnceAnswered`: the abstract exchange, instantiated as `Delivery` instantiates it, answers a
  command at most once. Its invariant adds that commands are numbered in order and nothing is on
  the wire that was not sent; it uses the exchange's own steps only.
* `TypeCorrect`, `ExchangeKept`: `Delivery` implements `Exchange` (the safety half
  of `ImplementsExchange`) for any number of commands, troubles and bytes. The inductive
  invariant: commands travel in the order of their numbers, through the pended one, the mail and
  the armed one (`InOrder`, `PendedLast`), so that a Disarm or a later Armed never reaches
  past the command it was meant for; only the processor's outstanding command is on the wire and
  not given up (`OneLive`), which is the guard of the abstract `Send`; a command whose
  callbacks run has left the wire (`RunsOff`); a Disarm in the mail lies behind nothing but
  commands given up (`DisarmsGivenUp`). Each action is then shown to map to one abstract step,
  or to a stutter.
* `AnsweredAtMostOnce` combines the two: what `Exchange` promises, `Delivery` keeps.
* `RepliesMeet` (`ReplyMeetsCommand`): on top of `Inv`, `Meeting` follows every text from the adapter's
  head to the mail. `OnceQueued` and `OncePlaced`: it is in one queue, in one place of it; that takes the
  cutting of the air into lines (`Drained`), for every cut. `Unwritten`: a command that waits to be
  written has no text yet. `Expected`: a text's command is armed, in a letter before it in the mail, or
  given up. The order is what a test would hardly reach: the letter that arms a command is posted before
  its bytes are written, so no reply overtakes it. Taking a letter disarms one command; `Taken` shows
  that this command was given up or has no text left under way.

### PollChainProofs

`TypeCorrect`, `FlagBacked` (`FlagHasChain`), `HeadersHold` (`HeaderTracked`),
`MarksBacked` (`InFlightBacked`). `Picked`: a callback about to switch or send has
picked something. `Raised`: one about to raise the flag has queued its wire, unless it was
wiped since. The flag can then only be up over a wire, a callback at work, or a caller about to
queue.

`HeaderTracked` speaks of the head of the queue only; `Tracked` says it of the whole queue, in terms
of `InForce(q, hd, i, h)`: by the time the i-th wire is sent, the wires before it have left an
adapter that is at `hd` now at `h`. Every targeted poll finds its header in force when its
turn comes (`PollsFind`); at the end of the queue the adapter is where the session believes it to
be (`Believed`), which is what a switch that is skipped rests on; and a pick past its switch goes
to that header (`PickFinds`). The lemmas `ForceGrows`, `ForcePasses`, `ForceSets` and `ForceShrinks`
say how queueing and sending move it.

`InFlightBacked` is not inductive either: the completion of a chunk names its PIDs only if they are still
registered in `in_flight_members`. `Backed` says that a mark outside the callback's hands is on
a registered wire; a second wire of the same chunk may have lost its entry to the first, but that
completion cleared the marks. `HandsFree`: the callback holds PIDs in four of its places only.

The module also holds the proof about what the wires carry, which shares no state with the chain.
Batches: `BatchKept` (`BytesTrue`, with the types), for any PIDs, widths, padding, omissions, stored
lengths and limits; `BatchAssumption` asks that there be finitely many PIDs, that every width be
positive, that no PID be of both modes, and that what a vehicle left in the store be numbers. The
invariant `BatchInv` adds to the property the types and what a wire may carry (`Segs`): each
segment asks for one PID, or for PIDs of one mode, because a chunk is filled from one mode
(`GroupIs`). The pair test of a probe and the failure of a chunk keep to it too. The argument:

* what is heard of an ECU is its whole payload, or a line that begins with its PCI byte (`ReceivedOne`,
  `ReceivedMany`, `Hears`). A reply of several frames is taken only if they join up to the length the
  first one announces, so the padding is cut off and a lost frame leaves no payload; a lone
  frame of such a reply keeps its PCI byte, which is no reply byte, and nothing is cut out of it;
* a payload is the reply byte and one record per PID, each where the widths before it put it (`AnswerIs`,
  `Located`). At a record's start the echo of exactly one of the PIDs asked for is found, since
  they are of one mode (`EchoFound`);
* `Slices` goes by the lengths from record to record; if they are the vehicle's, it meets every record at
  its start and never looks for an echo inside the data, where a byte may equal a PID's number
  (`CutRecord`, and `CutsAre` from the last record to the first);
* a length is observed only in a reply to one PID, where no length is needed to cut: what follows the echo is
  the whole of that PID's data, in every payload that has the echo (`ObservedTrue`);
* `Tells` says what an outcome may contain: deliveries that are true if cut by true lengths, true observed
  lengths, PIDs left out, a verdict on pairs. A completion folds it into the lengths and the
  plugin (`CompletesKeeps`); what a change of vehicle brings back from the store is not marked as seen.

### SubscriptionsProofs

`PausesHold` (`HostPauseHolds`), `BooksAgree` (`BooksKept`), `RatiosHold` (`TierSpread`, with the
types). With `TypeOK` each is inductive; the work is in `TierSpread`, which rests on the
scheduler picking the least tick of what is eligible (it exists because the naturals are
well-founded) and advancing it by a tier that is at most the slowest, and on added PIDs being
seeded at the least tick of what is polled. The assumption `SubscriptionsAssumption` says there
is a slowest tier.

The module also holds the theorems about the live stream, which shares no state with the manager.
StreamBeat: `AdapterOwned` (`StopOwns`). `Told`: the loop's stop flag is set before the worker goes for
the adapter. `FlagTrue`: `monitor_active` agrees with the adapter, because both change in one
critical section of `transport_op`; so a worker that sees it off need not break.

`SlicesTrue` (`DecodesTrue`) and `BroadcastKept` (`BroadcastBack`), for any PIDs, widths, slots, starts,
changes and troubles. `StreamInv` is inductive. `DecodesTrue` compares a map with frames that may be older
than it, and while a stream is set up the map lists records the vehicle has not taken yet, so the
invariant has one part for each:

* `Defining`, during the set-up. The map without what was refused so far (`Kept`) is *stacked* by the records
  the vehicle has and those still to be defined: each signal begins where the one before it ends.
  `FineAcked` and `FineRefused` are the two answers to a define. A refusal cuts the first
  signal of its PID out and moves the later ones up, and what is stacked stays stacked; that the right record was cut
  when a PID stands there twice is what `Grouped` is for. That `build_defines` begins
  with such a map, and so does every slot of it, is an induction over the subscribed PIDs (`BuildsStacked`).
* `Following`, while it is live. A signal *sits* where the bytes of one of the records R begin, `slot_fill`
  is the length of all of R, and the frame that waits is of a beginning of R (`Tracks`): records are
  only ever added behind. Removing signals and adding one at `slot_fill` keep it; so does an add
  the vehicle refuses, which leaves both alone.
* `LateCounted`: a late ack still to come is counted as misleading, and a slot with a signal is filled.

`SliceTrue` then says what a slice of such a frame is: its PID's data, or it lies behind the records. `Sent`
and `PassesHeld` are for `BroadcastBack`: the schedule is down only between the quiet and the restart of a
pass, and a pass holds the adapter at the prompt from its break to its re-arm.

### AdapterProofs

Of the STN engine: `MonitorsKnown` (`MonitorKnown`), `TeardownsClean` (`LeavesClean`), `NewestFrames` (`NewestShown`),
for any PIDs, plans, memory, losses and frames. `Mon` ties the handshake to the chip at every program
point: once armed there is a monitor, or a STOPPED on the tap, or a lost STM; and the chip monitors
under an engine that does not know only after two losses of the break. `Back` follows the teardown in order and says what has to have been lost since its start for
something to be left behind: a message that survived both clears cost two losses, a dead
path one to lose and one more to miss it. `NewestShown` speaks of an empty queue only; `Order`
says it of any: the newest frame of an id is in the queue, or shown, or belongs to a
message nobody decodes, and no frame in the queue is newer than the newest or of
a message that left the chip while the engine lives. A decode takes from the queue for each PID what is
not older than what it shows, so it moves the newest from the first place to the second.

That a frame belongs to the id it came under rests on `PlansFit`: for any PIDs, lengths, headers and
limits, the messages of a set the session engages on fit one frame each, keep to the admission, are of one
mode, header and tier, and ask for every active PID once and for no other (`PlanFits`, which
`MCStnEngine` also evaluates). It is an induction over data, with the lemmas of FoldLemmas. From these come one member more (`CostAppend`, `PackAppend`, `FlatAppend`), a bucket
(`PackFits`), a tier and the plan (`TogetherOnce`: parts that ask for disjoint sets, each once).

Of the DVI link: `AdapterIsKnown` (`AdapterKnown`) and `EchoesAnswer` (`EchoAnswers`), for any modules,
polls, slots, filters, threads at work and disturbances. The invariant of the first is `Known`, and it is
kept as long as the handler misheard nothing (`~untold`, which never becomes true again once false).
`Mail`: a setup request in the inbox is the one its caller waits for, so the adapter's obedience and the
caller's answer are about the same request. `Tidy`: what a caller heard is what became of its request, and
an undoing request was never refused. With them the four callers can be followed apart although they share
one reply slot: `Flow` has the FLOW filter of the worker's header (the adapter's is the recorded one, or
that of the request just obeyed and not yet heard), `Engine` the slots (those that fire are installed, or
about to be disabled, the first of the list being the one in doubt), `Host` the bus. `Setup`
says what a capture has set up so far, `Recorded` that its record covers the adapter's filters, `Undoing` that
what is still set has its undoing in the list of the stop. `Unfilters` is the one fact about data: the
list that `Unfilter` builds by rank names every filter of the set.
`EchoAnswers` needs that what a poll of one PID has collected opens with that PID (`Gathered`), which the
guard of `Lagged` keeps frame by frame.

### FoldLemmas

The library's induction theorems take an operator and cannot be instantiated. Its two theorems about minimal
elements are about sets, so the module starts with induction from the least counterexample (`Induct`,
`SeqInduct`). `FoldLeft` and `FlattenSeq` choose a function that satisfies a recursion, so there has to be one
(`FoldExists`) and only one (`FoldAlone`); from there `FoldLeft` goes on by its last
element, and `FlattenSeq` appends.

### EngagementProofs

`RequestCounted` (`OneRequest`), `OneAcquisition` (`Exclusive`), `AllRemembered` (`NobodyForgotten`),
for any number of host calls, silences and listening sessions. The requests are counted as tokens: threads about to post one,
Engage messages in the mailbox, and the ladder; every step moves a token or consumes it
with the flag. `Shape` says which stops belong to the ladder: one that was requested holds the
teardown guard from its first step to its last, one the ladder runs on its own failure never does.

`Exclusive` rests on the hold of the processor, which the ladder never reads. `Apart` says: a live
monitor holds the processor, but for the two steps that install it (`Holding`); a watchdog that has
taken the record and not yet released the processor finds nothing live and nothing about to be
(`Releasing`), because a set-up needs the processor; and what the worker looked at before a set-up
still stands when it records it (`Looked`), since nobody else makes anything live. On a DVI link there is
no stream at all.

`NobodyForgotten` follows the lists. `Cleared`: each list (a thread's own, the record's resume list,
the sink's) is empty where the next one would replace it, so none is overwritten; `Noted`: every
paused subscription is the host's, stranded, or in one of them. The worker's own list counts from
the pause on (`Kept`): `SpCheck` fills it before, and a DVI link never pauses. Both use `Apart`.

`SettledHolds` (`Settled`) and `WindowsTrue` (`WindowTrue`) are about the rest between two bodies; their
invariant (`Steady`) is about the bodies. `Owned`: a hold, a tapped line and a skipped PID are those of
an acquisition that is live or of a thread that will release them. `Undisturbed`: no watchdog
is under way in a set-up of the periodic engine; a set-up that does run into one (`overlapped`) is the
exemption of `Settled`. `Shown`: the phase and the streamed PIDs are of something live or of a
thread past it that will take them back. `Ended`: after the link or the session ended, the message that cleans up
is still in the mailbox, or has been handled and no set-up is under way. `Traced` is for the window, and needs no
`overlapped`: `Windowed` says at every program point what the window may differ from what runs by, a report of a
thread under way or a summary still in the mailbox; `Reports`, that what the worker is about to report is still
so when it does. Only the watchdog's reports, those of messages just armed, and those after the end escape
it, and they set `overtaken`. Paused subscriptions are those of
`NobodyForgotten`.

### What stays with TLC

* all liveness (fairness and ENABLED are outside the prover), including the liveness half of
  `ImplementsExchange`.

Every invariant and every action property of a run is stated by a theorem.

In no run: the type invariants, one per module, which hold on the runs' instances and are proved in
CommandProcessorProofs, LifecycleProofs, DeliveryProofs, PollChainProofs and SubscriptionsProofs; and
`InProgressExact`, which is proved. Stated and in no run, because
the code does not keep them: `StopEndsWorker`, `StartedIsPolled`, `EchoLosesClaim`,
`OneOwner` (next section). Stated, true, and in no run because a stronger or deeper one covers
the ground: `StopEndsCompletionWait`, `ModesApart`. No module declares a RECURSIVE operator.

## Where the code and its comments differ

What modelling met, by component. The first group TLC shows on the models, with the
property named; the others are readings of the code made while translating it, which the
models include as behaviours or leave to the exemptions above.

Shown by a property the code does not keep:

* `StopEndsWorker`, `command_processor.rs:308`. `stop` stores `running = false` before it takes
  the queue mutex and notifies under it; the comment at 310-314 says that this closes the gap,
  because the worker checks `running` with the queue lock held. It does not: it checks
  (line 359) before it takes that lock (361). A stop in between notifies nobody; the worker then
  waits, and the join at `callbacks.rs:962` hangs.
* `Serial` without `early`, `callbacks.rs:400-402`. The completion callback is called a "safe
  no-op" because the data callback completed the command already. When the same
  string was queued and dispatched again in between (a chain over a single PID queues it from its own
  data callback, 743-783) it completes that one, and the next is sent beside it.
* `NobodyStarves` without `InDeafChunk`, `callbacks.rs:197-236`. A mode-01 chunk answered with NO DATA
  is neither an omission nor a failure: nobody is excluded and no length forgotten. A vehicle that
  answers two PIDs alone and leaves both out of their chunk is asked for that chunk for ever.
* `MonitorKnown` without `lost` and `stopped`, `stn_periodic_engine.rs:357-359`. "Armed must mean
  actually monitoring": 400 ms without STOPPED are taken for it, after an STM that never arrived
  too; and nobody reads the STOPPED of an abort that comes later. The engine is armed over a prompt until
  the silence watchdog stops it.
* `NonCanTrue` without the headers, `elm.rs:289-300`. The guard against "unsupported protocol on a healthy
  car" verifies ATE0 only. An ATH1 swallowed the same way leaves 0100 without a header, and with
  "A6" for a protocol number the connect fails.
* `FactsTrue` for every adapter, `connect.rs:578-596`. An adapter without a catalog entry, and
  one whose entry leaves `maxChunk` or `supportsPeriodic` out, as two of the repository's own samples do
  (`catalog.rs:94-99`), keeps what the last adapter of the session had.
* `WindowTrue` without `overtaken`, `session_health.rs:346`. See the exemptions above; a report
  after the summary opens a ghost session.
* `StartedIsPolled`, `api.rs:132`. "Claiming liveness is race-free": a start whose claim fails
  after the last callback of the dying chain looked for work is not polled.
* `EchoLosesClaim`, `connect.rs:245` and `worker.rs:193-195`. The Drop echo of the session's own
  close can be handled after a new attempt reset the claim, and then wins it.
* `OneOwner`, `sink.rs:36-37`. "One transport owner at a time": `sink_start` looks for a live
  acquisition, waits for the ladder, and does not look again when the ladder succeeded.

Engagement and sinks:

* a pin (`uds_stream.rs:1121-1130`) or a host's pause while a set-up runs finds nothing live to stop;
  the acquisition comes up afterwards;
* `engage.rs:122-124` defers while a teardown drains, but the count is raised only by stops the
  worker itself runs, and the ladder runs on that worker: the gate never fires;
* `start_stream` leaves without bail when the header switch cannot be queued
  (`uds_stream.rs:391`), although "every failure exit below MUST resume + kick" (350);
* `sp_runtime.rs:236-263`: `periodic_armed_ms` is reset after the engine became visible to the
  watchdog, which may still judge it by the stamp of the last one;
* `sink.rs:164-173`: the roll-back resumes without a kick; `sink.rs:74-77`: a second `sink_start`
  overwrites the list of the first; a subscription started during a sink is not told that nothing polls;
* after a failed retry of the UDS tier the phase may stay Engaging, or Connected over a live engine;
* `health_on_tier` for the tier already open consumes the RTT baseline (`mod.rs:517-526`), which
  `session_health.rs:425-428` says must not happen; events are emitted outside the health lock.

The stream's beat:

* the thread may arm after the break of the stop (866-898), where 942 says the stop owns the adapter;
* a late ack of one define is taken for the next (`uds_stream.rs:190-205`); a removal and an add of one
  PID within one beat define it twice; a queued frame decoded after an add yields filler bytes; a
  time-out of 2A04 is tolerated; adds pending at the stop are never answered.

Batching:

* `response_parser.rs:525-527` expects a mis-slice to be noticed; with a stale length the bytes can
  parse; a multi-frame solo of which only the first frame arrived is delivered (against 267-269);
* `acquisition.rs:451-452`: the policy can change between pick and build, and more than one segment
  then goes to an adapter without pipes;
* ECUs that answer with different lengths teach and demote for ever (`length_cache.rs:14-16`);
  a lost line makes a member that answered count as omitted; two pairs in flight can flip Refused
  back to Capable; a length can be recorded for the old vehicle after `load_for_vin`.

The STN engine: when all answers are lost it counts nothing as accepted and leaves
messages transmitting; a lost STFPA is never noticed; with a protocol that has no STN number one lost STPC leaves the path dead.

Bring-up:

* `probe_strategy_ford` and `read_f189_ecm` return without restoring the header when the answer to
  ATSH7E0 is lost (`connect.rs:1385-1387`, `1444-1446`; the comments promise it "either way");
* the primary ECU is never reset, so an ATDPN fallback or a cache hit keeps the last vehicle's;
  an automatic protocol ("A6") is not one `addressing.rs:32` knows;
* a roster gathered with losses is cached for good; a lost reply of the lowest responder makes another
  module's VIN the vehicle's, a donor's perhaps, with its dataset and cached roster; the roster "by
  response order" (881-883) is sorted, so the "first functional responder" is the lowest, where the
  primary learned from 0100 (`elm.rs:385-392`) is the first;
* `gather_vehicle_info` has no epoch checks (against 358-359), so a queued Disconnect waits for all
  of it; connect and disconnect change facts of the tiers (528-531) without emitting their
  availability (against `tier_facts.rs:11`).

## What is not modelled

* The host-owned route of `external_platform.rs` (a host that opens links itself) and its discovery calls; of
  discovery's lists, the merging and pruning.
* The encoding of packets and adapter messages into bytes; the decoders of monitor status, Mode 06
  and trouble codes; the names and calibrations of modules: pure functions on text.
* The counters and percentiles of health, the monitor and the logger: nothing decides on them.
* Transports: operating-system I/O. FFI, JSON, tables, configuration: conversions and data. Mocks and
  tests.
* The process's shutdown beyond `stop`, and `cancel_connect_attempt`, which has no caller outside tests.
* Pinning and pausing single PIDs of a stream.
* Within modelled components: the token bucket's arithmetic, the JSON for the host, the audit log and
  response cache, floating-point rate projections. Nothing the modelled control flow decides
  depends on them.

## What could come next

* `CommandProcessor` over `Exchange`: the platform that `CommandProcessor` sees, as an instance of the abstract
  exchange, so that the two proofs compose.
* `DiscoveryLists`: the round's generation, merging and pruning, the picker.
* `Engagement` over `Lifecycle`: they share the mailbox and the claim; each now has its own part of both.

## Running it

    tlc -workers 2 -config ProcessorSafety.cfg MCCommandProcessor.tla
    tlc -workers 2 -config DeliveryAll.cfg MCDelivery.tla
    tlapm CommandProcessorProofs.tla
    tlapm DeliveryProofs.tla

and likewise for every configuration of the table above, with the `MC` module `PROJECT.json`
names for it, and for LifecycleProofs, PollChainProofs, SubscriptionsProofs, EngagementProofs,
AdapterProofs and FoldLemmas. A run takes up to half a minute with two
workers (BatchAll a minute and a half), a proof module between a few seconds and a few minutes from nothing.
