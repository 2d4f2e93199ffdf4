# Verification of the Jumetra backend

Models, model-checking runs and proofs about the code in `src/`: the HHIP engine
(clock synchronization of physical and virtual devices), and the FastAPI backend
around it. Every definition that stands for code is listed in `PROJECT.json`
under `map` with the lines it stands for.

- [The system](#the-system) — its parts, their state, how they interact, what makes them correct
- [The modules](#the-modules) — what each one models and how it corresponds to the code
- [The runs](#the-runs) — what is checked, with which bounds and which fairness, what it shows
- [Where the code does not do what it says](#where-the-code-does-not-do-what-it-says)
- [The proofs](#the-proofs) — what is proved, from what, along which argument
- [Only model-checked, and not modelled](#only-model-checked-and-not-modelled)
- [Plan](#plan)

Run anything from this directory:

    tlc -config CorrectionWire.cfg MCCorrectionProtocol
    tlapm CorrectionJournalProofs.tla

## The system

Two programs share the code under `src/engine`. The **engine** (`src/engine/main.py`)
is a long-running process with one thread that reads serial lines and one that
reads commands; each puts its events on one queue and takes one for each. The **API** (`src/api/main.py`) is a FastAPI process whose
synchronous handlers run in a thread pool, so that two requests to one object run
at the same time, over PostgreSQL (SQLite in development).

### Parts, with their state and operations

| Part | State | Operations | Hard to get right |
|---|---|---|---|
| **Physical corrections** `engine/synchronization/physical_bridge.py`, `transactions/`, `firmware/esp32/sync_agent` | transactions and totals in memory and in one JSON file, counters of outcomes; lines under way; the device's clock offset and total | execute, answer, poll with resend and timeout, verify and roll back, recover at start; the device's request handler | crashes between two writes, late and lost lines, resends of what was done, device resets |
| **Schedule and sessions** `coordinator.py`, `sync_session.py`, `state.py`, `scheduler.py`, `storage.py` | a state machine per device, a schedule, the last decision, `state.json` | start, poll of due devices, trigger: measure, decide, plan, save; calls on sessions and schedules; shutdown | early returns that leave a session half way, a trigger that raises in the middle of a round, kills between two saves |
| **Autonomous loop** `control_loop/`, `intelligence/` | profiles | the same cycle with a correction in it; used by experiments, not started by the engine | as above |
| **Measurement exchange** `synchronization/manager.py`, `agent.py`, `protocol.py` | pending requests, samples, sequence numbers | request, echo for virtual devices, response | lost, late and repeated responses |
| **Events** `engine/main.py`, `events/`, `routing/`, `storage/` | a bounded queue, subscribers, history, an archive | publish, take, dispatch, replay | two threads that both take and publish |
| **Devices and discovery** `engine/devices`, `engine/discovery`, `engine/communication` | a registry, open ports, attempted ports | scan, handshake, reconnect, remove | probes without the lock, announcements that raise, ports that fail once and are not tried again |
| **Wiring, hybrid bridge** `engine/hybrid` | wires, pin links, `project.json` of each workspace | connect, remove, load, save | a link made outside the lock, several writers of one file |
| **Hardware nodes** `engine/hardware_nodes` | nodes of a workspace, its store | register, disconnect, reconcile | read-modify-write of the same file under another lock |
| **Engineering workspace** `engine/lab_workspace` | canvas, undo and redo stacks, run state | add, move, wire, undo, redo, run, step | history pushed before an operation is refused, requests that raise half way |
| **Simulation** `engine/simulation`, `engine/virtual` | clock, schedule, component states, session state | start, pause, step, stop | a step while it stops |
| **Firmware studio** `engine/firmware` | projects, builds, monitors | compile, upload, monitor | one serial port for upload and monitor |
| **Background jobs** `api/services/job_scheduler.py` | jobs, dedupe keys, a semaphore, a thread pool | submit, run, shutdown | three kinds of thread, permits on every path, a pool that raises half way |
| **Project sync** `api/routes/projects_sync.py` | projects, files, kept revisions, blobs in the database | list with purge, tree, upload, commit, delete, restore | several statements per handler under READ COMMITTED, lost answers, stale If-Match |
| **Sign-in and accounts** `auth/`, `database/service.py` | sign-in codes, tokens, devices | create, approve, exchange, refresh, revoke | each a read followed by a write |
| **Activity and statistics** `api/services/activity.py` | presence, seconds per day | heartbeat, prune, queries | two beats at the same time |
| **Live updates** `api/routes/ws.py` | the last events, subscriptions of sockets | publish, cut the history, subscribe, replay, forward | replay against live events, a history without a lock |
| Catalogues, experiments, clock estimation, schema, scripts | data, pure functions | load, search, estimate | — |

### How they interact

- The engine's receive thread reads a line from each serial adapter, and calls
  `handle_message`, which hands correction answers to the physical bridge, sync
  answers to the synchronization manager and events to the queue. In the same
  thread it polls the bridge for requests that are overdue.
- After each line, and after each read that times out, the loop polls the
  scheduler, which triggers the devices that are due, one after another. The
  coordinator's trigger asks the synchronization manager for a sample, has the
  policy decide, moves the session, plans the next time and saves both. A virtual
  device answers inside that call; a physical one by a later line, which the loop
  hands to the manager, for the next trigger to find.
- A correction is asked for from outside, of the adjuster or of the bridge. The
  bridge asks the transaction manager, which keeps the journal.
- API routes call services, which hold one object of the engine each. Long work
  (compiling, experiments, upgrading catalogues) goes to the job scheduler.
- The desktop app and the website share accounts through the database only.

### What makes each part correct

- **Corrections.** What the journal says was done was done. What is on the wire
  is in the journal, so that a restart knows of it. The retry budget is spent
  once, over restarts. An outcome is counted once. A correction is settled once
  and for good. The device does not move further than the limits allow. Every
  request is decided.
- **Jobs.** No more jobs than the bound, no permit lost. One operation per key at
  a time. A key in use belongs to a job that will give it up. A full scheduler
  takes jobs again.
- **Project sync.** Nothing is overwritten that its author has not seen. What a
  revision names can be fetched. The quota holds. A purged project leaves
  nothing.
- **Sessions.** An estimate is as good as its round trip, however late the answer;
  a failure lasts until someone recovers it and a time never goes back, over
  restarts too; a device that is due is measured; only a second rejection ends
  the engine.
- **Events.** No event is lost between the threads or published twice; a message
  that asks for an answer gets one; an LED shows the button it is wired to.
- **Wiring.** The graph is that of the wires; no link outlives its wire; a signal
  goes where wires lead; a restart brings back the wires there were.
- **Nodes.** What the user decided about a board survives events and restarts.
- **Workspace.** A sound wire has two ends, whatever is deleted, copied or undone;
  the session file holds what the requests that succeeded drew.
- **Discovery.** What is shown comes to be what is plugged in, although passes end
  half way.
- **Live updates.** Of the last events none is missed by an open socket; what is on
  its way arrives.

## The modules

| Module | Models | Kind |
|---|---|---|
| `CorrectionLifecycle` | what the engine promises about a correction | abstract specification |
| `CorrectionProtocol` | host, journal, wire and device | detailed specification |
| `MCCorrectionProtocol` | the above with symmetry | for TLC |
| `CorrectionProofs`, `CorrectionJournalProofs` | — | proofs |
| `JobScheduler`, `MCJobScheduler`, `JobSchedulerProofs` | the job scheduler and the thread pool | specification, for TLC, proofs |
| `ProjectSync`, `MCProjectSync`, `ProjectSyncProofs` | the sync routes, the database, the computers | specification, for TLC, proofs |
| `SyncControl`, `MCSyncControl`, `SyncControlProofs` | the engine's loop, sessions, schedules, `state.json`, the measurement exchange | specification, for TLC, proofs |
| `EventPipeline` | the two threads of the engine, queue, bus, LED and button, the board | specification |
| `Engine`, `MCEngine`, `EventPipelineProofs` | `CorrectionProtocol` and `EventPipeline` in one process | composition, for TLC, proofs |
| `ProjectJson` | the file two services of the API write | shared state |
| `Wiring` | wires, their graph and stores, the links of the pin mapper | specification over `ProjectJson` |
| `HardwareNodes` | boards of a workspace, connected or expected, and their stores | specification over `ProjectJson` |
| `Canvas` | parts and wires drawn, undo, redo, run state, the session file | specification |
| `Workspace`, `MCWorkspace`, `WorkspaceProofs` | the three above in one API process | composition, for TLC, proofs |
| `LiveUpdates` | publishers, history and WebSocket broadcasts | specification |
| `Discovery` | scan passes, probes, registration | specification |
| `ApiProcess`, `MCApiProcess`, `LiveUpdatesProofs` | `Discovery` and `LiveUpdates` in one process | composition, for TLC, proofs |

### CorrectionProtocol

The host is one thread, so a handler is an action. Three worlds live around it:
the journal, which survives a crash; the wire, a queue of lines in each
direction that may lose or garble a line (which then does not parse); the device,
which runs its loop and may be reset. A crash inside a handler is an action of its
own (`CrashInExecute`, `CrashInReceive`, `CrashInResend`, `CrashInVerify`,
`CrashInSimulated`): it leaves in the journal exactly the writes the handler had
made up to that point, including the state between the two writes of `_persist`
(the transaction first, the totals after it) and, with `TornWrites`, the file
`_write` had truncated and not yet filled.

| In the model | In the code |
|---|---|
| `txn`, `accumulated`, `sinceCorrection` | `CorrectionTransactionManager._transactions`, `_accumulated`, `_last_correction_time` |
| `disk` | `correction_transactions.json` |
| `health` | the counters of `CorrectionHealthMonitor` |
| `toDevice`, `toHost` | lines on the serial port |
| `deviceAccumulated` | `accumulatedCorrectionMs` of the sketch |
| `executed` | which attempts the device carried out (for the properties only) |
| `mode`, `todo` | where the host's thread is in `run`, `poll_pending_wire`, `recover_on_startup` |
| `ExecuteOnWire`, `ExecuteSimulated`, `ExecuteWithoutTransport` | `execute_device_correction` down its three ways |
| `ReceiveApplied`, `ReceiveDuplicate`, `ReceiveRaises` | `handle_correction_response` by the state of the transaction; in the last the exception leaves `run` |
| `StartPoll`, `NotTimedOut`, `Resend`, `GiveUp` | `poll_pending_wire` and `retry_or_fail_sent` |
| `Restart`, `RecoverUnsent`, `VerifyCompletes`, `VerifyRollsBack` | `sync_startup`, `recover_on_startup` |
| `HandleCorrectionRequest`, `DeviceReboot` | the sketch |

Time is what has elapsed since a timestamp, up to the only bound it is compared
with. A step is its magnitude. What a verification measures is any verdict.
That the session is CORRECTION_READY is left to the environment, so corrections
are asked for more freely than the control loop would.

`CorrectionLifecycle` has two variables, the phase of each correction and whether
its device carried it out, and says: a correction is pending, then completed,
failed or rolled back, once; completed and rolled back only after it was carried
out. `KeepsLifecycle` is the refinement, with the phase read off the **journal**,
not the memory, so a crash changes nothing a reader of the journal sees.

### JobScheduler

Submitting threads, pool threads and `shutdown` interleave. What a thread does
under `_lock` is one step; `acquire` and `release` of the semaphore are made
outside of it and are steps. The pool (`concurrent.futures`) is external: its
`submit` refuses after a shutdown, and it queues work before it starts a thread
for it, so it may raise with the work queued. `caller[j]` and `worker[j]` are the
program counters of the thread that submitted job j and of the one that runs it.

### ProjectSync

A handler is a sequence of database statements, each of which is an action of the
client's request (`req[c].at` is the next statement). Between two statements
other requests run. The database is external and is PostgreSQL at READ
COMMITTED: a statement sees what is committed when it starts, a row written by an
open transaction makes other writers wait (`lock`), and a primary key refuses a
second row with the same key. That last fact is what makes commits safe: two
commits of the same base both want to insert revision n + 1, and
`project_revisions` has one of them. The object-relational session writes back
only what changed since it was read, which matters for `deleted_at`: a commit
clears it only if it was set when the commit read the row. The SQLite mode used
in development, where writers are serialized, is not modelled.

The computer (`docs/sync-api.md`) is external: it names the revision of the last
answer it got, it may not get the answer, and it starts anew after a 404. `seen`
is what it knows; the field `stamp` numbers the trees a project has had over all
its lives and is there to say which tree an answer held. A blob is known by its
content and has size 1.

### SyncControl

The host's thread does one thing at a time, so a trigger is one action, and a
round of triggers goes on until `due` is empty; lines that arrive, ticks and kills
come in between. A trigger ends in one of three ways: without any sample
(`TriggerUnmeasured`, the early return), with one (`TriggerMeasured`, which may be
the answer to a request of an earlier round), or with a transition that is refused
(`TriggerRaises`), which leaves `_fire`, the round and `run()` by way of
`sync_shutdown`. A kill may fall between the two saves of a trigger
(`CrashInTrigger`) or cut the file off (`Crash`); a file that does not parse keeps
the engine down. An interrupt (`Shutdown`) is taken between two triggers.

| In the model | In the code |
|---|---|
| `session`, `schedule` | `SynchronizationCoordinator.sessions`, `SynchronizationScheduler._schedules` |
| `sample` | the newest entry of `SynchronizationManager._history`, and the estimate it wrote into the device's metadata |
| `disk` | `state.json` |
| `due` | what the loop in `SynchronizationScheduler.poll` has still to visit |
| `toDevice`, `toHost` | SYNC_REQUEST and SYNC_RESPONSE lines |
| `RequestSync`, `Echoed` | `request_sync` with the echo of a virtual device, whose clock is the host's plus the last estimate |
| `HandleSyncRequest` | the sketch, which reads the time of the request with `| 0` and gets 0 for what does not fit |
| `Startup`, `Poll`, `ReceiveResponse`, `Shutdown` | `sync_startup`, `sync_poll`, `handle_message`, `sync_shutdown` |
| `ScheduleDevice` ... `AttemptCorrection` | the methods that nothing in the loop calls, each called from outside |

An estimate is kept twice over, so that half a round trip is an integer. Drift,
confidence and uncertainty may be anything, so beyond the offset's limit the
policy may decide anything. Several devices do not share a schedule, a session or
a sample; they share the round, the file and the engine's life.

### EventPipeline and Engine

Two threads share the queue: the communication loop (`handle_message`) and, when
the engine is interactive, the one that reads commands and presses the virtual
button. Each adds its event and then takes one without waiting, which may be the
other's, and publishes it: archive, router, protocol handlers, one subscriber
after another, the other thread in between. The snapshot of the device states is
copied in a step of its own, since a dictionary that grows while it is iterated
raises. An event is its number in the order of creation.

| In the model | In the code |
|---|---|
| `thread[t]` | where thread t is in `handle_message` or `_publish_device_event`, `_publish_queued_event` and `EventBus.publish` |
| `eventQueue`, `archive`, `recorded` | `EventQueue`, `events.jsonl`, the keys of `StateManager._states` |
| `HandleMessage`, `PressOrRelease` | `handle_message` up to `add_event`, `VirtualButton._set` |
| `AddEvent`, `GetEvent`, `Archive`, `Route` | `add_event`, `get_event(block=False)`, `StorageSubscriber`, `RouterSubscriber` |
| `Protocol`, `CopyStates`, `Acknowledge` | `ProtocolSubscriber` with `_on_bus_protocol_event`; for a state update `get_all_states`, then `save_snapshot` and the ACK |
| `BoardStep` | the sketch `hhip_device.ino` |
| `answers`, `raised`, `newest`, `overtaken`, `dropped` | for the properties only |

`Engine` is the process that does both this and the corrections. The
communication thread does one or the other between two lines and they share no
state but the thread, so a behaviour shows one while the other rests: it is
`silent`, and the corrections run, or it has a script of heartbeats and presses.

### Wiring, HardwareNodes, Canvas, Workspace

Requests run in threads of the API process. The wire manager has a lock, the
workspace sync another, the pin mapper none, the canvas service none.

`ProjectJson` is the file both locked services write. Each reads it, replaces its
part and writes it in place, so it has two steps more in which the file is empty
and then full (`OpenProject`, `WriteProject`); two writes at once leave two texts
over one another. `Wiring` makes a wire in three steps, as `connect` does: it
validates, links the pins without the lock, then records under it. `Refused` is
`PinValidator`; `Propagated` is the signal spreading over mirrored links.
`HardwareNodes` has the events of `DiscoveryListener` and the requests; loading a
project reads the file, then puts the nodes in (`Hydrate`), then reconnects
(`ReconnectLoaded`), with the lock free in between. `Canvas` is one workspace of
`LabWorkspaceService`, a request at a time; each that is refused is there too
(`AddNodeRefused`, `UpdateNodeRefused`, `DuplicateNodesRefused`, `AddWireRefused`,
`RunRefused`), since it pushes history or changes the canvas before it is refused.
Nothing checks that a position is two numbers (`placed`), so a copy of such a part
raises after the copies before it were made, and a wire between such parts after it
was added (`service.py:221`, `:259`); `unsaved` names what these leave behind.

| In the model | In the code |
|---|---|
| `wires`, `graph`, `wireFile` | `WireManager._connections`, `ConnectionGraph`, the store files |
| `links`, `pinState`, `making` | `PinMapper._connections`, `_pin_state`, requests inside `connect` |
| `nodes`, `syncWires`, `nodeFile`, `loading` | `WorkspaceSyncService._nodes`, `_wires`, its stores, a request inside `load_project` |
| `canvas`, `undo`, `redo`, `session` | the `Workspace` of `LabWorkspaceService`, `HistoryStack`, the session file |
| `Restart` | a kill at any step, which may leave a store or session file cut off, and the start that reads them |

`Workspace` composes the three. Wiring and nodes meet in `project.json`; the
canvas shares the process, whose start its session file can prevent.

### LiveUpdates, Discovery, ApiProcess

`LiveUpdates` is the event stream. A publisher appends its event to the history,
looks at its length, and if it is too long reads its end and writes that back, each
in a step of its own since the history has no lock; then it calls the subscribers
it finds, each of which schedules a broadcast on the event loop, where sockets
connect, are replayed the end of the history, and leave. The event loop does one
task at a time and changes over where the code awaits. `torn` remembers that an end
was written back that was the end no more: what another thread had appended is lost
to sockets that come later, what another had cut off comes back.

`Discovery` has ports, boards, scan passes under the service's lock, and probes:
the scan's, and that of a request to connect, which takes no lock. Boards are
plugged in and out and other programs take ports at any moment. The steps of a
probe are what another thread can see between: `_register_physical` reads the id to
make one up (`MakeUpId`) and again to register it (`ReadId`, `StoreDevice`), and a
scan that finds the port empty meanwhile takes it away (`MarkGone`, `Unregister`,
`ForgetId`), so that `None` can be registered. Announcements do not arrive:
`_publish_connected` and `_publish_disconnected` pass `device_id` by position and
again in the payload, a `TypeError` whenever a dashboard is set, as `lifespan` does.
It leaves the request, or the pass with all it has still to do; `_scan_loop` logs
it and begins another (`Announce`, `ForgetId`).

`ApiProcess` runs both, with the threads of requests to experiments as publishers.
Discovery has the publisher and fails to use it, so the two share nothing.

| In the model | In the code |
|---|---|
| `history`, `subscribers`, `publishing` | `DashboardEventPublisher`, where each thread is in `publish` |
| `broadcasts`, `socket`, `received` | tasks and `WebSocketEventBridge` |
| `devices`, `scan`, `probe` | `HardwareDiscoveryService._devices`, where `_scan_locked` is, and `_probe_device` per thread |
| `registered` | ids of the `DeviceManager` |
| `pushed` | what `_notify_change` last told `/ws/discovery` |
| `plugged`, `held` | what is on the ports, ports that other programs have open |

## The runs

| Run | Bounds | States | Shows |
|---|---|---|---|
| `correction_wire` | 1 device, 2 corrections, 1 retry, timeout and cool-down of 1 tick, offsets below and above the largest step, 1 crash, 1 lost line, 1 reset | 811 000 | seven safety properties and the refinement |
| `engine` | corrections as above with one offset and no reset while the board is silent; or a script: 1 heartbeat, 2 presses of the board's button and 1 of the virtual one, or none, 1 and 2 | 261 000 | a sent request is answered or given up; events, answers, LEDs |
| `correction_simulated` | 3 corrections, 2 crashes, no transport, cut-off writes | 20 000 | recovery leaves nothing unfinished |
| `correction_limit` | as `correction_wire` | — | violated: the device passes the accumulated limit |
| `jobs` | 3 jobs, 2 workers, 1 queued, 1 key, 1 refused thread | 301 000 | permits, keys, and that they come free again |
| `jobs_bounded` | 5 jobs for 2 permits | — | violated: the bound, after a refused thread |
| `sync_concurrent` | 1 project, 2 blobs, 2 computers with a request each, quota and project size 2, 2 kept revisions, 3 commits, 1 failing transaction | 905 000 | nothing unseen is overwritten |
| `sync_serial` | 2 projects, 2 computers, one request at a time, 2 commits each, 1 purge | 810 000 | blobs, quota, purge |
| `sync_content` | as `sync_concurrent` | — | violated: a kept file whose blob is gone |
| `sync_control` | 1 virtual and 1 physical device, time up to 3, delays of 0 or 1, clocks that agree or are 2 behind, limit 0, intervals 1 and 2, 1 line each way, 2 calls, 1 kill | 857 000 | accuracy, what survives a restart, why the engine ends, that the due are served |
| `workspace` | 2 workspaces, 4 wires that may be asked for, 3 identifiers, 2 request threads, 2 boards on 1 port, 2 components, undo limit 2; requests of wiring, nodes, canvas and restarts: (4,0,0,1), (0,4,0,1), (2,2,0,0), (0,0,6,0) or (0,0,4,1) | 648 000 | wires, graph, links, stores, decisions, the canvas and its file |
| `api_process` | 2 ports, 2 boards, one of them HHIP's, 2 publishers, 2 sockets, replay and history of 1; port changes, requests, failed listings, events, socket changes: (3,1,0,0,0), (2,1,1,0,0), (0,0,0,3,1) or (0,0,0,1,4) | 116 000 | the stream, that events arrive, types, and that what is shown comes true |

Why the bounds are enough. *Corrections:* every rule of the protocol is about one
transaction, or about one transaction and the total of its device, so two
transactions on one device meet in every way two can; a second device would only
interleave. One retry gives two copies of a request, which is the least with
which a late answer, a resend and a timeout differ; the accumulated limit of 3
with steps of 1 and 2 is reached by two corrections and not by one. *Jobs:* three
permits for two workers let a third job wait behind a busy pool; two
workers can run two jobs of one key if the index lets them; one refused thread
puts every path of `submit` in play. *Sync:* two open requests are the least that
race, and two kept revisions of up to three make the limit drop one. In
`sync_concurrent` no revision is dropped while a transaction is open that would
insert it again: in the code that takes `KEEP_REVISIONS` = 20 commits within one
request (`NotOvertaken` of the proofs). A purge needs a project to be deleted for thirty days (`MaxAges`); it is
in `sync_serial` and left out of `sync_concurrent`, see below. *Control:* one
device of each kind puts a round of two in play, in which the first may end the
engine before the second is asked; one line on the way and a time of 3 let an
answer come two rounds late; `SketchMax` = 2 makes the sketch answer with a 0 and
with a true time; a limit of 0 makes every wrong clock a rejection, and two calls
are a `Recover`, or a calibration and `EnterMonitoring`. *Engine:* two presses and
a heartbeat put three lines on the way, so that each thread can take the other's
event and overtake it; the virtual button's first press is what a snapshot can
trip over; a script with one more press has 4.1 million states by itself.
*Workspace:* two of the wires join the same pins in different workspaces,
one is refused unless forced and two are mirrored, so four requests make, double,
take away and remake a link with a used number; two boards on one port are what a
sweep can confuse; wiring and nodes get two requests each together, which is the
least for two writes of `project.json` to overlap twice; six requests on the
canvas fill an undo stack of two and take it back. *API process:* two ports and three
changes swap a board during a pass; a board that speaks and one that does not
give the four outcomes of a probe; a history of one and three events of two threads
are the least with which a cut is written back too late; two sockets show one that
leaves while the other is sent to. The budgets name which of the actors act
together, since all of them at once is out of TLC's reach; ports and stream share
nothing (`ApiRunsBoth` of the proofs).

Symmetry is used over transactions, jobs, blobs, clients, and in `workspace` over
wires and threads, and only in runs without liveness. The job runs do not check deadlock: when every job is done, or
the scheduler is shut down, it stops; nor do `sync_control`, whose clock stops at
its bound, `engine`, whose script runs out, and `workspace`, whose budgets do. Everywhere else the clock ticks or a request can come.

**Fairness.** `engine` assumes, of its corrections, that time passes, that the engine's loop
comes round to polling, that what a poll has to visit is visited, that a device
with a line to read reads it (weak fairness of each), and that a line that keeps
being there is read by the host: `run()` alternates between reading and polling,
so reading is taken again and again but not continuously enabled, hence strong
fairness of `Receive`. Nothing is assumed of crashes, losses and restarts; the
property ends when the engine does. `jobs` assumes of every submitting thread
and of every pool thread that it goes on when it can, which is what the operating
system's scheduler gives a thread that is not blocked; `operation()` is assumed to
end. `sync_control` assumes that the engine's loop goes on: it polls (weak fairness
of `Poll`), and a round that has begun comes to its next trigger (of `Trigger`).
The wire, the devices, the clock and the callers owe nothing. `api_process` assumes
that the scan loop goes on (it catches what a pass raises), that a thread inside a
probe or a publication goes on (the handshake has a time limit), and that the event
loop goes on with what is scheduled (a send to a socket ends, well or not), each by
weak fairness; people, other programs and clients owe nothing.

Every property has a mutant in `PROJECT.json`: a plausible slip in the code it is
about (a retry too many, a permit not given back, a key of its own for the
revisions table, ...) with which TLC finds the property violated.

## Where the code does not do what it says

- **A device passes its accumulated limit** (`correction_limit`). `create` adds
  the step to a total that changes only when an answer comes, so two corrections
  in flight are each checked without the other.
- **More jobs than the bound** (`jobs_bounded`). When the pool cannot start a
  thread it raises with the job queued. `submit` gives the permit back, the job,
  if it has begun, does too.
- **A kept file cannot be fetched** (`sync_content`). A commit looks for its
  blobs in one statement and uses them in a later one; another request that
  collects what is unused removes them in between.

Seen in the models, and left out of what the passing runs claim:

- on the wire nothing verifies an applied correction until the engine restarts,
  and a restart has no samples to compare, so every one is rolled back; without a
  wire, verification follows at once and the accumulated total stays 0, so the
  accumulated limit never applies there;
- an answer after its transaction was given up raises out of the receive loop
  and ends the engine (`StopsOnlyOnLateAnswer` says nothing else does);
- a device carries out every copy of a request, at most `1 + MaxRetries`
  (`ExecutionsWithinRetryBudget`), not once;
- a second rejection of a session raises out of the receive loop and ends the
  engine, and the devices after it in that round are not asked
  (`EndsOnlyOnSecondReject`); since nothing in the engine calls `recover`, a
  device that was rejected once will do that unless its measurements get better;
- no trigger makes a session ready for a correction (theorem `NeverReady`): it leaves MONITORING before it asks the policy, and the policy's "ready" counts
  only in MONITORING. The autonomous loop does the same (`loop.py:99`), so its
  correcting branch is reached only by a session that was CORRECTION_READY before;
- the clock of a virtual device is the host's plus its own last estimate, so to
  measure it moves it, by up to half of a round trip each time, although
  `manager.py:190` says that clocks are not adjusted;
- a time of day in milliseconds does not fit the sketch's integer, so the request
  time comes back as 0 and the round trip is the whole time: `OffByHalfTheTripAtMost`
  then holds and says little;
- `sync_startup` schedules only virtual devices, for the registry is filled by the
  messages that come later; a physical one is scheduled by a call or by the file;
- a `state.json` that was cut off keeps the engine down, as a journal does;
- a crash while the journal is written leaves a file that the next start cannot
  read (`TornWrites`), and the engine stays down;
- `WithinQuota` and `PurgedIsGone` are checked one request at a time (`MaxOpen` = 1):
  nothing in the code keeps two open requests from breaking them, and with
  `MaxOpen` = 2 TLC finds that they do; with two, a delete may also take away a
  revision it did not name, and a commit be answered 200 for a project deleted
  meanwhile;
- a job that ends in what is no `Exception` stays "running" for those who look,
  and one that a shutdown cancels stays "queued"; `TakesJobsAgain` says that the
  first does not keep its key and its permit;
- a project that was purged and put back counts from revision 1, so
  `NothingOverwrittenUnseen` is checked without purging;
- events overtake one another between the queue and the router, although
  `main.py:537` says the order is preserved: a LED may rest on a state that is not
  the last (`overtaken`), and a heartbeat may be answered ERROR after a HELLO that
  came first; a press before the board is registered is dropped;
- the first record of a device while a snapshot is copied may raise in the copy,
  and that state update is not acknowledged: `AnsweredOnce` allows one;
- the sketch says HELLO once and does not wait for the answer, so a lost HELLO is
  not made up for (no line is lost in `EventPipeline`);
- the pin mapper numbers a link by how many there are, so a number comes back
  after a removal, two requests may get the same, and to disconnect one wire can
  take the link of another: `NoLinkLeftBehind` is the half that holds;
- `_persist` writes all wires in memory to the file of one workspace, and a start
  loads the default one: wires of a project are lost or come back, which is why
  `DefaultWiresAreStored` is about the default workspace;
- the workspace sync writes its own idea of the wires into `hardware` of
  `project.json`, over the wire manager's; two writes at once may leave no JSON;
- a board that was disabled and then unplugged is expected again (waiting), and its
  next heartbeat brings it online although it is disabled, against
  `workspace_sync.py:54`; a board loaded from a project is enabled; `DecisionsAreStored` says what is kept;
- a refused request clears what could be redone, or leaves a position, copies, a
  wire or a status in memory that the session file lacks until the next request
  that saves (`Drawn` leaves those out); a session file that was cut off keeps the
  API from starting, and wires are lost with a store that was cut off;
- discovery tells the dashboard of nothing, and each pass that finds something new
  or something gone ends there: two gone boards take two passes, and the list is
  pushed by the first pass that finds nothing (`ShownComesTrue`); a board moved to
  another port is unregistered when its old port is marked gone; `None` may be
  registered;
- the unlocked cut of the history loses an event for sockets that connect later, or
  brings cut ones back (`RecentReachesAll` speaks of histories that are not `torn`;
  `EventsArrive` of all, to the sockets that are open);
- `connect` of a port may write the outcome of its probe over what a scan found
  later, and leave the id of a board that is gone registered; a board that moved
  between two ports within a pass is registered and then unregistered;
  `ShownComesTrue` speaks of what is shown once the ports are left alone, and is
  silent on `registered`;
- a port whose handshake failed is tried again only after it was unplugged;
- every socket subscribes a callback and every callback sends to all sockets, so
  an event comes once for each socket there is; a client that leaves during its
  replay stays subscribed until a broadcast to it fails.

## The proofs

TLAPS checks these for every value of the constants that meets the named
assumptions of the module. Names in brackets are the properties the runs check.

**`CorrectionProofs`** — `TypeCorrect` [`TypeOK`]. Every total and counter is a
natural number, in particular a rollback never takes the total below zero. The
type invariant is inductive; the module has a lemma per action, and lemmas on the
bookkeeping operators. `CutOff`, the file a crash cuts off, is part of it. Two
properties rest on what a host's step does to the states of its records
(`HostStep`: nothing, or one record moves on, or the host ends or starts).
`RecoveryLeavesNothing` [`RecoveryIsComplete`] from `RecoveryInv`: what only
recovery can decide is in what it has still to visit. `OutcomesAreCountedOnce`
[`HealthNeverOvercounts`] from `HealthInv`: finitely many transactions were ever
created, in memory and in the journal, and each counter rises only with the set it
counts.

**`CorrectionJournalProofs`** — `JournalInvariant`, and from it
`AppliedIsAlwaysReal` [`AppliedIsReal`], `WireIsAlwaysJournaled`
[`WireIsJournaled`], `RetryBudgetHolds` [`ExecutionsWithinRetryBudget`],
`TimeoutIsLast` (a timeout has spent every retry), `StopsOnlyLate`
[`StopsOnlyOnLateAnswer`]. None of the properties is inductive: a step reads the
memory, and the properties are about the disk; a device reads a line, and the
property is about transactions. The invariant adds what ties them together:

- `MemoryIsJournal`: while the host is up the memory is what the journal holds;
- `RequestsKnown`: a request on the line is one of the journal, with its device
  and step, and its attempt is one of those counted;
- `ResponsesKnown`: an answer on the line is to a transaction its device has
  carried out;
- `JournalAccounts`: per state, what must have happened: an applied transaction
  was carried out, a timed out one has spent its retries, a carried out one was
  sent with an attempt within the budget.

The proof goes by action, and each crash action reduces to "the image left on
disk is one that a prefix of the handler writes". `BooksStayBelowDevice`
[`BooksNeverExceedDevice`] from `BooksInv`: no answer on its way reports more than
the device has accumulated, and the books either go down or take over what such an
answer reports. `ProtocolRefines` [`KeepsLifecycle`]: initial states map to initial states, and under the invariant every step of the protocol
is a step of the lifecycle or changes neither its phase nor what was carried out.

**`JobSchedulerProofs`** — `TypeCorrect`, `PermitsAreConserved`
[`PermitsConserved`], `KeysAreInProgress` [`KeyedJobIsInProgress`],
`OneOperationRunsPerKey` [`OneOperationPerKey`]. The invariant adds: a job has one
actor at a time, caller or worker, until a thread was refused (`OneActorAtATime`);
a live job has a status under which it is shared (`LiveIsActive`) and owns its key
(`LiveOwnsItsKey`); the stages of the two threads and the queue agree
(`StagesInOrder`); the permits and the jobs that hold one add up. The last is a
sum over a finite set, so the proof needs `IsFiniteSet(Jobs)` and counts with the
cardinality theorems of the library. The first three hold while
`startFailures = 0`; `KeyedJobIsInProgress` holds with refused threads too, which
is why `submit` may withdraw a job without leaving its key behind.

**`ProjectSyncProofs`** — `TypeCorrect`, and `EtagsAreNotNewer` [`EtagIsNotNewer`]
from `Behind`: revisions, in the table, in what requests have read and in what
computers were told, never pass the number of trees there were. Of requests in any
order, `LastRevisionsAreKept` [`KeptRevisionsAreTheLast`] and `OverwritesAreSeen`
[`NothingOverwrittenUnseen`] from `InStep`: a commit that has written holds the row
and has read it as it is (`HolderIsUpToDate`), since the keys of the revisions that
were kept have refused any other (`KeysShowProgress`). Both hold under two
conditions that the theorems name, and TLC finds each needed: `[]NothingPurged`, for a
project that was purged counts from 1 again, and `[]NotOvertaken`, that no more than
`KEEP_REVISIONS` commits go through between a commit's reading and its flush. The
second is a limit of the code: an update of the row does not look at its revision,
so it is the keys of the revisions that are kept that refuse a late commit, and the
key that would is gone when it was overtaken by that many. `FirstCommitsAreSafe` has
both properties without a condition on the behaviour, for `MaxCommits` up to
`Keep` + 1 and no purge. Of requests one after the other (`MaxOpen` = 1, without
which `sync_content` shows the first to fail and TLC the others), from `Serial`, what
the request that is open has found holds still: `SerialContentIsKept` [`ContentIsKept`],
`SerialPurgedIsGone` [`PurgedIsGone`]; and from `Roomy`, `SerialWithinQuota` [`WithinQuota`]. The
last is about a sum over all projects: `SizeIsUnits` counts it as the cardinality of
a set of units, by induction over finite sets, which needs no theorem that takes an
operator: `MinimalSubset` gets the smallest counterexample from the library's
well-founded ordering of subsets.

**`SyncControlProofs`** — `TypeCorrect`; `EstimatesAreAccurate`
[`OffByHalfTheTripAtMost`] from `AccuracyInv`: a request on the line was sent in
the past, an answer was made between its request and now, and then the midpoint
rule gives the bound (`MidpointRule`). `KnownInvariant`, and from it `NeverReady`, `FailureLasts` [`FailedUntilRecovered`],
`SyncTimeIsMonotone` [`SyncTimeNeverGoesBack`], `EndsOnlyOnReject`
[`EndsOnlyOnSecondReject`]. The action properties speak of what is known of a
device, which is the memory while the engine is up and the file while it is down,
so a kill must find in the file what the memory had: `KnownInv` says that the
times agree, that a failure in memory is one in the file (the converse fails
between `Recover` and the next save), and that a sample is not older than the last
that counted, which is what a late answer could break.

**`EventPipelineProofs`** — `PipelineTypeCorrect`; `NothingIsEverLost`
[`NothingIsLost`] from `PlacesInv`: the queue holds one event for each thread that
has added and not yet taken (`QueueIsOwed`, so nobody finds it empty), no event is
in two places (`OnePlace`), what was not published is not archived
(`ArchivedOnce`), every event is somewhere. `EachIsAnsweredOnce` [`AnsweredOnce`]
from `AnswersInv` and `SnapshotInv`: what is under way has no answer yet, what is
not has one or raised; while a snapshot is copied the LED is known, since the
router recorded it, so only the button can come in between, which the interactive
thread presses: it cannot be copying, so it is the other, and the first press
happens once. `ButtonsReachLeds` [`LedsFollowButtons`] from `FollowInv`: the state
of a button is what the last update on its line says, or with none on the line the
newest event its router has yet to get, or with none of those the LED
(`LedFollows`; `BoardFollows` the other way round, where the line comes after the
router); the router gets each event once (`RoutedInOrder`), so one that is not newer
than what it last got was overtaken. `EngineRunsBoth`: the engine process implements the pipeline and
`Spec` of the corrections, so `EngineDeliversEvents` and every safety theorem of
the corrections hold of it.

**`LiveUpdatesProofs`** — `StreamReachesAll` [`RecentReachesAll`] from `StreamInv`:
an open socket is subscribed (`OpenIsSubscribed`), one that left is not open
(`DeadIsGone`), so an event recorded after a socket subscribed is scheduled to it
and one recorded before is in the history it is replayed. It speaks of histories
that are not torn, which `HistoryInv` follows: then the history holds the last
events that were made, whatever threads are inside a cut, so `LastEventsReachAll`
says the same of the last events ever made. The condition is needed (TLC finds a
lost event without it) and the next two say what it takes: `FirstEventsAreSafe`,
more events than the history keeps, and `OneThreadIsSafe`, two publishers.
`DiscoveryTypeCorrect`: the types are inductive, since ports stay in the list, so a
probe that outlasts its board finds what to write to, and an id is written only to
the port it was read or made up for, although two probes and a scan come between.
`ApiRunsBoth`: the process implements both, so `ApiTypeCorrect` [`ApiTypeOK`] and
`ApiReachesAll` [`RecentReachesAll`] hold of it.

**`WorkspaceProofs`** is about the composition, so each theorem holds with the
other services and their files in play. `WorkspaceTypeCorrect`
[`WorkspaceTypeOK`].

- *Wires*, from `WiringInv`. `GraphStaysLoaded`: the graph is at every moment the
  one a new manager would make of the wires; the lemmas `AddEdgeIsGraph` and
  `RemoveEdgeIsGraph` say that it follows one wire, and neighbours part with the last
  wire between them. `SearchesFollowWires` [`GraphIsTheWires`]: a search of
  `find_connected_components` (`trace_signal_path` stops at 32 pins) goes as many
  rounds as there are pins, and after each it has more pins than rounds or all it
  will find (`SearchFindsAll`). With the graph also `WritesFollowWires` [`SignalsFollowWires`].
  `DefaultWiresStayStored` [`DefaultWiresAreStored`]: a change to a project's wires
  does not show in the default store (`StoreIsKept`). `LinksHaveWires`
  [`NoLinkLeftBehind`]: links are numbered from 1, finitely many, and a request that
  has its number has no link yet, so what it takes over was not its own.
- *Boards*, from `NodesInv`: `DecisionsStayStored` [`DecisionsAreStored`]. It needs
  what `project.json` and both services' unfinished writes may hold (`FileInv`),
  and so the invariant of the wires, which are written to the same file.
- *Canvas*, from `CanvasInv`: `WiresEndAtParts` [`SoundWiresEndAtParts`], which must
  hold of every picture in the two stacks and of the session file to hold of the
  canvas; `SessionHoldsWhatWasDone`
  [`SessionIsWhatWasDone`], where what requests that raised left behind is accounted
  for by `unsaved`; `HistoryStaysBounded`, since
  undo and redo keep the sum of the two stacks.

Assumptions on constants: they are named in each specification (numbers are
natural, a time bound is at least one tick, `"none"` is nobody's name, a wire that
may be asked for has ends and a workspace; the pins that may be named are finitely
many, as are the blobs and the projects of project sync, a digest and an id being of
bounded length) and TLC evaluates them in every run.

## Only model-checked, and not modelled

*Only model-checked:* liveness (`SentIsDecided`, `TakesJobsAgain`, `DueIsServed`,
`EventsArrive`, `ShownComesTrue`), which the proof system does not reach, nor ENABLED. Every
invariant and every action property of a run is also a theorem; those of project
sync that fail without a condition have it in their theorem (one request at a time,
nothing purged, no commit overtaken), and TLC finds the failure without it.

Induction over data: the theorems of the library that take a predicate cannot be
instantiated by the provers that are installed. Where a proof needs one over a
finite set or up to a bound, `MinimalSubset` takes the smallest counterexample from
the well-founded ordering of subsets, and `UpTo` in `WorkspaceProofs` makes of it
the induction over `0 .. c` that the recursive search of the wires needs, first
to show that the recursion defines a function (`RoundsExist`).

*Not modelled,* with the reason, part by part, in `PROJECT.json` under
`components`. In short: pure functions on floats (estimators, drift, analytics,
circuits), data and its validation (catalogues, schemas), queries and reports
(statistics, admin, community), transports and external tools (serial, WiFi,
compilers, identity providers). Parts with a life over time that are not modelled
yet are in the plan.

## Plan

Done, in the order of what matters most to a user of the system: corrections
(lifecycle, protocol, proofs), background jobs (with proofs), project sync (with proofs),
sessions and measurement (with proofs), wiring, nodes and the canvas over the
files they share (with proofs), discovery and the event stream (with proofs), the event pipeline
and its composition with the corrections (with proofs).

Left, in this order:

1. The autonomous loop with a correction in its cycle, `mark_failed`, the profiles.
2. Overlapping requests to the canvas, which has no lock.
3. The firmware studio's build directory, which every build writes over, and its
   cache; experiments that are stopped twice.
4. The composition of sessions with corrections: the state that admits a
   correction is the environment's today.
