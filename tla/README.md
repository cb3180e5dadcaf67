# A verification project for DGCoder

TLA+ models of the concurrent core of DGCoder, model-checked with TLC and in
part proved with TLAPS. DGCoder is a local web application in front of coding
agents: a server (`apps/server`) keeps projects and conversation threads in an
event log, drives the agents' processes, captures what each turn does to the
working tree as git checkpoints, and streams the events to browsers
(`apps/web`) and a desktop shell (`apps/desktop`). Paths below are relative to
the repository; `server/` stands for `apps/server/src/`, `Layers/` for
`server/orchestration/Layers/`.

To check a run: `tlc -config X.cfg M` with the module and the configuration that
the table of runs names. To check the proofs: `tlapm M.tla` with each module whose
name ends in `Proofs`.

## 1. Inventory

| Component | State | Operations | Talks to | What is hard, what makes it correct |
|---|---|---|---|---|
| Orchestration engine (`Layers/OrchestrationEngine.ts`, `server/persistence/Layers/OrchestrationEventStore.ts`, `OrchestrationCommandReceipts.ts`) | log, receipts, read model, command queue, PubSub | dispatch, one worker fiber, reconcile after failure, boot | every reactor and RPC dispatches; all subscribe to its events | retries, rollbacks, commits whose acknowledgement is lost, crashes between commit and publication. Each command decided once; the read model is the log's projection; each event published once, in order |
| Decider and projector (`server/orchestration/decider.ts`, `commandInvariants.ts`, `projector.ts`) | none (pure) | one case per command, one per event | engine | guards read the read model. No command is accepted that the history forbids |
| SQL projections (`Layers/ProjectionPipeline.ts`, `ProjectionSnapshotQuery.ts`) | tables, one cursor per projector, attachment files | project, bootstrap, snapshot | engine (same transaction), snapshots for clients and for boot | a second implementation of the projector. Both tell the same story |
| Runtime ingestion (`Layers/ProviderRuntimeIngestion.ts`) | queue, buffered messages, turns with file changes | one handler per runtime event | provider service in, engine out | reads the read model once per event, dispatches several commands with waits between. A turn's end settles that turn and no other |
| Checkpoint reactor (`Layers/CheckpointReactor.ts`) | queue | capture at completion, replacement of placeholders, revert | runtime and domain events in, git, engine out | races with the ingestion's placeholders. Captured checkpoints stay, counts are unique |
| Command reactor (`Layers/ProviderCommandReactor.ts`) | queue | turn start, mode change, stop, interrupt | domain events in, provider service, engine out | sessions replaced under a working turn. Nothing is left running |
| Provider service, directory, adapters (`server/provider`, `server/codexAppServerManager.ts`, `server/pi`) | processes, persisted bindings, pending requests | start, recover, send, interrupt, stop, roll back | agents' processes | foreign protocols, processes that die or outlive their session |
| Thread progress tracker (`Layers/ThreadProgressTracker.ts`) | phase and activity per thread | mark, sweep for stalls | ingestion, RPC | timers against events |
| WebSocket API (`server/ws.ts`) | deduplication per subscription | RPC methods, event stream, bootstrap of a first turn | engine, git, terminals | replay merged with live events; a saga with compensation |
| Web recovery (`apps/web/src/orchestrationRecovery.ts`, `routes/__root.tsx`) | frontier, deferred work, retries | classify, snapshot, replay, resubscribe | WebSocket API | any order of events, answers and failures. The store is a prefix of the log and grows to all of it |
| Web transport (`apps/web/src/wsTransport.ts`) | session, subscriptions | request, subscribe, reconnect | WebSocket API | reconnection while streams are being consumed |
| Keyed coalescing worker, drainable worker (`packages/shared/src`) | queue, latest values, active keys; outstanding count | enqueue, drain | terminals, reactors | a request that arrives while its key is being released, or after a failure. No request is forgotten |
| Terminal manager (`server/terminal/Layers/Manager.ts`) | sessions, processes, histories, kill fibers | open, write, clear, restart, close, process events | PTYs, keyed worker, RPC | exits, drains, restarts, kill escalation and persistence in any order |
| Git, checkpoint store (`server/git`, `server/checkpointing`) | repositories, caches | git and gh subprocesses, status polling | reactors, RPC | mostly I/O |
| Pi runtime (`server/pi/Layers/PiRuntime.ts`) | thread states, each with an agent, a snapshot and the prompt in flight | create, open, prompt, set model, abort; agent's events | agent SDK, RPC | calls, events and handlers of promises write the same snapshot. A working thread is shown as such, and only a working one |
| Startup, settings, keybindings (`server/serverRuntimeStartup.ts`, `serverSettings.ts`, `keybindings.ts`) | command gate, files | gate, read-modify-write, watch | everything | commands that arrive before the reactors run |
| Desktop shell (`apps/desktop/src`) | back-end process, restart and healthy timers, recent exits, update state | start, restart, stop; check, download, install | server, updater | ends, timers, stops and errors of the updater in any order. There is one server until it crashes in a loop; windows are told what is the case |
| Web stores, components; contracts; observability; marketing | reducers, views, schemas, traces | | | little state of their own |

How they interact: browsers and reactors *dispatch* commands; the engine alone
writes the log and, in the same transaction, the SQL projections; it publishes
the events; reactors and browsers *subscribe*; the command reactor drives the
provider's processes, whose runtime events come back through two independent
subscriptions, to the ingestion and to the checkpoint reactor, which dispatch
again. Boot reads the snapshot and forgets everything else.

The hazards found while reading are listed in `PROJECT.json`, each at the line
where it bites, with the properties that cover it or the reason that none does.

## 2. Modules

| Module | Models | EXTENDS / INSTANCE |
|---|---|---|
| `CommandLedger` | what the engine promises: at most one verdict per command | abstract |
| `Decider` | guards and events of the commands; the in-memory projector as far as guards read it back | |
| `ProjectionTables` | the SQL projectors of the same events, and the snapshot query that joins their tables | extends `Decider` |
| `OrchestrationEngine` | queue, worker, transaction, receipts, reconciliation, publication, reactors, clients' streams, crash, boot | extends `ProjectionTables`; implements `CommandLedger` |
| `MCOrchestrationEngine` | eight commands for TLC, and which fiber dispatches which of them | extends `OrchestrationEngine` |
| `OrchestrationEngineProofs` | proofs | |
| `RecoveryCoordinator` | `orchestrationRecovery.ts` as operators on a record | |
| `ClientSync` | server's stream, snapshot and replay, and the browser | extends `RecoveryCoordinator` |
| `ClientPolling` | the timer that asks for snapshots, and what puts it off | extends `ClientSync` |
| `ClientSyncProofs` | proofs | extends `ClientSync` |
| `CoalescedWork` | what a keyed coalescing worker promises | abstract |
| `KeyedCoalescingWorker` | `KeyedCoalescingWorker.ts` | implements `CoalescedWork` |
| `KeyedCoalescingWorkerProofs` | proofs | |
| `ThreadProjection` | one thread's session, turns and checkpoints in the read model, in the tables, and in a snapshot | |
| `TurnLifecycle` | provider, ingestion, checkpoint reactor, command reactor and restart around one thread | extends `ThreadProjection` |
| `MCTurnLifecycle` | budgets for TLC | extends `TurnLifecycle` |
| `TurnLifecycleProofs` | proofs | extends `TurnLifecycle` |
| `TerminalManager` | one terminal's sessions, shells, drains, kills and history on disk | |
| `TerminalManagerProofs` | proofs | extends `TerminalManager` |
| `Requests` | the startup gate and the bootstrap of a first turn, against an engine that commits one command at a time | |
| `MCRequests` | two bootstraps for one thread, a command for another | extends `Requests` |
| `RequestsProofs` | proofs | extends `Requests` |
| `PiRuntime` | one thread of the Pi runtime, its agents and its clients' calls | |
| `PiRuntimeProofs` | proofs | extends `PiRuntime` |
| `DesktopShell` | the desktop application's server process and updates | |
| `DesktopShellProofs` | proofs | extends `DesktopShell` |

### OrchestrationEngine

`log`, `receipts` and `projection` are the durable tables; `readModel`, `queue`,
`inbox` (each subscriber's share of the PubSub) and the worker's locals live in
memory, as does `backlog`, the events that a reactor's worker has still to handle. `pc` is the place in `processEnvelope`: `Take`, `AnswerFromReceipt` and
`Decide` (receipt lookup and decider, lines 126-144), `Commit`, `StorageFails`
and `CommitUnacknowledged` (the transaction, which may also have committed when
it reports a failure), `ApplyCommitted`, `Publish`, `Reconcile` and
`ReconcileFails` (98-115), `RecordRejection`, `Reply`. `Crash` clears the memory
at any step and `Boot` reads the projection. An event is reduced to its type,
aggregate and the field a guard reads back. `replies`, `booted`, `published`
and `missed` are history variables.

The same events are projected twice, by different code. `Decider` has `projector.ts`,
which keeps a thread's session and plans inside its entry and drops what is about an
entry that is not there; a revert makes a running session ready (659-667), which is what
the guard of the next turn start reads (`decider.ts:343`). `ProjectionTables` has one
operator per projector of `ProjectionPipeline.ts`, whose rows know nothing of the
thread, and the join of `getSnapshot`. `SnapshotAgrees` compares the two; a restart puts
the second in the place of the first. Which plans a revert drops is the same argument
for both, and the limit of 200 plans in memory is left out.

A subscriber shares the bounded PubSub: `Publish` waits for the slowest. A *reactor* is
two fibers: the one that takes events (`Consume`) hands them to an unbounded queue and
never waits, the worker behind it (`React`, `Handled`) may dispatch commands of its own.
A *client* is a stream of `ws.ts:551-607` that comes and goes (`Connect`, `Disconnect`) and
takes an event when its peer acknowledges (`Acknowledge`): nothing makes it do so.

The source accepts that a reconciliation may fail (it logs a warning); the
properties of the read model and of publication therefore hold until that
happens, which `missed` records.

### ClientSync

An event is its sequence number. The server side is `Commit`, `ApplyCommitted`,
`Publish`, and the subscription of `ws.ts:551-607` in its separate steps: read
the read model's sequence (`OpenStream`), read the log past it (`ReadReplay`),
subscribe (`SubscribeLive`), then `Forward` from either side, without
duplicates but in no fixed order. The client is `Receive` with the classification,
`Flush` (the microtask), `AskSnapshot`, `SnapshotArrives`, `ReplayArrives`,
`RetryTimer`, `Connect`; `Disconnect`, `SnapshotFails` and `ReplayFails` are the
faults, `MaxFaults` of them. The coordinator's methods are the operators of
`RecoveryCoordinator` and keep their guards and the order of their assignments.

`ClientSync` promises nothing in the end: it says what a client never shows. What brings a
client up to date when no event shows it a gap is the snapshot poll, which `ClientPolling`
adds. Its timer has two stages, so that it can be put off before it fires: every progress
snapshot of a thread does (`ThreadProgress`, `__root.tsx:785-793`), and the server publishes
one for each runtime event of an agent. `CatchesUp` therefore speaks of the time after
the last of them.

### KeyedCoalescingWorker

Each transaction on the worker's state is one action; so are the fiber's steps
between two (`Take` before `Claim`, `CleanupFailedKey` before `Requeue`). `merge`
is left open: a value is the set of requests merged into it.

### ThreadProjection and TurnLifecycle

`ThreadProjection` holds both projections of the same events: `ProjectThread`
translates `projector.ts`, `ProjectTables` the session and turn projectors of
`ProjectionPipeline.ts`, `Snapshot` the queries of `ProjectionSnapshotQuery.ts`.
`TurnLifecycle` is one thread in its surroundings. A worker takes an item, reads
`thread` once and keeps what it is going to dispatch (`ingest.todo`, `capture`,
`command`), so that every other actor may act before each of its dispatches. A
dispatch is one step, `Dispatch`: the engine commits one command at a time and
answers only when both projections show it, which `OrchestrationEngine` checks.

The provider is the environment, taken from what the adapters do: turns complete,
fail, are interrupted or abort; a process may exit with its turn unheard of; a
session that is replaced leaves its process behind (`orphaned`), which goes on
with its turn and whose exit removes the thread's new session
(`codexAppServerManager.ts:984-998`); a session that is gone is recovered when a
turn is sent (`ProviderService.ts:273-299`).

Left out of the model, as nothing it says depends on them: what messages say,
streaming or buffered delivery (a delta may or may not be dispatched as it
comes), progress phases, approvals, plans, activities, titles and branch names,
and the git refs themselves. Simplified: a turn has at most one open message and its
text is not empty; turns are numbered as they begin and requests have distinct,
increasing timestamps; a turn changes files when it reports a diff; the runtime
states "running", "interrupted" and "stopped" of a session, which the model's
other events lead to as well, are not reported by `SessionStateChanges`; the
checkpoint reactor's one queue, fed by two fibers, is two queues served in any
order; turns of auxiliary sessions are ignored.

### TerminalManager

One terminal of one thread. `object` holds the session objects created so far, as
drains and calls keep references to objects that the map (`session`) has
forgotten; a session is its status, its process, the number of lines of its
history and what is pending of its process. `call` is the call that holds the
thread's lock (`withThreadLock`) and where it waits: for the persist worker
(`flush`, `persist`), for a file (`read`, `remove`), for a spawn. An action is the
code between two places where its fiber may wait: nothing else runs in between, as
the server is one JavaScript thread. `drains[p]` counts the fibers that drain the
events of process `p`, before their first step or while they tell listeners of an
output. The persist worker is what `KeyedCoalescingWorker` has of it for one key, with
the `merge` of this use: the newer history replaces the older. Writes of files may
fail (`unsaved`), spawns may fail, callers may go away (`Interrupted`), and sessions of
other terminals evict this one (`Evict`).

A kill escalation is two signals with a grace between them, `Terminate` and `ForceKill`;
its process is `condemned` while it lives. Either signal may throw, as on Windows any
does: the code logs it, and after the first does not send the second.

What the code gives up is recorded and excepted in the properties: `forgotten`, exits
that were pending when a clear (1738) or a stale drain (1120) emptied the pending
events; `mislaid`, sessions evicted while they were starting, as the filter of 1087
only spares running ones; `spared`, processes that live on because a signal threw, which
belong to nobody then. `CallsReturn` is conditional on shells that do not print for
ever: each output queues a newer history, and a call that waits for the worker to drain
waits with the lock in its hands.

### Requests

`Send` is `dispatchNormalizedCommand` up to `enqueueCommand`; `Take`, `Begin`,
`RefuseHeld` and `Settle` are the gate's worker; `StartupEnds` is either end of the
startup. A request that runs is at one of the five `Steps` of `bootstrapProgram`, or at
the `cleanup` that `catchCause` runs before it fails. The engine is `Commit`: one guarded
step, which `OrchestrationEngine` justifies, and whose caller may be told of a failure
(`Unacknowledged`). A connection that closes interrupts the fiber where it is, and then
`hasInterruptsOnly` skips the cleanup; a request in the gate is not interrupted, only
abandoned. `Restart` forgets gate and fibers. `faulted` marks the requests that such a
fault struck, up to which `AllOrNothing` is stated; steps that merely fail are not
faults.

Every step may fail, the setup script as well: the terminal's own errors are caught there,
its defects are not (358).

The worktree and the branch that a failed bootstrap has made are not removed by the
code, nor modelled. A turn that another request starts on a thread which is then deleted
is accepted: `requireThread` does not look at `deletedAt`.

### PiRuntime

A state object (`ActivePiThreadState`) is its snapshot, the prompt in flight and its
agent; of a snapshot the model keeps the status, whether there is an error, and whether
the last message is one to come. A call goes from `opening` (the awaits of
`ensureThreadState`) over `held` and `modelling` to its end; a prompt's place goes on with
its promise, `pending` until it is `resolved` or `rejected`, and `Finally` comes after
another await. The agent is the environment: it may take a pending prompt, once or again,
reports what it does in the order agent_start, updates and tools, agent_end, and is idle
after. The promise of a prompt is settled when the agent is not at work for it.

The guard of 729 is looked at before `setModel` and `publishSnapshot` are awaited and
closed only at 774, so that two prompts may get through (`doubled`); and two calls that
open a thread at the same time create a state and an agent each. `ThreadSettles` holds
even so; `RunningIsShown` does not, and is stated up to the two.

An abort is two steps: it awaits `session.abort()`, also where the agent is idle (`Abort`,
`AgentIdle`), and then writes that the thread is idle (`AbortEnds`, 846-853) without another look.
An agent that starts between the two works on a thread that is shown as idle;
`overtaken` marks it until it is idle again, and `RunningIsShown` is stated up to it, too.

### DesktopShell

An action is a callback of the main process. `Bootstrap` and `Restart` run
`startBackend`, which may find no server file (`Unstarted`), get a child without its
pipe (`Abandoned`), or a child (`Spawned`), which may fail to become a process. `Dies`
is the environment's; the application hears of it later, in `Ended` (the first of the
`error` and `exit` events), which counts it (`ShortLived`, with exits that are too old
dropped, or `LongLived`), unless it was expected. `StopBackend` is both `stopBackend` and
`stopBackendAndWaitForExit`; `HandOver` is what follows the wait, `stopping` the number of
installs that wait. Times are choices: how long a process has lived, which exits are still
recent. Of the update state the model keeps the status and which version is known;
`check` and `download` are the updater's side, asked and told.

A signal may come late or be ignored for a while, but is sent (`killed`). An `error` event
of a child that cannot be killed is not modelled, nor the progress of a download, which
only repeats its status while it is under way.

`ChildProcess.spawn` may throw: while the application starts that ends it (`Bootstrap`, then
`Quit`); in the restart timer nobody catches it, and no other restart is due
(`RestartThrows`), which `gaveUp` records as it does a crash loop.

`installDownloadedUpdate` stops the server and destroys the windows before it hands over
to the updater; when that throws (1082) or reports an error later (1164) the application
goes on, but nothing starts the server again: `stranded` marks it, and `BackendWatched`
is stated up to it.

## 3. Runs

| Run | Configuration | Instance | Shows |
|---|---|---|---|
| `engine` | `OrchestrationEngine.cfg` | 2 callers with 3 commands (two create the same thread, or one has two events); or 1 caller with 5 whose guards depend on a session or on a plan and on a revert; or 1 caller and 1 reactor that dispatches, with 3 commands, and 1 client; PubSub of 1; fair worker | exactly-once, consistency of read model and publication, agreement of the two projections, legality of the history, that the engine implements the ledger; if clients keep up, every call is answered and every committed event published |
| `client_sync` | `ClientPolling.cfg` | 2 events, replay batches of 1, 1 fault, 1 retry | the client's store is always a prefix of the log, never goes back, and reaches all of it once agents are silent |
| `keyed_worker` | `KeyedCoalescingWorker.cfg` | 2 keys, 3 requests each, 1 waiter | nothing is forgotten, each request is in one place, the promise is implemented, everything settles |
| `turn_checkpoints` | `TurnCheckpoints.cfg` | 2 turns, 2 diff reports, 1 revert, fair workers | captured checkpoints stay, every placeholder is replaced |
| `turn_sessions` | `TurnSessions.cfg` | seven budgets: 2 turns with a mode change and a process exit; with a diff, a failed handler and a restart; with a change of model and a failed handler; with a revert; 1 turn with a stop, an interrupt, a state change and an error, or a delta and a message, or a state change and a restart | foreign ends of turns do not end the active turn, both projections agree on the session, a settled session leaves no turn unfinished, nothing is left running, counts stay unique |
| `turn_table_checkpoint` | `TurnTableCheckpoint.cfg` | as `turn_checkpoints` | violated: a late placeholder overwrites a captured checkpoint in the table |
| `turn_shown` | `TurnShown.cfg` | 1 turn with a stop, an interrupt, a state change and an error | violated: an aborted turn is shown as unfinished after a refresh |
| `turn_gate` | `TurnGate.cfg` | 2 turns, 1 mode change, 1 diff, 1 failed quality gate | violated: the gate of a foreign turn settles the active one |
| `terminal` | `TerminalManager.cfg` | 3 sessions and processes, histories of at most 1 line, 2 pending events, 2 drains | no shell is left to itself, no exit is missed, the disk has what is shown, calls return |
| `requests` | `Requests.cfg` | 2 requests for one thread with any of four bootstraps, 1 command for another, 2 faults | nothing runs before the server is ready, bootstraps leave all or nothing and delete only their own, every request is answered |
| `pi` | `PiRuntime.cfg` | 3 calls of any kind, 2 runs of agents | a quiet thread is shown settled, a working one running, the guard opens again |
| `desktop` | `DesktopShell.cfg` | 5 processes, 3 crashes, 2 installs at once | there is a server or a restart due, none is left behind, crash loops end, windows are told what is the case |

**Bounds.** A capacity of 1 makes a full PubSub an ordinary state; the offers that wait
for room in the bounded command queue are the end of the model's queue. Of the three
kinds of instances of `engine`, only the last has the client and a reactor that dispatches or lags;
in the others a reactor is through with an event before anything else happens. In the
last two, project and thread are created first and a command is retried only until it is
answered; the races have the other retries. A read limit of 2 is the least that a command with two events allows. Two
callers are enough for a retry to race the original. For `client_sync`, batches
of 1 with 2 events make every replay come back short, and one fault may fall
anywhere; a gap needs the second event to arrive before the first. Two turns are
enough for one to be foreign to the other; three would add turns foreign to
each other only, which no handler compares. Budgets (`Budget`, one number per
kind of event) bound what users and provider do of their own accord; what the
workers do in answer is not bounded. `turn_sessions` starts from each of its budgets in turn. A history of one line tells
an empty history from one that is not, which is all that a clear, a restart and the
disk can disagree about; three objects or processes are a session with a shell and its
replacement or successor; two pending events are an output before an exit. With
two requests for one thread one can fail while the other is anywhere, two faults are an
acknowledgement and the deletion that follows it, or a connection on top of a restart.
Three callers are two prompts that get past the guard and a call that disturbs
them; the second run of an agent is that of the other prompt. Five processes are a crash loop
of three, as many as the source has, after one that was healthy, and one to spare; a second install needs a first
that failed while it waits. The type invariants of `OrchestrationEngine`,
`ClientSync`, `KeyedCoalescingWorker`, `Requests`, `PiRuntime` and `DesktopShell` are theorems and not
checked again by the runs. As budgets run out the turn
models stop, so `CHECK_DEADLOCK FALSE`, as in the keyed worker, the requests and the
calls of the Pi runtime when none is left, and in a terminal when no further object may
be created, and in a desktop application that has quit. The runs of the engine
and of the client check deadlock.

**Fairness.** The engine's worker is `Effect.forever` in a fiber of its own, and the fiber by
which a reactor takes events only moves them into an unbounded queue; both are fair.
Callers, what reactors' workers do, crashes, boots and clients are not. That clients keep
up is no fairness of the code but a premise of the two liveness properties
(`ClientsKeepUp`): none leaves its share of the PubSub full for good. Without it a peer
that keeps its connection and never acknowledges holds back the publication and with it
every command. The client's requests are answered or time out, its microtasks run, and
its poll timer runs on in time; it is not required to fire, as progress may put it off again and
again, and `CatchesUp` has as its premise that this ends. Live events are *not* required
to be delivered. The premise matters: `README.md:42` names the polling of active threads as
what makes stalled recovery converge, but it is just while a thread is active that the timer
does not fire; a client that missed an event between the read of the log and the
subscription to live events (`ws.ts:557-564`) then waits for a later event, or its user. The coalescing worker's fiber is forever, and a blocked
transaction is retried when the state changes. The three reactors are forever
loops over their queues; users, provider, failures and restarts are not fair. In a
terminal the fiber of a call, the persist worker and drains go on; clients and shells need
not. In `requests` the startup ends, the gate's worker is forever, and git, scripts and the
engine answer. In `pi` what is awaited comes, and an agent that works ends its work; it need
not take a prompt up.

## 4. What the violated runs say

* `turn_table_checkpoint`. `projector.ts:583` does not let a placeholder
  overwrite a captured checkpoint. The SQL projector of the same event
  (`ProjectionPipeline.ts:1030-1074`) has no such guard. The ingestion checks
  that there is no checkpoint (`ProviderRuntimeIngestion.ts:1474`), the capture is
  dispatched, then the placeholder: the read model keeps the capture, the table
  the placeholder, and after a restart the read model has it as well.
* `turn_shown`. `README.md:156` says that session updates reconcile the latest
  turn "so a completed provider session does not keep rendering as still working
  after refresh or restart". The read model does so; the SQL projection of
  `thread.session-set` touches turns only while the session is running. A turn
  that aborts before it has a message or checkpoint stays `running` in the snapshot.
* `turn_gate`. "Only the active turn may close the lifecycle state."
  (`ProviderRuntimeIngestion.ts:1127`): the end of another turn is dropped, but
  its quality gate still runs, and when it fails sets the session to `error`
  without an active turn (702-715). The passing runs of `OnlyItsOwnEndSettles`
  have no failing gate.

## 5. Proofs

For every number of callers, commands, reactors and clients and every capacity
(`OrchestrationEngineProofs`, from `CapacitiesPositive`, `CommandsTyped`,
`ParticipantsDistinct` and the assumptions of `Decider`):

* `TypeCorrect`. `TypeOK` is inductive: it ties `envelope`, `start` and the cursors
  to `pc` and to the length of the log.
* `VerdictCorrect`. `VerdictFollowsReceipt` is inductive with it: between lookup
  and transaction nobody but the worker writes receipts.
* `ExactlyOnceCorrect`. The log only grows by the block of a command that has no
  accepted receipt, which is where `VerdictFollowsReceipt` is needed; `Owned`, the
  converse half, makes the statement inductive.
* `Refinement`: `Spec => ImplementsLedger`. `Commit` and `CommitUnacknowledged` are
  `Accept`, `RecordRejection` is `Reject`, `Reply` is `Answer`, all else stutters.
* `PublishedCorrect`. What was published since boot, followed by what is still to
  be published, is the interval of sequences from boot to the read model.
  Inductive with `TypeOK` and facts about what the worker has committed and not
  yet applied; reconciliation is the hard case, as it reads back at most
  `ReadLimit` events, of which a command never has more than two.
  `PublicationCorrect` is the part of it that holds at each step of the worker.
* `ReadModelCorrect` (`ReadModelConsistent`). The projection of a log is a fold
  (`ProjectEvents`); what is proved of it first, by a least length at which it could
  be wrong, is that projecting a log and one more event is projecting the event
  onto the projection of the log (`ProjectEventsLast`), and from that what applying
  the events of one command, or those read back, does to the read model. At boot the read
  model is the snapshot, so that this needs
* `SnapshotCorrect` (`SnapshotAgrees`): what the query joins from the tables is what the
  in-memory projector makes of the whole log. The projections differ about threads
  that are not there. No session or plan has a row without its thread (`Orphanless`), as the
  decider lets no command through that would write one (`DecidedOnTheLog`); this is why the
  two and `HistoryIsLegal` are proved together.
* `DecisionsCorrect` (`HistoryIsLegal`). The guards of a decision are evaluated on the
  read model and used a step later, in the transaction. `DecidedOnTheLog` is inductive:
  at the transaction the command is allowed by the whole log, as the read model is
  its projection and nobody else appends to it; only a reconciliation that failed
  breaks this, which `missed` records.

For every number of events, faults and retries and every size of batches
(`ClientSyncProofs`, from `ClientSyncAssumption`): `TypeCorrect`, `StoreFollowsLog`
(`StoreIsPrefix`) and `StoreOnlyGrows` (`StoreNeverGoesBack`). The invariant relates three
frontiers to the log. Of the pending events only the last can be unapplied, and then it is
the next (`Follows`). This needs that no event comes twice: what is on its way is there
once and remembered by the stream, what is pending is neither on its way nor to be sent
again (`SentOnce`, `PendingOnce`), and a new connection opens only after the events of the
old one have been flushed (`Closed`). And the request in flight is current
(`RequestCurrent`): a replay starts within what is applied; a snapshot that was answered
reaches past what is applied and pending, as nothing is applied directly while it is in
flight. Batches are stretches of the log, which join (`Joined`, `AppliedStretch`,
`AppliedPending`).

For every set of keys and waiters and every bound (`KeyedCoalescingWorkerProofs`,
from `KeysAssumption`): `TypeCorrect`, `NothingForgottenCorrect` (the equation
between `queuedKeys`, the queue and the key in the fiber's hands is the
invariant), `AccountedCorrect` and `Refinement` to `CoalescedWork`, whose hard
step is a drain that returns: no value, not queued and not active imply, by
`RequestsAccounted`, that all that was asked is settled.

For all requests, threads and bootstraps (`RequestsProofs`, from `RequestsAssumption`):
`TypeCorrect`, `GateCorrect` (`NothingBeforeReady`), `BootstrapCorrect` (`AllOrNothing`)
and `CleanupCorrect` (`DeletesOnlyItsOwn`). The invariant says of every request what it is
responsible for (`Careful`): one that has set `createdThread`, or is about to clean up, made
its thread; one that made a thread and is still at a later step, unfaulted, has it there;
one that is done has its turn started or its thread deleted. `HeldOnce` is what the gate
needs: a request is in the queue once or with the worker, and `MadeIsThere` that only a
thread that exists has a maker. A commit of one request leaves what the others are
responsible for alone (`CommitAside`), which is where the guards of the decider come in.

For every finite set of callers and every bound (`PiRuntimeProofs`, from
`PiRuntimeAssumption`): `TypeCorrect`, `ThreadSettlesCorrect` and `RunningIsShownCorrect`. A
snapshot that shows the thread as running is accounted for by a prompt that has still to be
settled (`LitState`, `LitClients`): every handler that leaves it running belongs to an agent
whose runner is a prompt that is pending (`RunnerPending`). For `RunningIsShown` there is in
addition at most one prompt under way unless `doubled` (`OnePrompt`), and an abort that has
still to write finds no agent at work but one that is `overtaken` (`AbortsLate`).

For every limit of crashes and any number of processes and installs
(`DesktopShellProofs`, from `LimitsAssumption`): `TypeCorrect`, `WatchedCorrect`,
`StrayCorrect`, `CrashLoopCorrect` and `StatusCorrect`. The invariant adds that a process
whose end is not expected is the server (`Accounted`, `Unexpected`) and that a restart is due
only while there is none (`OneDue`): an end that counts is then the server's, with no
restart due that could survive the decision to give up, and the end of a process that was
stopped leaves its successor alone.

For any number of session objects, shells and drains and every limit of the history
(`TerminalManagerProofs`, from `LimitsAssumption`): `TypeCorrect`, `OwnedCorrect`
(`ProcessesOwned`), `ExitsCorrect` (`ExitsHandled`) and `DiskCorrect`
(`DiskFollowsTerminal`). A session that runs has a process of its own, and its flag
`draining` is only up while a drain of that process is under way (`SessionOK`); a process
is its session's or is condemned (`ProcessOK`), whatever becomes of its signals (`Signals`), so that most steps change one session
and its processes and leave all others alone (`OneSession`). What ties them to calls is that
the map has no other session than the one that the call at work was given, which has no
process while the call waits to start or forget it (`Locked`), and that what runs is in the
map unless it was evicted under a call (`Found`). The disk follows by what it will have
when nothing waits any more (`Latest`); a history is only read while nothing is queued,
and as no process runs then nothing becomes queued (`DiskOK`).

For every set of turns and all budgets (`TurnLifecycleProofs`, from `TurnsAssumption` and
`BudgetAssumption`): `SessionsCorrect` (`SessionsAgree`), `CountsCorrect` (`CountsDistinct`),
`SettledCorrect` (`SettledSessionSettlesTurn`) and, if no budget has a failing gate,
`OwnEndCorrect` (`OnlyItsOwnEndSettles`). The projections are proved about for events of any
shape (`ThreadFacts`, `TablesFacts`), so that the first two hold whoever dispatches what:
both projections take the same from a session, and a checkpoint takes its count from the
turn that has it. `SettledSessionSettlesTurn` needs of the workers that a session that
settles names no turn (`NamesNoTurn`), of what the ingestion worker has yet to dispatch as
well (`IngestOK`). `OnlyItsOwnEndSettles` is about a read that is stale when it is used: it
holds because, while the end of a turn waits to be dispatched, everybody else can only take
the active turn away (`TurnStays`), so that it is the event's own or none (`EInv`).

`IdleCorrect` (`IdleIsNotRunning`) is an account of every end that is still to come
(`RunOwed`): what is to make the thread run, whether it waits in the queue of the ingestion
worker or among what the worker has yet to dispatch, and what makes it run now, has its turn
worked on or has the event that ends it further back in the queue; the thread that runs may
also have its settling among what is to be dispatched. An end that is judged while another
turn is active is dropped; that turn then is owed an end of its own. A handler that gives up
or a restart breaks the account, as the property says.

`TypeCorrect` (`TypeOK`) and `RealCheckpointCorrect` (`RealCheckpointStays`) need that every
event is well-formed, from where it is made to where it is projected (`WorkersOK`), and with
them come the parts of `TypeOK` that are more than types. The checkpoints of the read model
are ordered and of distinct turns (`Ordered`): a filter keeps this (`FilterOrdered`), so does
a new checkpoint put in its place (`WithCheckpointFacts`), and a restart finds it in the
tables because their turn counts are distinct, by which the captured turns can be enumerated
(`Enumeration`, `SnapshotTyped`). A turn has a row exactly if it has a place in the order of
the table (`TablesTyped`). That the turns which are begun are all in `Turns` is a count
(`Numbered`): those begun, the one to be sent, those in the queue and those the budget still
allows are together never more than the budget had. `RealCheckpointStays` excepts a restart:
the table it reads may have lost a captured checkpoint to a placeholder, which is the finding
of `turn_table_checkpoint`.

So every safety property of a passing run is a theorem. Only model-checked is all liveness,
as fairness and `ENABLED` are out of the prover's reach: `EveryCallAnswered`,
`EveryCommitPublished`, `CatchesUp`, `EverythingSettles`, `PlaceholderReplaced`,
`CallsReturn`, `EveryRequestAnswered` and `GuardReopens`, of which the first three and
`CallsReturn` have premises, given above. The induction theorems of the
library cannot be used either, as they take a predicate as a parameter: where a sequence is
filtered or folded, the proofs take the least index at which a claim could fail instead
(`Least`, `Induction`). For this the filters of `ThreadProjection` are written with a
recursive function (`Filter`) and a set, not with `SelectSeq`, whose parameter is an operator.

## 6. Not modelled

Listed with reasons in `PROJECT.json`. In short: pure I/O (git, gh, file system
services, HTTP routes, PTYs), other programs' protocols (adapters), user
interface, schemas, observability. Of the engine, the interruption of a fiber that waits for
its answer is not modelled: its command goes on as any other. Concurrent parts that the plan still has
are below.

## 7. Plan

Done: engine, decider, ledger; client recovery; coalescing worker; thread
projections and turn lifecycle; terminal; startup gate and bootstrap; Pi runtime; desktop shell.

Next, in this order:

1. `ProjectorCursors`: boot of the projectors with bounded reads, side effects on
   attachments before the commit. Property: a cursor never passes an event it has
   not applied.
2. `CheckpointRefs`: baselines, refs and reverts of the checkpoint reactor.
3. `ProviderSessions`: bindings and routing of the provider service.
4. `WsTransport`, `ThreadProgressTracker`, `GitStatusBroadcaster`, settings.

Theorems to come are those of these modules: every safety property of those that are there
is proved.
