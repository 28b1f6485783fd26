# TLA+ specifications of lobs-core

lobs-core is one Node process: an orchestrator that turns tasks of a SQLite
database into agent runs, a conversational main agent, a set of scheduled jobs
and the services they share.  This directory holds TLA+ modules that model its
control logic, TLC configurations that check them on small instances, and
theorems about them that TLAPS checks for every instance.

Paths such as `control-loop.ts` are below `src/` of the repository; docs are
below `docs/`.

## 1. Inventory

Everything runs on one event loop.  A synchronous stretch of code is atomic; at
every `await` anything else may run: the next tick of the 10 s control loop, a
cron job, an HTTP request, a completed agent.  The state that survives a crash
is the database; queues, counters and maps in modules do not.

| Component | State it keeps | Operations | What makes it correct |
|---|---|---|---|
| Spawn dispatch (`orchestrator/control-loop.ts` 1b, 3.5, `worker-manager.ts`, `workflow/nodes.ts`) | `_pendingSpawns`, `pendingSpawnCount`, `pendingSpawnKeys` in memory; `worker_runs` rows | push, pop, requeue, reserve, release, start and end of a worker, stale cleanup | limit on workers, one worker per project and agent type, no leaked reservation, no lost or duplicated request |
| Spawn handler (`processSpawnWithRunner`) | spawn count, crash count, task status, `node_states.spawn_result` | gates, preflight, guard, context, start, completion | every path out releases what it took and tells the workflow |
| Task life cycle and watchdogs (`control-loop.ts` 0, 4, 5a-8b, `scanner.ts`, `index.ts`) | `tasks`, `worker_runs`, `pendingResumes` | stall, ghost, 120 min termination, startup orphans, orphaned active tasks, auto-close | nothing stays in progress forever; a live worker is not declared dead |
| Workflow engine (`workflow/engine.ts`) | `workflow_runs`: status, current node, node states | start, advance, check, transition, retry, fallback, fail, finish | a finished run stays finished, one spawn in flight for a node, retries bounded |
| Scanner and scheduler (`scanner.ts`, `scheduler.ts`) | reads `tasks`, writes status | find ready tasks, activate, block dependents | only ready tasks are started, blockers respected |
| Main agent (`services/main-agent.ts`) | per-channel queue, processing flag, abort controllers, `main_agent_messages` | enqueue, process, retry, recover, resume after restart | one conversation per channel, messages in order and not lost, bounded concurrency |
| Cron (`services/cron.ts`) | rows of jobs, the maps built from them, marks of the last firing, the handler of agent jobs | start, tick, catch up, add, replace, toggle, remove, trigger | no job twice for a minute, a missed job caught up |
| Key pool and retries (`services/key-pool.ts`, `ResilientLLMClient` of `runner/providers.ts`) | keys' health, sticky session assignments, the wait of a call | get key, mark failed, recover, reload; attempts and fallbacks of a call | a failed key is not handed out before its cooldown |
| Model health and circuit breakers (`orchestrator/model-health.ts`, `services/circuit-breaker.ts`, `hooks/circuit-breaker.ts`) | failures, state, cooldown | record, trip, probe, reset | nothing the running program does depends on them (section 7) |
| Scheduled workers (`workers/base-worker.ts`, `workers/index.ts`) | running flag, run rows | start, wait in a queue, run, finish | one run of a worker at a time |
| Memory (`memory/*.ts`) | memories, evidence, conflicts, embeddings | extract, reconcile, detect and resolve conflicts, collect garbage | no unresolved contradiction active, evidence not orphaned |
| Research queue and sweeps (`services/research-queue.ts`, `services/intel-sweep.ts`) | sources, items, insights and their statuses | sweep, enqueue, claim, finish, extract | one worker for an item, no insight twice |
| Live meeting (`services/live-meeting.ts`) | session, transcript, analysis lock, research | chunk, transcribe, analyse, research, stop, clean up | one analysis of a session at a time |
| Agent loop (`runner/agent-loop.ts`, `loop-detector.ts`) | transcript, tool results, repetition counters | turns, tools, compaction, abort | bounded turns and time, every tool call answered |
| Voice (`services/voice/*.ts`) | sessions, connections, deferred actions | join, leave, connect, reconnect, defer, drain | no connection outlives its session, no deferred action is left |
| HTTP API (`api/*.ts`), Discord, CLI | none of their own | change tasks, inbox, workflows | leave the state machines above consistent |
| Process start and stop (`main.ts`, `cli/lobs.ts`, `index.ts`) | PID file, port, the launchd service | start, stop, restart, stand by, drain, recover | a start ends with a server; work of the last process is resumed or failed |

Hard behaviours, by kind.  *Interleaving:* a tick awaits a call node while the
next tick starts; a handler awaits its preflight while rows and reservations
are cleaned up; a superseded conversation goes on beside its successor.  *Stale
state:* run rows are read once for a tick and written back whole after awaits;
timers act on a channel that belongs to another run by then.  *Crashes:* queues
and reservations are lost, rows stay.  *Timeouts:* seven watchdogs declare the
same runs and workers dead on different clocks.  `PROJECT.json` lists each at
its line, with the property that covers it or the reason why none does.

## 2. Plan

| Order | Module | Composes or implements | State |
|---|---|---|---|
| 1 | `SpawnDispatch` | implements `WorkerSlots` | checked, proved |
| 2 | `WorkflowEngine` | implements `RunLifecycle` | checked, proved |
| 3 | `MainAgent` | | checked, proved |
| 4 | `TaskLifecycle` | the engine reduced to one spawn node, the dispatch to a queue | checked, proved |
| 5 | `KeyPool` | the pool with the retries that drive it | checked, proved |
| 6 | `Cron`, `AgentLoop`, `IntelPipeline`, `Processes`, `LiveMeeting`, `Voice`, `Memory` | independent cases of `MCServices` | checked, proved |

*Proved* means every safety property that a run expects to hold: invariants,
action properties and both refinements.  Liveness stays with TLC (section 5).
Left to do: properties for the hazards of `PROJECT.json` that have none.

Modules are written to be proved about: parameters are constants with named
assumptions, an operation is an action, recursion is avoided.  Actions come
before properties; an operator whose comment begins with "mutant" is a defect
planted for `PROJECT.json`'s mutants and is used by nothing else.

## 3. Modules

### WorkerSlots and SpawnDispatch

`WorkerSlots` is the promise of `docs/orchestrator-flow.md`: a set of slot
holders, at most one for each project lock, to which the tick adds only up to
`MaxWorkers`.  The heartbeat's workers are its *guests*: they are bounded among
themselves, and may take the total over `MaxWorkers` (section 6).

`SpawnDispatch` is how the code keeps it.  A request is `queued` in
`_pendingSpawns` (`pendingSpawns`), is taken by a tick (`batch`), passes the
capacity gate and the project lock, and from then on is a handler in
`preflight`, `assembling` or `running`, or has thrown and waits for its `.catch`.
`pendingSpawnCount` and `pendingSpawnKeys` are the reservations of
`worker-manager.ts`, `rowOpen` the open rows of `worker_runs`.

| Action | Code |
|---|---|
| `executeSpawnAgent` | a spawn node runs, `nodes.ts:127` |
| `popPendingSpawns`, `RequeueAtCapacity`, `RequeueLocked`, `StartHandler`, `StartHandlerGated`, `EndDispatch` | phases 1b to 3.5 of `runTick`; they hold no await, so nothing else is enabled in between |
| `RefuseSpawn`, `PassPreflight`, `AssembleThrows`, `CatchSpawn`, `StartWorker`, `EndWorker` | `processSpawnWithRunner` between its awaits |
| `runHeartbeat` | a cron job of every 5 minutes, at any time between two callbacks: it counts the open rows and not the handlers before their row, takes no reservation, and its rows are ended by watchdogs only |
| `CloseStaleRow` | every watchdog that closes a row; none stops the agent behind it |
| `Restart` | queue, handlers and reservations are lost, rows stay |

The tick computes the project key of a request from two spellings of the
project's id, the handler from one: `LockKey` and `WorkerKey` may therefore
differ, and then only by the handler having none.

`Overlap` says whether a tick may dispatch while an earlier handler is still
before its worker row.  The code does not prevent it: `clearStalePendingSpawns`
drops the reservation of such a handler, and the limit and the lock fail (run
`lock_overlap`).  With `Overlap = FALSE` (the preflight and the context take less
than the 10 s between ticks) they hold.

### RunLifecycle and WorkflowEngine

`RunLifecycle` is the promise: a run is created once, begins, finishes once, and a
task has one active run.  `WorkflowEngine` models phase 1 of a tick over any
workflow graph: the graph, the node types, edges, retries, fallbacks and abort
conditions are constants, and `MCWorkflowEngine` gives them the values of
`workflow/seeds.ts`.

`run` is the row of `workflow_runs` with its node states; `tick[t].todo` maps the
runs a tick has not finished with to their rows **as it read them**: `advance`
works on that copy, and a step that writes `node_states` writes the whole of
it.  `cpu` is the tick whose synchronous stretch runs; it is given up only
inside a call node (`BeginCall`, `EndCall`).

| Action | Code |
|---|---|
| `StartRun` | `startRun` with its dedup and the scanner's claim of the task |
| `TickStart`, `Advance`, `StillRunning`, `BeginCall`, `EndCall` | phase 1 of `runTick`, `advance`, `_startNode`, `_checkNode`, `_transition`, `_handleFailure`, `_finishRun` |
| `FailStaleRun` | phase 5b |
| `StartWorker`, `GuardStops`, `RefuseSpawn`, `WorkerSucceeds`, `WorkerFails` | `processSpawnWithRunner` as the run sees it, with `writeSpawnResult` |
| `RetryBlockedTask`, `SweepOrphanedTask` | phase 4b, `sweepOrphanedInProgressTasks` |
| `ComeDue` | a gate's inbox item is read, a clock runs out |

The command of a `tool_call` and the condition of a branch are choices among the
outcomes they can have.  The capacity gate and the lock are not repeated here: a
queued request may wait for any time.  `GuardStops` escalates a task at the limit of
its spawns and blocks an audit (`Audit`); phase 4b may reset the blocked audit while
its run still waits.

### MainAgent

`conv[c]` holds whether the channel is in `processingChannels`, the stage of its
current run, and the number of superseded runs that still await something, by
whether their 30 minute timer has fired.  `queue` is `channelQueues`, `durable` the
rows of `message_queue`, `stored` and `blocks` the history: messages with a row of
their own, and how many rows of several queued messages hold a message.
`session` is `channel_sessions.status`, and `noted` the entry of the throttle before it
(`noteChannelProgress`, 15 s): a system event that begins a run soon after a note
leaves the row as it is, also one that a deferred retry has set to queued.

| Action | Code |
|---|---|
| `HandleMessage`, `HandleSystemEvent` | the two ways in; a user's message first recovers a stalled channel |
| `ReadHistory`, `InjectMessages`, `NoteProgress`, `Finish`, `StaleEnds` | `processConversation` between its awaits, and its `catch` and `finally` |
| `Timeout`, `StaleTimeout` | the 30 minute timer of the current run and of a superseded one |
| `RetryTimer`, `RecoverStale`, `RecoverQueued` | timers of retries and recovery |
| `PauseChannel`, `ResumeChannel` | vim sessions |
| `Restart`, `ResumeAfterRestart`, `ResumeTimer` | crash or `prepareForShutdown`, then resumption |

All clocks are choices.  `Early` says whether messages can arrive between the
start of the process and `resumeAfterRestart`; in the code Discord and HTTP do
open up to 3 s before it.  With `Early`, a message of those seconds may have its
queue replaced by `resumeAfterRestart`, so `HeldExactlyOnce` is stated for `~Early`; the
other properties are proved for both.  `InterruptedIsFound` leaves out what is `quiet`:
a run whose row was not written, or was set back to queued by the start, until it
notes its progress.

### TaskLifecycle

One task and its audit over their workflow runs: `task` is the row of `tasks`
(status, work state, retries, and the *effective* failures, spawn count minus crash
count), `run` the active workflow run reduced to its one spawn node, `req` the spawn
requests with their handlers, `open` the worker rows without `ended_at` and `last`
the outcome of the latest ended row, which is all that auto-close reads.

| Action | Code |
|---|---|
| `StartRun`, `executeSpawnAgent`, `CheckDone`, `CheckFailed`, `RetryBlocked` | phases 4, 1 and 4b |
| `PassGates`, `RefuseSpawn`, `AdmitSpawn`, `BlockAudit`, `EscalateToAudit`, `FailBeforeWorker`, `StartWorker`, `WorkerSucceeds`, `WorkerFails` | `processSpawnWithRunner`, with `incrementAndCheckSpawnCount` and `routeToResearcherAudit` |
| `Heartbeat` | `runHeartbeat`: agents for active tasks that wait, audits and blocked ones too, without a run and without a count; tasks put up for review or completed |
| `runStallWatchdog`, `forceTerminateWorker`, `FailStaleRun`, `sweepOrphanedInProgressTasks`, `autoCloseSucceededTasks` | phases 5d, 6, 5b, 8b, 7 |
| `RestartMain`, `RestartPlugin`, `ReadStuckRuns`, `FailStuckRun`, `BeginResumes`, `ResumeFails`, `ResumeDead` | a crash, then the start of `main.ts` or of `index.ts` and the recovery of the first tick |

No watchdog stops the agent whose row it ends: `req` and `open` are separate so
that an agent can succeed after its row was closed as a crash.  The scanner and
the gate have two lists of terminal work states, and both are kept
(`hasUnresolvedBlockers`, `PassGates`).  `MCTaskLifecycle` has two cases, one with a
restart and one with a heartbeat.

### KeyPool

The keys of one provider and the `ResilientLLMClient` of each session: sticky
assignment, the escalating cooldown, recovery by a timer or on demand, reload of
`keys.json`, and the attempts, fallback models and 30 s waits of one call.
Health is by key, a client remembers its key by *place*: after a reload
`Blamed` may be another key.  A cooldown is a countdown that `Tick` moves; which
healthy key is chosen is left open.

### The modules of MCServices

These share no state with each other or with the modules above, so that
`MCServices` puts each into a case of one run.

| Module | State and actions |
|---|---|
| `Cron` | `loop` holds what is left of a tick and of the two catch-up loops, `lastFired` the marks, `fires` counts how often a job was run for a minute.  A handler is awaited at the head of a loop; `loadAgentJobs` replaces the map under a catch-up (`Loaded`); rows are added, removed, toggled and triggered.  `copies` are the entries that `addAgentJob` replaced under a name that exists (`cron.ts:364`), which have forgotten their mark until rows are loaded, and `again` the minute of it; `handler` is whether `setEventHandler` was called, before which an agent's job is marked and `dropped`; `start`, `crash` |
| `AgentLoop` | `conv` is the conversation as the pairing rule of the API sees it; turns, continuation after a cut answer, tools, loop detection, compaction (`findSafeSplitPoint`), the limits of turns and time, abort, crash, the file of the session and its resumption |
| `IntelPipeline` | `source`, `item` and `insights` are the three tables, `run` what a worker of the registry or a call of the API awaits: sweeps, the processor, manual research, resets, crashes |
| `Processes` | `place` of each process from spawn to end, `pidFile`, `commands` of the CLI with their program counters, launchd; check and write of the PID file are two steps, pids may be reused by another program |
| `LiveMeeting` | chunks transcribed in any order, `lock` and the analyses at work, research they ask for, stop and clean-up |
| `Voice` | calls of `join`, the guild's connection and its 5 s listener, the realtime session of each join with its one reconnection, deferred actions |
| `Memory` | the tables `memories` and `conflicts`; a reflection waits for extraction, embedding, classification and storage with the memories as it read them (`known`), while other sessions, consolidation, decay and resolutions by hand change them |

## 4. Runs

| Run | Properties | What it shows |
|---|---|---|
| `spawn_safety` | `TypeOK`, `WorkersWithinLimit`, `ProjectLock`, `ImplementsSlots` | without overlap of dispatches the accounting keeps the limit of the ticks, that of the heartbeat and the lock, over restarts, watchdogs and heartbeats while handlers start |
| `spawn_liveness` | `ReservationsBacked`, `QueuedIsServed`, `LockoutEnds` | with overlap and a missing project row: capacity never leaks, no request starves, and no project stays locked out by a reservation that its handler, which sees another key, cannot give back |
| `lock_overlap` | `ProjectLock` is violated | see findings |
| `workflow_team` | `TypeOK`, `SpawnAnswered`, `EveryStartCounted`, `NothingLeftRunning`, `CompletionFinal`, `ImplementsLifecycle` | two runs of one task through the programmer's branch of `task-router`, or rows read before the await of a call in `doc-upkeep` and written after it, against handlers that write results; or two runs of an audit up to its block by the guard and the reset after it |
| `workflow_liveness` | `EveryRunFinishes` | a run of a single spawn, and one with a fallback and a gate |
| `workflow_silence`, `workflow_reviewer` | violated | see findings |
| `agent` | `TypeOK`, `InterruptedIsFound`, `HeldExactlyOnce`, `SlotHeldByRun`, `WithinCapacity`, `QueueDrains` | two channels for one place: a crash or shutdown, timeouts, retries, recovery, system events that skip the session row; or a pause beside superseded runs |
| `agent_durable` | `WaitingSurvivesRestart` is violated | see findings |
| `tasks` | `TypeOK`, `CompletedMeansSucceeded`, `AuditBounded`, `NothingStaysInProgress`, `SuccessClosesTask` | whatever watchdogs and retries, with restarts or a heartbeat, do to the rows, only a success completes a task, an audit does not loop, nothing stays in progress |
| `keys` | `TypeOK`, `CallEnds`, `KeyComesBack`, `CooldownKept` | two sessions on one key, or one session on two keys with a reload or a restart |
| `services`, case cron | `FiresOnce`, `MissedIsCaughtUp` | ticks, both catch-up loops, changes of rows, a replaced entry, a handler registered late and a second start |
| case worker | `PairingKept`, `CheckpointKept` | two runs of a task with compaction, truncation, abort and crash |
| case intel | `OneResearcher` | three runs over three items with failures, resets and a crash |
| cases cli, launchd | `StartServes`, `ServiceComesBack` | two commands over four processes: with a crash, a reused pid and a silent server, or with launchd and a crash |
| case meeting | `OneAnalysis` | overlapping chunks, a stop and its clean-up |
| case voice | `NothingOrphaned` | two joins, two drops, a deferred action |
| cases memory, memory by hand | `DisputeLeavesOne` | sessions with a consolidation, or with decay or a resolution by hand |
| all cases | `ServicesTypeOK` | the conjunction of the seven type invariants |

Each mutant of `PROJECT.json` plants one plausible bug in one definition and makes
the property it is listed with fail in the run's own configuration.

### Bounds and why they are enough

* `spawn_safety`: four requests, two of one project and type, one of another, one
  without a project, one gated; two heartbeat workers for one slot of
  theirs; limit 2.  Three may
  compete for two slots while two compete for one lock, and a closed row frees a
  slot whose agent still runs.  No counter is bounded: requests are reused.
* `spawn_liveness`: two requests of one project and type, of which one handler finds no
  project row, and one without a project, whose reservation the cleanup of stale
  keys cannot reach: only its handler can give it back.  Limit 2, one heartbeat worker.
* `workflow_*`: two runs at a time (`workflow_team` starts one of three pairs, `OneTeam`), so that a second run follows the first on one task and
  finds its workers; one tick, since without overlap ticks do not meet;
  `MaxResets` bounds how often a task returns to `not_started`, which is what
  limits spawn counts: 2 in `workflow_team`, so that an audit is blocked at the limit
  of three and reset after it; `MaxPasses = 5` and `SnapshotLimit = 20` are the code's.
  The deep branches of `task-router` repeat the round that the instance holds once.
* `agent*`: two channels, one place, three messages, so that a queue can hold two
  and the other channel wait; `MaxStale = 1` superseded run of a channel is the
  least that can act on a successor (with a restart, of the first channel only); `RetryBudget = 1`, `MaxRestarts = 1`,
  `MaxPauses = 1` let each happen once, and the theorems hold for any values.
* `tasks`: a task and its audit, two requests and two runs of each, so that a
  second worker meets the rows and results of the first; the threshold of three
  spawns is two, `MaxRetries` is one, both reached; one restart of either kind, or one
  heartbeat of any agents (`MaxBeats = 1`).  Both in one behaviour would be some 900,000
  states; the invariants are proved for any numbers of both.
* `keys`: the unit of time is about ten minutes, in which the cooldowns of the code
  are 3, 2 and 1 units and the wait of a call is one; two attempts, two models, one
  doubling; two sessions on a key make late failures of one key possible, two keys
  make places ambiguous.
* `services`: a clock of three minutes with jobs of all four kinds; a conversation
  of three turns, long enough to be compacted twice over two runs; four processes,
  so that behind a primary that was started by hand and a standby a successor's
  serving is checked, and pids end only after it (`NoPidLeft`); `MaxChunks = 2` so that two
  transcriptions overlap; two joins, so that one can race the other.  The memory has
  one indexed document and up to three memories: two sessions of one cluster each,
  one of two clusters, or one with two candidates; a consolidation and a step by hand
  do not meet in one behaviour, while the theorem has both.

Deadlock is not checked where the system may stop: when all runs have finished or
all messages have been answered, within the bounds.

### Fairness

`SpawnDispatch`: the interval timer keeps ticking (weak, for the tick); every await of a handler
settles, since the preflight and the agent have timeouts, and a row that nobody
ends becomes stale and meets a watchdog (strong, since the stretch of a tick disables these actions for
a moment).  Nothing is assumed of new requests or heartbeats,
and no property claims what the fairness itself says, that rows are closed.

`WorkflowEngine`: ticks come and run to their end; phase 5b is reached; the queue is
drained and a worker ends within its 900 s.  No fairness for inbox items, so a
gate ends by phase 5b alone.  `EveryRunFinishes` is checked for graphs with one spawn node;
with the programmer's branch it fails: a task the guard has escalated leaves its
run at a node whose session cannot be proved dead, and phase 5b resets its clock
for ever.

`MainAgent`: hooks and LLM calls have timeouts, so a run reads its history and ends,
superseded ones too; the recovery timer fires every 5 s.  `RecoverStale`, retries and
timeouts are not assumed to happen.

`TaskLifecycle`: ticks look at every task, run and row, handlers and the recovery
of a start go on; crashes, terminations and phase 4b are not assumed.  `KeyPool`: every request
is answered or times out, time passes and `recoverKeys` runs.  `Cron`: the handler that the
catch-up of agent jobs awaits returns; nothing else.  `AgentLoop`: LLM calls and
tools time out.  `Processes`: processes run, waits of the CLI are bounded, launchd
respawns a job that is loaded; `StartServes` and `ServiceComesBack` ask for no further crash while they
wait and end with the supply of pids.  `IntelPipeline`, `LiveMeeting`, `Voice` and `Memory`
have safety properties only: their awaits may never end.

## 5. Proofs

Every theorem holds for all values of the constants under the `ASSUME`s of its
module, which say that sets are finite, functions have the right domains and
bounds are naturals.

| Theorem | Shows | Argument |
|---|---|---|
| `SpawnDispatch_proofs!TypeCorrect` | `Spec => []TypeOK` | inductive as it stands |
| `WorkersLimited`, `ProjectsLocked` | the limit of the ticks and the lock, if `~Overlap`, and the limit of the heartbeat, whenever it runs | `LimitInv` and `LockInv` add that during a dispatch the counter and the keys cover the handlers it started; between dispatches neither is true, and no handler is then before its row |
| `AccountingImplementsSlots` | `Spec => Slots!Spec`, if `~Overlap` | every step of the tick acquires slots below the limit, one of the heartbeat acquires as a guest, others give back or stutter |
| `NoReservationLeaks` | `Spec => []ReservationsBacked` | `QueueInv`: a request in the queue or the batch has no handler and is there once, so that every handler has one reservation at most to give back |
| `WorkflowEngine_proofs!TypeCorrect` | `Spec => []TypeOK` | inductive |
| `RowsFaithful` | a status read before an await is that of the table, if `~Overlap` | no other action may change the status of a run while a tick is under way |
| `LifecycleImplemented` | `Spec => Lifecycle!Spec`, if `~Overlap` | from `RowsFaithful`: the copy a tick advances has the run's status |
| `MainAgent_proofs!TypeCorrect` | `Spec => []TypeOK` | inductive |
| `SlotsHeld` | `Spec => []SlotHeldByRun` | a statement on each channel's record, kept by `Begun`, `Superseded`, `Abandoned` and `Ended` |
| `InterruptedFound` | `Spec => []InterruptedIsFound` | for both values of `Early`: `Noted`: a channel that is held has an entry in the throttle, and its row says processing unless the entry is `quiet`.  If the transports open late, nothing runs before `resumeAfterRestart` (`Dormant`), which may rewrite the rows of all channels |
| `LimitKept` | `Spec => WithinCapacity` | the dispatch of `Finish` takes as many channels as are free; every other beginning looks at the limit in the same step |
| `TaskLifecycle_proofs!TypeCorrect` | `Spec => []TypeOK` | adds that a spawn node waits to be executed again only while its retries last, and that a request in use is for a task |
| `CompletionEarned` | `Spec => []CompletedMeansSucceeded` | `Earned`: not only a completed task, also one whose work state is done or completed, or whose latest ended row is a success, has had an agent that succeeded; these are all that closes a task |
| `AuditsBounded` | `Spec => []AuditBounded` | `Within`: the agents of an audit that were started and those let through to their start are together at most its counted failures, and fewer than the threshold; neither a watchdog, a sweep nor the end of a heartbeat's row takes a failure off an audit.  The agents of the heartbeat are not among them, since the code counts them nowhere |
| `WorkflowEngine_proofs!NoneLeftRunning` | `Spec => []NothingLeftRunning`, if `~Overlap` | `PInv`: the copy a tick goes on with agrees with the table in status, node, states and attempts (`Tracked`), a tick that awaits is at a call that has not ended (`CallsWait`), and a tick has one current run (`CreatedOnce`).  From it every step is one of six changes of a row (`RunStep`), each of which keeps the property; `BlankBefore` covers runs that have not begun |
| `CompletionStays` | `Spec => CompletionFinal`, if `~Overlap` | from `PInv`: a copy written after an await has every state of the table |
| `StartsCounted` | `Spec => []EveryStartCounted`, if `~Overlap` | from `PInv`: the call that is awaited is not in the attempts yet, and what follows the await writes it once |
| `WaitingSpawnAnswered` | `Spec => []SpawnAnswered`, if `~Overlap` | `SInv` adds that a task has one active run (`OneActive`), and that as long as it has one it is neither blocked nor open for another (`TaskHeld`): otherwise a second run could use up the outcome the first waits for.  A task the guard escalated and an audit at its limit are named as exceptions |
| `MainAgent_proofs!NothingLostOrDoubled` | `Spec => []HeldExactlyOnce` | `HeldInv`: `Placed`: queues hold no message twice, and a message with a durable row is in a queue or in the history; `NoRows`: before `resumeAfterRestart` the first process has no rows, from which it would load a message again |
| `KeyPool_proofs!TypeCorrect` | `Spec => []TypeOK` | `AttemptLeft`: a client that tries has an attempt left, or the next one would count beyond the limit |
| `CooldownsKept` | `Spec => CooldownKept` | from the types: a failure of a key that is down takes the later of two times, whoever reports it |
| `Cron_proofs!CronTypeCorrect`, `FiredOnce` | `CronSpec => []CronTypeOK`, `[]FiresOnce` | `CronInv`: no mark is later than the clock, and a job that was fired for a minute has its mark there or later (`Tallied`); what a suspended tick may still come to has not been fired for its minute, and the tick is later than the catch-up loops (`Ticking`); a process that is down has no loops (`Resting`); and an entry may be replaced after a loop has taken the rows it goes through, and then has forgotten its mark for that loop only (`Replaced`), which is why `FiresOnce` names the minute of the replacement.  A loop goes through each job once although rows change meanwhile: hence the lemmas about `InOrder` |
| `Memory_proofs!MemoryTypeCorrect` | `MemorySpec => []MemoryTypeOK` | what a run or a merge read before its await is still a row of the table (`Runs`, `Merges`): rows are added, never removed |
| `DisputesLeaveOne` | `MemorySpec => []DisputeLeavesOne` | `Explained`: each superseded memory has been replaced, or is in a conflict settled by hand or in one whose other side the rules prefer.  To the youngest of the members of highest authority the rules prefer none, so it is not superseded unless somebody took part |
| `Services_proofs!PairsStay` | `LoopSpec => PairingKept` | lemmas about `Paired`: it is kept by concatenation, by cutting where `findSafeSplitPoint` does, and by suffixes that begin at a message of the user |
| `CheckpointResumed` | `LoopSpec => CheckpointKept` | `LoopInv`: what the file of the session says last is what the conversation goes on from, in each place the loop can be |
| `ResearchersExclude` | `IntelSpec => []OneResearcher` | `Unfound`: a source nobody has found has no item, so that a sweep cannot queue an item that is being researched; `Alone`: who has an item has it alone and the row says so |
| `OneAnalysisAtATime` | `MeetingSpec => []OneAnalysis` | `LockInv`: a session is locked exactly while it is analysed; one that is gone has at most the analysis it had, and is not analysed again |
| `NoneOrphaned` | `VoiceSpec => []NothingOrphaned` | `VoiceInv`: a session opens a transport only when it has none (`Transport`), a join that has not built its session has none (`Unbuilt`), and as long as nothing raced, one join at a time builds, while none is stored, and a session that is gone is down or will be after its pause (`Unraced`) |
| `ServicesTypesKept` | `ServicesSpec => []ServicesTypeOK` | the composition implements each part (`PartsImplemented`), and each part keeps its types.  Not all of those are inductive: the meeting needs that no more research is open than was started, the processes that a command that waits has a pid to wait for, the agent loop the limits at its head |

Assumptions to keep in mind: `Overlap = FALSE`, and `Early = FALSE` for `HeldExactlyOnce`, are
named in the statements, not in the modules.  `WithinCapacity` itself names two exceptions
that the code makes real (section 6).

Assumptions on constants that the proofs needed, with what justifies them: the
cooldowns of `KeyPool` double up to eight times (`Doublings \in 0 .. 8`,
`key-pool.ts:211`); `MinTurns <= MaxTurns` in `AgentLoop` (50 and 200,
`control-loop.ts:1833`); the memories at the start are active and replaced by none
(`MemoryAssumption`, `memory/indexer.ts`); a row of jobs has one kind of schedule, the
order of rows lists each once, and no system job is due in the last minute, where
the modelled clock stops (`CronAssumption`).

`InOrder` and `autoResolveConflicts` are recursive functions over sequences.  The
induction theorems of the library cannot be instantiated, so the lemmas about
these two choose the least index at which they would fail, which exists since
the order of the naturals is well founded (`LeastNumber`, `LeastIndex`).

Model-checked only: all liveness (`QueuedIsServed`, `LockoutEnds`,
`EveryRunFinishes`, `QueueDrains`, `NothingStaysInProgress`, `SuccessClosesTask`,
`CallEnds`, `KeyComesBack`, `MissedIsCaughtUp`, `StartServes`, `ServiceComesBack`), which the
prover cannot do under fairness.  The longer inductive invariants were checked by TLC on
the instances of their runs before they were proved.

## 6. What the checks found

Each of these is a run whose property must be violated:

1. `lock_overlap`: the safety valve of a tick (`worker-manager.ts:421`) drops the
   reservation of a handler still before its worker row; a second worker of the
   same project and agent type starts.  The limit on workers falls the same way.
2. `workflow_silence`: phase 5b takes a missing session key for a dropped
   spawn, but the key is written when the agent ends.
3. `workflow_reviewer`: the second spawn node of a run is completed by the state
   the first worker left, and the review never gates the task.
4. `agent_durable`: the end of a run marks all queued rows processed and takes one
   message; a crash then loses the others.

Seen while modelling, without a run of their own.  Each is what the code does and
what the modules have in them; the properties are stated so that they hold with
it, and say where they make room for it.

* Heartbeat: it counts open rows and not the handlers on their way to one, so that with
  it the workers pass the limit of 5 that `docs/orchestrator-flow.md:111` names (`scheduler.ts:70`).  It starts agents
  for audits and for blocked tasks, without a spawn count (`heartbeat.ts:420`).
* Workflows: an audit that the guard blocked may be reset by phase 4b before a check has
  seen the block; its run then waits for nothing until phase 5b fails it
  (`control-loop.ts:2174`).  With overlapping ticks a row read as pending revives a run that
  phase 5b failed, and a call node is executed twice; `_checkNode` drops the error
  type, so `abort_on: ["spawn_error"]` never matches; phase 5b fails a gate after 10
  minutes that was given 24 hours; a spawn node of a run without a task is never told
  of its worker's success (`writeSpawnResult`, `control-loop.ts:2915`, stores failures only).
* Main agent: a system event within 15 s of the last note leaves a session row queued
  while the channel is held (`main-agent.ts:974`).  The resume timers of `resumeAfterRestart` take the agent over its limit
  (`main-agent.ts:665`); the timer of a superseded conversation releases the
  channel of the current one and aborts its call (`main-agent.ts:1050`).
* Tasks: for a blocked or escalated blocker the scanner starts a run whose request
  the gate puts back into the queue for as long as the blocker stays so
  (`control-loop.ts:1585`), although `scanner.ts:45` says that a dependent should not wait for
  ever; a task all of whose workers crash is never escalated, since every crash
  takes back what the spawn counted; a success that no run waited for, followed by
  a second worker that fails, leaves the task done and never closed
  (`control-loop.ts:1331`).
* Keys: an authentication failure is overwritten by a later rate limit or success
  of a call in flight (`key-pool.ts:218`); after a reload a client's index blames
  another key (`key-pool.ts:189`); the second fallback model is never tried
  (`providers.ts:1444`).
* Cron: the update that disables a job fired `at` its time follows an await and
  undoes a re-enabling (`cron.ts:860`); a job removed while a tick awaits still
  fires; `tickRunning` skips whole ticks, so that a job of every minute may fire every
  second one (`cron.ts:791`).  `main.ts:775` starts the service, whose catch-up begins at
  once, before `main.ts:840` registers the handler: the missed agent jobs it comes to are
  marked as fired and dropped (`cron.ts:1141`), although the comment at `cron.ts:580` says
  that they are fired.  Adding a job under a name that exists forgets when it was
  fired (`cron.ts:364`), so a catch-up fires it again.
* Agent loop: the reason `end_turn` is overwritten by `max_turns` in the last turn
  (`agent-loop.ts:998`); a return from the loop detector writes no summary
  (`agent-loop.ts:890`).
* Keys: health is saved 2 s after a change (`key-pool.ts:588`); `Restart` restores what was
  entered last or nothing, not an older entry with a shorter cooldown that a crash within
  these 2 s brings back.
* Processes: a `restart` while a server of launchd is closing may end without a server
  of its own.  Check and write of the PID file are two steps, and the loser removes
  the file of the winner (`main.ts:236`, `main.ts:1061`); a slow start makes the CLI start
  a second process (`lobs.ts:393`); the CLI kills after 10 s what may flush for 20
  (`lobs.ts:524`).
* Research: `getResearchBrief` selects a column that the table does not have, so a
  source is marked processed without its brief (`workers/intel-sweep.ts:240`); a crash
  leaves an item in processing for good; insights of a page that was fetched from
  another URL are not recognised as known.
* Meetings: a chunk answered after the stop is not in the record; the analysis
  of the last chunk is skipped if the one before is still at work.
* Voice: a close during the wait for instructions leaves the transport open
  (`realtime-session.ts:211`); the 5 s timeout of an old connection destroys the session
  of a new one (`manager.ts:510`); a join that fails leaves its connection
  (`manager.ts:361`).
* Memory: the rule for equal authority may revive a memory that was superseded
  (`conflicts.ts:60`), and the status of the winner is not looked at (`conflicts.ts:97`); two
  callers of the consolidation merge the same group; decay is compounded at every
  collection (`gc.ts:218`).

## 7. Not modelled

`PROJECT.json` gives the reason for every component.  In short:

* Code that is I/O and formatting: HTTP routes, Discord, the commands of the CLI
  that only print, LLM clients, tools, prompts, workspaces, migrations.
* Code that nothing calls: with `USE_NATIVE_RUNNER` set, `processSpawnRequest`,
  `escalateTask` and the hooks of subagents; `chooseHealthyModel` is called from there
  alone, and `recordRunOutcome` writes rows that nothing else reads, so that model health
  has no effect on the running program.
* Of the engine and the task life cycle: phase gates and reviews of the planning
  workflow, triage of escalations, the outcome classifier, the API's edits of a task.
* Of the main agent: the compaction and repair of its history, ephemeral messages,
  the exclusion of the channel `system` from resumption.
* Of the agent loop: background processes of the tool `process`, and the contents
  of messages.  Of the memory: `memory_write`, promotion, re-indexing of documents.
* Of the voice sessions: a connection that Discord destroys by itself (`manager.ts:515`); inside
  the repository only `destroySession` does.
* Failing database writes, and the contents of prompts, messages and audio.  What
  a worker does to its repository is a choice of its outcome.
