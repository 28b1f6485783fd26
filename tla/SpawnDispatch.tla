--------------------------- MODULE SpawnDispatch ---------------------------
(***************************************************************************)
(* Spawn dispatch of the orchestrator: the in-memory queue of spawn        *)
(* requests (workflow/nodes.ts), the capacity gate and the project lock of *)
(* a control-loop tick (orchestrator/control-loop.ts, phases 1b and 3.5),  *)
(* the asynchronous spawn handler processSpawnWithRunner, and the worker   *)
(* accounting they share (orchestrator/worker-manager.ts).  The heartbeat  *)
(* job opens worker rows of its own and never closes them                  *)
(* (orchestrator/heartbeat.ts, orchestrator/scheduler.ts).                 *)
(*                                                                         *)
(* JavaScript runs one callback at a time.  Phases 1b to 4b of a tick hold *)
(* no await, so from the pop of the queue to clearStalePendingSpawns no    *)
(* other action is enabled (variable dispatching); between two awaits of a *)
(* handler everything else may run, ticks included.                        *)
(*                                                                         *)
(* A request stands for one spawn request of one workflow run.  What the   *)
(* run and its task do with the outcome is the subject of TaskLifecycle.   *)
(***************************************************************************)
EXTENDS Naturals, Sequences, FiniteSets

CONSTANTS
  Request,         \* spawn requests
  Heartbeat,       \* workers the heartbeat job may start
  LockKey,         \* project:agent key the tick computes for a request
  WorkerKey,       \* project:agent key the handler computes for it
  NoKey,           \* no project
  Gated,           \* requests whose task declares blockers
  MaxWorkers,      \* DEFAULT_MAX_WORKERS
  HeartbeatSlots,  \* maxConcurrentWorkers of the heartbeat's scheduler
  Overlap          \* may a tick dispatch while a handler has not yet
                   \* inserted its worker row?

Worker == Request \cup Heartbeat
Key == {LockKey[r] : r \in Request} \ {NoKey}

\* The handler reads project_id where the tick also reads projectId: without
\* a project row in the run's context the handler has no key.
ASSUME KeyAssumption ==
  /\ DOMAIN LockKey = Request /\ DOMAIN WorkerKey = Request
  /\ \A r \in Request : WorkerKey[r] \in {LockKey[r], NoKey}

ASSUME BoundAssumption ==
  /\ MaxWorkers \in Nat /\ HeartbeatSlots \in Nat
  /\ Overlap \in BOOLEAN
  /\ IsFiniteSet(Request) /\ IsFiniteSet(Heartbeat)
  /\ Request \cap Heartbeat = {}
  /\ Gated \subseteq Request

VARIABLES
  pendingSpawns,      \* _pendingSpawns, the queue between engine and tick
  batch,              \* requests this tick popped and has not looked at
  dispatching,        \* a tick is between phase 1b and phase 3.5
  stage,              \* where each request is
  rowOpen,            \* the worker has a worker_runs row without ended_at
  pendingSpawnCount,
  pendingSpawnKeys

vars == <<pendingSpawns, batch, dispatching, stage, rowOpen,
          pendingSpawnCount, pendingSpawnKeys>>

Stage == {"idle",         \* no request
          "queued",       \* in pendingSpawns or in batch
          "preflight",    \* awaiting checkModelsBeforeSpawn
          "assembling",   \* past the spawn guard, awaiting assembleContext
          "running",      \* worker row inserted, awaiting runAgent
          "threw"}        \* rejected, the .catch callback not yet run

TypeOK ==
  /\ pendingSpawns \in Seq(Request)
  /\ batch \in Seq(Request)
  /\ dispatching \in BOOLEAN
  /\ stage \in [Request -> Stage]
  /\ rowOpen \in [Worker -> BOOLEAN]
  /\ pendingSpawnCount \in Nat
  /\ pendingSpawnKeys \in SUBSET Key

-----------------------------------------------------------------------------
(* worker-manager.ts *)

KeyOf(w) == IF w \in Request THEN WorkerKey[w] ELSE NoKey

OpenRows == {w \in Worker : rowOpen[w]}
countActiveWorkers == Cardinality(OpenRows)

\* Mutant: off by one at the limit.
hasCapacityOffByOne == countActiveWorkers + pendingSpawnCount <= MaxWorkers

hasCapacity == countActiveWorkers + pendingSpawnCount < MaxWorkers

projectHasActiveWorker(k) == \E w \in OpenRows : KeyOf(w) = k
projectHasPendingSpawn(k) == k \in pendingSpawnKeys

\* Mutant: the lock looks at worker rows only.
LockedByRow(k) == k # NoKey /\ projectHasActiveWorker(k)

\* The project lock: requests without a project are never locked out.
Locked(k) ==
  k # NoKey /\ (projectHasActiveWorker(k) \/ projectHasPendingSpawn(k))

\* Mutant: no clamp at zero.
LessUnclamped(a, b) == a - b

\* Math.max(0, a - b)
Less(a, b) == IF b >= a THEN 0 ELSE a - b

incrementPendingSpawns(k) ==
  /\ pendingSpawnCount' = pendingSpawnCount + 1
  /\ pendingSpawnKeys' = pendingSpawnKeys \cup ({k} \ {NoKey})

decrementPendingSpawns(k) ==
  /\ pendingSpawnCount' = Less(pendingSpawnCount, 1)
  /\ pendingSpawnKeys' = pendingSpawnKeys \ {k}

recordWorkerStart(w) == rowOpen' = [rowOpen EXCEPT ![w] = TRUE]
recordWorkerEnd(w) == rowOpen' = [rowOpen EXCEPT ![w] = FALSE]

\* Every key without an open row is dropped, and the count with it.
StaleKeys == {k \in pendingSpawnKeys : ~projectHasActiveWorker(k)}

\* Mutant: the count is corrected, the keys stay reserved.
clearStaleCountOnly ==
  /\ pendingSpawnKeys' = pendingSpawnKeys
  /\ pendingSpawnCount' = Less(pendingSpawnCount, Cardinality(StaleKeys))

clearStalePendingSpawns ==
  /\ pendingSpawnKeys' = pendingSpawnKeys \ StaleKeys
  /\ pendingSpawnCount' = Less(pendingSpawnCount, Cardinality(StaleKeys))

-----------------------------------------------------------------------------
Starting == {r \in Request : stage[r] \in {"preflight", "assembling", "threw"}}
InFlight == Starting \cup {r \in Request : stage[r] = "running"}

Init ==
  /\ pendingSpawns = <<>>
  /\ batch = <<>>
  /\ dispatching = FALSE
  /\ stage = [r \in Request |-> "idle"]
  /\ rowOpen = [w \in Worker |-> FALSE]
  /\ pendingSpawnCount = 0
  /\ pendingSpawnKeys = {}

\* A spawn_agent node executes (phase 1).  A request whose earlier life left
\* an open row is given another name.
executeSpawnAgent(r) ==
  /\ ~dispatching
  /\ stage[r] = "idle" /\ ~rowOpen[r]
  /\ stage' = [stage EXCEPT ![r] = "queued"]
  /\ pendingSpawns' = Append(pendingSpawns, r)
  /\ UNCHANGED <<batch, dispatching, rowOpen, pendingSpawnCount,
                 pendingSpawnKeys>>

-----------------------------------------------------------------------------
(* Phase 1b of a tick *)

popPendingSpawns ==
  /\ ~dispatching
  /\ Overlap \/ Starting = {}
  /\ dispatching' = TRUE
  /\ batch' = pendingSpawns
  /\ pendingSpawns' = <<>>
  /\ UNCHANGED <<stage, rowOpen, pendingSpawnCount, pendingSpawnKeys>>

\* The next request of the batch goes back to the end of the queue.
requeueSpawn ==
  /\ batch' = Tail(batch)
  /\ pendingSpawns' = Append(pendingSpawns, Head(batch))
  /\ UNCHANGED stage

RequeueAtCapacity ==
  /\ dispatching /\ batch # <<>>
  /\ ~hasCapacity
  /\ requeueSpawn
  /\ UNCHANGED <<dispatching, rowOpen, pendingSpawnCount, pendingSpawnKeys>>

RequeueLocked ==
  /\ dispatching /\ batch # <<>>
  /\ hasCapacity
  /\ Locked(LockKey[Head(batch)])
  /\ requeueSpawn
  /\ UNCHANGED <<dispatching, rowOpen, pendingSpawnCount, pendingSpawnKeys>>

\* Both gates passed: reserve, and run the handler up to its first await.
\* The synchronous prefix may throw; its .catch runs once the tick yields.
StartHandler ==
  /\ dispatching /\ batch # <<>>
  /\ hasCapacity
  /\ ~Locked(LockKey[Head(batch)])
  /\ incrementPendingSpawns(LockKey[Head(batch)])
  /\ batch' = Tail(batch)
  /\ \E s \in {"preflight", "threw"} :
       stage' = [stage EXCEPT ![Head(batch)] = s]
  /\ UNCHANGED <<pendingSpawns, dispatching, rowOpen>>

\* The same, but the blocked_by or phase gate of the handler refuses: the
\* reservation is undone with the handler's key and the request requeued.
StartHandlerGated ==
  /\ dispatching /\ batch # <<>>
  /\ hasCapacity
  /\ Head(batch) \in Gated
  /\ ~Locked(LockKey[Head(batch)])
  /\ pendingSpawnCount' = Less(pendingSpawnCount + 1, 1)
  /\ pendingSpawnKeys' =
       (pendingSpawnKeys \cup ({LockKey[Head(batch)]} \ {NoKey}))
         \ {WorkerKey[Head(batch)]}
  /\ requeueSpawn
  /\ UNCHANGED <<dispatching, rowOpen>>

\* Phase 3.5; the scan and retry phases that follow touch no spawn state.
EndDispatch ==
  /\ dispatching /\ batch = <<>>
  /\ clearStalePendingSpawns
  /\ dispatching' = FALSE
  /\ UNCHANGED <<pendingSpawns, batch, stage, rowOpen>>

-----------------------------------------------------------------------------
(* processSpawnWithRunner after its first await *)

\* Mutant: an early return forgets to give the reservation back.
RefuseSpawnLeaking(r) ==
  /\ ~dispatching
  /\ stage[r] = "preflight"
  /\ stage' = [stage EXCEPT ![r] = "idle"]
  /\ UNCHANGED <<pendingSpawns, batch, dispatching, rowOpen,
                 pendingSpawnCount, pendingSpawnKeys>>

\* The LM Studio preflight fails, or the spawn guard says researcher/blocked.
RefuseSpawn(r) ==
  /\ ~dispatching
  /\ stage[r] = "preflight"
  /\ stage' = [stage EXCEPT ![r] = "idle"]
  /\ decrementPendingSpawns(WorkerKey[r])
  /\ UNCHANGED <<pendingSpawns, batch, dispatching, rowOpen>>

PassPreflight(r) ==
  /\ ~dispatching
  /\ stage[r] = "preflight"
  /\ stage' = [stage EXCEPT ![r] = "assembling"]
  /\ UNCHANGED <<pendingSpawns, batch, dispatching, rowOpen,
                 pendingSpawnCount, pendingSpawnKeys>>

\* assembleContext or loadRepoDocs rejects.
AssembleThrows(r) ==
  /\ ~dispatching
  /\ stage[r] = "assembling"
  /\ stage' = [stage EXCEPT ![r] = "threw"]
  /\ UNCHANGED <<pendingSpawns, batch, dispatching, rowOpen,
                 pendingSpawnCount, pendingSpawnKeys>>

\* The .catch of the dispatch site, which uses the tick's key.
CatchSpawn(r) ==
  /\ ~dispatching
  /\ stage[r] = "threw"
  /\ stage' = [stage EXCEPT ![r] = "idle"]
  /\ decrementPendingSpawns(LockKey[r])
  /\ UNCHANGED <<pendingSpawns, batch, dispatching, rowOpen>>

StartWorker(r) ==
  /\ ~dispatching
  /\ stage[r] = "assembling"
  /\ stage' = [stage EXCEPT ![r] = "running"]
  /\ recordWorkerStart(r)
  /\ UNCHANGED <<pendingSpawns, batch, dispatching, pendingSpawnCount,
                 pendingSpawnKeys>>

\* Mutant: the reservation outlives the worker.
EndWorkerLeaking(r) ==
  /\ ~dispatching
  /\ stage[r] = "running"
  /\ stage' = [stage EXCEPT ![r] = "idle"]
  /\ recordWorkerEnd(r)
  /\ UNCHANGED <<pendingSpawns, batch, dispatching, pendingSpawnCount,
                 pendingSpawnKeys>>

\* runAgent settles: success, failure, interruption or throw all record the
\* end and give the reservation back.
EndWorker(r) ==
  /\ ~dispatching
  /\ stage[r] = "running"
  /\ stage' = [stage EXCEPT ![r] = "idle"]
  /\ recordWorkerEnd(r)
  /\ decrementPendingSpawns(WorkerKey[r])
  /\ UNCHANGED <<pendingSpawns, batch, dispatching>>

-----------------------------------------------------------------------------
(* Everything else that opens or closes worker rows *)

\* Mutant: the scheduler forgets the workers that already run.
runHeartbeatUncounted ==
  /\ ~dispatching
  /\ \E S \in SUBSET {h \in Heartbeat : ~rowOpen[h]} :
       /\ S # {}
       /\ Cardinality(S) <= HeartbeatSlots
       /\ rowOpen' = [w \in Worker |-> rowOpen[w] \/ w \in S]
  /\ UNCHANGED <<pendingSpawns, batch, dispatching, stage, pendingSpawnCount,
                 pendingSpawnKeys>>

\* runHeartbeat: getNextTasks counts open rows only, never reservations, so a
\* handler that is still on its way to its row does not count; the job neither
\* takes a project lock nor ever records the worker's end.  Its timer is its
\* own, so it runs whenever no other callback does.
runHeartbeat ==
  /\ ~dispatching
  /\ \E S \in SUBSET {h \in Heartbeat : ~rowOpen[h]} :
       /\ S # {}
       /\ Cardinality(S) + countActiveWorkers <= HeartbeatSlots
       /\ rowOpen' = [w \in Worker |-> rowOpen[w] \/ w \in S]
  /\ UNCHANGED <<pendingSpawns, batch, dispatching, stage, pendingSpawnCount,
                 pendingSpawnKeys>>

\* The stall watchdog, the 120-minute termination, the liveness checks and
\* the ghost watchdog close a row; none of them stops the agent behind it.
CloseStaleRow(w) ==
  /\ ~dispatching
  /\ rowOpen[w]
  /\ rowOpen' = [rowOpen EXCEPT ![w] = FALSE]
  /\ UNCHANGED <<pendingSpawns, batch, dispatching, stage, pendingSpawnCount,
                 pendingSpawnKeys>>

\* The process dies and starts again: the queue, the handlers and the
\* reservations are gone, the worker rows are in the database.
Restart ==
  /\ ~dispatching
  /\ pendingSpawns' = <<>>
  /\ batch' = <<>>
  /\ stage' = [r \in Request |-> "idle"]
  /\ pendingSpawnCount' = 0
  /\ pendingSpawnKeys' = {}
  /\ UNCHANGED <<dispatching, rowOpen>>

Tick ==
  \/ popPendingSpawns
  \/ RequeueAtCapacity
  \/ RequeueLocked
  \/ StartHandler
  \/ StartHandlerGated
  \/ EndDispatch

Handler(r) ==
  \/ RefuseSpawn(r)
  \/ PassPreflight(r)
  \/ AssembleThrows(r)
  \/ CatchSpawn(r)
  \/ StartWorker(r)
  \/ EndWorker(r)

Next ==
  \/ Tick
  \/ \E r \in Request : executeSpawnAgent(r) \/ Handler(r)
  \/ runHeartbeat
  \/ \E w \in Worker : CloseStaleRow(w)
  \/ Restart

Spec == Init /\ [][Next]_vars

\* The interval timer keeps ticking; every await of a handler settles (the
\* preflight and the agent have timeouts); a row that nobody ends becomes
\* stale, and the watchdogs run on every tick.  Fairness is strong because
\* dispatching disables the other actions for the length of one callback,
\* while the event loop serves them as soon as it ends.
Fairness ==
  /\ WF_vars(Tick)
  /\ \A r \in Request : SF_vars(Handler(r))
  /\ \A w \in Worker : SF_vars(CloseStaleRow(w))

FairSpec == Spec /\ Fairness

-----------------------------------------------------------------------------
(* Properties *)

Held == Starting \cup OpenRows

\* docs/orchestrator-flow.md "Max concurrent workers": open rows of requests and
\* handlers on their way to one never exceed the limit, and the heartbeat's
\* workers never exceed the scheduler's, across restarts and watchdogs.  The
\* sum of both may pass the limit: the heartbeat does not see the handlers that
\* are still starting.  That no tick adds to such a sum is WorkerSlots' Acquire.
WorkersWithinLimit ==
  /\ Cardinality(Held \cap Request) <= MaxWorkers
  /\ Cardinality(OpenRows \cap Heartbeat) <= HeartbeatSlots

\* docs/orchestrator-flow.md "one worker per (project_id, agent_type) at a
\* time": two open rows, or a row and a handler, never share a project lock.
ProjectLock ==
  \A v, w \in Held : v # w /\ KeyOf(v) # NoKey => KeyOf(v) # KeyOf(w)

\* Capacity never leaks: the counter of reservations stays within the number
\* of handlers in flight, whatever path each of them leaves by.
ReservationsBacked == pendingSpawnCount <= Cardinality(InFlight)

\* Why the limit and the lock hold: while a tick dispatches, every handler it
\* has started is covered by the counter and, if it has a project, by a key.
\* Between ticks neither is true, and no handler is then on its way to a row
\* when the next tick dispatches (Overlap).
CountCoversStarting == dispatching => Cardinality(Starting) <= pendingSpawnCount

KeysCoverStarting ==
  dispatching =>
    \A r \in Starting : LockKey[r] # NoKey => LockKey[r] \in pendingSpawnKeys

\* Why ReservationsBacked holds: whatever waits in the queue or the batch has
\* no handler, and waits there once, so that a handler is never started twice.
QueueInv ==
  /\ TypeOK
  /\ ReservationsBacked
  /\ \A i \in DOMAIN pendingSpawns : stage[pendingSpawns[i]] = "queued"
  /\ \A i \in DOMAIN batch : stage[batch[i]] = "queued"
  /\ \A i, j \in DOMAIN pendingSpawns :
       i # j => pendingSpawns[i] # pendingSpawns[j]
  /\ \A i, j \in DOMAIN batch : i # j => batch[i] # batch[j]
  /\ \A i \in DOMAIN pendingSpawns, j \in DOMAIN batch :
       pendingSpawns[i] # batch[j]

\* A request is never starved in the queue: it is eventually taken out, by
\* its handler or by a restart.
QueuedIsServed == \A r \in Request : stage[r] = "queued" ~> stage[r] # "queued"

\* clearStalePendingSpawns "prevents permanent project lockout": whatever key a
\* handler gives back, and however many dispatches overlap it, a reserved key
\* is eventually free again.
LockoutEnds == \A k \in Key : k \in pendingSpawnKeys ~> k \notin pendingSpawnKeys

Slots == INSTANCE WorkerSlots WITH
  held <- Held, NoLock <- NoKey, LockOf <- [w \in Worker |-> KeyOf(w)],
  Guest <- Heartbeat, GuestSlots <- HeartbeatSlots

\* Slot accounting implements the promise of WorkerSlots.
ImplementsSlots == Slots!Spec
=============================================================================
