--------------------------- MODULE WorkflowEngine ---------------------------
(***************************************************************************)
(* The workflow engine (workflow/engine.ts, workflow/nodes.ts) as phase 1  *)
(* of a control-loop tick drives it (orchestrator/control-loop.ts): a tick *)
(* reads the rows of the active runs once, then advances each from the row *)
(* it read.  The phase yields only inside an asynchronous call node        *)
(* (ts_call); while it waits, handlers write spawn results, tasks change   *)
(* and, with Overlap, the next tick of the 10 s timer runs as well: nothing *)
(* in runTick prevents it.                                                 *)
(*                                                                         *)
(* A workflow is a graph given by constants.  Node types are grouped by    *)
(* what the engine can tell apart:                                         *)
(*   spawn  spawn_agent: pushes a request, waits for its worker            *)
(*   tool   tool_call, notify, cleanup, ...: ends inside execute           *)
(*   route  branch, expression, review_gate, ...: picks the next node      *)
(*   wait   gate, delay: waits for an inbox item or a clock                *)
(*   call   ts_call: awaited                                               *)
(***************************************************************************)
EXTENDS Integers, FiniteSets

CONSTANTS
  Run, Task, NoTask, TaskOf,  \* the task of a run, or NoTask
  Audit,                      \* tasks that are researcher audits
  Node, NoNode, Entry,        \* first node of a run's workflow
  Type,                       \* "spawn", "tool", "route", "wait" or "call"
  Goto,                       \* output.goto a route may pick (NoNode: none)
  Succ,                       \* on_success, or the edges that may match
  Failures,                   \* error types execute may fail with
  TimedOut,                   \* wait nodes that may end as failed
  AbortOn, Retry, Fallback, EscalateAfter,   \* on_failure
  Tick, NoTick,
  SnapshotLimit,              \* getActiveRuns(20)
  MaxPasses,                  \* passes over one run in one tick, 5
  SpawnLimit,                 \* RESEARCHER_AUDIT_THRESHOLD, 3
  MaxResets,                  \* bound: resets of a task to not_started
  Overlap                     \* may other ticks run while one awaits a call?

ErrorType == {"", "timeout", "spawn_error", "task_blocked"}
NodeType == {"spawn", "tool", "route", "wait", "call"}

ASSUME GraphAssumption ==
  /\ IsFiniteSet(Run) /\ NoNode \notin Node /\ NoTask \notin Task
  /\ TaskOf \in [Run -> Task \cup {NoTask}] /\ Audit \subseteq Task
  /\ Entry \in [Run -> Node]
  /\ Type \in [Node -> NodeType]
  /\ Goto \in [Node -> SUBSET (Node \cup {NoNode})]
  /\ Succ \in [Node -> SUBSET (Node \cup {NoNode})]
  /\ \A n \in Node : Succ[n] # {} /\ (Type[n] = "route" => Goto[n] # {})
  /\ Failures \in [Node -> SUBSET {"", "timeout"}]
  /\ TimedOut \subseteq Node
  /\ AbortOn \in [Node -> SUBSET ErrorType]
  /\ Retry \in [Node -> Nat] /\ EscalateAfter \in [Node -> Nat]
  /\ Fallback \in [Node -> Node \cup {NoNode}]

ASSUME TickAssumption ==
  /\ NoTick \notin Tick
  /\ SnapshotLimit \in Nat \ {0} /\ MaxPasses \in Nat \ {0}
  /\ SpawnLimit \in Nat /\ MaxResets \in Nat /\ Overlap \in BOOLEAN

VARIABLES
  run,         \* workflow_runs: status, current_node and node_states
  created,     \* the order of created_at
  tick,        \* a tick's remaining rows, passes, and whether it awaits
  cpu,         \* the tick whose synchronous stretch is running
  workState,   \* tasks.work_state
  spawnCount,  \* tasks.spawn_count - tasks.crash_count; of an audit, whose
               \* crashes nobody subtracts, tasks.spawn_count
  resets,      \* resets of the task so far
  queued,      \* spawn requests of a run and node not yet dispatched
  working,     \* spawn handlers of a run and node with a worker
  due,         \* wait nodes whose inbox item is read or whose clock ran out
  executed     \* history: how often execute ran for a run and node

vars == <<run, created, tick, cpu, workState, spawnCount, resets,
          queued, working, due, executed>>

----------------------------------------------------------------------------
NodeState ==
  [st : {"pending", "running", "completed", "failed"}, attempts : Nat,
   err : ErrorType, goto : Node \cup {NoNode}, failed : BOOLEAN, key : BOOLEAN]

Fresh == [st |-> "pending", attempts |-> 0, err |-> "", goto |-> NoNode,
          failed |-> FALSE, key |-> FALSE]

Row == [status : {"none", "pending", "running", "completed", "failed"},
        node : Node \cup {NoNode}, ns : [Node -> NodeState]]

Active(r) == run[r].status \in {"pending", "running"}

Oldest(S) == {r \in S : \A q \in S : created[r] <= created[q]}

\* getActiveRuns(limit): the oldest pending and running runs.
ActiveRuns(limit) ==
  LET A == {r \in Run : Active(r)}
  IN {r \in A : Cardinality({q \in A : created[q] < created[r]}) < limit}

\* todo maps the runs a tick has not finished with to their rows as read.
IdleTick == [todo |-> <<>>, passes |-> 0, calling |-> FALSE]

\* The run the tick is at.
Current(t) == Oldest(DOMAIN tick[t].todo)

Without(todo, r) == [q \in DOMAIN todo \ {r} |-> todo[q]]

Count == [Run -> [Node -> Nat]]
Zero == [r \in Run |-> [n \in Node |-> 0]]

TypeOK ==
  /\ run \in [Run -> Row]
  /\ created \in [Run -> Nat]
  /\ \A t \in Tick : \E S \in SUBSET Run :
       tick[t] \in [todo : [S -> Row], passes : 0 .. MaxPasses, calling : BOOLEAN]
  /\ cpu \in Tick \cup {NoTick}
  /\ workState \in [Task -> {"not_started", "in_progress", "done", "completed",
                             "blocked", "escalated"}]
  /\ spawnCount \in [Task -> Int] /\ resets \in [Task -> Nat]
  /\ queued \in Count /\ working \in Count /\ executed \in Count
  /\ due \subseteq Run \X Node

Init ==
  /\ run = [r \in Run |-> [status |-> "none", node |-> NoNode,
                           ns |-> [n \in Node |-> Fresh]]]
  /\ created = [r \in Run |-> 0]
  /\ tick = [t \in Tick |-> IdleTick]
  /\ cpu = NoTick
  /\ workState = [k \in Task |-> "not_started"]
  /\ spawnCount = [k \in Task |-> 0] /\ resets = [k \in Task |-> 0]
  /\ queued = Zero /\ working = Zero /\ executed = Zero
  /\ due = {}

----------------------------------------------------------------------------
(* Tasks and runs *)

\* startRun, from phases 2 to 4 of a tick or from the API.  A task's run is
\* started for a task that is not_started and without another active run.
StartRun(r) ==
  /\ cpu = NoTick
  /\ run[r].status = "none"
  /\ \/ TaskOf[r] = NoTask /\ UNCHANGED workState
     \/ /\ TaskOf[r] # NoTask
        /\ workState[TaskOf[r]] = "not_started"
        /\ \A q \in Run : Active(q) => TaskOf[q] # TaskOf[r]
        /\ workState' = [workState EXCEPT ![TaskOf[r]] = "in_progress"]
  /\ run' = [run EXCEPT ![r].status = "pending"]
  /\ created' = [created EXCEPT ![r] = Cardinality({q \in Run : run[q].status # "none"})]
  /\ UNCHANGED <<tick, cpu, spawnCount, resets, queued, working, due, executed>>

\* Phase 4b: findRetryableTasks returns a blocked task to the scan, without a
\* look at its runs: one that the guard has blocked may still have one.
RetryBlockedTask(k) ==
  /\ cpu = NoTick
  /\ workState[k] = "blocked" /\ resets[k] < MaxResets
  /\ workState' = [workState EXCEPT ![k] = "not_started"]
  /\ resets' = [resets EXCEPT ![k] = @ + 1]
  /\ UNCHANGED <<run, created, tick, cpu, spawnCount, queued, working, due, executed>>

\* sweepOrphanedInProgressTasks: in progress, no open worker row, no active
\* run.  It counts as a crash: one spawn less against the limit, except for an
\* audit.
SweepOrphanedTask(k) ==
  /\ cpu = NoTick
  /\ workState[k] = "in_progress" /\ resets[k] < MaxResets
  /\ \A r \in Run : TaskOf[r] = k =>
        ~Active(r) /\ \A n \in Node : working[r][n] = 0
  /\ workState' = [workState EXCEPT ![k] = "not_started"]
  /\ resets' = [resets EXCEPT ![k] = @ + 1]
  /\ spawnCount' = IF k \in Audit THEN spawnCount
                   ELSE [spawnCount EXCEPT ![k] = @ - 1]
  /\ UNCHANGED <<run, created, tick, cpu, queued, working, due, executed>>

----------------------------------------------------------------------------
(* A pass over one row.  Every write is by column of the run's row: a step *)
(* that writes node_states writes all of them as it read them.             *)

WriteNodeStates(r, ns) == run' = [run EXCEPT ![r].ns = ns]
MoveTo(r, n) == run' = [run EXCEPT ![r].node = n]

\* Mutant: the status of the run becomes the state of the task.
FinishRunStatus(r, outcome) ==
  /\ run' = [run EXCEPT ![r].status = outcome, ![r].node = NoNode]
  /\ workState' = IF TaskOf[r] = NoTask THEN workState
                  ELSE [workState EXCEPT ![TaskOf[r]] = outcome]

\* _finishRun
FinishRun(r, outcome) ==
  /\ run' = [run EXCEPT ![r].status = outcome, ![r].node = NoNode]
  /\ workState' = IF TaskOf[r] = NoTask THEN workState
                  ELSE [workState EXCEPT ![TaskOf[r]] =
                          IF outcome = "completed" THEN "completed" ELSE "blocked"]

Bump(count, r, n) == [count EXCEPT ![r][n] = @ + 1]
Drop(count, r, n) == [count EXCEPT ![r][n] = @ - 1]

\* What execute may leave in the node state of a node that ends in it.
Executed(n, s) ==
  {[s EXCEPT !.st = "failed", !.err = e] : e \in Failures[n]}
    \cup (IF Type[n] = "route" THEN {[s EXCEPT !.st = "completed", !.goto = g] : g \in Goto[n]}
          ELSE {[s EXCEPT !.st = "completed"]})

\* Mutant: a new execution starts to count from one.
StartNodeRecounting(r, n, row) ==
  LET s == [row.ns[n] EXCEPT !.attempts = 1]
  IN /\ IF Type[n] \in {"spawn", "wait"}
          THEN WriteNodeStates(r, [row.ns EXCEPT ![n] = [s EXCEPT !.st = "running"]])
          ELSE \E done \in Executed(n, s) : WriteNodeStates(r, [row.ns EXCEPT ![n] = done])
     /\ queued' = IF Type[n] = "spawn" THEN Bump(queued, r, n) ELSE queued
     /\ due' = due \ {<<r, n>>}
     /\ executed' = Bump(executed, r, n)
     /\ UNCHANGED workState

\* _startNode for every type but call
StartNode(r, n, row) ==
  LET s == [row.ns[n] EXCEPT !.attempts = @ + 1]
  IN /\ IF Type[n] \in {"spawn", "wait"}
          THEN WriteNodeStates(r, [row.ns EXCEPT ![n] = [s EXCEPT !.st = "running"]])
          ELSE \E done \in Executed(n, s) : WriteNodeStates(r, [row.ns EXCEPT ![n] = done])
     /\ queued' = IF Type[n] = "spawn" THEN Bump(queued, r, n) ELSE queued
     /\ due' = due \ {<<r, n>>}
     /\ executed' = Bump(executed, r, n)
     /\ UNCHANGED workState

\* _checkSpawnAgent: the stored result first, then the task.  A success is
\* never stored (writeSpawnResult), so only the task shows it.
SpawnOutcome(r, s) ==
  LET w == IF TaskOf[r] = NoTask THEN "in_progress" ELSE workState[TaskOf[r]]
  IN CASE s.failed -> {"failed"}
       [] ~s.failed /\ w \in {"completed", "done"} -> {"completed"}
       [] ~s.failed /\ w = "blocked" -> {"failed"}
       [] OTHER -> {}

\* _checkGate, _checkDelay
WaitOutcome(r, n) ==
  IF <<r, n>> \notin due THEN {}
  ELSE {"completed"} \cup (IF n \in TimedOut THEN {"failed"} ELSE {})

CheckOutcome(r, n, row) ==
  IF Type[n] = "spawn" THEN SpawnOutcome(r, row.ns[n]) ELSE WaitOutcome(r, n)

\* Mutant: node_states is written with the checked node alone.
CheckNodeForgetting(r, n, row) ==
  \E o \in CheckOutcome(r, n, row) :
    /\ WriteNodeStates(r, [m \in Node |-> IF m = n THEN [row.ns[n] EXCEPT !.st = o] ELSE Fresh])
    /\ UNCHANGED <<queued, due, executed, workState>>

\* _checkNode copies the status of the result and drops its errorType.
CheckNode(r, n, row) ==
  \E o \in CheckOutcome(r, n, row) :
    /\ WriteNodeStates(r, [row.ns EXCEPT ![n].st = o])
    /\ UNCHANGED <<queued, due, executed, workState>>

\* _transition
Transition(r, n, row) ==
  /\ \E g \in IF row.ns[n].goto # NoNode THEN {row.ns[n].goto} ELSE Succ[n] :
       IF g = NoNode THEN FinishRun(r, "completed")
       ELSE MoveTo(r, g) /\ UNCHANGED workState
  /\ UNCHANGED <<queued, due, executed>>

\* _handleFailure: abort, then retry, then fallback, then fail.
HandleFailure(r, n, row) ==
  LET s == row.ns[n]
      retry == s.err \notin AbortOn[n] /\ s.attempts <= Retry[n]
      fallback == /\ s.err \notin AbortOn[n] /\ ~retry
                  /\ Fallback[n] # NoNode /\ s.attempts <= EscalateAfter[n]
  IN /\ \/ retry /\ WriteNodeStates(r, [row.ns EXCEPT ![n].st = "pending"])
                 /\ UNCHANGED workState
        \/ fallback /\ MoveTo(r, Fallback[n]) /\ UNCHANGED workState
        \/ ~retry /\ ~fallback /\ FinishRun(r, "failed")
     /\ UNCHANGED <<queued, due, executed>>

\* Mutant: a started node is left without a check.
AdvanceRowUnchecked(r, row) ==
  \/ /\ row.status = "pending"
     /\ run' = [run EXCEPT ![r].status = "running", ![r].node = Entry[r]]
     /\ UNCHANGED <<queued, due, executed, workState>>
  \/ /\ row.status = "running" /\ row.node # NoNode
     /\ LET st == row.ns[row.node].st
        IN \/ st = "pending" /\ Type[row.node] # "call" /\ StartNode(r, row.node, row)
           \/ st \in {"running", "completed"} /\ Transition(r, row.node, row)
           \/ st = "failed" /\ HandleFailure(r, row.node, row)

\* The step of a row that holds the CPU to its end and does work.
AdvanceRow(r, row) ==
  \/ /\ row.status = "pending"
     /\ run' = [run EXCEPT ![r].status = "running", ![r].node = Entry[r]]
     /\ UNCHANGED <<queued, due, executed, workState>>
  \/ /\ row.status = "running" /\ row.node # NoNode
     /\ LET st == row.ns[row.node].st
        IN \/ st = "pending" /\ Type[row.node] # "call" /\ StartNode(r, row.node, row)
           \/ st = "running" /\ CheckNode(r, row.node, row)
           \/ st = "completed" /\ Transition(r, row.node, row)
           \/ st = "failed" /\ HandleFailure(r, row.node, row)

----------------------------------------------------------------------------
(* Phase 1 of a tick *)

TickStart(t) ==
  /\ cpu = NoTick /\ tick[t] = IdleTick
  /\ Overlap \/ \A u \in Tick : tick[u] = IdleTick
  /\ ActiveRuns(SnapshotLimit) # {}
  /\ tick' = [tick EXCEPT ![t].todo = [r \in ActiveRuns(SnapshotLimit) |-> run[r]]]
  /\ cpu' = t
  /\ UNCHANGED <<run, created, workState, spawnCount, resets, queued, working, due, executed>>

\* The tick goes on to its next row, or is done with phase 1.
LeaveRun(t, r) ==
  LET rest == Without(tick[t].todo, r)
  IN /\ tick' = [tick EXCEPT ![t] = [todo |-> rest, passes |-> 0, calling |-> FALSE]]
     /\ cpu' = IF DOMAIN rest = {} THEN NoTick ELSE t

\* After a pass that did work the loop reads the oldest active run again: if
\* it is this one and runs, the loop goes on with its new row.
AfterPass(t, r) ==
  LET again == /\ r \in ActiveRuns(1)' /\ run'[r].status = "running"
               /\ tick[t].passes + 1 < MaxPasses
  IN \/ /\ again
        /\ tick' = [tick EXCEPT ![t] = [todo |-> [@.todo EXCEPT ![r] = run'[r]],
                                       passes |-> @.passes + 1, calling |-> FALSE]]
        /\ cpu' = t
     \/ ~again /\ LeaveRun(t, r)

Advance(t) ==
  /\ cpu = t
  /\ UNCHANGED <<created, spawnCount, resets, working>>
  /\ \E r \in Current(t) : AdvanceRow(r, tick[t].todo[r]) /\ AfterPass(t, r)

\* check returned null: the run still waits.
StillRunning(t) ==
  /\ cpu = t
  /\ \E r \in Current(t) :
       LET row == tick[t].todo[r]
       IN /\ row.status = "running" /\ row.node # NoNode
          /\ row.ns[row.node].st = "running"
          /\ CheckOutcome(r, row.node, row) = {}
          /\ LeaveRun(t, r)
  /\ UNCHANGED <<run, created, workState, spawnCount, resets, queued, working, due, executed>>

\* _startNode of a call node up to its await ...
BeginCall(t) ==
  /\ cpu = t
  /\ \E r \in Current(t) :
       LET row == tick[t].todo[r]
       IN /\ row.status = "running" /\ row.node # NoNode
          /\ Type[row.node] = "call" /\ row.ns[row.node].st = "pending"
          /\ executed' = Bump(executed, r, row.node)
  /\ tick' = [tick EXCEPT ![t].calling = TRUE]
  /\ cpu' = NoTick
  /\ UNCHANGED <<run, created, workState, spawnCount, resets, queued, working, due>>

\* ... and after it: the node states it writes are those read before it.
EndCall(t) ==
  /\ cpu = NoTick /\ tick[t].calling
  /\ UNCHANGED <<created, workState, spawnCount, resets, queued, working, due, executed>>
  /\ \E r \in Current(t) :
       LET row == tick[t].todo[r]
           s == [row.ns[row.node] EXCEPT !.attempts = @ + 1]
       IN /\ \E done \in Executed(row.node, s) :
               WriteNodeStates(r, [row.ns EXCEPT ![row.node] = done])
          /\ AfterPass(t, r)

\* Mutant: the watchdog looks at spawn nodes only.
FailStaleSpawn(r) ==
  /\ cpu = NoTick
  /\ Overlap \/ \A u \in Tick : tick[u] = IdleTick
  /\ run[r].status = "running" /\ run[r].node # NoNode
  /\ LET s == run[r].ns[run[r].node]
     IN s.st = "running" /\ Type[run[r].node] = "spawn" /\ ~s.key
  /\ run' = [run EXCEPT ![r].status = "failed"]
  /\ UNCHANGED <<created, tick, cpu, workState, spawnCount, resets, queued, working,
                 due, executed>>

\* Phase 5b: a run at a spawn node without a session key, or waiting
\* anywhere else, for too long is set failed, and nothing else.
FailStaleRun(r) ==
  /\ cpu = NoTick
  /\ Overlap \/ \A u \in Tick : tick[u] = IdleTick
  /\ run[r].status = "running" /\ run[r].node # NoNode
  /\ LET s == run[r].ns[run[r].node]
     IN s.st = "running" /\ (Type[run[r].node] = "spawn" => ~s.key)
  /\ run' = [run EXCEPT ![r].status = "failed"]
  /\ UNCHANGED <<created, tick, cpu, workState, spawnCount, resets, queued, working,
                 due, executed>>

----------------------------------------------------------------------------
(* Spawn handlers (processSpawnWithRunner) and the outside *)

\* Mutants: a failure is not stored; a result sets the run running.
WriteSpawnResultKeyOnly(r, n, key, failed) ==
  run' = [run EXCEPT ![r].ns[n].key = @ \/ key]

WriteSpawnResultReviving(r, n, key, failed) ==
  run' = [run EXCEPT ![r].status = "running", ![r].ns[n].key = @ \/ key,
                     ![r].ns[n].failed = @ \/ failed]

\* writeSpawnResult, on the row as it is now: a failure is stored, a success
\* only leaves the session key.
WriteSpawnResult(r, n, key, failed) ==
  LET s == run[r].ns[n]
  IN run' = [run EXCEPT ![r].ns[n] = [s EXCEPT !.key = s.key \/ key,
                                               !.failed = s.failed \/ failed]]

\* Dispatch through the gates, the preflight and the guard to a worker.
StartWorker(r, n) ==
  /\ cpu = NoTick
  /\ queued[r][n] > 0
  /\ TaskOf[r] # NoTask =>
       /\ workState[TaskOf[r]] \notin {"blocked", "escalated"}
       /\ spawnCount[TaskOf[r]] + 1 < SpawnLimit
  /\ queued' = Drop(queued, r, n)
  /\ working' = Bump(working, r, n)
  /\ spawnCount' = IF TaskOf[r] = NoTask THEN spawnCount
                   ELSE [spawnCount EXCEPT ![TaskOf[r]] = @ + 1]
  /\ UNCHANGED <<run, created, tick, cpu, workState, resets, due, executed>>

\* incrementAndCheckSpawnCount stops the handler, which then returns without
\* a spawn result.  At the limit a task is escalated to an audit, and an audit
\* is blocked.
GuardStops(r, n) ==
  /\ cpu = NoTick
  /\ queued[r][n] > 0 /\ TaskOf[r] # NoTask
  /\ queued' = Drop(queued, r, n)
  /\ \/ workState[TaskOf[r]] \in {"blocked", "escalated"} /\ UNCHANGED <<workState, spawnCount>>
     \/ /\ workState[TaskOf[r]] \notin {"blocked", "escalated"}
        /\ spawnCount[TaskOf[r]] + 1 >= SpawnLimit
        /\ workState' = [workState EXCEPT ![TaskOf[r]] =
                           IF TaskOf[r] \in Audit THEN "blocked" ELSE "escalated"]
        /\ spawnCount' = [spawnCount EXCEPT ![TaskOf[r]] = @ + 1]
  /\ UNCHANGED <<run, created, tick, cpu, resets, working, due, executed>>

\* The model is not available: failed before the guard, without a worker.
RefuseSpawn(r, n) ==
  /\ cpu = NoTick
  /\ queued[r][n] > 0
  /\ queued' = Drop(queued, r, n)
  /\ WriteSpawnResult(r, n, FALSE, TRUE)
  /\ UNCHANGED <<created, tick, cpu, workState, spawnCount, resets, working, due, executed>>

WorkerSucceeds(r, n) ==
  /\ cpu = NoTick
  /\ working[r][n] > 0
  /\ working' = Drop(working, r, n)
  /\ workState' = IF TaskOf[r] = NoTask THEN workState
                  ELSE [workState EXCEPT ![TaskOf[r]] = "done"]
  /\ WriteSpawnResult(r, n, TRUE, FALSE)
  /\ UNCHANGED <<created, tick, cpu, spawnCount, resets, queued, due, executed>>

\* The agent failed (key) or the runner threw (no key).
WorkerFails(r, n, key) ==
  /\ cpu = NoTick
  /\ working[r][n] > 0
  /\ working' = Drop(working, r, n)
  /\ WriteSpawnResult(r, n, key, TRUE)
  /\ UNCHANGED <<created, tick, cpu, workState, spawnCount, resets, queued, due, executed>>

\* The inbox item of a gate is read, or a clock runs out.
ComeDue(r, n) ==
  /\ cpu = NoTick
  /\ Type[n] = "wait" /\ <<r, n>> \notin due /\ run[r].ns[n].st = "running"
  /\ due' = due \cup {<<r, n>>}
  /\ UNCHANGED <<run, created, tick, cpu, workState, spawnCount, resets, queued,
                 working, executed>>

----------------------------------------------------------------------------
Phase1(t) ==
  TickStart(t) \/ Advance(t) \/ StillRunning(t) \/ BeginCall(t) \/ EndCall(t)

Handler(r, n) ==
  \/ StartWorker(r, n) \/ GuardStops(r, n) \/ RefuseSpawn(r, n)
  \/ WorkerSucceeds(r, n) \/ \E key \in BOOLEAN : WorkerFails(r, n, key)

Next ==
  \/ \E t \in Tick : Phase1(t)
  \/ \E r \in Run : StartRun(r) \/ FailStaleRun(r)
  \/ \E k \in Task : RetryBlockedTask(k) \/ SweepOrphanedTask(k)
  \/ \E r \in Run, n \in Node : Handler(r, n) \/ ComeDue(r, n)

Spec == Init /\ [][Next]_vars

\* A tick comes every 10 s, runs to its end and reaches phase 5b; a call ends
\* or times out; every tick drains the queue and a worker ends within its
\* 900 s.  Ticks take the CPU and give it back: hence strong fairness.
Fairness ==
  /\ \A t \in Tick : WF_vars(Phase1(t)) /\ SF_vars(TickStart(t)) /\ SF_vars(EndCall(t))
  /\ \A r \in Run :
       /\ SF_vars(FailStaleRun(r))
       /\ SF_vars(\E n \in Node : StartWorker(r, n) \/ GuardStops(r, n) \/ RefuseSpawn(r, n))
       /\ SF_vars(\E n \in Node : WorkerSucceeds(r, n)
                                  \/ \E key \in BOOLEAN : WorkerFails(r, n, key))

FairSpec == Spec /\ Fairness

----------------------------------------------------------------------------
(* Properties *)

RunStatus == [r \in Run |-> run[r].status]

Lifecycle == INSTANCE RunLifecycle WITH status <- RunStatus

\* A run is created, runs and finishes once, and a task never has two active
\* runs, whatever stale rows the ticks still advance (advance, startRun).
ImplementsLifecycle == Lifecycle!Spec

Calls(r, n) ==
  Cardinality({t \in Tick : /\ tick[t].calling /\ r \in Current(t)
                            /\ tick[t].todo[r].node = n})

\* The attempts of a node, from which _handleFailure decides on retries,
\* count every execution of it.
EveryStartCounted ==
  \A r \in Run, n \in Node : executed[r][n] = run[r].ns[n].attempts + Calls(r, n)

\* A run that moved on leaves no node running behind it.
NothingLeftRunning ==
  \A r \in Run, n \in Node :
    Active(r) /\ run[r].ns[n].st = "running" => run[r].node = n

\* A write of node_states never undoes what another step completed.
CompletionFinal ==
  [][\A r \in Run, n \in Node :
       run[r].ns[n].st = "completed" => run'[r].ns[n].st = "completed"]_run

\* The guard has let this audit's limit be reached: it is blocked, and phase 4b
\* may have returned it to the scan since.
AuditStopped(k) == k \in Audit /\ spawnCount[k] >= SpawnLimit

\* A run of a task that waits at a spawn node waits for something: a queued
\* request, a worker, or an outcome the next check sees.  The exceptions are
\* those the guard makes: the run of a task it escalated, and that of an audit
\* it blocked and phase 4b reset before a check saw it, wait for phase 5b.
SpawnAnswered ==
  \A r \in Run :
    /\ run[r].status = "running" /\ run[r].node # NoNode /\ TaskOf[r] # NoTask
    /\ Type[run[r].node] = "spawn" /\ run[r].ns[run[r].node].st = "running"
    => \/ queued[r][run[r].node] + working[r][run[r].node] > 0
       \/ run[r].ns[run[r].node].failed
       \/ workState[TaskOf[r]] \in {"done", "completed", "blocked", "escalated"}
       \/ AuditStopped(TaskOf[r])

Finished(r) == run[r].status \in {"completed", "failed"}

\* A run that started finishes.
EveryRunFinishes == \A r \in Run : Active(r) ~> Finished(r)

\* Phase 5b fails a run at a spawn node without a session because "silence =
\* dropped": its request is not queued and it has no worker.
SilenceMeansDropped ==
  [][\A r \in Run :
       /\ run[r].status = "running" /\ run[r].node # NoNode /\ run'[r].status = "failed"
       /\ Type[run[r].node] = "spawn" /\ run[r].ns[run[r].node].st = "running"
       => queued[r][run[r].node] + working[r][run[r].node] = 0]_run

\* check: a running spawn node has a result only "when done".
SpawnDoneMeansWorkerDone ==
  \A r \in Run, n \in Node :
    Type[n] = "spawn" /\ run[r].ns[n].st = "completed" => queued[r][n] + working[r][n] = 0

=============================================================================
