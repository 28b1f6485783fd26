---------------------------- MODULE TaskLifecycle ----------------------------
(***************************************************************************)
(* The life of a task under the control loop (orchestrator/control-loop.ts *)
(* phases 4 to 8b, orchestrator/scanner.ts), from the scan that starts a   *)
(* workflow run for it to its completion, block or escalation, with the    *)
(* watchdogs that end worker rows and the recovery at a start (index.ts).  *)
(*                                                                         *)
(* The engine is reduced to what a task sees of it: a run is at one spawn  *)
(* node, which is executed again Retry times (WorkflowEngine has the whole *)
(* of it).  Capacity, the project lock and the order of the queue are left *)
(* to SpawnDispatch: here a queued request may be dispatched at any time.  *)
(* The minutes every watchdog waits for are nondeterminism: each action is *)
(* one synchronous stretch of the event loop, at any time its test of the  *)
(* database allows.                                                        *)
(***************************************************************************)
EXTENDS Integers, FiniteSets

CONSTANTS
  Task,         \* tasks of users
  Audit,        \* the ids of researcher audits, with the prefix audit_
  NoTask,
  BlockedBy,    \* tasks.blocked_by
  Phantom,      \* tasks whose successful worker may leave no artifact
  N,            \* spawn requests are numbered 1 .. N
  Threshold,    \* RESEARCHER_AUDIT_THRESHOLD, 3
  MaxRetries,   \* retry_count limit of findRetryableTasks, 3
  Retry,        \* on_failure.retry of the spawn node
  MaxRuns,      \* bound: workflow runs of each task
  MaxRestarts,  \* bound: restarts
  MaxBeats      \* bound: runs of the heartbeat that find a task

Work == Task \cup Audit
Request == 1 .. N

ASSUME TaskAssumption ==
  /\ Task \cap Audit = {} /\ NoTask \notin Work
  /\ IsFiniteSet(Task) /\ IsFiniteSet(Audit)
  /\ BlockedBy \in [Work -> SUBSET Task] /\ \A a \in Audit : BlockedBy[a] = {}
  /\ Phantom \subseteq Work

ASSUME LimitAssumption ==
  /\ N \in Nat /\ Threshold \in Nat \ {0} /\ MaxRetries \in Nat /\ Retry \in Nat
  /\ MaxRuns \in [Work -> Nat] /\ MaxRestarts \in Nat /\ MaxBeats \in Nat

VARIABLES
  task,      \* tasks: status, work_state, retry_count, spawn_count - crash_count
  run,       \* the task's active workflow run
  runs,      \* workflow runs started for the task
  req,       \* spawn requests and their handlers
  open,      \* requests whose worker row has no ended_at
  last,      \* the task's latest ended worker row: success or failure_type
  boot,      \* how far the recovery of the last start is
  stuck,     \* runs failStaleSpawnRuns has read and not yet looked at, and
             \* whether it saw a session key
  resumes,   \* pendingResumes: worker rows to resume
  restarts, beats,
  auditOf,   \* the task an audit was created for
  started,   \* history: workers dispatched for an audit
  succeeded  \* tasks that have a worker row with success

vars == <<task, run, runs, req, open, last, boot, stuck, resumes, restarts, beats,
          auditOf, started, succeeded>>

WorkState == {"not_started", "in_progress", "done", "completed", "blocked",
              "escalated"}
TaskRow == [status : {"none", "active", "completed", "needs_review"},
            work : WorkState, retries : 0 .. MaxRetries, fails : Int]
\* st: "pending" until the spawn node is executed (again), then "waiting".
RunRow == [st : {"none", "pending", "waiting"}, tries : 0 .. Retry + 1,
           failed : BOOLEAN, key : BOOLEAN]
\* own: the request's run is still the active run of its task.
ReqRow == [stage : {"idle", "queued", "preflight", "assembling", "working"},
           task : Work \cup {NoTask}, own : BOOLEAN]

TypeOK ==
  /\ task \in [Work -> TaskRow] /\ run \in [Work -> RunRow]
  /\ runs \in [Work -> Nat]
  /\ req \in [Request -> ReqRow] /\ open \subseteq Request
  /\ last \in [Work -> {"none", "succeeded", "agent", "infra"}]
  /\ boot \in {"up", "restarted", "runs", "resumes"}
  /\ stuck \subseteq Work \X BOOLEAN /\ resumes \subseteq Request
  /\ restarts \in 0 .. MaxRestarts /\ beats \in 0 .. MaxBeats
  /\ auditOf \in [Audit -> Task \cup {NoTask}]
  /\ started \in [Audit -> Nat] /\ succeeded \subseteq Work

----------------------------------------------------------------------------
NoRun == [st |-> "none", tries |-> 0, failed |-> FALSE, key |-> FALSE]
Free == [stage |-> "idle", task |-> NoTask, own |-> FALSE]

Active(t) == run[t].st # "none"
\* status running and current_node a spawn_ node
AtSpawn(t) == Active(t) /\ run[t].tries > 0

OpenRows(t) == {q \in open : req[q].task = t}
Unused == {q \in Request : req[q].stage = "idle" /\ q \notin open \cup resumes}

Is(t, status, work) == task[t].status = status /\ task[t].work = work

\* crash_count counts against spawn_count, but not for an audit.
Crash(t) == IF t \in Audit THEN 0 ELSE 1

Init ==
  /\ task = [t \in Work |->
       [status |-> IF t \in Task THEN "active" ELSE "none",
        work |-> "not_started", retries |-> 0, fails |-> 0]]
  /\ run = [t \in Work |-> NoRun] /\ runs = [t \in Work |-> 0]
  /\ req = [q \in Request |-> Free] /\ open = {}
  /\ last = [t \in Work |-> "none"]
  /\ boot = "up" /\ stuck = {} /\ resumes = {} /\ restarts = 0 /\ beats = 0
  /\ auditOf = [a \in Audit |-> NoTask]
  /\ started = [a \in Audit |-> 0] /\ succeeded = {}

----------------------------------------------------------------------------
(* Scanner and engine *)

Terminal(b) == task[b].status = "completed"

\* hasUnresolvedBlockers: a blocked or escalated blocker counts as resolved.
hasUnresolvedBlockers(t) ==
  \E b \in BlockedBy[t] :
    ~Terminal(b) /\ task[b].work \notin {"completed", "done", "blocked", "escalated"}

\* Phase 4: findReadyTasks, then startRun.  If the task has an active run,
\* startRun returns that and changes nothing.
StartRun(t) ==
  /\ Is(t, "active", "not_started") /\ ~hasUnresolvedBlockers(t)
  /\ ~Active(t) /\ runs[t] < MaxRuns[t]
  /\ task' = [task EXCEPT ![t].work = "in_progress"]
  /\ run' = [run EXCEPT ![t] = [NoRun EXCEPT !.st = "pending"]]
  /\ runs' = [runs EXCEPT ![t] = @ + 1]
  /\ UNCHANGED <<req, open, last, boot, stuck, resumes, restarts, beats, auditOf,
                 started, succeeded>>

executeSpawnAgent(t) ==
  /\ run[t].st = "pending"
  /\ Unused # {}
  /\ LET q == CHOOSE q \in Unused : \A p \in Unused : q <= p
     IN req' = [req EXCEPT ![q] = [stage |-> "queued", task |-> t, own |-> TRUE]]
  /\ run' = [run EXCEPT ![t].st = "waiting", ![t].tries = @ + 1]
  /\ UNCHANGED <<task, runs, open, last, boot, stuck, resumes, restarts, beats, auditOf,
                 started, succeeded>>

\* The run of t is no longer active; what it has requested is still queued.
Disown(t) ==
  [q \in Request |-> IF req[q].task = t THEN [req[q] EXCEPT !.own = FALSE] ELSE req[q]]

EndRun(t) ==
  /\ run' = [run EXCEPT ![t] = NoRun]
  /\ req' = Disown(t)
  /\ stuck' = stuck \ ({t} \X BOOLEAN)

\* _checkSpawnAgent finds the task done; the run ends in _finishRun.
CheckDone(t) ==
  /\ run[t].st = "waiting" /\ ~run[t].failed
  /\ task[t].work \in {"done", "completed"}
  /\ task' = [task EXCEPT ![t].status = "completed", ![t].work = "completed"]
  /\ EndRun(t)
  /\ UNCHANGED <<runs, open, last, boot, resumes, restarts, beats, auditOf,
                 started, succeeded>>

\* Mutant: one attempt too many.
CheckFailedOnceMore(t) ==
  /\ run[t].st = "waiting"
  /\ run[t].failed \/ task[t].work = "blocked"
  /\ IF run[t].tries <= Retry + 1
       THEN run' = [run EXCEPT ![t].st = "pending"] /\ UNCHANGED <<task, req, stuck>>
       ELSE task' = [task EXCEPT ![t].work = "blocked"] /\ EndRun(t)
  /\ UNCHANGED <<runs, open, last, boot, resumes, restarts, beats, auditOf, started,
                 succeeded>>

\* It finds a failure: the node is executed again, or the run fails and its
\* task is blocked whatever it was.
CheckFailed(t) ==
  /\ run[t].st = "waiting"
  /\ run[t].failed \/ task[t].work = "blocked"
  /\ IF run[t].tries <= Retry
       THEN run' = [run EXCEPT ![t].st = "pending"] /\ UNCHANGED <<task, req, stuck>>
       ELSE task' = [task EXCEPT ![t].work = "blocked"] /\ EndRun(t)
  /\ UNCHANGED <<runs, open, last, boot, resumes, restarts, beats, auditOf, started,
                 succeeded>>

\* Phase 4b.
RetryBlocked(t) ==
  /\ Is(t, "active", "blocked") /\ task[t].retries < MaxRetries
  /\ ~hasUnresolvedBlockers(t)
  /\ task' = [task EXCEPT ![t].work = "not_started", ![t].retries = @ + 1]
  /\ UNCHANGED <<run, runs, req, open, last, boot, stuck, resumes, restarts, beats,
                 auditOf, started, succeeded>>

----------------------------------------------------------------------------
(* processSpawnWithRunner *)

\* The blocked_by gate of the handler has a list of its own; while it refuses
\* the request goes back to the queue, and nothing else changes.
PassGates(q) ==
  /\ req[q].stage = "queued"
  /\ \A b \in BlockedBy[req[q].task] :
       Terminal(b) \/ task[b].work \in {"completed", "done"}
  /\ req' = [req EXCEPT ![q].stage = "preflight"]
  /\ UNCHANGED <<task, run, runs, open, last, boot, stuck, resumes, restarts, beats,
                 auditOf, started, succeeded>>

\* writeSpawnResult to the run of the request; a success leaves only the key.
Result(q, failed, key) ==
  run' = IF ~req[q].own THEN run
         ELSE [run EXCEPT ![req[q].task].failed = @ \/ failed,
                          ![req[q].task].key = @ \/ key]

\* The preflight fails, or the context cannot be assembled.
FailBeforeWorker(q) ==
  /\ req[q].stage \in {"preflight", "assembling"}
  /\ Result(q, TRUE, FALSE)
  /\ req' = [req EXCEPT ![q] = Free]
  /\ UNCHANGED <<task, runs, open, last, boot, stuck, resumes, restarts, beats, auditOf,
                 started, succeeded>>

\* The rest of the guard's actions leave this alone.
GuardFrame == UNCHANGED <<run, runs, open, last, boot, stuck, resumes, restarts, beats,
                          started, succeeded>>

\* incrementAndCheckSpawnCount refuses a blocked or escalated task.  No result
\* is written: the run goes on waiting.
RefuseSpawn(q) ==
  /\ req[q].stage = "preflight"
  /\ task[req[q].task].work \in {"blocked", "escalated"}
  /\ req' = [req EXCEPT ![q] = Free]
  /\ UNCHANGED <<task, auditOf>> /\ GuardFrame

\* Under the threshold: counted, and let through.
AdmitSpawn(q) ==
  LET t == req[q].task
  IN /\ req[q].stage = "preflight"
     /\ task[t].work \notin {"blocked", "escalated"}
     /\ task[t].fails + 1 < Threshold
     /\ task' = [task EXCEPT ![t].fails = @ + 1]
     /\ req' = [req EXCEPT ![q].stage = "assembling"]
     /\ UNCHANGED auditOf /\ GuardFrame

\* Mutant: an audit that fails too often is let through once more.
BlockAuditLate(q) ==
  LET t == req[q].task
  IN /\ req[q].stage = "preflight" /\ t \in Audit
     /\ task[t].work \notin {"blocked", "escalated"}
     /\ task[t].fails + 1 >= Threshold
     /\ task' = [task EXCEPT ![t].fails = @ + 1]
     /\ req' = [req EXCEPT ![q].stage = "assembling"]
     /\ UNCHANGED auditOf /\ GuardFrame

\* An audit is never audited: at the threshold it is blocked.
BlockAudit(q) ==
  LET t == req[q].task
  IN /\ req[q].stage = "preflight" /\ t \in Audit
     /\ task[t].work \notin {"blocked", "escalated"}
     /\ task[t].fails + 1 >= Threshold
     /\ task' = [task EXCEPT ![t].fails = @ + 1, ![t].work = "blocked"]
     /\ req' = [req EXCEPT ![q] = Free]
     /\ UNCHANGED auditOf /\ GuardFrame

\* routeToResearcherAudit
EscalateToAudit(q) ==
  LET t == req[q].task
  IN /\ req[q].stage = "preflight" /\ t \in Task
     /\ task[t].work \notin {"blocked", "escalated"}
     /\ task[t].fails + 1 >= Threshold
     /\ \E a \in Audit :
          /\ auditOf[a] = NoTask
          /\ auditOf' = [auditOf EXCEPT ![a] = t]
          /\ task' = [task EXCEPT ![t].fails = @ + 1, ![t].work = "escalated",
                                  ![a].status = "active"]
     /\ req' = [req EXCEPT ![q] = Free]
     /\ GuardFrame

StartWorker(q) ==
  /\ req[q].stage = "assembling"
  /\ req' = [req EXCEPT ![q].stage = "working"]
  /\ open' = open \cup {q}
  /\ started' = [a \in Audit |-> started[a] + IF a = req[q].task THEN 1 ELSE 0]
  /\ UNCHANGED <<task, run, runs, last, boot, stuck, resumes, restarts, beats, auditOf,
                 succeeded>>

\* Mutant: an agent that throws is recorded like one that returned.
WorkerFailsAsDone(q) ==
  LET t == req[q].task
  IN /\ req[q].stage = "working"
     /\ open' = open \ {q}
     /\ last' = [last EXCEPT ![t] = "succeeded"]
     /\ \E key \in BOOLEAN : Result(q, TRUE, key)
     /\ req' = [req EXCEPT ![q] = Free]
     /\ UNCHANGED <<task, runs, boot, stuck, resumes, restarts, beats, auditOf, started,
                    succeeded>>

\* runAgent returns a failure of the agent's own, an infrastructure failure,
\* a checkpoint, or throws: the task is left as it is.
WorkerFails(q) ==
  LET t == req[q].task
  IN /\ req[q].stage = "working"
     /\ open' = open \ {q}
     /\ \E f \in {"agent", "infra"} : last' = [last EXCEPT ![t] = f]
     /\ \E key \in BOOLEAN : Result(q, TRUE, key)
     /\ req' = [req EXCEPT ![q] = Free]
     /\ UNCHANGED <<task, runs, boot, stuck, resumes, restarts, beats, auditOf, started,
                    succeeded>>

\* The row is ended by its worker_id, also one a watchdog has ended before,
\* and the task is done, whatever it was.
WorkerSucceeds(q) ==
  LET t == req[q].task
  IN /\ req[q].stage = "working"
     /\ open' = open \ {q}
     /\ last' = [last EXCEPT ![t] = "succeeded"]
     /\ task' = [task EXCEPT ![t].work = "done"]
     /\ Result(q, FALSE, TRUE)
     /\ req' = [req EXCEPT ![q] = Free]
     /\ succeeded' = succeeded \cup {t}
     /\ UNCHANGED <<runs, boot, stuck, resumes, restarts, beats, auditOf, started>>

----------------------------------------------------------------------------
(* Watchdogs.  None of them stops the agent whose row it ends. *)

\* The row of q is closed, and its task reset if it is in progress.
CloseRow(q, crash) ==
  LET t == req[q].task
  IN /\ open' = open \ {q}
     /\ last' = [last EXCEPT ![t] = "infra"]
     /\ task' = IF task[t].work # "in_progress" THEN task
                ELSE [task EXCEPT ![t].work = "not_started", ![t].fails = @ - crash]

\* Phase 5d: the run waiting for the worker fails as well.
runStallWatchdog(q) ==
  /\ q \in open
  /\ CloseRow(q, Crash(req[q].task))
  /\ IF AtSpawn(req[q].task) THEN EndRun(req[q].task) ELSE UNCHANGED <<run, req, stuck>>
  /\ UNCHANGED <<runs, boot, resumes, restarts, beats, auditOf, started, succeeded>>

\* Phase 6: after 120 minutes, and not counted as a crash.
forceTerminateWorker(q) ==
  /\ q \in open
  /\ CloseRow(q, 0)
  /\ UNCHANGED <<run, runs, req, boot, stuck, resumes, restarts, beats, auditOf, started,
                 succeeded>>

\* Phase 5b: a run at a spawn node, silent for 2 minutes and without a session
\* key, is set failed; its request and its worker go on.
FailStaleRun(t) ==
  /\ AtSpawn(t) /\ ~run[t].key
  /\ EndRun(t)
  /\ UNCHANGED <<task, runs, open, last, boot, resumes, restarts, beats, auditOf, started,
                 succeeded>>

\* Mutant: the sweep looks only at tasks that have had a worker.
sweepOrphanedInProgressTasksLater(t) ==
  /\ Is(t, "active", "in_progress") /\ OpenRows(t) = {} /\ ~Active(t)
  /\ last[t] # "none"
  /\ task' = [task EXCEPT ![t].work = "not_started", ![t].fails = @ - Crash(t)]
  /\ UNCHANGED <<run, runs, req, open, last, boot, stuck, resumes, restarts, beats,
                 auditOf, started, succeeded>>

\* Phase 8b.
sweepOrphanedInProgressTasks(t) ==
  /\ Is(t, "active", "in_progress") /\ OpenRows(t) = {} /\ ~Active(t)
  /\ task' = [task EXCEPT ![t].work = "not_started", ![t].fails = @ - Crash(t)]
  /\ UNCHANGED <<run, runs, req, open, last, boot, stuck, resumes, restarts, beats,
                 auditOf, started, succeeded>>

\* Mutant: a task is closed by any ended row, not by a successful one.
autoCloseEndedTasks(t) ==
  /\ task[t].status = "active" /\ OpenRows(t) = {} /\ last[t] # "none"
  /\ \E s \in {"completed"} \cup (IF t \in Phantom THEN {"needs_review"} ELSE {}) :
       task' = [task EXCEPT ![t].status = s]
  /\ UNCHANGED <<run, runs, req, open, last, boot, stuck, resumes, restarts, beats,
                 auditOf, started, succeeded>>

\* Mutant: like the sweep, for tasks in progress.
autoCloseInProgressTasks(t) ==
  /\ Is(t, "active", "in_progress") /\ OpenRows(t) = {} /\ last[t] = "succeeded"
  /\ \E s \in {"completed"} \cup (IF t \in Phantom THEN {"needs_review"} ELSE {}) :
       task' = [task EXCEPT ![t].status = s]
  /\ UNCHANGED <<run, runs, req, open, last, boot, stuck, resumes, restarts, beats,
                 auditOf, started, succeeded>>

\* Phase 7: every row ended, the latest with success.  A phantom completion
\* is put up for review.
autoCloseSucceededTasks(t) ==
  /\ task[t].status = "active" /\ OpenRows(t) = {} /\ last[t] = "succeeded"
  /\ \E s \in {"completed"} \cup (IF t \in Phantom THEN {"needs_review"} ELSE {}) :
       task' = [task EXCEPT ![t].status = s]
  /\ UNCHANGED <<run, runs, req, open, last, boot, stuck, resumes, restarts, beats,
                 auditOf, started, succeeded>>

----------------------------------------------------------------------------
(* runHeartbeat, a cron job of every 5 minutes *)

\* Agents are started for active tasks that wait, whether blocked by others or
\* audits, without a run, a handler or a spawn count.  A row of theirs is left
\* open by whatever the agent returns: only a watchdog ends it.  A task with three
\* failed rows is put up for review; rows are not counted here, so any task with
\* an ended row may be.  At the end tasks with a success of the last 5 minutes
\* are completed.
Heartbeat ==
  LET ready == {t \in Work : Is(t, "active", "not_started")}
  IN /\ beats < MaxBeats /\ beats' = beats + 1
     /\ \E review \in SUBSET {t \in ready : last[t] # "none"}, rows \in SUBSET Unused :
          \E owner \in [rows -> ready \ review],
             recent \in SUBSET {t \in succeeded \ review : task[t].status = "active"} :
            /\ rows \cup review # {}
            /\ \A p, q \in rows : owner[p] = owner[q] => p = q
            /\ req' = [q \in Request |-> IF q \in rows THEN [Free EXCEPT !.task = owner[q]]
                                         ELSE req[q]]
            /\ open' = open \cup rows
            /\ task' = [t \in Work |->
                 CASE t \in review -> [task[t] EXCEPT !.status = "needs_review"]
                   [] t \in recent ->
                        [task[t] EXCEPT !.status = "completed", !.work = "done"]
                   [] OTHER -> task[t]]
     /\ UNCHANGED <<run, runs, last, boot, stuck, resumes, restarts, auditOf, started,
                    succeeded>>

----------------------------------------------------------------------------
(* A start of the process *)

\* Handlers and the queue are gone; rows, tasks and runs are in the database.
Die ==
  /\ restarts < MaxRestarts
  /\ restarts' = restarts + 1
  /\ req' = [q \in Request |-> IF q \in open THEN [Free EXCEPT !.task = req[q].task]
                               ELSE Free]
  /\ boot' = "restarted" /\ stuck' = {}
  /\ UNCHANGED <<runs, open, last, beats, auditOf, started, succeeded>>

\* npm start (main.ts): nothing is scheduled for resumption.
RestartMain ==
  /\ Die
  /\ resumes' = {}
  /\ UNCHANGED <<task, run>>

\* As a plugin (index.ts, register): tasks in progress are scheduled for
\* resumption by their open rows or reset, and old runs are cancelled.
RestartPlugin ==
  LET inProgress == {t \in Work : Is(t, "active", "in_progress")}
  IN /\ Die
     /\ resumes' = UNION {OpenRows(t) : t \in inProgress}
     /\ task' = [t \in Work |->
          IF t \in inProgress /\ OpenRows(t) = {}
            THEN [task[t] EXCEPT !.work = "not_started"] ELSE task[t]]
     /\ \E old \in SUBSET {t \in Work : Active(t)} :
          run' = [t \in Work |-> IF t \in old THEN NoRun ELSE run[t]]

\* failStaleSpawnRuns, from the first tick: the runs at spawn nodes are read ...
ReadStuckRuns ==
  /\ boot = "restarted"
  /\ boot' = "runs"
  /\ stuck' = {<<t, run[t].key>> : t \in {u \in Work : AtSpawn(u)}}
  /\ UNCHANGED <<task, run, runs, req, open, last, resumes, restarts, beats, auditOf,
                 started, succeeded>>

\* ... and each is failed: one without a session key at once, one with a key
\* because the gateway does not know the session of a native worker.  Then
\* the row of that worker is ended as failed, also if it had succeeded.
FailStuckRun(t, key) ==
  /\ boot = "runs" /\ <<t, key>> \in stuck
  /\ last' = IF key THEN [last EXCEPT ![t] = "infra"] ELSE last
  /\ EndRun(t)
  /\ UNCHANGED <<task, runs, open, boot, resumes, restarts, beats, auditOf, started,
                 succeeded>>

BeginResumes ==
  /\ boot = "runs" /\ stuck = {}
  /\ boot' = IF resumes = {} THEN "up" ELSE "resumes"
  /\ UNCHANGED <<task, run, runs, req, open, last, stuck, resumes, restarts, beats,
                 auditOf, started, succeeded>>

\* No token, or the gateway does not answer: every task scheduled for
\* resumption is reset, whatever it is by now, and its row stays open.
ResumeFails ==
  /\ boot = "resumes"
  /\ task' = [t \in Work |->
       IF \E q \in resumes : req[q].task = t
         THEN [task[t] EXCEPT !.work = "not_started"] ELSE task[t]]
  /\ resumes' = {} /\ boot' = "up"
  /\ UNCHANGED <<run, runs, req, open, last, stuck, restarts, beats, auditOf, started,
                 succeeded>>

\* The session is not among those of the gateway: the task is reset, whatever
\* it is by now, and the row ended.
ResumeDead(q) ==
  LET t == req[q].task
  IN /\ boot = "resumes" /\ q \in resumes
     /\ task' = [task EXCEPT ![t].work = "not_started"]
     /\ open' = open \ {q}
     /\ last' = [last EXCEPT ![t] = "infra"]
     /\ resumes' = resumes \ {q}
     /\ boot' = IF resumes' = {} THEN "up" ELSE boot
     /\ UNCHANGED <<run, runs, req, stuck, restarts, beats, auditOf, started, succeeded>>

----------------------------------------------------------------------------
Handler(q) ==
  \/ PassGates(q) \/ FailBeforeWorker(q)
  \/ RefuseSpawn(q) \/ AdmitSpawn(q) \/ BlockAudit(q) \/ EscalateToAudit(q)
  \/ StartWorker(q) \/ WorkerFails(q) \/ WorkerSucceeds(q)

Engine(t) == executeSpawnAgent(t) \/ CheckDone(t) \/ CheckFailed(t)

Boot ==
  \/ ReadStuckRuns \/ (\E t \in Work, key \in BOOLEAN : FailStuckRun(t, key))
  \/ BeginResumes \/ ResumeFails \/ (\E q \in Request : ResumeDead(q))

Watch(t) ==
  FailStaleRun(t) \/ sweepOrphanedInProgressTasks(t) \/ autoCloseSucceededTasks(t)

Next ==
  \/ \E t \in Work : StartRun(t) \/ Engine(t) \/ RetryBlocked(t) \/ Watch(t)
  \/ \E q \in Request :
       Handler(q) \/ runStallWatchdog(q) \/ forceTerminateWorker(q)
  \/ Heartbeat \/ RestartMain \/ RestartPlugin \/ Boot

Spec == Init /\ [][Next]_vars

\* The timer ticks and each tick looks at every task, run and row; every await
\* of a handler settles; the start's recovery goes on to its end.
Fairness ==
  /\ WF_vars(\E t \in Work : StartRun(t) \/ Engine(t) \/ Watch(t))
  /\ WF_vars(\E q \in Request : Handler(q)) /\ WF_vars(\E q \in Request : runStallWatchdog(q))
  /\ WF_vars(Boot)

FairSpec == Spec /\ Fairness

----------------------------------------------------------------------------
(* Properties *)

\* A task is completed only if an agent that worked on it has succeeded,
\* whatever watchdogs, restarts and retries did to its rows in between
\* (autoCloseSucceededTasks, _finishRun).
CompletedMeansSucceeded ==
  \A t \in Work : task[t].status = "completed" => t \in succeeded

\* Fewer agents than the threshold are ever dispatched for one audit, although
\* its failures are retried, its crashes swept and its rows mixed with those of
\* the heartbeat, whose agents nothing counts: the safety net itself cannot loop
\* (incrementAndCheckSpawnCount, routeToResearcherAudit).
AuditBounded == \A a \in Audit : started[a] < Threshold

\* A task that is active and in progress does not stay so: its worker ends, or
\* one of the watchdogs finds it (phases 5b, 5d, 6, 7 and 8b), also after a
\* restart.
NothingStaysInProgress ==
  \A t \in Work : Is(t, "active", "in_progress") ~> ~Is(t, "active", "in_progress")

\* A task left done by a worker is closed as long as its latest row is that of
\* the success, also when its row or its run had been ended before the worker
\* was (autoCloseSucceededTasks, _checkSpawnAgent).  A later row that fails, of
\* a worker started while the first was still at work, or a restart that ends
\* the successful row, leaves the task done and active for good.
Finished(t) == Is(t, "active", "done") /\ last[t] = "succeeded"

SuccessClosesTask == \A t \in Work : Finished(t) ~> ~Finished(t)
=============================================================================
