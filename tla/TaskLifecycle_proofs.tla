------------------------ MODULE TaskLifecycle_proofs ------------------------
(* Proofs about the life of a task.  That a completed task has succeeded is   *)
(* not inductive: tasks are closed by what else says "success", the work      *)
(* state "done" and the task's latest ended worker row.                       *)
EXTENDS TaskLifecycle, FiniteSetTheorems, TLAPS

\* What the proof needs of the types.
Rows ==
  /\ task \in [Work -> TaskRow]
  /\ last \in [Work -> {"none", "succeeded", "agent", "infra"}]

\* Whatever may close a task says that one of its workers succeeded.
Earned ==
  \A t \in Work :
    \/ task[t].status = "completed" \/ task[t].work \in {"done", "completed"}
    \/ last[t] = "succeeded"
    => t \in succeeded

\* A new count of failures, alone or with a new work state, keeps the type.
LEMMA CountWrite ==
  ASSUME NEW f \in [Work -> TaskRow], NEW t, NEW n \in Int, NEW w \in WorkState
  PROVE  /\ [f EXCEPT ![t].fails = n] \in [Work -> TaskRow]
         /\ [f EXCEPT ![t].fails = n, ![t].work = w] \in [Work -> TaskRow]
         /\ [f EXCEPT ![t].work = w, ![t].fails = n] \in [Work -> TaskRow]
<1>1. ASSUME NEW r \in TaskRow
      PROVE  /\ [r EXCEPT !.fails = n] \in TaskRow
             /\ [r EXCEPT !.work = w] \in TaskRow
  BY <1>1 DEF TaskRow
<1> QED
  BY <1>1

\* What the heartbeat writes: only successful tasks are completed, and only unused
\* requests become rows.
LEMMA HeartbeatWrites ==
  ASSUME Heartbeat
  PROVE  /\ \E review \in SUBSET Work, recent \in SUBSET succeeded :
              task' = [t \in Work |->
                 CASE t \in review -> [task[t] EXCEPT !.status = "needs_review"]
                   [] t \in recent ->
                        [task[t] EXCEPT !.status = "completed", !.work = "done"]
                   [] OTHER -> task[t]]
         /\ \E rows \in SUBSET Unused : \E owner \in [rows -> Work] :
              /\ req' = [q \in Request |-> IF q \in rows THEN [Free EXCEPT !.task = owner[q]]
                                           ELSE req[q]]
              /\ open' = open \cup rows
         /\ UNCHANGED <<run, runs, last, boot, stuck, resumes, restarts, auditOf, started>>
         /\ UNCHANGED succeeded
         /\ beats < MaxBeats /\ beats' = beats + 1
<1> DEFINE ready == {t \in Work : Is(t, "active", "not_started")}
<1> DEFINE Writes(review, rows, owner, recent) ==
          /\ rows \cup review # {}
          /\ \A p, q \in rows : owner[p] = owner[q] => p = q
          /\ req' = [q \in Request |-> IF q \in rows THEN [Free EXCEPT !.task = owner[q]]
                                       ELSE req[q]]
          /\ open' = open \cup rows
          /\ task' = [t \in Work |->
               CASE t \in review -> [task[t] EXCEPT !.status = "needs_review"]
                 [] t \in recent -> [task[t] EXCEPT !.status = "completed", !.work = "done"]
                 [] OTHER -> task[t]]
<1>1. \E review \in SUBSET {t \in ready : last[t] # "none"}, rows \in SUBSET Unused :
        \E owner \in [rows -> ready \ review],
           recent \in SUBSET {t \in succeeded \ review : task[t].status = "active"} :
          Writes(review, rows, owner, recent)
  BY Zenon DEF Heartbeat
<1> HIDE DEF ready, Writes
<1>2. PICK review \in SUBSET {t \in ready : last[t] # "none"}, rows \in SUBSET Unused :
        \E owner \in [rows -> ready \ review],
           recent \in SUBSET {t \in succeeded \ review : task[t].status = "active"} :
          Writes(review, rows, owner, recent)
  BY <1>1
<1>3. PICK owner \in [rows -> ready \ review],
           recent \in SUBSET {t \in succeeded \ review : task[t].status = "active"} :
          Writes(review, rows, owner, recent)
  BY <1>2
<1> USE DEF Writes
<1>4. review \in SUBSET Work /\ recent \in SUBSET succeeded /\ owner \in [rows -> Work]
  <2>1. ready \ review \subseteq Work
    BY DEF ready
  <2>2. owner \in [rows -> Work]
    BY <1>3, <2>1
  <2>3. review \in SUBSET Work
    BY DEF ready
  <2>4. recent \in SUBSET succeeded
    BY <1>3
  <2> QED
    BY <2>2, <2>3, <2>4
<1>5. \E v \in SUBSET Work, w \in SUBSET succeeded :
        task' = [t \in Work |->
           CASE t \in v -> [task[t] EXCEPT !.status = "needs_review"]
             [] t \in w -> [task[t] EXCEPT !.status = "completed", !.work = "done"]
             [] OTHER -> task[t]]
  BY <1>3, <1>4
<1>6. \E s \in SUBSET Unused : \E o \in [s -> Work] :
        /\ req' = [q \in Request |-> IF q \in s THEN [Free EXCEPT !.task = o[q]] ELSE req[q]]
        /\ open' = open \cup s
  BY <1>3, <1>4
<1>7. /\ UNCHANGED <<run, runs, last, boot, stuck, resumes, restarts, auditOf, started>>
      /\ UNCHANGED succeeded /\ beats < MaxBeats /\ beats' = beats + 1
  BY DEF Heartbeat
<1> QED
  BY <1>5, <1>6, <1>7

\* Every step keeps the rows' types and whatever closes a task earned.
LEMMA EarnedStep == Rows /\ Earned /\ [Next]_vars => Rows' /\ Earned'
<1> SUFFICES ASSUME Rows, Earned, [Next]_vars PROVE Rows' /\ Earned'
  OBVIOUS
<1>1. ASSUME NEW t \in Work, StartRun(t) PROVE Rows' /\ Earned'
  <2>1. Rows'
    BY <1>1 DEF Rows, TaskRow, WorkState, StartRun, Is
  <2>2. Earned'
    BY <1>1 DEF Rows, TaskRow, WorkState, Earned, StartRun, Is
  <2> QED
    BY <2>1, <2>2
<1>2. ASSUME NEW t \in Work, executeSpawnAgent(t) PROVE Rows' /\ Earned'
  <2>1. Rows'
    BY <1>2 DEF Rows, TaskRow, WorkState, executeSpawnAgent
  <2>2. Earned'
    BY <1>2 DEF Rows, TaskRow, WorkState, Earned, executeSpawnAgent
  <2> QED
    BY <2>1, <2>2
<1>3. ASSUME NEW t \in Work, CheckDone(t) PROVE Rows' /\ Earned'
  <2>1. Rows'
    BY <1>3 DEF Rows, TaskRow, WorkState, CheckDone, EndRun
  <2>2. Earned'
    BY <1>3 DEF Rows, TaskRow, WorkState, Earned, CheckDone, EndRun
  <2> QED
    BY <2>1, <2>2
<1>4. ASSUME NEW t \in Work, CheckFailed(t) PROVE Rows' /\ Earned'
  <2>1. Rows'
    BY <1>4 DEF Rows, TaskRow, WorkState, CheckFailed, EndRun
  <2>2. Earned'
    BY <1>4 DEF Rows, TaskRow, WorkState, Earned, CheckFailed, EndRun
  <2> QED
    BY <2>1, <2>2
<1>5. ASSUME NEW t \in Work, RetryBlocked(t) PROVE Rows' /\ Earned'
  <2>1. Rows'
    BY <1>5, LimitAssumption DEF Rows, TaskRow, WorkState, RetryBlocked, Is
  <2>2. Earned'
    BY <1>5 DEF Rows, TaskRow, WorkState, Earned, RetryBlocked, Is
  <2> QED
    BY <2>1, <2>2
<1>6. ASSUME NEW t \in Work, FailStaleRun(t) PROVE Rows' /\ Earned'
  <2>1. Rows'
    BY <1>6 DEF Rows, TaskRow, WorkState, FailStaleRun, EndRun
  <2>2. Earned'
    BY <1>6 DEF Rows, TaskRow, WorkState, Earned, FailStaleRun, EndRun
  <2> QED
    BY <2>1, <2>2
<1>7. ASSUME NEW t \in Work, sweepOrphanedInProgressTasks(t) PROVE Rows' /\ Earned'
  <2>1. Rows'
    <3>1. task[t].fails - Crash(t) \in Int
      BY DEF Rows, TaskRow, Crash
    <3> QED
      BY <1>7, <3>1, CountWrite DEF Rows, WorkState, sweepOrphanedInProgressTasks
  <2>2. Earned'
    BY <1>7 DEF Rows, TaskRow, WorkState, Earned, sweepOrphanedInProgressTasks, Crash, Is
  <2> QED
    BY <2>1, <2>2
<1>8. ASSUME NEW t \in Work, autoCloseSucceededTasks(t) PROVE Rows' /\ Earned'
  <2>1. Rows'
    BY <1>8 DEF Rows, TaskRow, WorkState, autoCloseSucceededTasks
  <2>2. Earned'
    BY <1>8 DEF Rows, TaskRow, WorkState, Earned, autoCloseSucceededTasks
  <2> QED
    BY <2>1, <2>2
<1>9. ASSUME NEW q \in Request, PassGates(q) PROVE Rows' /\ Earned'
  <2>1. Rows'
    BY <1>9 DEF Rows, TaskRow, WorkState, PassGates
  <2>2. Earned'
    BY <1>9 DEF Rows, TaskRow, WorkState, Earned, PassGates
  <2> QED
    BY <2>1, <2>2
<1>10. ASSUME NEW q \in Request, FailBeforeWorker(q) PROVE Rows' /\ Earned'
  <2>1. Rows'
    BY <1>10 DEF Rows, TaskRow, WorkState, FailBeforeWorker
  <2>2. Earned'
    BY <1>10 DEF Rows, TaskRow, WorkState, Earned, FailBeforeWorker
  <2> QED
    BY <2>1, <2>2
<1>11. ASSUME NEW q \in Request, RefuseSpawn(q) PROVE Rows' /\ Earned'
  <2>1. Rows'
    BY <1>11 DEF Rows, TaskRow, WorkState, RefuseSpawn, GuardFrame
  <2>2. Earned'
    BY <1>11 DEF Rows, TaskRow, WorkState, Earned, RefuseSpawn, GuardFrame
  <2> QED
    BY <2>1, <2>2
<1>12. ASSUME NEW q \in Request, AdmitSpawn(q) PROVE Rows' /\ Earned'
  <2>1. Rows'
    <3>1. CASE req[q].task \in Work
      <4>1. task[req[q].task].fails + 1 \in Int
        BY <3>1 DEF Rows, TaskRow
      <4> QED
        BY <1>12, <4>1, CountWrite DEF Rows, WorkState, AdmitSpawn, GuardFrame
    <3>2. CASE req[q].task \notin Work
      BY <1>12, <3>2 DEF Rows, AdmitSpawn, GuardFrame
    <3> QED
      BY <3>1, <3>2
  <2>2. Earned'
    BY <1>12 DEF Rows, TaskRow, WorkState, Earned, AdmitSpawn, GuardFrame
  <2> QED
    BY <2>1, <2>2
<1>13. ASSUME NEW q \in Request, BlockAudit(q) PROVE Rows' /\ Earned'
  <2>1. Rows'
    <3>1. task[req[q].task].fails + 1 \in Int
      BY <1>13 DEF Rows, TaskRow, BlockAudit, Work
    <3> QED
      BY <1>13, <3>1, CountWrite DEF Rows, WorkState, BlockAudit, GuardFrame
  <2>2. Earned'
    BY <1>13 DEF Rows, TaskRow, WorkState, Earned, BlockAudit, GuardFrame
  <2> QED
    BY <2>1, <2>2
<1>14. ASSUME NEW q \in Request, EscalateToAudit(q) PROVE Rows' /\ Earned'
  <2> DEFINE t == req[q].task
             new == [task EXCEPT ![t].fails = @ + 1, ![t].work = "escalated"]
  <2>1. PICK a \in Audit : task' = [new EXCEPT ![a].status = "active"]
    BY <1>14 DEF EscalateToAudit
  <2>2. t \in Work /\ UNCHANGED <<last, succeeded>>
    BY <1>14 DEF EscalateToAudit, GuardFrame, Work
  <2>3. task[t].fails + 1 \in Int
    BY <2>2 DEF Rows, TaskRow
  <2>4. new \in [Work -> TaskRow]
    BY <2>3, CountWrite DEF Rows, WorkState
  <2>5. \A u \in Work : /\ new[u].status = task[u].status
                        /\ new[u].work \in {task[u].work, "escalated"}
    BY <2>2 DEF Rows, TaskRow
  <2> HIDE DEF new, t
  <2>6. Rows'
    BY <2>1, <2>2, <2>4 DEF Rows, TaskRow, Work
  <2>7. \A u \in Work : /\ task'[u].status \in {task[u].status, "active"}
                        /\ task'[u].work \in {task[u].work, "escalated"}
    BY <2>1, <2>4, <2>5 DEF TaskRow
  <2>8. Earned'
    BY <2>2, <2>7 DEF Earned
  <2> QED
    BY <2>6, <2>8
<1>15. ASSUME NEW q \in Request, StartWorker(q) PROVE Rows' /\ Earned'
  <2>1. Rows'
    BY <1>15 DEF Rows, TaskRow, WorkState, StartWorker
  <2>2. Earned'
    BY <1>15 DEF Rows, TaskRow, WorkState, Earned, StartWorker
  <2> QED
    BY <2>1, <2>2
<1>16. ASSUME NEW q \in Request, WorkerFails(q) PROVE Rows' /\ Earned'
  <2>1. Rows'
    BY <1>16 DEF Rows, TaskRow, WorkState, WorkerFails
  <2>2. Earned'
    BY <1>16 DEF Rows, TaskRow, WorkState, Earned, WorkerFails
  <2> QED
    BY <2>1, <2>2
<1>17. ASSUME NEW q \in Request, WorkerSucceeds(q) PROVE Rows' /\ Earned'
  <2>1. Rows'
    BY <1>17 DEF Rows, TaskRow, WorkState, WorkerSucceeds
  <2>2. Earned'
    BY <1>17 DEF Rows, TaskRow, WorkState, Earned, WorkerSucceeds
  <2> QED
    BY <2>1, <2>2
<1>18. ASSUME NEW q \in Request, runStallWatchdog(q) PROVE Rows' /\ Earned'
  <2>1. Rows'
    <3>1. CASE req[q].task \in Work
      <4>1. task[req[q].task].fails - Crash(req[q].task) \in Int
        BY <3>1 DEF Rows, TaskRow, Crash
      <4> QED
        BY <1>18, <4>1, CountWrite DEF Rows, WorkState, runStallWatchdog, CloseRow
    <3>2. CASE req[q].task \notin Work
      BY <1>18, <3>2 DEF Rows, runStallWatchdog, CloseRow
    <3> QED
      BY <3>1, <3>2
  <2>2. Earned'
    BY <1>18 DEF Rows, TaskRow, WorkState, Earned, runStallWatchdog, CloseRow, Crash
  <2> QED
    BY <2>1, <2>2
<1>19. ASSUME NEW q \in Request, forceTerminateWorker(q) PROVE Rows' /\ Earned'
  <2>1. Rows'
    <3>1. CASE req[q].task \in Work
      <4>1. task[req[q].task].fails - 0 \in Int
        BY <3>1 DEF Rows, TaskRow, Crash
      <4> QED
        BY <1>19, <4>1, CountWrite DEF Rows, WorkState, forceTerminateWorker, CloseRow
    <3>2. CASE req[q].task \notin Work
      BY <1>19, <3>2 DEF Rows, forceTerminateWorker, CloseRow
    <3> QED
      BY <3>1, <3>2
  <2>2. Earned'
    BY <1>19 DEF Rows, TaskRow, WorkState, Earned, forceTerminateWorker, CloseRow, Crash
  <2> QED
    BY <2>1, <2>2
<1>20. CASE RestartMain
  <2>1. Rows'
    BY <1>20 DEF Rows, TaskRow, WorkState, RestartMain, Die
  <2>2. Earned'
    BY <1>20 DEF Rows, TaskRow, WorkState, Earned, RestartMain, Die
  <2> QED
    BY <2>1, <2>2
<1>21. CASE RestartPlugin
  <2>1. Rows'
    BY <1>21 DEF Rows, TaskRow, WorkState, RestartPlugin, Die, Is
  <2>2. Earned'
    BY <1>21 DEF Rows, TaskRow, WorkState, Earned, RestartPlugin, Die, Is
  <2> QED
    BY <2>1, <2>2
<1>22. CASE ReadStuckRuns
  <2>1. Rows'
    BY <1>22 DEF Rows, TaskRow, WorkState, ReadStuckRuns
  <2>2. Earned'
    BY <1>22 DEF Rows, TaskRow, WorkState, Earned, ReadStuckRuns
  <2> QED
    BY <2>1, <2>2
<1>23. ASSUME NEW t \in Work, NEW key \in BOOLEAN, FailStuckRun(t, key) PROVE Rows' /\ Earned'
  <2>1. Rows'
    BY <1>23 DEF Rows, TaskRow, WorkState, FailStuckRun
  <2>2. Earned'
    BY <1>23 DEF Rows, TaskRow, WorkState, Earned, FailStuckRun
  <2> QED
    BY <2>1, <2>2
<1>24. CASE BeginResumes
  <2>1. Rows'
    BY <1>24 DEF Rows, TaskRow, WorkState, BeginResumes
  <2>2. Earned'
    BY <1>24 DEF Rows, TaskRow, WorkState, Earned, BeginResumes
  <2> QED
    BY <2>1, <2>2
<1>25. CASE ResumeFails
  <2>1. Rows'
    BY <1>25 DEF Rows, TaskRow, WorkState, ResumeFails
  <2>2. Earned'
    BY <1>25 DEF Rows, TaskRow, WorkState, Earned, ResumeFails
  <2> QED
    BY <2>1, <2>2
<1>26. ASSUME NEW q \in Request, ResumeDead(q) PROVE Rows' /\ Earned'
  <2>1. Rows'
    BY <1>26 DEF Rows, TaskRow, WorkState, ResumeDead
  <2>2. Earned'
    BY <1>26 DEF Rows, TaskRow, WorkState, Earned, ResumeDead
  <2> QED
    BY <2>1, <2>2
<1>27. CASE UNCHANGED vars
  BY <1>27 DEF vars, Rows, Earned
<1>28. CASE Heartbeat
  <2>1. PICK review \in SUBSET Work, recent \in SUBSET succeeded :
          task' = [t \in Work |->
             CASE t \in review -> [task[t] EXCEPT !.status = "needs_review"]
               [] t \in recent -> [task[t] EXCEPT !.status = "completed", !.work = "done"]
               [] OTHER -> task[t]]
    BY <1>28, HeartbeatWrites
  <2>2. last' = last /\ succeeded' = succeeded
    BY <1>28, HeartbeatWrites
  <2>3. Rows'
    BY <2>1, <2>2 DEF Rows, TaskRow, WorkState
  <2>4. Earned'
    BY <2>1, <2>2 DEF Earned, Rows, TaskRow
  <2> QED
    BY <2>3, <2>4
<1> QED
  BY <1>1, <1>2, <1>3, <1>4, <1>5, <1>6, <1>7, <1>8, <1>9, <1>10, <1>11, <1>12, <1>13,
     <1>14, <1>15, <1>16, <1>17, <1>18, <1>19, <1>20, <1>21, <1>22, <1>23, <1>24, <1>25, <1>26, <1>27, <1>28
  DEF Next, Engine, Watch, Handler, Boot

\* A task is completed only if an agent that worked on it has succeeded, for
\* any tasks, audits, requests, limits and restarts (autoCloseSucceededTasks,
\* _finishRun).
THEOREM CompletionEarned == Spec => []CompletedMeansSucceeded
<1>1. Init => Rows /\ Earned
  BY LimitAssumption DEF Init, Rows, TaskRow, WorkState, Earned
<1>2. Rows /\ Earned => CompletedMeansSucceeded
  BY DEF Earned, CompletedMeansSucceeded
<1> QED
  BY <1>1, <1>2, EarnedStep, PTL DEF Spec

----------------------------------------------------------------------------
(* The bound on the agents of an audit needs those that were let through and  *)
(* have no worker yet: both together were counted in the audit's failures.    *)

\* What the second proof needs of the types.
Counts ==
  Rows /\ req \in [Request -> ReqRow] /\ started \in [Audit -> Nat]

\* The requests for task t that the guard has let through to their worker.
Admitted(t) == {q \in Request : req[q].stage = "assembling" /\ req[q].task = t}

\* The agents started or about to be started for an audit.
Agents(a) == started[a] + Cardinality(Admitted(a))

Within(a) == Agents(a) <= task[a].fails /\ Agents(a) < Threshold

LEMMA AdmittedFinite ==
  ASSUME NEW t PROVE IsFiniteSet(Admitted(t)) /\ Cardinality(Admitted(t)) \in Nat
<1>1. IsFiniteSet(Request)
  BY LimitAssumption, FS_Interval DEF Request
<1>2. IsFiniteSet(Admitted(t))
  BY <1>1, FS_Subset DEF Admitted
<1> QED
  BY <1>2, FS_CardinalityType

\* A step that lets nobody through and starts nobody keeps the bound, if it
\* takes nothing off the audit's failures.
LEMMA NobodyNew ==
  ASSUME Counts, Counts', NEW a \in Audit, Within(a), started'[a] = started[a],
         Admitted(a)' \subseteq Admitted(a), task'[a].fails >= task[a].fails
  PROVE  Within(a)'
<1>1. Cardinality(Admitted(a)') <= Cardinality(Admitted(a)) /\ Cardinality(Admitted(a)') \in Nat
  BY AdmittedFinite, FS_Subset, FS_CardinalityType
<1>2. Cardinality(Admitted(a)) \in Nat /\ started[a] \in Nat
  BY AdmittedFinite DEF Counts
<1>3. task[a].fails \in Int /\ task'[a].fails \in Int /\ Threshold \in Nat
  BY LimitAssumption DEF Counts, Rows, TaskRow, Work
<1> QED
  BY <1>1, <1>2, <1>3 DEF Within, Agents

\* An admission is counted before the agent is.
LEMMA OneAdmitted ==
  ASSUME Counts, Counts', NEW a \in Audit, Within(a), NEW q \in Request, started' = started,
         Admitted(a)' \subseteq Admitted(a) \cup {q},
         task'[a].fails = task[a].fails + 1, task[a].fails + 1 < Threshold
  PROVE  Within(a)'
<1>0. IsFiniteSet(Admitted(a)) /\ Cardinality(Admitted(a)) \in Nat
  BY AdmittedFinite
<1>a. /\ IsFiniteSet(Admitted(a) \cup {q})
      /\ Cardinality(Admitted(a) \cup {q}) =
           IF q \in Admitted(a) THEN Cardinality(Admitted(a)) ELSE Cardinality(Admitted(a)) + 1
  <2> HIDE DEF Admitted
  <2> QED
    BY ONLY <1>0, FS_AddElement
<1>1. /\ IsFiniteSet(Admitted(a) \cup {q})
      /\ Cardinality(Admitted(a) \cup {q}) <= Cardinality(Admitted(a)) + 1
  BY ONLY <1>0, <1>a
<1>2. /\ Cardinality(Admitted(a)') <= Cardinality(Admitted(a) \cup {q})
      /\ Cardinality(Admitted(a)') \in Nat
  BY <1>1, FS_Subset, FS_CardinalityType
<1>3. /\ Cardinality(Admitted(a)) \in Nat /\ started[a] \in Nat
      /\ Cardinality(Admitted(a) \cup {q}) \in Nat
  BY <1>1, AdmittedFinite, FS_CardinalityType DEF Counts
<1>4. task[a].fails \in Int /\ Threshold \in Nat
  BY LimitAssumption DEF Counts, Rows, TaskRow, Work
<1> QED
  BY <1>1, <1>2, <1>3, <1>4 DEF Within, Agents

\* A worker that starts was let through before.
LEMMA OneStarted ==
  ASSUME Counts, Counts', NEW a \in Audit, Within(a), NEW q \in Admitted(a),
         started'[a] = started[a] + 1, task'[a].fails = task[a].fails,
         Admitted(a)' = Admitted(a) \ {q}
  PROVE  Within(a)'
<1>1. Cardinality(Admitted(a)') = Cardinality(Admitted(a)) - 1
  BY AdmittedFinite, FS_RemoveElement
<1>2. Cardinality(Admitted(a)) \in Nat /\ started[a] \in Nat
  BY AdmittedFinite DEF Counts
<1> QED
  BY <1>1, <1>2 DEF Within, Agents


\* Every step keeps the type of requests and of the agents started.
LEMMA CountsStep == Counts /\ Rows' /\ [Next]_vars => Counts'
<1> SUFFICES ASSUME Counts, Rows', [Next]_vars PROVE Counts'
  OBVIOUS
<1> USE DEF Counts
<1>1. ASSUME NEW t \in Work, StartRun(t) PROVE Counts'
  BY <1>1 DEF StartRun
<1>2. ASSUME NEW t \in Work, executeSpawnAgent(t) PROVE Counts'
  BY <1>2 DEF executeSpawnAgent, Free, ReqRow
<1>3. ASSUME NEW t \in Work, CheckDone(t) PROVE Counts'
  BY <1>3 DEF CheckDone, EndRun, Disown, ReqRow
<1>4. ASSUME NEW t \in Work, CheckFailed(t) PROVE Counts'
  <2>1. started' = started /\ req' \in {req, Disown(t)}
    BY <1>4 DEF CheckFailed, EndRun
  <2>2. Disown(t) \in [Request -> ReqRow]
    BY DEF Disown, ReqRow
  <2> QED
    BY <2>1, <2>2
<1>5. ASSUME NEW t \in Work, RetryBlocked(t) PROVE Counts'
  BY <1>5 DEF RetryBlocked
<1>6. ASSUME NEW t \in Work, FailStaleRun(t) PROVE Counts'
  BY <1>6 DEF FailStaleRun, EndRun, Disown, ReqRow
<1>7. ASSUME NEW t \in Work, sweepOrphanedInProgressTasks(t) PROVE Counts'
  BY <1>7 DEF sweepOrphanedInProgressTasks
<1>8. ASSUME NEW t \in Work, autoCloseSucceededTasks(t) PROVE Counts'
  BY <1>8 DEF autoCloseSucceededTasks
<1>9. ASSUME NEW q \in Request, PassGates(q) PROVE Counts'
  BY <1>9 DEF PassGates, Free, ReqRow
<1>10. ASSUME NEW q \in Request, FailBeforeWorker(q) PROVE Counts'
  BY <1>10 DEF FailBeforeWorker, Free, ReqRow
<1>11. ASSUME NEW q \in Request, RefuseSpawn(q) PROVE Counts'
  BY <1>11 DEF RefuseSpawn, Free, GuardFrame, ReqRow
<1>12. ASSUME NEW q \in Request, AdmitSpawn(q) PROVE Counts'
  BY <1>12 DEF AdmitSpawn, Free, GuardFrame, ReqRow
<1>13. ASSUME NEW q \in Request, BlockAudit(q) PROVE Counts'
  BY <1>13 DEF BlockAudit, Free, GuardFrame, ReqRow
<1>14. ASSUME NEW q \in Request, EscalateToAudit(q) PROVE Counts'
  BY <1>14 DEF EscalateToAudit, Free, GuardFrame, ReqRow
<1>15. ASSUME NEW q \in Request, StartWorker(q) PROVE Counts'
  BY <1>15 DEF StartWorker, Free, ReqRow
<1>16. ASSUME NEW q \in Request, WorkerFails(q) PROVE Counts'
  BY <1>16 DEF WorkerFails, Free, ReqRow
<1>17. ASSUME NEW q \in Request, WorkerSucceeds(q) PROVE Counts'
  BY <1>17 DEF WorkerSucceeds, Free, ReqRow
<1>18. ASSUME NEW q \in Request, runStallWatchdog(q) PROVE Counts'
  <2>1. started' = started /\ req' \in {req, Disown(req[q].task)}
    BY <1>18 DEF runStallWatchdog, EndRun
  <2>2. Disown(req[q].task) \in [Request -> ReqRow]
    BY DEF Disown, ReqRow
  <2> QED
    BY <2>1, <2>2
<1>19. ASSUME NEW q \in Request, forceTerminateWorker(q) PROVE Counts'
  BY <1>19 DEF forceTerminateWorker
<1>20. CASE RestartMain
  BY <1>20 DEF RestartMain, Die, Free, ReqRow
<1>21. CASE RestartPlugin
  BY <1>21 DEF RestartPlugin, Die, Free, ReqRow
<1>22. CASE ReadStuckRuns
  BY <1>22 DEF ReadStuckRuns
<1>23. ASSUME NEW t \in Work, NEW key \in BOOLEAN, FailStuckRun(t, key) PROVE Counts'
  BY <1>23 DEF FailStuckRun, EndRun, Disown, ReqRow
<1>24. CASE BeginResumes
  BY <1>24 DEF BeginResumes
<1>25. CASE ResumeFails
  BY <1>25 DEF ResumeFails
<1>26. ASSUME NEW q \in Request, ResumeDead(q) PROVE Counts'
  BY <1>26 DEF ResumeDead
<1>27. CASE UNCHANGED vars
  BY <1>27 DEF vars
<1>28. CASE Heartbeat
  <2>1. started' = started
    BY <1>28, HeartbeatWrites
  <2>2. PICK rows \in SUBSET Unused : \E owner \in [rows -> Work] :
          req' = [q \in Request |-> IF q \in rows THEN [Free EXCEPT !.task = owner[q]]
                                   ELSE req[q]]
    BY <1>28, HeartbeatWrites
  <2>3. \A t \in Work : [Free EXCEPT !.task = t] \in ReqRow
    BY DEF Free, ReqRow
  <2>4. req' \in [Request -> ReqRow]
    BY <2>2, <2>3
  <2> QED
    BY <2>1, <2>4
<1> QED
  BY <1>1, <1>2, <1>3, <1>4, <1>5, <1>6, <1>7, <1>8, <1>9, <1>10, <1>11, <1>12, <1>13,
     <1>14, <1>15, <1>16, <1>17, <1>18, <1>19, <1>20, <1>21, <1>22, <1>23, <1>24, <1>25, <1>26, <1>27, <1>28
  DEF Next, Engine, Watch, Handler, Boot

\* Every step keeps the bound of every audit.
LEMMA WithinStep ==
  ASSUME Counts, Counts', [Next]_vars, NEW a \in Audit, Within(a)
  PROVE  Within(a)'
<1> USE DEF Counts, Admitted
<1>1. ASSUME NEW t \in Work, StartRun(t) PROVE Within(a)'
  <2>1. started' = started
    BY <1>1 DEF StartRun
  <2>2. Admitted(a)' \subseteq Admitted(a)
    BY <1>1 DEF StartRun, ReqRow
  <2>3. task'[a].fails >= task[a].fails
    BY <1>1, TaskAssumption DEF StartRun, Is, Rows, TaskRow, Work
  <2> QED
    BY <2>1, <2>2, <2>3, NobodyNew
<1>2. ASSUME NEW t \in Work, executeSpawnAgent(t) PROVE Within(a)'
  <2>1. started' = started
    BY <1>2 DEF executeSpawnAgent
  <2>2. Admitted(a)' \subseteq Admitted(a)
    BY <1>2 DEF executeSpawnAgent, Free, ReqRow
  <2>3. task'[a].fails = task[a].fails
    BY <1>2 DEF executeSpawnAgent
  <2> QED
    BY <2>1, <2>2, <2>3, NobodyNew DEF Rows, TaskRow, Work
<1>3. ASSUME NEW t \in Work, CheckDone(t) PROVE Within(a)'
  <2>1. started' = started
    BY <1>3 DEF CheckDone
  <2>2. Admitted(a)' \subseteq Admitted(a)
    BY <1>3 DEF CheckDone, EndRun, Disown, ReqRow
  <2>3. task'[a].fails >= task[a].fails
    BY <1>3, TaskAssumption DEF CheckDone, Rows, TaskRow, Work
  <2> QED
    BY <2>1, <2>2, <2>3, NobodyNew
<1>4. ASSUME NEW t \in Work, CheckFailed(t) PROVE Within(a)'
  <2>1. started' = started
    BY <1>4 DEF CheckFailed
  <2>2. Admitted(a)' \subseteq Admitted(a)
    BY <1>4 DEF CheckFailed, EndRun, Disown, ReqRow
  <2>3. task'[a].fails >= task[a].fails
    BY <1>4, TaskAssumption DEF CheckFailed, Rows, TaskRow, Work
  <2> QED
    BY <2>1, <2>2, <2>3, NobodyNew
<1>5. ASSUME NEW t \in Work, RetryBlocked(t) PROVE Within(a)'
  <2>1. started' = started
    BY <1>5 DEF RetryBlocked
  <2>2. Admitted(a)' \subseteq Admitted(a)
    BY <1>5 DEF RetryBlocked, ReqRow
  <2>3. task'[a].fails >= task[a].fails
    BY <1>5, TaskAssumption DEF RetryBlocked, Is, Rows, TaskRow, Work
  <2> QED
    BY <2>1, <2>2, <2>3, NobodyNew
<1>6. ASSUME NEW t \in Work, FailStaleRun(t) PROVE Within(a)'
  <2>1. started' = started
    BY <1>6 DEF FailStaleRun
  <2>2. Admitted(a)' \subseteq Admitted(a)
    BY <1>6 DEF FailStaleRun, EndRun, Disown, ReqRow
  <2>3. task'[a].fails = task[a].fails
    BY <1>6 DEF FailStaleRun
  <2> QED
    BY <2>1, <2>2, <2>3, NobodyNew DEF Rows, TaskRow, Work
<1>7. ASSUME NEW t \in Work, sweepOrphanedInProgressTasks(t) PROVE Within(a)'
  <2>1. started' = started
    BY <1>7 DEF sweepOrphanedInProgressTasks
  <2>2. Admitted(a)' \subseteq Admitted(a)
    BY <1>7 DEF sweepOrphanedInProgressTasks, ReqRow
  <2>3. task'[a].fails >= task[a].fails
    BY <1>7, TaskAssumption DEF sweepOrphanedInProgressTasks, Crash, Is, Rows, TaskRow, Work
  <2> QED
    BY <2>1, <2>2, <2>3, NobodyNew
<1>8. ASSUME NEW t \in Work, autoCloseSucceededTasks(t) PROVE Within(a)'
  <2>1. started' = started
    BY <1>8 DEF autoCloseSucceededTasks
  <2>2. Admitted(a)' \subseteq Admitted(a)
    BY <1>8 DEF autoCloseSucceededTasks, ReqRow
  <2>3. task'[a].fails >= task[a].fails
    BY <1>8, TaskAssumption DEF autoCloseSucceededTasks, Rows, TaskRow, Work
  <2> QED
    BY <2>1, <2>2, <2>3, NobodyNew
<1>9. ASSUME NEW q \in Request, PassGates(q) PROVE Within(a)'
  <2>1. started' = started
    BY <1>9 DEF PassGates
  <2>2. Admitted(a)' \subseteq Admitted(a)
    BY <1>9 DEF PassGates, Free, ReqRow
  <2>3. task'[a].fails = task[a].fails
    BY <1>9 DEF PassGates
  <2> QED
    BY <2>1, <2>2, <2>3, NobodyNew DEF Rows, TaskRow, Work
<1>10. ASSUME NEW q \in Request, FailBeforeWorker(q) PROVE Within(a)'
  <2>1. started' = started
    BY <1>10 DEF FailBeforeWorker
  <2>2. Admitted(a)' \subseteq Admitted(a)
    BY <1>10 DEF FailBeforeWorker, Free, ReqRow
  <2>3. task'[a].fails = task[a].fails
    BY <1>10 DEF FailBeforeWorker
  <2> QED
    BY <2>1, <2>2, <2>3, NobodyNew DEF Rows, TaskRow, Work
<1>11. ASSUME NEW q \in Request, RefuseSpawn(q) PROVE Within(a)'
  <2>1. started' = started
    BY <1>11 DEF RefuseSpawn, GuardFrame
  <2>2. Admitted(a)' \subseteq Admitted(a)
    BY <1>11 DEF RefuseSpawn, Free, GuardFrame, ReqRow
  <2>3. task'[a].fails = task[a].fails
    BY <1>11 DEF RefuseSpawn, GuardFrame
  <2> QED
    BY <2>1, <2>2, <2>3, NobodyNew DEF Rows, TaskRow, Work
<1>12. ASSUME NEW q \in Request, AdmitSpawn(q) PROVE Within(a)'
  <2>1. started' = started
    BY <1>12 DEF AdmitSpawn, GuardFrame
  <2>2. CASE req[q].task = a
    <3>1. /\ task'[a].fails = task[a].fails + 1 /\ task[a].fails + 1 < Threshold
          /\ Admitted(a)' \subseteq Admitted(a) \cup {q}
      BY <1>12, <2>2 DEF AdmitSpawn, Rows, TaskRow, ReqRow, Work
    <3> QED
      BY <2>1, <3>1, OneAdmitted
  <2>3. CASE req[q].task # a
    <3>1. task'[a].fails = task[a].fails /\ Admitted(a)' \subseteq Admitted(a)
      BY <1>12, <2>3 DEF AdmitSpawn, Rows, TaskRow, ReqRow, Work
    <3>2. task'[a].fails >= task[a].fails
      BY <3>1 DEF Rows, TaskRow, Work
    <3> QED
      BY <2>1, <3>1, <3>2, NobodyNew
  <2> QED
    BY <2>2, <2>3
<1>13. ASSUME NEW q \in Request, BlockAudit(q) PROVE Within(a)'
  <2>1. started' = started
    BY <1>13 DEF BlockAudit, GuardFrame
  <2>2. Admitted(a)' \subseteq Admitted(a)
    BY <1>13 DEF BlockAudit, Free, GuardFrame, ReqRow
  <2>3. task'[a].fails >= task[a].fails
    BY <1>13, TaskAssumption DEF BlockAudit, Rows, TaskRow, Work
  <2> QED
    BY <2>1, <2>2, <2>3, NobodyNew
<1>14. ASSUME NEW q \in Request, EscalateToAudit(q) PROVE Within(a)'
  <2>1. started' = started
    BY <1>14 DEF EscalateToAudit, GuardFrame
  <2>2. Admitted(a)' \subseteq Admitted(a)
    BY <1>14 DEF EscalateToAudit, Free, GuardFrame, ReqRow
  <2>3. task'[a].fails >= task[a].fails
    <3> DEFINE new == [task EXCEPT ![req[q].task].fails = @ + 1,
                                   ![req[q].task].work = "escalated"]
    <3>1. PICK b \in Audit : task' = [new EXCEPT ![b].status = "active"]
      BY <1>14 DEF EscalateToAudit
    <3>2. req[q].task # a
      BY <1>14, TaskAssumption DEF EscalateToAudit
    <3>3. new[a] = task[a] /\ task[a] \in TaskRow /\ new[a].fails = task[a].fails
      BY <3>2 DEF Rows, Work
    <3>4. task'[a].fails = task[a].fails
      BY <3>1, <3>3 DEF Rows, TaskRow, Work
    <3> QED
      BY <3>3, <3>4 DEF TaskRow
  <2> QED
    BY <2>1, <2>2, <2>3, NobodyNew
<1>15. ASSUME NEW q \in Request, StartWorker(q) PROVE Within(a)'
  <2>1. task' = task
    BY <1>15 DEF StartWorker
  <2>2. CASE req[q].task = a
    <3>1. /\ q \in Admitted(a) /\ started'[a] = started[a] + 1
          /\ Admitted(a)' = Admitted(a) \ {q}
      BY <1>15, <2>2 DEF StartWorker, ReqRow
    <3> QED
      BY <2>1, <3>1, OneStarted
  <2>3. CASE req[q].task # a
    <3>1. Admitted(a)' \subseteq Admitted(a)
      BY <1>15 DEF StartWorker, ReqRow
    <3>2. started'[a] = started[a]
      BY <1>15, <2>3 DEF StartWorker
    <3>3. task'[a].fails >= task[a].fails
      BY <2>1 DEF Rows, TaskRow, Work
    <3> QED
      BY <3>1, <3>2, <3>3, NobodyNew
  <2> QED
    BY <2>2, <2>3
<1>16. ASSUME NEW q \in Request, WorkerFails(q) PROVE Within(a)'
  <2>1. started' = started
    BY <1>16 DEF WorkerFails
  <2>2. Admitted(a)' \subseteq Admitted(a)
    BY <1>16 DEF WorkerFails, Free, ReqRow
  <2>3. task'[a].fails = task[a].fails
    BY <1>16 DEF WorkerFails
  <2> QED
    BY <2>1, <2>2, <2>3, NobodyNew DEF Rows, TaskRow, Work
<1>17. ASSUME NEW q \in Request, WorkerSucceeds(q) PROVE Within(a)'
  <2>1. started' = started
    BY <1>17 DEF WorkerSucceeds
  <2>2. Admitted(a)' \subseteq Admitted(a)
    BY <1>17 DEF WorkerSucceeds, Free, ReqRow
  <2>3. task'[a].fails >= task[a].fails
    BY <1>17, TaskAssumption DEF WorkerSucceeds, Rows, TaskRow, Work
  <2> QED
    BY <2>1, <2>2, <2>3, NobodyNew
<1>18. ASSUME NEW q \in Request, runStallWatchdog(q) PROVE Within(a)'
  <2>1. started' = started
    BY <1>18 DEF runStallWatchdog
  <2>2. Admitted(a)' \subseteq Admitted(a)
    BY <1>18 DEF runStallWatchdog, EndRun, Disown, ReqRow
  <2>3. task'[a].fails >= task[a].fails
    BY <1>18, TaskAssumption DEF runStallWatchdog, CloseRow, Crash, Rows, TaskRow, Work
  <2> QED
    BY <2>1, <2>2, <2>3, NobodyNew
<1>19. ASSUME NEW q \in Request, forceTerminateWorker(q) PROVE Within(a)'
  <2>1. started' = started
    BY <1>19 DEF forceTerminateWorker
  <2>2. Admitted(a)' \subseteq Admitted(a)
    BY <1>19 DEF forceTerminateWorker, ReqRow
  <2>3. task'[a].fails >= task[a].fails
    BY <1>19, TaskAssumption DEF forceTerminateWorker, CloseRow, Crash, Rows, TaskRow, Work
  <2> QED
    BY <2>1, <2>2, <2>3, NobodyNew
<1>20. CASE RestartMain
  <2>1. started' = started
    BY <1>20 DEF RestartMain, Die
  <2>2. Admitted(a)' \subseteq Admitted(a)
    BY <1>20 DEF RestartMain, Die, Free, ReqRow
  <2>3. task'[a].fails = task[a].fails
    BY <1>20 DEF RestartMain
  <2> QED
    BY <2>1, <2>2, <2>3, NobodyNew DEF Rows, TaskRow, Work
<1>21. CASE RestartPlugin
  <2>1. started' = started
    BY <1>21 DEF RestartPlugin, Die
  <2>2. Admitted(a)' \subseteq Admitted(a)
    BY <1>21 DEF RestartPlugin, Die, Free, ReqRow
  <2>3. task'[a].fails >= task[a].fails
    BY <1>21, TaskAssumption DEF RestartPlugin, Is, Rows, TaskRow, Work
  <2> QED
    BY <2>1, <2>2, <2>3, NobodyNew
<1>22. CASE ReadStuckRuns
  <2>1. started' = started
    BY <1>22 DEF ReadStuckRuns
  <2>2. Admitted(a)' \subseteq Admitted(a)
    BY <1>22 DEF ReadStuckRuns, ReqRow
  <2>3. task'[a].fails = task[a].fails
    BY <1>22 DEF ReadStuckRuns
  <2> QED
    BY <2>1, <2>2, <2>3, NobodyNew DEF Rows, TaskRow, Work
<1>23. ASSUME NEW t \in Work, NEW key \in BOOLEAN, FailStuckRun(t, key) PROVE Within(a)'
  <2>1. started' = started
    BY <1>23 DEF FailStuckRun
  <2>2. Admitted(a)' \subseteq Admitted(a)
    BY <1>23 DEF FailStuckRun, EndRun, Disown, ReqRow
  <2>3. task'[a].fails = task[a].fails
    BY <1>23 DEF FailStuckRun
  <2> QED
    BY <2>1, <2>2, <2>3, NobodyNew DEF Rows, TaskRow, Work
<1>24. CASE BeginResumes
  <2>1. started' = started
    BY <1>24 DEF BeginResumes
  <2>2. Admitted(a)' \subseteq Admitted(a)
    BY <1>24 DEF BeginResumes, ReqRow
  <2>3. task'[a].fails = task[a].fails
    BY <1>24 DEF BeginResumes
  <2> QED
    BY <2>1, <2>2, <2>3, NobodyNew DEF Rows, TaskRow, Work
<1>25. CASE ResumeFails
  <2>1. started' = started
    BY <1>25 DEF ResumeFails
  <2>2. Admitted(a)' \subseteq Admitted(a)
    BY <1>25 DEF ResumeFails, ReqRow
  <2>3. task'[a].fails >= task[a].fails
    BY <1>25, TaskAssumption DEF ResumeFails, Rows, TaskRow, Work
  <2> QED
    BY <2>1, <2>2, <2>3, NobodyNew
<1>26. ASSUME NEW q \in Request, ResumeDead(q) PROVE Within(a)'
  <2>1. started' = started
    BY <1>26 DEF ResumeDead
  <2>2. Admitted(a)' \subseteq Admitted(a)
    BY <1>26 DEF ResumeDead, ReqRow
  <2>3. task'[a].fails >= task[a].fails
    BY <1>26, TaskAssumption DEF ResumeDead, Rows, TaskRow, Work
  <2> QED
    BY <2>1, <2>2, <2>3, NobodyNew
<1>27. CASE UNCHANGED vars
  BY <1>27 DEF vars, Within, Agents
<1>28. CASE Heartbeat
  <2>1. started' = started
    BY <1>28, HeartbeatWrites
  <2>2. Admitted(a)' \subseteq Admitted(a)
    <3>1. PICK rows \in SUBSET Unused : \E owner \in [rows -> Work] :
            req' = [q \in Request |-> IF q \in rows THEN [Free EXCEPT !.task = owner[q]]
                                     ELSE req[q]]
      BY <1>28, HeartbeatWrites
    <3> QED
      BY <3>1 DEF Free, ReqRow
  <2>3. task'[a].fails >= task[a].fails
    <3>1. PICK review \in SUBSET Work, recent \in SUBSET succeeded :
            task' = [t \in Work |->
               CASE t \in review -> [task[t] EXCEPT !.status = "needs_review"]
                 [] t \in recent -> [task[t] EXCEPT !.status = "completed", !.work = "done"]
                 [] OTHER -> task[t]]
      BY <1>28, HeartbeatWrites
    <3>2. task[a] \in TaskRow /\ a \in Work
      BY DEF Counts, Rows, Work
    <3>3. task'[a].fails = task[a].fails
      BY <3>1, <3>2 DEF TaskRow
    <3> QED
      BY <3>2, <3>3 DEF TaskRow
  <2> QED
    BY <2>1, <2>2, <2>3, NobodyNew
<1> QED
  BY <1>1, <1>2, <1>3, <1>4, <1>5, <1>6, <1>7, <1>8, <1>9, <1>10, <1>11, <1>12, <1>13,
     <1>14, <1>15, <1>16, <1>17, <1>18, <1>19, <1>20, <1>21, <1>22, <1>23, <1>24, <1>25, <1>26, <1>27, <1>28
  DEF Next, Engine, Watch, Handler, Boot

\* Fewer agents than the threshold are started for one audit, for any limits,
\* requests, watchdogs and restarts (incrementAndCheckSpawnCount).
THEOREM AuditsBounded == Spec => []AuditBounded
<1> DEFINE AuditInv == Earned /\ Counts /\ \A a \in Audit : Within(a)
<1>1. Init => AuditInv
  <2> SUFFICES ASSUME Init PROVE AuditInv
    OBVIOUS
  <2>1. Rows /\ Earned
    BY LimitAssumption DEF Init, Rows, TaskRow, WorkState, Earned
  <2>2. Counts
    BY <2>1 DEF Init, Counts, ReqRow, Free
  <2>3. ASSUME NEW a \in Audit PROVE Within(a)
    <3>1. Admitted(a) = {}
      BY DEF Init, Admitted, Free
    <3> QED
      BY <3>1, LimitAssumption, FS_EmptySet DEF Init, Within, Agents, Work
  <2> QED
    BY <2>1, <2>2, <2>3
<1>2. AuditInv /\ [Next]_vars => AuditInv'
  BY EarnedStep, CountsStep, WithinStep DEF Counts
<1>3. AuditInv => AuditBounded
  <2> SUFFICES ASSUME AuditInv, NEW a \in Audit PROVE started[a] < Threshold
    BY DEF AuditBounded
  <2>1. started[a] \in Nat /\ Cardinality(Admitted(a)) \in Nat /\ Threshold \in Nat
    BY AdmittedFinite, LimitAssumption DEF Counts
  <2> QED
    BY <2>1 DEF Within, Agents
<1> QED
  BY <1>1, <1>2, <1>3, PTL DEF Spec

----------------------------------------------------------------------------
(* Type correctness.  A spawn node is executed again only while its retries   *)
(* last, and a request in use is for a task.                                  *)

RunsTyped ==
  /\ run \in [Work -> RunRow]
  /\ \A t \in Work : run[t].st = "pending" => run[t].tries <= Retry

RequestsOwned == \A q \in Request : req[q].stage # "idle" => req[q].task \in Work

OthersTyped ==
  /\ runs \in [Work -> Nat] /\ open \subseteq Request
  /\ boot \in {"up", "restarted", "runs", "resumes"}
  /\ stuck \subseteq Work \X BOOLEAN /\ resumes \subseteq Request
  /\ restarts \in 0 .. MaxRestarts /\ beats \in 0 .. MaxBeats
  /\ auditOf \in [Audit -> Task \cup {NoTask}]
  /\ succeeded \subseteq Work

\* A run ends, whatever it was.
LEMMA RunEnded ==
  ASSUME RunsTyped, NEW t, run' = [run EXCEPT ![t] = NoRun]
  PROVE  RunsTyped'
<1>1. NoRun \in RunRow /\ NoRun.st # "pending"
  BY LimitAssumption DEF NoRun, RunRow
<1> QED
  BY <1>1 DEF RunsTyped

\* A handler's result leaves the stage and the tries of the run.
LEMMA RunAnswered ==
  ASSUME RunsTyped, NEW q \in Request, NEW failed \in BOOLEAN, NEW key \in BOOLEAN,
         Result(q, failed, key)
  PROVE  RunsTyped'
<1> DEFINE t == req[q].task
           new == [run[t] EXCEPT !.failed = @ \/ failed, !.key = @ \/ key]
<1>1. CASE ~req[q].own \/ t \notin Work
  <2>1. run' = run
    BY <1>1 DEF Result, RunsTyped
  <2> QED
    BY <2>1 DEF RunsTyped
<1>2. CASE req[q].own /\ t \in Work
  <2>1. run' = [run EXCEPT ![t] = new]
    BY <1>2 DEF Result, RunsTyped, RunRow
  <2>2. new \in RunRow /\ new.st = run[t].st /\ new.tries = run[t].tries
    BY <1>2 DEF RunsTyped, RunRow
  <2> HIDE DEF new
  <2> QED
    BY <1>2, <2>1, <2>2 DEF RunsTyped
<1> QED
  BY <1>1, <1>2


\* Every step keeps the type of the runs.
LEMMA RunsStep ==
  RunsTyped /\ [Next]_vars => RunsTyped'
<1> SUFFICES ASSUME RunsTyped, [Next]_vars PROVE RunsTyped'
  OBVIOUS
<1> USE DEF RunsTyped
<1>1. ASSUME NEW t \in Work, StartRun(t) PROVE RunsTyped'
  <2>1. NoRun \in RunRow /\ NoRun.tries <= Retry
    BY LimitAssumption DEF NoRun, RunRow
  <2>2. [NoRun EXCEPT !.st = "pending"] \in RunRow
    BY <2>1 DEF RunRow
  <2>3. [NoRun EXCEPT !.st = "pending"].tries <= Retry
    BY <2>1 DEF RunRow
  <2>4. run' = [run EXCEPT ![t] = [NoRun EXCEPT !.st = "pending"]]
    BY <1>1 DEF StartRun
  <2> QED
    BY <2>2, <2>3, <2>4
<1>2. ASSUME NEW t \in Work, executeSpawnAgent(t) PROVE RunsTyped'
  BY <1>2, LimitAssumption DEF executeSpawnAgent, RunRow, NoRun
<1>3. ASSUME NEW t \in Work, CheckDone(t) PROVE RunsTyped'
  BY <1>3, RunEnded DEF CheckDone, EndRun
<1>4. ASSUME NEW t \in Work, CheckFailed(t) PROVE RunsTyped'
  <2>1. CASE run[t].tries <= Retry
    <3>1. run' = [run EXCEPT ![t].st = "pending"]
      BY <1>4, <2>1 DEF CheckFailed
    <3> QED
      BY <2>1, <3>1 DEF RunRow
  <2>2. CASE ~(run[t].tries <= Retry)
    BY <1>4, <2>2, RunEnded DEF CheckFailed, EndRun
  <2> QED
    BY <2>1, <2>2
<1>5. ASSUME NEW t \in Work, RetryBlocked(t) PROVE RunsTyped'
  BY <1>5, LimitAssumption DEF RetryBlocked, RunRow, NoRun
<1>6. ASSUME NEW t \in Work, FailStaleRun(t) PROVE RunsTyped'
  BY <1>6, RunEnded DEF FailStaleRun, EndRun
<1>7. ASSUME NEW t \in Work, sweepOrphanedInProgressTasks(t) PROVE RunsTyped'
  BY <1>7, LimitAssumption DEF sweepOrphanedInProgressTasks, RunRow, NoRun
<1>8. ASSUME NEW t \in Work, autoCloseSucceededTasks(t) PROVE RunsTyped'
  BY <1>8, LimitAssumption DEF autoCloseSucceededTasks, RunRow, NoRun
<1>9. ASSUME NEW q \in Request, PassGates(q) PROVE RunsTyped'
  BY <1>9, LimitAssumption DEF PassGates, RunRow, NoRun
<1>10. ASSUME NEW q \in Request, FailBeforeWorker(q) PROVE RunsTyped'
  BY <1>10, RunAnswered DEF FailBeforeWorker
<1>11. ASSUME NEW q \in Request, RefuseSpawn(q) PROVE RunsTyped'
  BY <1>11, LimitAssumption DEF RefuseSpawn, GuardFrame, RunRow, NoRun
<1>12. ASSUME NEW q \in Request, AdmitSpawn(q) PROVE RunsTyped'
  BY <1>12, LimitAssumption DEF AdmitSpawn, GuardFrame, RunRow, NoRun
<1>13. ASSUME NEW q \in Request, BlockAudit(q) PROVE RunsTyped'
  BY <1>13, LimitAssumption DEF BlockAudit, GuardFrame, RunRow, NoRun
<1>14. ASSUME NEW q \in Request, EscalateToAudit(q) PROVE RunsTyped'
  BY <1>14, LimitAssumption DEF EscalateToAudit, GuardFrame, RunRow, NoRun
<1>15. ASSUME NEW q \in Request, StartWorker(q) PROVE RunsTyped'
  BY <1>15, LimitAssumption DEF StartWorker, RunRow, NoRun
<1>16. ASSUME NEW q \in Request, WorkerFails(q) PROVE RunsTyped'
  BY <1>16, RunAnswered DEF WorkerFails
<1>17. ASSUME NEW q \in Request, WorkerSucceeds(q) PROVE RunsTyped'
  BY <1>17, RunAnswered DEF WorkerSucceeds
<1>18. ASSUME NEW q \in Request, runStallWatchdog(q) PROVE RunsTyped'
  BY <1>18, RunEnded DEF runStallWatchdog, EndRun
<1>19. ASSUME NEW q \in Request, forceTerminateWorker(q) PROVE RunsTyped'
  BY <1>19, LimitAssumption DEF forceTerminateWorker, CloseRow, RunRow, NoRun
<1>20. CASE RestartMain
  BY <1>20, LimitAssumption DEF RestartMain, Die, RunRow, NoRun
<1>21. CASE RestartPlugin
  BY <1>21, LimitAssumption DEF RestartPlugin, Die, OpenRows, RunRow, NoRun
<1>22. CASE ReadStuckRuns
  BY <1>22, LimitAssumption DEF ReadStuckRuns, RunRow, NoRun
<1>23. ASSUME NEW t \in Work, NEW key \in BOOLEAN, FailStuckRun(t, key) PROVE RunsTyped'
  BY <1>23, RunEnded DEF FailStuckRun, EndRun
<1>24. CASE BeginResumes
  BY <1>24, LimitAssumption DEF BeginResumes, RunRow, NoRun
<1>25. CASE ResumeFails
  BY <1>25, LimitAssumption DEF ResumeFails, RunRow, NoRun
<1>26. ASSUME NEW q \in Request, ResumeDead(q) PROVE RunsTyped'
  BY <1>26, LimitAssumption DEF ResumeDead, RunRow, NoRun
<1>27. CASE UNCHANGED vars
  BY <1>27 DEF vars
<1>28. CASE Heartbeat
  BY <1>28, HeartbeatWrites
<1> QED
  BY <1>1, <1>2, <1>3, <1>4, <1>5, <1>6, <1>7, <1>8, <1>9, <1>10, <1>11, <1>12, <1>13,
     <1>14, <1>15, <1>16, <1>17, <1>18, <1>19, <1>20, <1>21, <1>22, <1>23, <1>24, <1>25, <1>26,
     <1>27, <1>28
     DEF Next, Engine, Watch, Handler, Boot

\* Every step keeps the owners of requests.
LEMMA OwnedStep ==
  Counts /\ RequestsOwned /\ [Next]_vars => RequestsOwned'
<1> SUFFICES ASSUME Counts, RequestsOwned, [Next]_vars PROVE RequestsOwned'
  OBVIOUS
<1> USE DEF RequestsOwned, Counts
<1>1. ASSUME NEW t \in Work, StartRun(t) PROVE RequestsOwned'
  BY <1>1, LimitAssumption DEF StartRun, ReqRow, Free, Disown
<1>2. ASSUME NEW t \in Work, executeSpawnAgent(t) PROVE RequestsOwned'
  BY <1>2, LimitAssumption DEF executeSpawnAgent, ReqRow, Free, Disown
<1>3. ASSUME NEW t \in Work, CheckDone(t) PROVE RequestsOwned'
  BY <1>3, LimitAssumption DEF CheckDone, EndRun, ReqRow, Free, Disown
<1>4. ASSUME NEW t \in Work, CheckFailed(t) PROVE RequestsOwned'
  BY <1>4, LimitAssumption DEF CheckFailed, EndRun, ReqRow, Free, Disown
<1>5. ASSUME NEW t \in Work, RetryBlocked(t) PROVE RequestsOwned'
  BY <1>5, LimitAssumption DEF RetryBlocked, ReqRow, Free, Disown
<1>6. ASSUME NEW t \in Work, FailStaleRun(t) PROVE RequestsOwned'
  BY <1>6, LimitAssumption DEF FailStaleRun, EndRun, ReqRow, Free, Disown
<1>7. ASSUME NEW t \in Work, sweepOrphanedInProgressTasks(t) PROVE RequestsOwned'
  BY <1>7, LimitAssumption DEF sweepOrphanedInProgressTasks, ReqRow, Free, Disown
<1>8. ASSUME NEW t \in Work, autoCloseSucceededTasks(t) PROVE RequestsOwned'
  BY <1>8, LimitAssumption DEF autoCloseSucceededTasks, ReqRow, Free, Disown
<1>9. ASSUME NEW q \in Request, PassGates(q) PROVE RequestsOwned'
  BY <1>9, LimitAssumption DEF PassGates, ReqRow, Free, Disown
<1>10. ASSUME NEW q \in Request, FailBeforeWorker(q) PROVE RequestsOwned'
  BY <1>10, LimitAssumption DEF FailBeforeWorker, Result, ReqRow, Free, Disown
<1>11. ASSUME NEW q \in Request, RefuseSpawn(q) PROVE RequestsOwned'
  BY <1>11, LimitAssumption DEF RefuseSpawn, GuardFrame, ReqRow, Free, Disown
<1>12. ASSUME NEW q \in Request, AdmitSpawn(q) PROVE RequestsOwned'
  BY <1>12, LimitAssumption DEF AdmitSpawn, GuardFrame, ReqRow, Free, Disown
<1>13. ASSUME NEW q \in Request, BlockAudit(q) PROVE RequestsOwned'
  BY <1>13, LimitAssumption DEF BlockAudit, GuardFrame, ReqRow, Free, Disown
<1>14. ASSUME NEW q \in Request, EscalateToAudit(q) PROVE RequestsOwned'
  BY <1>14, LimitAssumption DEF EscalateToAudit, GuardFrame, ReqRow, Free, Disown
<1>15. ASSUME NEW q \in Request, StartWorker(q) PROVE RequestsOwned'
  BY <1>15, LimitAssumption DEF StartWorker, ReqRow, Free, Disown
<1>16. ASSUME NEW q \in Request, WorkerFails(q) PROVE RequestsOwned'
  BY <1>16, LimitAssumption DEF WorkerFails, Result, ReqRow, Free, Disown
<1>17. ASSUME NEW q \in Request, WorkerSucceeds(q) PROVE RequestsOwned'
  BY <1>17, LimitAssumption DEF WorkerSucceeds, Result, ReqRow, Free, Disown
<1>18. ASSUME NEW q \in Request, runStallWatchdog(q) PROVE RequestsOwned'
  BY <1>18, LimitAssumption DEF runStallWatchdog, EndRun, CloseRow, ReqRow, Free, Disown
<1>19. ASSUME NEW q \in Request, forceTerminateWorker(q) PROVE RequestsOwned'
  BY <1>19, LimitAssumption DEF forceTerminateWorker, CloseRow, ReqRow, Free, Disown
<1>20. CASE RestartMain
  BY <1>20, LimitAssumption DEF RestartMain, Die, ReqRow, Free, Disown
<1>21. CASE RestartPlugin
  BY <1>21, LimitAssumption DEF RestartPlugin, Die, OpenRows, ReqRow, Free, Disown
<1>22. CASE ReadStuckRuns
  BY <1>22, LimitAssumption DEF ReadStuckRuns, ReqRow, Free, Disown
<1>23. ASSUME NEW t \in Work, NEW key \in BOOLEAN, FailStuckRun(t, key) PROVE RequestsOwned'
  BY <1>23, LimitAssumption DEF FailStuckRun, EndRun, ReqRow, Free, Disown
<1>24. CASE BeginResumes
  BY <1>24, LimitAssumption DEF BeginResumes, ReqRow, Free, Disown
<1>25. CASE ResumeFails
  BY <1>25, LimitAssumption DEF ResumeFails, ReqRow, Free, Disown
<1>26. ASSUME NEW q \in Request, ResumeDead(q) PROVE RequestsOwned'
  BY <1>26, LimitAssumption DEF ResumeDead, ReqRow, Free, Disown
<1>27. CASE UNCHANGED vars
  BY <1>27 DEF vars
<1>28. CASE Heartbeat
  <2>1. PICK rows \in SUBSET Unused : \E owner \in [rows -> Work] :
          req' = [q \in Request |-> IF q \in rows THEN [Free EXCEPT !.task = owner[q]]
                                   ELSE req[q]]
    BY <1>28, HeartbeatWrites
  <2> QED
    BY <2>1 DEF Free, ReqRow
<1> QED
  BY <1>1, <1>2, <1>3, <1>4, <1>5, <1>6, <1>7, <1>8, <1>9, <1>10, <1>11, <1>12, <1>13,
     <1>14, <1>15, <1>16, <1>17, <1>18, <1>19, <1>20, <1>21, <1>22, <1>23, <1>24, <1>25, <1>26,
     <1>27, <1>28
     DEF Next, Engine, Watch, Handler, Boot

\* Every step keeps the types of the rest.
LEMMA OthersStep ==
  Counts /\ RequestsOwned /\ RunsTyped /\ OthersTyped /\ [Next]_vars => OthersTyped'
<1> SUFFICES ASSUME Counts, RequestsOwned, RunsTyped, OthersTyped, [Next]_vars PROVE OthersTyped'
  OBVIOUS
<1> USE DEF OthersTyped, RequestsOwned, Counts
<1>1. ASSUME NEW t \in Work, StartRun(t) PROVE OthersTyped'
  BY <1>1, LimitAssumption DEF StartRun
<1>2. ASSUME NEW t \in Work, executeSpawnAgent(t) PROVE OthersTyped'
  BY <1>2, LimitAssumption DEF executeSpawnAgent
<1>3. ASSUME NEW t \in Work, CheckDone(t) PROVE OthersTyped'
  BY <1>3, LimitAssumption DEF CheckDone, EndRun
<1>4. ASSUME NEW t \in Work, CheckFailed(t) PROVE OthersTyped'
  BY <1>4, LimitAssumption DEF CheckFailed, EndRun
<1>5. ASSUME NEW t \in Work, RetryBlocked(t) PROVE OthersTyped'
  BY <1>5, LimitAssumption DEF RetryBlocked
<1>6. ASSUME NEW t \in Work, FailStaleRun(t) PROVE OthersTyped'
  BY <1>6, LimitAssumption DEF FailStaleRun, EndRun
<1>7. ASSUME NEW t \in Work, sweepOrphanedInProgressTasks(t) PROVE OthersTyped'
  BY <1>7, LimitAssumption DEF sweepOrphanedInProgressTasks
<1>8. ASSUME NEW t \in Work, autoCloseSucceededTasks(t) PROVE OthersTyped'
  BY <1>8, LimitAssumption DEF autoCloseSucceededTasks
<1>9. ASSUME NEW q \in Request, PassGates(q) PROVE OthersTyped'
  BY <1>9, LimitAssumption DEF PassGates
<1>10. ASSUME NEW q \in Request, FailBeforeWorker(q) PROVE OthersTyped'
  BY <1>10, LimitAssumption DEF FailBeforeWorker, Result
<1>11. ASSUME NEW q \in Request, RefuseSpawn(q) PROVE OthersTyped'
  BY <1>11, LimitAssumption DEF RefuseSpawn, GuardFrame
<1>12. ASSUME NEW q \in Request, AdmitSpawn(q) PROVE OthersTyped'
  BY <1>12, LimitAssumption DEF AdmitSpawn, GuardFrame
<1>13. ASSUME NEW q \in Request, BlockAudit(q) PROVE OthersTyped'
  BY <1>13, LimitAssumption DEF BlockAudit, GuardFrame
<1>14. ASSUME NEW q \in Request, EscalateToAudit(q) PROVE OthersTyped'
  BY <1>14, LimitAssumption DEF EscalateToAudit, GuardFrame
<1>15. ASSUME NEW q \in Request, StartWorker(q) PROVE OthersTyped'
  BY <1>15, LimitAssumption DEF StartWorker
<1>16. ASSUME NEW q \in Request, WorkerFails(q) PROVE OthersTyped'
  BY <1>16, LimitAssumption DEF WorkerFails, Result
<1>17. ASSUME NEW q \in Request, WorkerSucceeds(q) PROVE OthersTyped'
  BY <1>17, LimitAssumption DEF WorkerSucceeds, Result
<1>18. ASSUME NEW q \in Request, runStallWatchdog(q) PROVE OthersTyped'
  BY <1>18, LimitAssumption DEF runStallWatchdog, EndRun, CloseRow
<1>19. ASSUME NEW q \in Request, forceTerminateWorker(q) PROVE OthersTyped'
  BY <1>19, LimitAssumption DEF forceTerminateWorker, CloseRow
<1>20. CASE RestartMain
  BY <1>20, LimitAssumption DEF RestartMain, Die
<1>21. CASE RestartPlugin
  BY <1>21, LimitAssumption DEF RestartPlugin, Die, OpenRows
<1>22. CASE ReadStuckRuns
  <2>1. \A u \in Work : run[u].key \in BOOLEAN
    BY DEF RunsTyped, RunRow
  <2> QED
    BY <1>22, <2>1 DEF ReadStuckRuns
<1>23. ASSUME NEW t \in Work, NEW key \in BOOLEAN, FailStuckRun(t, key) PROVE OthersTyped'
  BY <1>23, LimitAssumption DEF FailStuckRun, EndRun
<1>24. CASE BeginResumes
  BY <1>24, LimitAssumption DEF BeginResumes
<1>25. CASE ResumeFails
  BY <1>25, LimitAssumption DEF ResumeFails
<1>26. ASSUME NEW q \in Request, ResumeDead(q) PROVE OthersTyped'
  BY <1>26, LimitAssumption DEF ResumeDead
<1>27. CASE UNCHANGED vars
  BY <1>27 DEF vars
<1>28. CASE Heartbeat
  <2>1. PICK rows \in SUBSET Unused : open' = open \cup rows
    BY <1>28, HeartbeatWrites
  <2>2. open' \subseteq Request
    BY <2>1 DEF Unused
  <2>3. beats' \in 0 .. MaxBeats
    <3>1. beats < MaxBeats /\ beats' = beats + 1
      BY <1>28, HeartbeatWrites
    <3> QED
      BY <3>1, LimitAssumption DEF OthersTyped
  <2> QED
    BY <1>28, <2>2, <2>3, HeartbeatWrites
<1> QED
  BY <1>1, <1>2, <1>3, <1>4, <1>5, <1>6, <1>7, <1>8, <1>9, <1>10, <1>11, <1>12, <1>13,
     <1>14, <1>15, <1>16, <1>17, <1>18, <1>19, <1>20, <1>21, <1>22, <1>23, <1>24, <1>25, <1>26,
     <1>27, <1>28
     DEF Next, Engine, Watch, Handler, Boot

\* Every variable keeps its type, for all values of the constants.
THEOREM TypeCorrect == Spec => []TypeOK
<1> DEFINE TypeInv == Earned /\ Counts /\ RunsTyped /\ RequestsOwned /\ OthersTyped
<1>1. Init => TypeInv
  <2> SUFFICES ASSUME Init PROVE TypeInv
    OBVIOUS
  <2>1. Rows /\ Earned
    BY LimitAssumption DEF Init, Rows, TaskRow, WorkState, Earned
  <2>2. Counts /\ RequestsOwned
    BY <2>1 DEF Init, Counts, ReqRow, Free, RequestsOwned
  <2>3. RunsTyped
    BY LimitAssumption DEF Init, RunsTyped, RunRow, NoRun
  <2>4. OthersTyped
    BY LimitAssumption DEF Init, OthersTyped
  <2> QED
    BY <2>1, <2>2, <2>3, <2>4
<1>2. TypeInv /\ [Next]_vars => TypeInv'
  BY EarnedStep, CountsStep, RunsStep, OwnedStep, OthersStep DEF Counts
<1>3. TypeInv => TypeOK
  BY DEF TypeOK, Counts, Rows, RunsTyped, OthersTyped
<1> QED
  BY <1>1, <1>2, <1>3, PTL DEF Spec
=============================================================================
