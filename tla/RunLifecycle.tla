---------------------------- MODULE RunLifecycle ----------------------------
(***************************************************************************)
(* What the workflow engine promises of a workflow run: it is created      *)
(* pending, runs, and finishes once, completed or failed; a task has at    *)
(* most one run that is pending or running (startRun's dedup).             *)
(***************************************************************************)
CONSTANTS Run, TaskOf, NoTask

VARIABLE status

Active == {r \in Run : status[r] \in {"pending", "running"}}

Init == status = [r \in Run |-> "none"]

Create(r) ==
  /\ status[r] = "none"
  /\ TaskOf[r] # NoTask => \A q \in Active : TaskOf[q] # TaskOf[r]
  /\ status' = [status EXCEPT ![r] = "pending"]

Begin(r) ==
  /\ status[r] = "pending"
  /\ status' = [status EXCEPT ![r] = "running"]

Finish(r) ==
  /\ r \in Active
  /\ \E s \in {"completed", "failed"} : status' = [status EXCEPT ![r] = s]

Next == \E r \in Run : Create(r) \/ Begin(r) \/ Finish(r)

Spec == Init /\ [][Next]_status
=============================================================================
