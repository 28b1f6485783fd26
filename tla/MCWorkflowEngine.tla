-------------------------- MODULE MCWorkflowEngine --------------------------
(* Instances of WorkflowEngine with workflows of workflow/seeds.ts: the     *)
(* programmer's branch of task-router with one CI round and without its     *)
(* commit nodes; its writer's branch; the scheduled doc-upkeep; and the     *)
(* test round of code-task.                                                 *)
EXTENDS WorkflowEngine

CONSTANTS q1, q2, q3, q4, q5, q6, k1, k2, t1, t2

Programmer == {"spawn_programmer", "run_tests_1", "tests_gate_1", "spawn_programmer_fix_1",
               "review_gate", "spawn_reviewer_post", "done"}
Writer == {"spawn_writer", "done"}
DocUpkeep == {"scan", "check_results"} \cup Writer
CodeTask == {"run_tests", "fix_tests", "check_tests_retry", "escalate_test_failure", "done"}
WriterAndCode == Writer \cup CodeTask
Team == Programmer \cup DocUpkeep \cup {"spawn_researcher"}

EntryProgrammer == [r \in Run |-> "spawn_programmer"]
EntryWriter == [r \in Run |-> "spawn_writer"]
EntryTeam ==
  [r \in Run |-> CASE r = q3 -> "scan" [] r = q4 -> "spawn_writer"
                   [] r \in {q5, q6} -> "spawn_researcher" [] OTHER -> "spawn_programmer"]
EntryWriterThenCode ==
  [r \in Run |-> IF r = q1 THEN "spawn_writer" ELSE "run_tests"]

MCType ==
  [n \in Node |->
     CASE n \in {"spawn_programmer", "spawn_programmer_fix_1", "spawn_reviewer_post",
                 "spawn_writer", "spawn_researcher"} -> "spawn"
       [] n \in {"tests_gate_1", "review_gate", "check_results", "check_tests_retry"} -> "route"
       [] n = "scan" -> "call"
       [] n = "escalate_test_failure" -> "wait"
       [] OTHER -> "tool"]

MCGoto ==
  [n \in Node |-> CASE n = "tests_gate_1" -> {"review_gate", "spawn_programmer_fix_1"}
                    [] n = "review_gate" -> {"spawn_reviewer_post", "done"}
                    [] n = "check_results" -> {"spawn_writer", "done"}
                    [] n = "check_tests_retry" -> {"escalate_test_failure", "done"}
                    [] OTHER -> {}]

MCSucc ==
  [n \in Node |->
     CASE n = "spawn_programmer" -> {"run_tests_1"}
       [] n = "run_tests_1" -> {"tests_gate_1"}
       [] n = "spawn_programmer_fix_1" -> {"review_gate"}
       [] n \in {"spawn_reviewer_post", "spawn_writer", "spawn_researcher",
                 "escalate_test_failure"} -> {"done"}
       [] n = "scan" -> {"check_results"}
       [] n \in {"run_tests", "fix_tests"} -> {"check_tests_retry"}
       [] OTHER -> {NoNode}]

MCFailures ==
  [n \in Node |-> CASE n \in {"run_tests_1", "run_tests"} -> {"", "timeout"}
                    [] n = "scan" -> {""}
                    [] OTHER -> {}]
MCTimedOut == {"escalate_test_failure"} \cap Node
MCAbortOn ==
  [n \in Node |-> CASE n \in {"spawn_programmer", "spawn_programmer_fix_1", "spawn_writer",
                              "spawn_researcher"} -> {"spawn_error"}
                    [] n = "run_tests" -> {"timeout"}
                    [] OTHER -> {}]
MCRetry ==
  [n \in Node |-> IF n \in {"spawn_programmer", "spawn_writer", "spawn_researcher", "scan",
                          "run_tests"} THEN 1 ELSE 0]
MCFallback == [n \in Node |-> IF n = "run_tests" THEN "fix_tests" ELSE NoNode]
MCEscalateAfter == [n \in Node |-> IF n = "run_tests" THEN 3 ELSE 999]

SameTask == [r \in Run |-> k1]
OnlyFirstTask == [r \in Run |-> IF r = q1 THEN k1 ELSE NoTask]
TeamTasks == [r \in Run |-> CASE r = q3 -> NoTask [] r \in {q5, q6} -> k2 [] OTHER -> k1]

\* Bound of the team's instance: the two programmer's runs, the scan beside the
\* writer's run, or the two runs of the audit; the others never start.
Started(R) == \E r \in R : run[r].status # "none"
OneTeam ==
  /\ ~ (Started({q1, q2}) /\ Started({q3, q4}))
  /\ ~ (Started({q1, q2, q3, q4}) /\ Started({q5, q6}))
=============================================================================
