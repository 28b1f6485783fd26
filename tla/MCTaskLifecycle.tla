--------------------------- MODULE MCTaskLifecycle ---------------------------
(* Instances of TaskLifecycle for TLC: the process restarts once, or the       *)
(* heartbeat starts agents once.                                               *)
EXTENDS TaskLifecycle
CONSTANTS t1, a1
MCRuns == [t \in Work |-> 2]
MCNone == [t \in Work |-> {}]

VARIABLE case

CasesInit == Init /\ case \in {"restart", "heartbeat"}
CasesNext ==
  /\ Next
  /\ IF case = "restart" THEN beats' = 0 ELSE restarts' = 0
  /\ UNCHANGED case
CasesSpec == CasesInit /\ [][CasesNext]_<<vars, case>> /\ Fairness
=============================================================================
