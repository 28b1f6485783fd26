------------------------------ MODULE MCKeyPool ------------------------------
(* Either two sessions share one key, or one session has two keys, whose      *)
(* configuration changes and whose process restarts.  The unit of time is     *)
(* about ten minutes.                                                         *)
EXTENDS KeyPool
CONSTANTS k1, k2, s1, s2
VARIABLE case

MCConfig == {<<k1, k2>>, <<k2>>}

MCInit == Init /\ case \in {"shared", "faults"} /\ (case = "shared" => pool = <<k2>>)

\* s2 has no client where there are faults, and there are none where it has.
MCNext ==
  /\ Next
  /\ case = "shared" => UNCHANGED <<reloads, restarts>>
  /\ case = "faults" => client'[s2] = NoClient /\ reloads' + restarts' < 2
  /\ UNCHANGED case

MCSpec == MCInit /\ [][MCNext]_<<vars, case>> /\ Fairness
=============================================================================
