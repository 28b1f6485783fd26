-------------------------- MODULE MCSpawnDispatch --------------------------
(* Instances of SpawnDispatch for TLC. *)
EXTENDS SpawnDispatch

CONSTANTS r1, r2, r3, r4, h1, h2, pA, pB

\* r1 and r2 are of one project and agent type, r3 of another, r4 of none.
MCLockKey ==
  [r \in Request |-> CASE r \in {r1, r2} -> pA [] r = r3 -> pB [] r = r4 -> NoKey]

\* The project row is missing when r2's handler looks: it has no key.
MCWorkerKeyMissing ==
  [r \in Request |-> IF r = r2 THEN NoKey ELSE MCLockKey[r]]
=============================================================================
