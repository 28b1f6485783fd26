---------------------------- MODULE WorkerSlots ----------------------------
(***************************************************************************)
(* What the orchestrator promises about worker slots                       *)
(* (docs/orchestrator-flow.md, "Concurrency Limits"): no worker takes a    *)
(* slot when MaxWorkers hold one, and at most one holds each project lock. *)
(* The workers of the heartbeat are guests: they keep to a limit of their  *)
(* own, GuestSlots, whatever the others hold.                              *)
(* How slots are counted, reserved and given back is the business of       *)
(* SpawnDispatch, which is shown to implement this module.                 *)
(***************************************************************************)
EXTENDS Naturals, FiniteSets

CONSTANTS
  Worker,       \* everything that can hold a worker slot
  LockOf,       \* the project lock each worker takes, NoLock for none
  NoLock,
  MaxWorkers,   \* DEFAULT_MAX_WORKERS
  Guest,        \* workers that are not started by the tick
  GuestSlots    \* maxConcurrentWorkers of the heartbeat's scheduler

VARIABLE held   \* the workers that hold a slot

TypeOK == held \subseteq Worker

\* Two workers of S never share a project lock.
LocksDisjoint(S) ==
  \A v, w \in S : v # w /\ LockOf[v] # NoLock => LockOf[v] # LockOf[w]

Init == held = {}

\* A group of workers takes slots in one go.
Take(S) ==
  /\ S # {}
  /\ S \cap held = {}
  /\ held' = held \cup S
  /\ LocksDisjoint(held')

Acquire(S) ==
  /\ Take(S)
  /\ S \cap Guest = {}
  /\ Cardinality(held') <= MaxWorkers

AcquireAsGuest(S) ==
  /\ Take(S)
  /\ S \subseteq Guest
  /\ Cardinality(held' \cap Guest) <= GuestSlots

\* Any workers give their slots back: they end, fail, or the process dies.
Release(S) ==
  /\ S \cap held # {}
  /\ held' = held \ S

Next ==
  \E S \in SUBSET Worker : Acquire(S) \/ AcquireAsGuest(S) \/ Release(S)

Spec == Init /\ [][Next]_held
=============================================================================
