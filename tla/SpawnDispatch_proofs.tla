------------------------ MODULE SpawnDispatch_proofs ------------------------
(* Theorems of SpawnDispatch, for every value of its constants. *)
EXTENDS SpawnDispatch, FiniteSetTheorems, TLAPS

LEMMA LessNat == \A a, b \in Nat : Less(a, b) \in Nat /\ Less(a, b) <= a
  BY DEF Less

\* The sets the accounting counts are finite.
LEMMA KeyFinite == IsFiniteSet(Key)
<1> DEFINE Image == {LockKey[r] : r \in Request}
           f == [r \in Request |-> LockKey[r]]
<1>1. f \in Surjection(Request, Image)
  BY DEF Surjection
<1>2. IsFiniteSet(Image)
  BY <1>1, BoundAssumption, FS_Surjection DEF BoundAssumption
<1>3. Key \subseteq Image
  BY DEF Key
<1>4. QED
  BY <1>2, <1>3, FS_Subset

LEMMA WorkerFinite == IsFiniteSet(Worker)
  BY BoundAssumption, FS_Union DEF BoundAssumption, Worker

LEMMA CountedSetsFinite ==
  ASSUME TypeOK
  PROVE  /\ IsFiniteSet(Starting) /\ IsFiniteSet(OpenRows) /\ IsFiniteSet(Held)
         /\ IsFiniteSet(StaleKeys)
         /\ Cardinality(Starting) \in Nat /\ Cardinality(OpenRows) \in Nat
         /\ Cardinality(Held) \in Nat /\ Cardinality(StaleKeys) \in Nat
<1>1. Starting \subseteq Worker /\ OpenRows \subseteq Worker /\ Held \subseteq Worker
  BY DEF Starting, OpenRows, Held, Worker
<1>2. StaleKeys \subseteq Key
  BY DEF TypeOK, StaleKeys
<1>3. /\ IsFiniteSet(Starting) /\ IsFiniteSet(OpenRows) /\ IsFiniteSet(Held)
      /\ IsFiniteSet(StaleKeys)
  BY <1>1, <1>2, WorkerFinite, KeyFinite, FS_Subset
<1>4. QED
  BY <1>3, FS_CardinalityType

-----------------------------------------------------------------------------
(* Type correctness *)

LEMMA TypeInit == Init => TypeOK
<1> SUFFICES ASSUME Init
             PROVE  TypeOK
  OBVIOUS
<1>1. stage \in [Request -> Stage] /\ rowOpen \in [Worker -> BOOLEAN]
  BY DEF Init, Stage
<1>2. dispatching \in BOOLEAN
  BY DEF Init
<1>3. /\ pendingSpawns \in Seq(Request) /\ batch \in Seq(Request)
      /\ pendingSpawnCount \in Nat /\ pendingSpawnKeys \in SUBSET Key
  BY DEF Init
<1>4. QED
  BY <1>1, <1>2, <1>3 DEF TypeOK

LEMMA HeadTail ==
  ASSUME TypeOK, batch # <<>>
  PROVE  /\ Head(batch) \in Request /\ Tail(batch) \in Seq(Request)
         /\ Append(pendingSpawns, Head(batch)) \in Seq(Request)
  BY DEF TypeOK

LEMMA TypeTick ==
  ASSUME TypeOK, Tick
  PROVE  TypeOK'
<1>1. CASE popPendingSpawns
  BY <1>1 DEF TypeOK, popPendingSpawns
<1>2. CASE RequeueAtCapacity
  <2>1. batch # <<>>
    BY <1>2 DEF RequeueAtCapacity
  <2>2. QED
    BY <1>2, <2>1, HeadTail DEF TypeOK, RequeueAtCapacity, requeueSpawn
<1>3. CASE RequeueLocked
  <2>1. batch # <<>>
    BY <1>3 DEF RequeueLocked
  <2>2. QED
    BY <1>3, <2>1, HeadTail DEF TypeOK, RequeueLocked, requeueSpawn
<1>4. CASE StartHandler
  <2>1. batch # <<>>
    BY <1>4 DEF StartHandler
  <2>2. stage' \in [Request -> Stage]
    BY <1>4, <2>1, HeadTail DEF TypeOK, StartHandler, Stage
  <2>3. pendingSpawnKeys' \in SUBSET Key /\ pendingSpawnCount' \in Nat
    BY <1>4, <2>1, HeadTail DEF TypeOK, StartHandler, incrementPendingSpawns, Key
  <2>4. QED
    BY <1>4, <2>1, <2>2, <2>3, HeadTail DEF TypeOK, StartHandler
<1>5. CASE StartHandlerGated
  <2>1. batch # <<>>
    BY <1>5 DEF StartHandlerGated
  <2>2. pendingSpawnKeys' \in SUBSET Key
    BY <1>5, <2>1, HeadTail DEF TypeOK, StartHandlerGated, Key
  <2>3. pendingSpawnCount' \in Nat
    BY <1>5 DEF TypeOK, StartHandlerGated, Less
  <2>4. QED
    BY <1>5, <2>1, <2>2, <2>3, HeadTail DEF TypeOK, StartHandlerGated, requeueSpawn
<1>6. CASE EndDispatch
  <2>1. Cardinality(StaleKeys) \in Nat
    BY CountedSetsFinite
  <2>2. pendingSpawnCount' \in Nat
    BY <1>6, <2>1, LessNat DEF TypeOK, EndDispatch, clearStalePendingSpawns
  <2>3. pendingSpawnKeys' \in SUBSET Key
    BY <1>6 DEF TypeOK, EndDispatch, clearStalePendingSpawns
  <2>4. QED
    BY <1>6, <2>2, <2>3 DEF TypeOK, EndDispatch
<1>7. QED
  BY <1>1, <1>2, <1>3, <1>4, <1>5, <1>6 DEF Tick

LEMMA TypeHandler ==
  ASSUME TypeOK, NEW r \in Request, Handler(r)
  PROVE  TypeOK'
<1> USE DEF TypeOK
<1>1. CASE RefuseSpawn(r)
  BY <1>1 DEF RefuseSpawn, decrementPendingSpawns, Less, Stage
<1>2. CASE PassPreflight(r)
  BY <1>2 DEF PassPreflight, Stage
<1>3. CASE AssembleThrows(r)
  BY <1>3 DEF AssembleThrows, Stage
<1>4. CASE CatchSpawn(r)
  BY <1>4 DEF CatchSpawn, decrementPendingSpawns, Less, Stage
<1>5. CASE StartWorker(r)
  BY <1>5 DEF StartWorker, recordWorkerStart, Stage, Worker
<1>6. CASE EndWorker(r)
  BY <1>6 DEF EndWorker, recordWorkerEnd, decrementPendingSpawns, Less, Stage,
              Worker
<1>7. QED
  BY <1>1, <1>2, <1>3, <1>4, <1>5, <1>6 DEF Handler

LEMMA TypeStep == TypeOK /\ [Next]_vars => TypeOK'
<1> SUFFICES ASSUME TypeOK, [Next]_vars
             PROVE  TypeOK'
  OBVIOUS
<1>1. CASE Tick
  BY <1>1, TypeTick
<1>2. ASSUME NEW r \in Request, executeSpawnAgent(r)
      PROVE  TypeOK'
  BY <1>2 DEF TypeOK, executeSpawnAgent, Stage
<1>3. ASSUME NEW r \in Request, Handler(r)
      PROVE  TypeOK'
  BY <1>3, TypeHandler
<1>4. CASE runHeartbeat
  <2>1. rowOpen' \in [Worker -> BOOLEAN]
    BY <1>4 DEF TypeOK, runHeartbeat
  <2>2. QED
    BY <1>4, <2>1 DEF TypeOK, runHeartbeat
<1>5. ASSUME NEW w \in Worker, CloseStaleRow(w)
      PROVE  TypeOK'
  BY <1>5 DEF TypeOK, CloseStaleRow
<1>6. CASE Restart
  BY <1>6 DEF TypeOK, Restart, Stage
<1>7. CASE UNCHANGED vars
  BY <1>7 DEF TypeOK, vars
<1>8. QED
  BY <1>1, <1>2, <1>3, <1>4, <1>5, <1>6, <1>7 DEF Next

\* Type correctness: queues hold requests, the counter of reservations never
\* goes below zero, and reserved keys are keys of requests.
THEOREM TypeCorrect == Spec => []TypeOK
<1>1. Init => TypeOK
  BY TypeInit
<1>2. TypeOK /\ [Next]_vars => TypeOK'
  BY TypeStep
<1>3. QED
  BY <1>1, <1>2, PTL DEF Spec

-----------------------------------------------------------------------------
(* Who takes a worker slot.  Only two steps do: a tick that starts a handler *)
(* and the heartbeat job.  Every other step keeps or gives back slots.       *)

TakesSlots == StartHandler \/ runHeartbeat

LEMMA StartHandlerTakes ==
  ASSUME TypeOK, StartHandler
  PROVE  /\ Head(batch) \in Request
         /\ Starting' = Starting \cup {Head(batch)}
         /\ OpenRows' = OpenRows
         /\ Held' = Held \cup {Head(batch)}
<1>1. Head(batch) \in Request
  BY HeadTail DEF StartHandler
<1>2. Starting' = Starting \cup {Head(batch)}
  BY <1>1 DEF StartHandler, Starting, TypeOK
<1>3. OpenRows' = OpenRows
  BY DEF StartHandler, OpenRows
<1>4. QED
  BY <1>1, <1>2, <1>3 DEF Held

LEMMA runHeartbeatTakes ==
  ASSUME TypeOK, runHeartbeat
  PROVE  \E S \in SUBSET Heartbeat :
           /\ S # {} /\ S \cap OpenRows = {}
           /\ Cardinality(S) + countActiveWorkers <= HeartbeatSlots
           /\ OpenRows' = OpenRows \cup S
           /\ Starting' = Starting
           /\ Held' = Held \cup S
<1>1. PICK S \in SUBSET {h \in Heartbeat : ~rowOpen[h]} :
        /\ S # {}
        /\ Cardinality(S) + countActiveWorkers <= HeartbeatSlots
        /\ rowOpen' = [w \in Worker |-> rowOpen[w] \/ w \in S]
  BY DEF runHeartbeat
<1>2. S \subseteq Heartbeat /\ S \cap OpenRows = {}
  BY <1>1 DEF OpenRows
<1>3. OpenRows' = OpenRows \cup S
  BY <1>1, <1>2 DEF OpenRows, Worker
<1>4. Starting' = Starting
  BY DEF runHeartbeat, Starting
<1>5. QED
  BY <1>1, <1>2, <1>3, <1>4 DEF Held

LEMMA OtherTickKeeps ==
  ASSUME TypeOK, Tick, ~TakesSlots
  PROVE  Starting' = Starting /\ OpenRows' = OpenRows /\ Held' \subseteq Held
<1>1. stage' = stage /\ rowOpen' = rowOpen
  BY DEF Tick, TakesSlots, popPendingSpawns, RequeueAtCapacity, RequeueLocked,
         StartHandlerGated, EndDispatch, requeueSpawn
<1>2. QED
  BY <1>1 DEF Starting, OpenRows, Held

LEMMA HandlerKeeps ==
  ASSUME TypeOK, NEW r \in Request, Handler(r)
  PROVE  Held' \subseteq Held
<1> USE DEF TypeOK, Held, Starting, OpenRows
<1>1. CASE RefuseSpawn(r)
  BY <1>1 DEF RefuseSpawn
<1>2. CASE PassPreflight(r)
  BY <1>2 DEF PassPreflight
<1>3. CASE AssembleThrows(r)
  BY <1>3 DEF AssembleThrows
<1>4. CASE CatchSpawn(r)
  BY <1>4 DEF CatchSpawn
<1>5. CASE StartWorker(r)
  BY <1>5 DEF StartWorker, recordWorkerStart
<1>6. CASE EndWorker(r)
  BY <1>6 DEF EndWorker, recordWorkerEnd
<1>7. QED
  BY <1>1, <1>2, <1>3, <1>4, <1>5, <1>6 DEF Handler

LEMMA OthersKeepSlots ==
  ASSUME TypeOK, [Next]_vars, ~TakesSlots
  PROVE  Held' \subseteq Held
<1>1. CASE Tick
  BY <1>1, OtherTickKeeps
<1>2. ASSUME NEW r \in Request, executeSpawnAgent(r)
      PROVE  Held' \subseteq Held
  BY <1>2 DEF TypeOK, executeSpawnAgent, Held, Starting, OpenRows
<1>3. ASSUME NEW r \in Request, Handler(r)
      PROVE  Held' \subseteq Held
  BY <1>3, HandlerKeeps
<1>4. ASSUME NEW w \in Worker, CloseStaleRow(w)
      PROVE  Held' \subseteq Held
  BY <1>4 DEF TypeOK, CloseStaleRow, Held, Starting, OpenRows
<1>5. CASE Restart
  BY <1>5 DEF Restart, Held, Starting, OpenRows
<1>6. CASE UNCHANGED vars
  BY <1>6 DEF vars, Held, Starting, OpenRows
<1>7. QED
  BY <1>1, <1>2, <1>3, <1>4, <1>5, <1>6 DEF Next, TakesSlots

\* Only the heartbeat opens rows for its own workers.
LEMMA OthersKeepGuests ==
  ASSUME TypeOK, [Next]_vars, ~runHeartbeat
  PROVE  (OpenRows \cap Heartbeat)' \subseteq OpenRows \cap Heartbeat
<1>1. ASSUME NEW h \in Heartbeat, rowOpen'[h]
      PROVE  rowOpen[h]
  <2>0. h \in Worker /\ h \notin Request
    BY BoundAssumption DEF BoundAssumption, Worker
  <2>1. CASE Tick
    BY <1>1, <2>1 DEF Tick, popPendingSpawns, RequeueAtCapacity, RequeueLocked,
                      StartHandler, StartHandlerGated, EndDispatch
  <2>2. ASSUME NEW r \in Request, executeSpawnAgent(r) \/ Handler(r)
        PROVE  rowOpen[h]
    BY <1>1, <2>0, <2>2
       DEF TypeOK, executeSpawnAgent, Handler, RefuseSpawn, PassPreflight,
           AssembleThrows, CatchSpawn, StartWorker, EndWorker,
           recordWorkerStart, recordWorkerEnd
  <2>3. ASSUME NEW w \in Worker, CloseStaleRow(w)
        PROVE  rowOpen[h]
    BY <1>1, <2>0, <2>3 DEF TypeOK, CloseStaleRow
  <2>4. CASE Restart \/ UNCHANGED vars
    BY <1>1, <2>4 DEF Restart, vars
  <2>5. QED
    BY <2>1, <2>2, <2>3, <2>4 DEF Next
<1>2. QED
  BY <1>1 DEF OpenRows, Worker

-----------------------------------------------------------------------------
(* The limit.  Inductive with CountCoversStarting, as long as no handler is  *)
(* still on its way to a row when a tick dispatches.  A tick that starts a   *)
(* handler keeps even the sum of all workers within MaxWorkers.              *)

LimitInv == TypeOK /\ WorkersWithinLimit /\ CountCoversStarting

LEMMA LimitInit == Init => LimitInv
<1> SUFFICES ASSUME Init
             PROVE  LimitInv
  OBVIOUS
<1>1. Held = {}
  BY DEF Init, Held, Starting, OpenRows
<1>2. Held \cap Request = {} /\ OpenRows \cap Heartbeat = {}
  BY <1>1 DEF Held
<1>3. WorkersWithinLimit
  BY <1>2, FS_EmptySet, BoundAssumption DEF WorkersWithinLimit, BoundAssumption
<1>4. CountCoversStarting
  BY DEF Init, CountCoversStarting
<1>5. QED
  BY <1>3, <1>4, TypeInit DEF LimitInv

\* A finite set within a limit stays within it when it only loses members.
LEMMA StaysWithin ==
  ASSUME NEW S, NEW T, IsFiniteSet(S), T \subseteq S,
         NEW n \in Nat, Cardinality(S) <= n
  PROVE  Cardinality(T) <= n
<1>1. IsFiniteSet(T) /\ Cardinality(T) <= Cardinality(S)
  BY FS_Subset
<1>2. Cardinality(T) \in Nat /\ Cardinality(S) \in Nat
  BY <1>1, FS_CardinalityType
<1>3. QED
  BY <1>1, <1>2

LEMMA LimitParts ==
  ASSUME TypeOK
  PROVE  /\ IsFiniteSet(Held \cap Request) /\ IsFiniteSet(OpenRows \cap Heartbeat)
         /\ MaxWorkers \in Nat /\ HeartbeatSlots \in Nat
<1>1. IsFiniteSet(Held) /\ IsFiniteSet(OpenRows)
  BY CountedSetsFinite
<1>2. Held \cap Request \subseteq Held /\ OpenRows \cap Heartbeat \subseteq OpenRows
  OBVIOUS
<1>3. QED
  BY <1>1, <1>2, FS_Subset, BoundAssumption DEF BoundAssumption

\* A step that takes no slot cannot exceed a limit.
LEMMA FewerHeld ==
  ASSUME TypeOK, WorkersWithinLimit, Held' \subseteq Held,
         (OpenRows \cap Heartbeat)' \subseteq OpenRows \cap Heartbeat
  PROVE  WorkersWithinLimit'
<1>1. Cardinality((Held \cap Request)') <= MaxWorkers
  <2>1. (Held \cap Request)' \subseteq Held \cap Request
    OBVIOUS
  <2>2. QED
    BY <2>1, LimitParts, StaysWithin DEF WorkersWithinLimit
<1>2. Cardinality((OpenRows \cap Heartbeat)') <= HeartbeatSlots
  BY LimitParts, StaysWithin DEF WorkersWithinLimit
<1>3. QED
  BY <1>1, <1>2 DEF WorkersWithinLimit

LEMMA AddOne ==
  ASSUME NEW S, IsFiniteSet(S), NEW x
  PROVE  /\ IsFiniteSet(S \cup {x})
         /\ Cardinality(S \cup {x}) <= Cardinality(S) + 1
         /\ x \notin S => Cardinality(S \cup {x}) = Cardinality(S) + 1
<1>1. Cardinality(S) \in Nat
  BY FS_CardinalityType
<1>2. CASE x \in S
  <2>1. S \cup {x} = S
    BY <1>2
  <2>2. /\ IsFiniteSet(S \cup {x})
        /\ Cardinality(S \cup {x}) = Cardinality(S)
    BY <2>1, Zenon
  <2>3. QED
    BY <1>1, <1>2, <2>2
<1>3. CASE x \notin S
  BY <1>1, <1>3, FS_AddElement
<1>4. QED
  BY <1>2, <1>3

LEMMA LimitStartHandler ==
  ASSUME LimitInv, StartHandler
  PROVE  /\ WorkersWithinLimit' /\ CountCoversStarting'
         /\ Cardinality(Held') <= MaxWorkers
<1> DEFINE r == Head(batch)
<1>1. TypeOK /\ dispatching
  BY DEF LimitInv, StartHandler
<1>2. /\ IsFiniteSet(Starting) /\ IsFiniteSet(OpenRows) /\ IsFiniteSet(Held)
      /\ Cardinality(Starting) \in Nat /\ Cardinality(OpenRows) \in Nat
      /\ Cardinality(Held) \in Nat
  BY <1>1, CountedSetsFinite
<1>3. Cardinality(Starting) <= pendingSpawnCount /\ pendingSpawnCount \in Nat
  BY <1>1 DEF LimitInv, CountCoversStarting, TypeOK
<1>4. Cardinality(Starting \cup {r}) <= Cardinality(Starting) + 1
  BY <1>2, AddOne
<1>5. Cardinality(Held \cup {r}) <= Cardinality(Held) + 1
  BY <1>2, AddOne
<1>6. Cardinality(Held) <= Cardinality(Starting) + Cardinality(OpenRows)
  <2>1. IsFiniteSet(Starting \cap OpenRows)
    BY <1>2, FS_Subset
  <2>2. Cardinality(Starting \cap OpenRows) \in Nat
    BY <2>1, FS_CardinalityType
  <2>3. Cardinality(Held)
          = Cardinality(Starting) + Cardinality(OpenRows)
              - Cardinality(Starting \cap OpenRows)
    BY <1>2, FS_Union DEF Held
  <2>4. QED
    BY <1>2, <2>2, <2>3
<1>7. Cardinality(OpenRows) + pendingSpawnCount < MaxWorkers
  BY DEF StartHandler, hasCapacity, countActiveWorkers
<1>8. Starting' = Starting \cup {r} /\ Held' = Held \cup {r}
  BY <1>1, StartHandlerTakes
<1>9. IsFiniteSet(Held') /\ IsFiniteSet(Starting')
  BY <1>2, <1>8, AddOne
<1>10. Cardinality(Held') \in Nat /\ Cardinality(Starting') \in Nat
  BY <1>9, FS_CardinalityType
<1>11. Cardinality(Held') <= MaxWorkers
  BY <1>2, <1>3, <1>5, <1>6, <1>7, <1>8, <1>10, BoundAssumption
     DEF BoundAssumption
<1>12. pendingSpawnCount' = pendingSpawnCount + 1
  BY DEF StartHandler, incrementPendingSpawns
<1>13. Cardinality(Starting') <= pendingSpawnCount'
  BY <1>2, <1>3, <1>4, <1>8, <1>10, <1>12
<1>14. WorkersWithinLimit'
  <2>1. Cardinality(Held' \cap Request) <= MaxWorkers
    <3>1. Held' \cap Request \subseteq Held'
      OBVIOUS
    <3>2. QED
      BY <1>1, <1>9, <1>11, <3>1, LimitParts, StaysWithin
  <2>2. Cardinality(OpenRows' \cap Heartbeat) <= HeartbeatSlots
    BY <1>1, StartHandlerTakes DEF LimitInv, WorkersWithinLimit
  <2>3. QED
    BY <2>1, <2>2 DEF WorkersWithinLimit
<1>15. QED
  BY <1>11, <1>13, <1>14 DEF CountCoversStarting

LEMMA LimitHeartbeat ==
  ASSUME LimitInv, runHeartbeat
  PROVE  WorkersWithinLimit' /\ CountCoversStarting'
<1>1. TypeOK /\ ~dispatching'
  BY DEF LimitInv, runHeartbeat
<1>2. PICK S \in SUBSET Heartbeat :
        /\ Cardinality(S) + countActiveWorkers <= HeartbeatSlots
        /\ OpenRows' = OpenRows \cup S
        /\ Held' = Held \cup S
  BY <1>1, runHeartbeatTakes
<1>3. Cardinality(OpenRows') <= HeartbeatSlots /\ IsFiniteSet(OpenRows')
  <2>1. IsFiniteSet(S) /\ IsFiniteSet(OpenRows) /\ Cardinality(OpenRows) \in Nat
    BY <1>1, CountedSetsFinite, BoundAssumption, FS_Subset DEF BoundAssumption
  <2>2. Cardinality(S) \in Nat /\ IsFiniteSet(OpenRows \cap S)
    BY <2>1, FS_CardinalityType, FS_Subset
  <2>3. Cardinality(OpenRows \cap S) \in Nat
    BY <2>2, FS_CardinalityType
  <2>4. /\ IsFiniteSet(OpenRows \cup S)
        /\ Cardinality(OpenRows \cup S)
             = Cardinality(OpenRows) + Cardinality(S) - Cardinality(OpenRows \cap S)
    BY <2>1, FS_Union
  <2>5. Cardinality(OpenRows \cup S) \in Nat
    BY <2>4, FS_CardinalityType
  <2>6. QED
    BY <1>2, <2>1, <2>2, <2>3, <2>4, <2>5, BoundAssumption
       DEF countActiveWorkers, BoundAssumption
<1>4. Cardinality(OpenRows' \cap Heartbeat) <= HeartbeatSlots
  <2>1. OpenRows' \cap Heartbeat \subseteq OpenRows'
    OBVIOUS
  <2>2. QED
    BY <1>1, <1>3, <2>1, LimitParts, StaysWithin
<1>5. Held' \cap Request = Held \cap Request
  BY <1>2, BoundAssumption DEF BoundAssumption
<1>6. WorkersWithinLimit'
  BY <1>4, <1>5 DEF LimitInv, WorkersWithinLimit
<1>7. QED
  BY <1>1, <1>6 DEF CountCoversStarting

LEMMA LimitOther ==
  ASSUME LimitInv, Overlap = FALSE, [Next]_vars, ~TakesSlots
  PROVE  WorkersWithinLimit' /\ CountCoversStarting'
<1>1. TypeOK /\ TypeOK'
  BY TypeStep DEF LimitInv
<1>2. WorkersWithinLimit'
  BY <1>1, OthersKeepSlots, OthersKeepGuests, FewerHeld DEF LimitInv, TakesSlots
<1> SUFFICES CountCoversStarting'
  BY <1>2
<1>3. CASE Tick
  <2>1. Starting' = Starting /\ Cardinality(Starting) \in Nat
    BY <1>1, <1>3, OtherTickKeeps, CountedSetsFinite
  <2>2. CASE popPendingSpawns
    <3>1. Starting' = {} /\ pendingSpawnCount' \in Nat
      BY <1>1, <2>1, <2>2 DEF popPendingSpawns, TypeOK
    <3>2. QED
      BY <3>1, FS_EmptySet DEF CountCoversStarting
  <2>3. CASE RequeueAtCapacity \/ RequeueLocked
    <3>1. dispatching' = dispatching /\ pendingSpawnCount' = pendingSpawnCount
      BY <2>3 DEF RequeueAtCapacity, RequeueLocked
    <3>2. QED
      BY <2>1, <3>1 DEF LimitInv, CountCoversStarting
  <2>4. CASE StartHandlerGated
    <3>1. dispatching' = dispatching /\ pendingSpawnCount' = pendingSpawnCount
      BY <1>1, <2>4 DEF StartHandlerGated, Less, TypeOK
    <3>2. QED
      BY <2>1, <3>1 DEF LimitInv, CountCoversStarting
  <2>5. CASE EndDispatch
    BY <2>5 DEF EndDispatch, CountCoversStarting
  <2>6. QED
    BY <1>3, <2>2, <2>3, <2>4, <2>5 DEF Tick, TakesSlots
<1>4. CASE ~Tick /\ ~UNCHANGED vars
  <2>1. ~dispatching'
    BY <1>4 DEF Next, TakesSlots, executeSpawnAgent, Handler, RefuseSpawn,
                PassPreflight, AssembleThrows, CatchSpawn, StartWorker,
                EndWorker, CloseStaleRow, Restart
  <2>2. QED
    BY <2>1 DEF CountCoversStarting
<1>5. CASE UNCHANGED vars
  BY <1>5 DEF vars, LimitInv, CountCoversStarting, Starting
<1>6. QED
  BY <1>2, <1>3, <1>4, <1>5

LEMMA LimitStep ==
  ASSUME Overlap = FALSE
  PROVE  LimitInv /\ [Next]_vars => LimitInv'
<1> SUFFICES ASSUME LimitInv, [Next]_vars
             PROVE  LimitInv'
  OBVIOUS
<1>1. TypeOK'
  BY TypeStep DEF LimitInv
<1>2. WorkersWithinLimit' /\ CountCoversStarting'
  BY LimitStartHandler, LimitHeartbeat, LimitOther DEF TakesSlots
<1>3. QED
  BY <1>1, <1>2 DEF LimitInv

\* The limits on the workers of requests and of the heartbeat hold for any
\* number of requests, projects and heartbeat workers, whenever the heartbeat
\* runs and across watchdogs and restarts, if every handler inserts its row
\* before the next dispatch (otherwise the safety valve drops the reservation
\* the limit counts on, as it drops the key in run lock_overlap).
THEOREM WorkersLimited ==
  ASSUME Overlap = FALSE
  PROVE  Spec => []WorkersWithinLimit
<1>1. Init => LimitInv
  BY LimitInit
<1>2. LimitInv /\ [Next]_vars => LimitInv'
  BY LimitStep
<1>3. LimitInv => WorkersWithinLimit
  BY DEF LimitInv
<1>4. QED
  BY <1>1, <1>2, <1>3, PTL DEF Spec

-----------------------------------------------------------------------------
(* The project lock.  Inductive with KeysCoverStarting, if besides every     *)
(* handler computes the key the tick reserved for it.                        *)

SameKeys == \A r \in Request : WorkerKey[r] = LockKey[r]

LockInv == TypeOK /\ ProjectLock /\ KeysCoverStarting

LEMMA LockInit == Init => LockInv
<1> SUFFICES ASSUME Init
             PROVE  LockInv
  OBVIOUS
<1>1. Held = {}
  BY DEF Init, Held, Starting, OpenRows
<1>2. ProjectLock
  BY <1>1 DEF ProjectLock
<1>3. KeysCoverStarting
  BY DEF Init, KeysCoverStarting
<1>4. QED
  BY <1>2, <1>3, TypeInit DEF LockInv

LEMMA FewerLocks ==
  ASSUME ProjectLock, Held' \subseteq Held
  PROVE  ProjectLock'
<1> SUFFICES ASSUME NEW v \in Held', NEW w \in Held', v # w, KeyOf(v)' # NoKey
             PROVE  KeyOf(v)' # KeyOf(w)'
  BY DEF ProjectLock
<1>1. v \in Held /\ w \in Held
  OBVIOUS
<1>2. KeyOf(v)' = KeyOf(v) /\ KeyOf(w)' = KeyOf(w)
  BY DEF KeyOf
<1>3. QED
  BY <1>1, <1>2 DEF ProjectLock

LEMMA LockStartHandler ==
  ASSUME LockInv, SameKeys, StartHandler
  PROVE  ProjectLock' /\ KeysCoverStarting'
<1> DEFINE r == Head(batch)
<1>1. TypeOK /\ dispatching /\ r \in Request
  BY HeadTail DEF LockInv, StartHandler
<1>2. Starting' = Starting \cup {r} /\ Held' = Held \cup {r}
  BY <1>1, StartHandlerTakes
<1>3. pendingSpawnKeys' = pendingSpawnKeys \cup ({LockKey[r]} \ {NoKey})
  BY DEF StartHandler, incrementPendingSpawns
<1>4. KeysCoverStarting'
  BY <1>1, <1>2, <1>3 DEF LockInv, KeysCoverStarting
<1>5. KeyOf(r) = LockKey[r]
  BY <1>1 DEF KeyOf, SameKeys
<1>6. ASSUME NEW v \in Held, LockKey[r] # NoKey
      PROVE  KeyOf(v) # LockKey[r]
  <2>1. ~projectHasActiveWorker(LockKey[r]) /\ LockKey[r] \notin pendingSpawnKeys
    BY <1>6 DEF StartHandler, Locked, projectHasPendingSpawn
  <2>2. CASE v \in OpenRows
    BY <2>1, <2>2 DEF projectHasActiveWorker
  <2>3. CASE v \in Starting
    <3>1. v \in Request /\ KeyOf(v) = LockKey[v]
      BY <2>3 DEF Starting, KeyOf, SameKeys
    <3>2. LockKey[v] # NoKey => LockKey[v] \in pendingSpawnKeys
      BY <1>1, <2>3 DEF LockInv, KeysCoverStarting
    <3>3. QED
      BY <1>6, <2>1, <3>1, <3>2
  <2>4. QED
    BY <2>2, <2>3 DEF Held
<1>7. \A v, w \in Held \cup {r} :
        v # w /\ KeyOf(v) # NoKey => KeyOf(v) # KeyOf(w)
  BY <1>5, <1>6 DEF LockInv, ProjectLock
<1>8. \A v : KeyOf(v)' = KeyOf(v)
  BY DEF KeyOf
<1>9. ProjectLock'
  BY <1>2, <1>7, <1>8 DEF ProjectLock
<1>10. QED
  BY <1>4, <1>9

\* A heartbeat worker has no project, so it disturbs no lock.
LEMMA LockHeartbeat ==
  ASSUME LockInv, runHeartbeat
  PROVE  ProjectLock' /\ KeysCoverStarting'
<1>1. TypeOK /\ ~dispatching'
  BY DEF LockInv, runHeartbeat
<1>2. PICK S \in SUBSET Heartbeat : Held' = Held \cup S
  BY <1>1, runHeartbeatTakes
<1>3. \A h \in S : KeyOf(h) = NoKey
  BY BoundAssumption DEF BoundAssumption, KeyOf
<1>4. \A v, w \in Held \cup S :
        v # w /\ KeyOf(v) # NoKey => KeyOf(v) # KeyOf(w)
  BY <1>3 DEF LockInv, ProjectLock
<1>5. \A v : KeyOf(v)' = KeyOf(v)
  BY DEF KeyOf
<1>6. ProjectLock'
  BY <1>2, <1>4, <1>5 DEF ProjectLock
<1>7. QED
  BY <1>1, <1>6 DEF KeysCoverStarting

LEMMA LockOther ==
  ASSUME LockInv, SameKeys, Overlap = FALSE, [Next]_vars, ~TakesSlots
  PROVE  ProjectLock' /\ KeysCoverStarting'
<1>1. TypeOK
  BY DEF LockInv
<1>2. ProjectLock'
  BY <1>1, OthersKeepSlots, FewerLocks DEF LockInv
<1> SUFFICES KeysCoverStarting'
  BY <1>2
<1>3. CASE Tick
  <2>1. Starting' = Starting
    BY <1>1, <1>3, OtherTickKeeps
  <2>2. CASE popPendingSpawns
    <3>1. Starting' = {}
      BY <2>1, <2>2 DEF popPendingSpawns
    <3>2. QED
      BY <3>1 DEF KeysCoverStarting
  <2>3. CASE RequeueAtCapacity \/ RequeueLocked
    <3>1. dispatching' = dispatching /\ pendingSpawnKeys' = pendingSpawnKeys
      BY <2>3 DEF RequeueAtCapacity, RequeueLocked
    <3>2. QED
      BY <2>1, <3>1 DEF LockInv, KeysCoverStarting
  <2>4. CASE StartHandlerGated
    <3>1. batch # <<>> /\ Head(batch) \in Request
      BY <1>1, <2>4, HeadTail DEF StartHandlerGated
    <3>2. WorkerKey[Head(batch)] = LockKey[Head(batch)]
      BY <3>1 DEF SameKeys
    <3>3. LockKey[Head(batch)] # NoKey
            => LockKey[Head(batch)] \notin pendingSpawnKeys
      BY <2>4 DEF StartHandlerGated, Locked, projectHasPendingSpawn
    <3>4. \A k \in pendingSpawnKeys : k # NoKey => k \in pendingSpawnKeys'
      BY <2>4, <3>2, <3>3 DEF StartHandlerGated
    <3>5. dispatching' = dispatching
      BY <2>4 DEF StartHandlerGated
    <3>6. QED
      BY <2>1, <3>4, <3>5 DEF LockInv, KeysCoverStarting
  <2>5. CASE EndDispatch
    BY <2>5 DEF EndDispatch, KeysCoverStarting
  <2>6. QED
    BY <1>3, <2>2, <2>3, <2>4, <2>5 DEF Tick, TakesSlots
<1>4. CASE ~Tick /\ ~UNCHANGED vars
  <2>1. ~dispatching'
    BY <1>4 DEF Next, TakesSlots, executeSpawnAgent, Handler, RefuseSpawn,
                PassPreflight, AssembleThrows, CatchSpawn, StartWorker,
                EndWorker, CloseStaleRow, Restart
  <2>2. QED
    BY <2>1 DEF KeysCoverStarting
<1>5. CASE UNCHANGED vars
  BY <1>5 DEF vars, LockInv, KeysCoverStarting, Starting
<1>6. QED
  BY <1>3, <1>4, <1>5

LEMMA LockStep ==
  ASSUME SameKeys, Overlap = FALSE
  PROVE  LockInv /\ [Next]_vars => LockInv'
<1> SUFFICES ASSUME LockInv, [Next]_vars
             PROVE  LockInv'
  OBVIOUS
<1>1. TypeOK'
  BY TypeStep DEF LockInv
<1>2. ProjectLock' /\ KeysCoverStarting'
  BY LockStartHandler, LockHeartbeat, LockOther DEF TakesSlots
<1>3. QED
  BY <1>1, <1>2 DEF LockInv

\* Two workers never hold the lock of one project and agent type, however many
\* requests, watchdogs, heartbeats and restarts there are, if every handler
\* inserts its row before the next dispatch and computes the tick's key.
THEOREM ProjectsLocked ==
  ASSUME SameKeys, Overlap = FALSE
  PROVE  Spec => []ProjectLock
<1>1. Init => LockInv
  BY LockInit
<1>2. LockInv /\ [Next]_vars => LockInv'
  BY LockStep
<1>3. LockInv => ProjectLock
  BY DEF LockInv
<1>4. QED
  BY <1>1, <1>2, <1>3, PTL DEF Spec

-----------------------------------------------------------------------------
(* The accounting implements WorkerSlots. *)

LEMMA SlotsInit == Init => Slots!Init
  BY DEF Init, Slots!Init, Held, Starting, OpenRows

\* A step after which the locks are disjoint and which only adds S takes S.
LEMMA SlotsTake ==
  ASSUME TypeOK', ProjectLock', NEW S, S # {}, S \cap Held = {},
         Held' = Held \cup S
  PROVE  Slots!Take(S) /\ S \in SUBSET Worker
<1>1. Held' \subseteq Worker
  BY DEF Held, Starting, OpenRows, Worker
<1>2. \A w : KeyOf(w)' = KeyOf(w)
  BY DEF KeyOf
<1>3. Slots!LocksDisjoint(Held')
  BY <1>1, <1>2 DEF Slots!LocksDisjoint, ProjectLock
<1>4. QED
  BY <1>1, <1>3 DEF Slots!Take

LEMMA SlotsCardinality == \A S : Slots!Cardinality(S) = Cardinality(S)
  BY DEF Slots!Cardinality, Cardinality, Slots!IsFiniteSet, IsFiniteSet

LEMMA SlotsStartHandler ==
  ASSUME TypeOK, TypeOK', StartHandler, ProjectLock',
         Cardinality(Held') <= MaxWorkers
  PROVE  [Slots!Next]_Held
<1>1. Head(batch) \in Request /\ Held' = Held \cup {Head(batch)}
  BY StartHandlerTakes
<1>2. CASE Head(batch) \in Held
  <2>1. Held' = Held
    BY <1>1, <1>2
  <2>2. QED
    BY <2>1
<1>3. CASE Head(batch) \notin Held
  <2> DEFINE S == {Head(batch)}
  <2>1. Slots!Take(S) /\ S \in SUBSET Worker
    BY <1>1, <1>3, SlotsTake
  <2>2. S \cap Heartbeat = {}
    BY <1>1, BoundAssumption DEF BoundAssumption
  <2>3. Slots!Acquire(S)
    BY <2>1, <2>2, SlotsCardinality DEF Slots!Acquire
  <2>4. QED
    BY <2>1, <2>3 DEF Slots!Next
<1>4. QED
  BY <1>2, <1>3

LEMMA SlotsHeartbeat ==
  ASSUME TypeOK, TypeOK', runHeartbeat, ProjectLock', WorkersWithinLimit'
  PROVE  [Slots!Next]_Held
<1>1. PICK S \in SUBSET Heartbeat :
        /\ S # {} /\ S \cap OpenRows = {}
        /\ OpenRows' = OpenRows \cup S
        /\ Held' = Held \cup S
  BY runHeartbeatTakes
<1>2. S \cap Held = {}
  BY <1>1, BoundAssumption DEF BoundAssumption, Held, Starting
<1>3. Slots!Take(S) /\ S \in SUBSET Worker
  BY <1>1, <1>2, SlotsTake
<1>4. Held' \cap Heartbeat = OpenRows' \cap Heartbeat
  BY BoundAssumption DEF BoundAssumption, Held, Starting
<1>5. Cardinality(Held' \cap Heartbeat) <= HeartbeatSlots
  BY <1>4 DEF WorkersWithinLimit
<1>6. Slots!AcquireAsGuest(S)
  BY <1>1, <1>3, <1>5, SlotsCardinality DEF Slots!AcquireAsGuest
<1>7. QED
  BY <1>3, <1>6 DEF Slots!Next

LEMMA SlotsStep ==
  ASSUME LimitInv, TypeOK', [Next]_vars, WorkersWithinLimit', ProjectLock'
  PROVE  [Slots!Next]_Held
<1>1. TypeOK
  BY DEF LimitInv
<1>2. CASE StartHandler
  BY <1>1, <1>2, LimitStartHandler, SlotsStartHandler
<1>3. CASE runHeartbeat
  BY <1>1, <1>3, SlotsHeartbeat
<1>4. CASE ~TakesSlots
  <2> DEFINE S == Held \ Held'
  <2>1. Held \subseteq Worker /\ Held' \subseteq Held
    BY <1>1, <1>4, OthersKeepSlots DEF Held, Starting, OpenRows, Worker
  <2>2. CASE Held' = Held
    BY <2>2
  <2>3. CASE Held' # Held
    <3>1. S \in SUBSET Worker /\ S \cap Held # {} /\ Held' = Held \ S
      BY <2>1, <2>3
    <3>2. Slots!Release(S)
      BY <3>1 DEF Slots!Release
    <3>3. QED
      BY <3>1, <3>2 DEF Slots!Next
  <2>4. QED
    BY <2>2, <2>3
<1>5. QED
  BY <1>2, <1>3, <1>4 DEF TakesSlots

\* Whatever the queue, the counter, the keys and the heartbeat do, the workers
\* that hold a slot change as WorkerSlots allows: a tick takes a slot only
\* within the limit on all of them, the heartbeat within its own, with disjoint
\* locks, and any workers give theirs back.
THEOREM AccountingImplementsSlots ==
  ASSUME SameKeys, Overlap = FALSE
  PROVE  Spec => ImplementsSlots
<1>1. Init => LimitInv /\ LockInv /\ Slots!Init
  BY LimitInit, LockInit, SlotsInit
<1>2. LimitInv /\ LockInv /\ [Next]_vars => LimitInv' /\ LockInv'
  BY LimitStep, LockStep
<1>3. LimitInv /\ LockInv /\ [Next]_vars /\ LimitInv' /\ LockInv'
        => [Slots!Next]_Held
  BY SlotsStep DEF LimitInv, LockInv
<1>4. QED
  BY <1>1, <1>2, <1>3, PTL DEF Spec, ImplementsSlots, Slots!Spec

-----------------------------------------------------------------------------
(* Reservations never leak, on any instance: QueueInv is inductive.          *)

\* What the queue and the batch hold, apart from the counter.
QueueOf(q, b, st) ==
  /\ \A i \in DOMAIN q : st[q[i]] = "queued"
  /\ \A i \in DOMAIN b : st[b[i]] = "queued"
  /\ \A i, j \in DOMAIN q : i # j => q[i] # q[j]
  /\ \A i, j \in DOMAIN b : i # j => b[i] # b[j]
  /\ \A i \in DOMAIN q, j \in DOMAIN b : q[i] # b[j]

Queues == QueueOf(pendingSpawns, batch, stage)

LEMMA QueueInvParts == QueueInv <=> TypeOK /\ ReservationsBacked /\ Queues
  BY DEF QueueInv, Queues, QueueOf

LEMMA InFlightFinite ==
  ASSUME TypeOK
  PROVE  IsFiniteSet(InFlight) /\ Cardinality(InFlight) \in Nat
<1>1. InFlight \subseteq Worker
  BY DEF InFlight, Starting, Worker
<1>2. QED
  BY <1>1, WorkerFinite, FS_Subset, FS_CardinalityType

LEMMA TailElements ==
  ASSUME NEW b \in Seq(Request), b # <<>>
  PROVE  /\ Tail(b) \in Seq(Request)
         /\ Head(b) = b[1] /\ 1 \in DOMAIN b
         /\ \A i \in DOMAIN Tail(b) : i + 1 \in DOMAIN b /\ Tail(b)[i] = b[i + 1]
                                     /\ i \in Nat /\ i + 1 # 1
  OBVIOUS

LEMMA AppendElements ==
  ASSUME NEW q \in Seq(Request), NEW r \in Request
  PROVE  \A i \in DOMAIN Append(q, r) :
           \/ i \in DOMAIN q /\ Append(q, r)[i] = q[i]
           \/ i = Len(q) + 1 /\ i \notin DOMAIN q /\ Append(q, r)[i] = r
  OBVIOUS

\* The head of the batch goes back to the end of the queue.
LEMMA RequeueQueues ==
  ASSUME TypeOK, Queues, batch # <<>>
  PROVE  QueueOf(Append(pendingSpawns, Head(batch)), Tail(batch), stage)
<1> DEFINE q == Append(pendingSpawns, Head(batch))
           b == Tail(batch)
<1>1. /\ pendingSpawns \in Seq(Request) /\ batch \in Seq(Request)
      /\ Head(batch) \in Request
  BY HeadTail DEF TypeOK
<1>2. /\ Head(batch) = batch[1] /\ 1 \in DOMAIN batch
      /\ \A i \in DOMAIN b : i + 1 \in DOMAIN batch /\ b[i] = batch[i + 1]
                           /\ i \in Nat /\ i + 1 # 1
  BY <1>1, TailElements
<1>3. \A i \in DOMAIN q :
        \/ i \in DOMAIN pendingSpawns /\ q[i] = pendingSpawns[i]
        \/ i = Len(pendingSpawns) + 1 /\ q[i] = Head(batch)
  BY <1>1, AppendElements
<1> HIDE DEF q, b
<1>4. \A i \in DOMAIN q : stage[q[i]] = "queued"
  BY <1>2, <1>3 DEF Queues, QueueOf
<1>5. \A i \in DOMAIN b : stage[b[i]] = "queued"
  BY <1>2 DEF Queues, QueueOf
<1>6. \A i, j \in DOMAIN q : i # j => q[i] # q[j]
  BY <1>2, <1>3 DEF Queues, QueueOf
<1>7. \A i, j \in DOMAIN b : i # j => b[i] # b[j]
  BY <1>2 DEF Queues, QueueOf
<1>8. \A i \in DOMAIN q, j \in DOMAIN b : q[i] # b[j]
  BY <1>2, <1>3 DEF Queues, QueueOf
<1>9. QED
  BY <1>4, <1>5, <1>6, <1>7, <1>8 DEF QueueOf, q, b

\* The head of the batch leaves the queue for its handler.
LEMMA StartQueues ==
  ASSUME TypeOK, Queues, batch # <<>>, NEW s \in Stage
  PROVE  QueueOf(pendingSpawns, Tail(batch),
                 [stage EXCEPT ![Head(batch)] = s])
<1> DEFINE b == Tail(batch)
           st == [stage EXCEPT ![Head(batch)] = s]
<1>1. /\ pendingSpawns \in Seq(Request) /\ batch \in Seq(Request)
      /\ Head(batch) \in Request /\ stage \in [Request -> Stage]
  BY HeadTail DEF TypeOK
<1>2. /\ Head(batch) = batch[1] /\ 1 \in DOMAIN batch
      /\ \A i \in DOMAIN b : i + 1 \in DOMAIN batch /\ b[i] = batch[i + 1]
                           /\ i \in Nat /\ i + 1 # 1
  BY <1>1, TailElements
<1>3. /\ \A i \in DOMAIN pendingSpawns : pendingSpawns[i] \in Request
      /\ \A i \in DOMAIN batch : batch[i] \in Request
  BY <1>1
<1>4. \A r \in Request : r # Head(batch) => st[r] = stage[r]
  BY <1>1
<1> HIDE DEF b, st
<1>5. \A i \in DOMAIN pendingSpawns : st[pendingSpawns[i]] = "queued"
  BY <1>2, <1>3, <1>4 DEF Queues, QueueOf
<1>6. \A i \in DOMAIN b : st[b[i]] = "queued"
  BY <1>2, <1>3, <1>4 DEF Queues, QueueOf
<1>7. \A i, j \in DOMAIN b : i # j => b[i] # b[j]
  BY <1>2 DEF Queues, QueueOf
<1>8. \A i \in DOMAIN pendingSpawns, j \in DOMAIN b : pendingSpawns[i] # b[j]
  BY <1>2 DEF Queues, QueueOf
<1>9. QED
  BY <1>5, <1>6, <1>7, <1>8 DEF Queues, QueueOf, b, st

\* A request that waits nowhere changes its stage: the queues do not notice.
LEMMA OtherStage ==
  ASSUME TypeOK, Queues, NEW r \in Request, stage[r] # "queued", NEW s \in Stage
  PROVE  QueueOf(pendingSpawns, batch, [stage EXCEPT ![r] = s])
<1> DEFINE st == [stage EXCEPT ![r] = s]
<1>1. /\ \A i \in DOMAIN pendingSpawns : pendingSpawns[i] \in Request
      /\ \A i \in DOMAIN batch : batch[i] \in Request
  BY DEF TypeOK
<1>2. \A q \in Request : q # r => st[q] = stage[q]
  BY DEF TypeOK
<1> HIDE DEF st
<1>3. QED
  BY <1>1, <1>2 DEF Queues, QueueOf, st

LEMMA EnqueueQueues ==
  ASSUME TypeOK, Queues, NEW r \in Request, stage[r] = "idle"
  PROVE  QueueOf(Append(pendingSpawns, r), batch,
                 [stage EXCEPT ![r] = "queued"])
<1> DEFINE q == Append(pendingSpawns, r)
           st == [stage EXCEPT ![r] = "queued"]
<1>1. /\ pendingSpawns \in Seq(Request)
      /\ \A i \in DOMAIN pendingSpawns : pendingSpawns[i] \in Request
      /\ \A i \in DOMAIN batch : batch[i] \in Request
  BY DEF TypeOK
<1>2. (\A p \in Request : p # r => st[p] = stage[p]) /\ st[r] = "queued"
  BY DEF TypeOK
<1>3. \A i \in DOMAIN q :
        \/ i \in DOMAIN pendingSpawns /\ q[i] = pendingSpawns[i]
        \/ i = Len(pendingSpawns) + 1 /\ q[i] = r
  BY <1>1, AppendElements
<1>4. /\ \A i \in DOMAIN pendingSpawns : pendingSpawns[i] # r
      /\ \A i \in DOMAIN batch : batch[i] # r
  BY DEF Queues, QueueOf
<1> HIDE DEF q, st
<1>5. \A i \in DOMAIN q : st[q[i]] = "queued"
  BY <1>1, <1>2, <1>3, <1>4 DEF Queues, QueueOf
<1>6. \A i \in DOMAIN batch : st[batch[i]] = "queued"
  BY <1>1, <1>2, <1>4 DEF Queues, QueueOf
<1>7. \A i, j \in DOMAIN q : i # j => q[i] # q[j]
  BY <1>3, <1>4 DEF Queues, QueueOf
<1>8. \A i \in DOMAIN q, j \in DOMAIN batch : q[i] # batch[j]
  BY <1>3, <1>4 DEF Queues, QueueOf
<1>9. QED
  BY <1>5, <1>6, <1>7, <1>8 DEF Queues, QueueOf, q, st

LEMMA QueuesTick ==
  ASSUME TypeOK, Queues, Tick
  PROVE  Queues'
<1>1. CASE popPendingSpawns
  BY <1>1 DEF popPendingSpawns, Queues, QueueOf
<1>2. CASE RequeueAtCapacity \/ RequeueLocked \/ StartHandlerGated
  <2>1. batch # <<>> /\ requeueSpawn
    BY <1>2 DEF RequeueAtCapacity, RequeueLocked, StartHandlerGated
  <2>2. QED
    BY <2>1, RequeueQueues DEF requeueSpawn, Queues
<1>3. CASE StartHandler
  <2>1. PICK s \in {"preflight", "threw"} :
          stage' = [stage EXCEPT ![Head(batch)] = s]
    BY <1>3 DEF StartHandler
  <2>2. s \in Stage /\ batch # <<>> /\ batch' = Tail(batch)
        /\ pendingSpawns' = pendingSpawns
    BY <1>3 DEF StartHandler, Stage
  <2>3. QED
    BY <2>1, <2>2, StartQueues DEF Queues
<1>4. CASE EndDispatch
  BY <1>4 DEF EndDispatch, Queues, QueueOf
<1>5. QED
  BY <1>1, <1>2, <1>3, <1>4 DEF Tick

LEMMA QueuesHandler ==
  ASSUME TypeOK, Queues, NEW r \in Request, Handler(r)
  PROVE  Queues'
<1>1. pendingSpawns' = pendingSpawns /\ batch' = batch
  BY DEF Handler, RefuseSpawn, PassPreflight, AssembleThrows, CatchSpawn,
         StartWorker, EndWorker
<1>2. stage[r] # "queued"
  BY DEF Handler, RefuseSpawn, PassPreflight, AssembleThrows, CatchSpawn,
         StartWorker, EndWorker
<1>3. \E s \in Stage : stage' = [stage EXCEPT ![r] = s]
  BY DEF Handler, RefuseSpawn, PassPreflight, AssembleThrows, CatchSpawn,
         StartWorker, EndWorker, Stage
<1>4. QED
  BY <1>1, <1>2, <1>3, OtherStage DEF Queues

LEMMA QueuesStep == TypeOK /\ Queues /\ [Next]_vars => Queues'
<1> SUFFICES ASSUME TypeOK, Queues, [Next]_vars
             PROVE  Queues'
  OBVIOUS
<1>1. CASE Tick
  BY <1>1, QueuesTick
<1>2. ASSUME NEW r \in Request, executeSpawnAgent(r)
      PROVE  Queues'
  BY <1>2, EnqueueQueues DEF executeSpawnAgent, Queues
<1>3. ASSUME NEW r \in Request, Handler(r)
      PROVE  Queues'
  BY <1>3, QueuesHandler
<1>4. CASE runHeartbeat
  BY <1>4 DEF runHeartbeat, Queues, QueueOf
<1>5. ASSUME NEW w \in Worker, CloseStaleRow(w)
      PROVE  Queues'
  BY <1>5 DEF CloseStaleRow, Queues, QueueOf
<1>6. CASE Restart
  BY <1>6 DEF Restart, Queues, QueueOf
<1>7. CASE UNCHANGED vars
  BY <1>7 DEF vars, Queues, QueueOf
<1>8. QED
  BY <1>1, <1>2, <1>3, <1>4, <1>5, <1>6, <1>7 DEF Next

\* One handler fewer, one reservation fewer, but never below zero.
LEMMA OneFewer ==
  ASSUME TypeOK, ReservationsBacked, NEW r \in InFlight,
         InFlight' = InFlight \ {r}, pendingSpawnCount' = Less(pendingSpawnCount, 1)
  PROVE  ReservationsBacked'
<1>1. IsFiniteSet(InFlight) /\ Cardinality(InFlight) \in Nat
  BY InFlightFinite
<1>2. Cardinality(InFlight \ {r}) = Cardinality(InFlight) - 1
  BY <1>1, FS_RemoveElement
<1>3. Cardinality(InFlight) # 0
  BY <1>1, FS_EmptySet
<1>4. pendingSpawnCount \in Nat
  BY DEF TypeOK
<1>5. QED
  BY <1>1, <1>2, <1>3, <1>4 DEF ReservationsBacked, Less

LEMMA BackedHandler ==
  ASSUME TypeOK, ReservationsBacked, NEW r \in Request, Handler(r)
  PROVE  ReservationsBacked'
<1> USE DEF TypeOK, InFlight, Starting
<1>1. CASE RefuseSpawn(r)
  <2>1. InFlight' = InFlight \ {r} /\ r \in InFlight
    BY <1>1 DEF RefuseSpawn
  <2>2. QED
    BY <1>1, <2>1, OneFewer DEF RefuseSpawn, decrementPendingSpawns
<1>2. CASE CatchSpawn(r)
  <2>1. InFlight' = InFlight \ {r} /\ r \in InFlight
    BY <1>2 DEF CatchSpawn
  <2>2. QED
    BY <1>2, <2>1, OneFewer DEF CatchSpawn, decrementPendingSpawns
<1>3. CASE EndWorker(r)
  <2>1. InFlight' = InFlight \ {r} /\ r \in InFlight
    BY <1>3 DEF EndWorker
  <2>2. QED
    BY <1>3, <2>1, OneFewer DEF EndWorker, decrementPendingSpawns
<1>4. CASE PassPreflight(r) \/ AssembleThrows(r) \/ StartWorker(r)
  <2>1. InFlight' = InFlight
    BY <1>4 DEF PassPreflight, AssembleThrows, StartWorker
  <2>2. pendingSpawnCount' = pendingSpawnCount
    BY <1>4 DEF PassPreflight, AssembleThrows, StartWorker
  <2>3. QED
    BY <2>1, <2>2 DEF ReservationsBacked
<1>5. QED
  BY <1>1, <1>2, <1>3, <1>4 DEF Handler

LEMMA BackedTick ==
  ASSUME TypeOK, Queues, ReservationsBacked, Tick
  PROVE  ReservationsBacked'
<1>1. IsFiniteSet(InFlight) /\ Cardinality(InFlight) \in Nat
      /\ pendingSpawnCount \in Nat
  BY InFlightFinite DEF TypeOK
<1>2. CASE popPendingSpawns \/ RequeueAtCapacity \/ RequeueLocked
  BY <1>2 DEF popPendingSpawns, RequeueAtCapacity, RequeueLocked, requeueSpawn,
              ReservationsBacked, InFlight, Starting
<1>3. CASE StartHandler
  <2> DEFINE r == Head(batch)
  <2>1. r \in Request /\ batch # <<>> /\ batch \in Seq(Request)
    BY <1>3, HeadTail DEF StartHandler, TypeOK
  <2>2. stage[r] = "queued"
    BY <2>1, TailElements DEF Queues, QueueOf
  <2>3. r \notin InFlight
    BY <2>2 DEF InFlight, Starting
  <2>4. InFlight' = InFlight \cup {r}
    BY <1>3, <2>1 DEF StartHandler, InFlight, Starting, TypeOK
  <2>5. pendingSpawnCount' = pendingSpawnCount + 1
    BY <1>3 DEF StartHandler, incrementPendingSpawns
  <2>6. Cardinality(InFlight') = Cardinality(InFlight) + 1
    BY <1>1, <2>3, <2>4, AddOne
  <2>7. QED
    BY <1>1, <2>5, <2>6 DEF ReservationsBacked
<1>4. CASE StartHandlerGated
  <2>1. InFlight' = InFlight
    BY <1>4 DEF StartHandlerGated, requeueSpawn, InFlight, Starting
  <2>2. pendingSpawnCount' = pendingSpawnCount
    BY <1>1, <1>4 DEF StartHandlerGated, Less
  <2>3. QED
    BY <2>1, <2>2 DEF ReservationsBacked
<1>5. CASE EndDispatch
  <2>1. InFlight' = InFlight
    BY <1>5 DEF EndDispatch, InFlight, Starting
  <2>2. Cardinality(StaleKeys) \in Nat
    BY CountedSetsFinite
  <2>3. pendingSpawnCount' = Less(pendingSpawnCount, Cardinality(StaleKeys))
    BY <1>5 DEF EndDispatch, clearStalePendingSpawns
  <2>4. pendingSpawnCount' \in Nat /\ pendingSpawnCount' <= pendingSpawnCount
    BY <1>1, <2>2, <2>3, LessNat
  <2>5. QED
    BY <1>1, <2>1, <2>4 DEF ReservationsBacked
<1>6. QED
  BY <1>2, <1>3, <1>4, <1>5 DEF Tick

LEMMA BackedStep ==
  ASSUME TypeOK, Queues, ReservationsBacked, [Next]_vars
  PROVE  ReservationsBacked'
<1>1. CASE Tick
  BY <1>1, BackedTick
<1>2. ASSUME NEW r \in Request, executeSpawnAgent(r)
      PROVE  ReservationsBacked'
  <2>1. InFlight' = InFlight
    BY <1>2 DEF executeSpawnAgent, InFlight, Starting, TypeOK
  <2>2. QED
    BY <1>2, <2>1 DEF executeSpawnAgent, ReservationsBacked
<1>3. ASSUME NEW r \in Request, Handler(r)
      PROVE  ReservationsBacked'
  BY <1>3, BackedHandler
<1>4. CASE runHeartbeat
  BY <1>4 DEF runHeartbeat, ReservationsBacked, InFlight, Starting
<1>5. ASSUME NEW w \in Worker, CloseStaleRow(w)
      PROVE  ReservationsBacked'
  BY <1>5 DEF CloseStaleRow, ReservationsBacked, InFlight, Starting
<1>6. CASE Restart
  <2>1. InFlight' = {} /\ pendingSpawnCount' = 0
    BY <1>6 DEF Restart, InFlight, Starting
  <2>2. QED
    BY <2>1, FS_EmptySet DEF ReservationsBacked
<1>7. CASE UNCHANGED vars
  BY <1>7 DEF vars, ReservationsBacked, InFlight, Starting
<1>8. QED
  BY <1>1, <1>2, <1>3, <1>4, <1>5, <1>6, <1>7 DEF Next

LEMMA QueueInit == Init => QueueInv
<1> SUFFICES ASSUME Init
             PROVE  QueueInv
  OBVIOUS
<1>1. InFlight = {} /\ pendingSpawnCount = 0
  BY DEF Init, InFlight, Starting
<1>2. ReservationsBacked
  BY <1>1, FS_EmptySet DEF ReservationsBacked
<1>3. Queues
  BY DEF Init, Queues, QueueOf
<1>4. QED
  BY <1>2, <1>3, TypeInit, QueueInvParts

LEMMA QueueStep == QueueInv /\ [Next]_vars => QueueInv'
<1> SUFFICES ASSUME QueueInv, [Next]_vars
             PROVE  QueueInv'
  OBVIOUS
<1>1. TypeOK /\ ReservationsBacked /\ Queues
  BY QueueInvParts
<1>2. TypeOK' /\ Queues' /\ ReservationsBacked'
  BY <1>1, TypeStep, QueuesStep, BackedStep
<1>3. QED
  BY <1>2 DEF QueueInv, Queues, QueueOf

\* No path of a handler leaks capacity: the counter never exceeds the handlers
\* in flight, with dispatches that overlap handlers and keys that differ too.
THEOREM NoReservationLeaks == Spec => []ReservationsBacked
<1>1. Init => QueueInv
  BY QueueInit
<1>2. QueueInv /\ [Next]_vars => QueueInv'
  BY QueueStep
<1>3. QueueInv => ReservationsBacked
  BY DEF QueueInv
<1>4. QED
  BY <1>1, <1>2, <1>3, PTL DEF Spec
=============================================================================
