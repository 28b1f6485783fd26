----------------------- MODULE WorkflowEngine_proofs -----------------------
(* Theorems about WorkflowEngine, for every workflow, every set of runs and *)
(* tasks and every bound.                                                   *)
EXTENDS WorkflowEngine, FiniteSetTheorems, TLAPS

WorkStates == {"not_started", "in_progress", "done", "completed", "blocked", "escalated"}

TickState == [todo : UNION {[S -> Row] : S \in SUBSET Run},
              passes : 0 .. MaxPasses, calling : BOOLEAN]

\* TypeOK, and tick is a function on the ticks.
TypeInv ==
  /\ run \in [Run -> Row]
  /\ created \in [Run -> Nat]
  /\ tick \in [Tick -> TickState]
  /\ cpu \in Tick \cup {NoTick}
  /\ workState \in [Task -> WorkStates]
  /\ spawnCount \in [Task -> Int] /\ resets \in [Task -> Nat]
  /\ queued \in Count /\ working \in Count /\ executed \in Count
  /\ due \subseteq Run \X Node

LEMMA TypeInvIsStronger == TypeInv => TypeOK
<1> SUFFICES ASSUME TypeInv PROVE TypeOK
  OBVIOUS
<1>1. ASSUME NEW t \in Tick
      PROVE  \E S \in SUBSET Run :
               tick[t] \in [todo : [S -> Row], passes : 0 .. MaxPasses, calling : BOOLEAN]
  <2>1. tick[t] \in TickState
    BY DEF TypeInv
  <2>2. PICK S \in SUBSET Run : tick[t].todo \in [S -> Row]
    BY <2>1 DEF TickState
  <2>3. QED
    BY <2>1, <2>2 DEF TickState
<1>2. QED
  BY <1>1 DEF TypeInv, TypeOK, WorkStates

-----------------------------------------------------------------------------
(* What the writes of a pass do to the rows *)

LEMMA CurrentInTodo == ASSUME NEW t PROVE Current(t) \subseteq DOMAIN tick[t].todo
  BY DEF Current, Oldest

LEMMA ActiveRunsActive ==
  ASSUME NEW l PROVE \A r \in ActiveRuns(l) : r \in Run /\ Active(r)
  BY DEF ActiveRuns

LEMMA FreshType == Fresh \in NodeState
  BY DEF Fresh, NodeState, ErrorType

LEMMA WriteNodeStatesEffect ==
  ASSUME run \in [Run -> Row], NEW r \in Run, NEW ns \in [Node -> NodeState],
         WriteNodeStates(r, ns)
  PROVE  /\ run' \in [Run -> Row]
         /\ \A q \in Run : q # r => run'[q] = run[q]
         /\ run'[r].status = run[r].status
  BY DEF WriteNodeStates, Row

LEMMA MoveToEffect ==
  ASSUME run \in [Run -> Row], NEW r \in Run, NEW n \in Node, MoveTo(r, n)
  PROVE  /\ run' \in [Run -> Row]
         /\ \A q \in Run : q # r => run'[q] = run[q]
         /\ run'[r].status = run[r].status
  BY DEF MoveTo, Row

LEMMA FinishRunEffect ==
  ASSUME run \in [Run -> Row], workState \in [Task -> WorkStates],
         NEW r \in Run, NEW o \in {"completed", "failed"}, FinishRun(r, o)
  PROVE  /\ run' \in [Run -> Row]
         /\ \A q \in Run : q # r => run'[q] = run[q]
         /\ run'[r].status = o
         /\ workState' \in [Task -> WorkStates]
<1>1. /\ run' \in [Run -> Row] /\ run'[r].status = o
      /\ \A q \in Run : q # r => run'[q] = run[q]
  BY DEF FinishRun, Row
<1>2. workState' \in [Task -> WorkStates]
  <2>1. TaskOf[r] \in Task \cup {NoTask}
    BY GraphAssumption DEF GraphAssumption
  <2>2. QED
    BY <2>1 DEF FinishRun, WorkStates
<1>3. QED
  BY <1>1, <1>2

LEMMA CountBump ==
  ASSUME NEW c \in Count, NEW r \in Run, NEW n \in Node
  PROVE  Bump(c, r, n) \in Count
<1>1. [c[r] EXCEPT ![n] = c[r][n] + 1] \in [Node -> Nat]
  BY DEF Count
<1>2. Bump(c, r, n) = [c EXCEPT ![r] = [c[r] EXCEPT ![n] = c[r][n] + 1]]
  BY DEF Bump
<1>3. QED
  BY <1>1, <1>2 DEF Count

LEMMA CountDrop ==
  ASSUME NEW c \in Count, NEW r \in Run, NEW n \in Node, c[r][n] > 0
  PROVE  Drop(c, r, n) \in Count
<1>1. c[r] \in [Node -> Nat] /\ c[r][n] \in Nat
  BY DEF Count
<1>2. [c[r] EXCEPT ![n] = c[r][n] - 1] \in [Node -> Nat]
  BY <1>1
<1>3. Drop(c, r, n) = [c EXCEPT ![r] = [c[r] EXCEPT ![n] = c[r][n] - 1]]
  BY DEF Drop
<1>4. QED
  BY <1>2, <1>3 DEF Count

LEMMA AttemptType ==
  \A s \in NodeState : [s EXCEPT !.attempts = @ + 1] \in NodeState
  BY DEF NodeState

LEMMA ExecutedType ==
  ASSUME NEW n \in Node, NEW s \in NodeState
  PROVE  Executed(n, s) \subseteq NodeState
<1>1. \A e \in Failures[n] : [s EXCEPT !.st = "failed", !.err = e] \in NodeState
  BY GraphAssumption DEF GraphAssumption, NodeState, ErrorType
<1>2. \A g \in Goto[n] : [s EXCEPT !.st = "completed", !.goto = g] \in NodeState
  BY GraphAssumption DEF GraphAssumption, NodeState
<1>3. [s EXCEPT !.st = "completed"] \in NodeState
  BY DEF NodeState
<1>4. QED
  BY <1>1, <1>2, <1>3 DEF Executed

-----------------------------------------------------------------------------
(* A pass over a row changes the status of its run only to bootstrap a row  *)
(* read as pending or to finish a row read as running.                      *)

StatusStep(r, row) ==
  \/ run'[r].status = run[r].status
  \/ row.status = "pending" /\ run'[r].status = "running"
  \/ row.status = "running" /\ run'[r].status \in {"completed", "failed"}

Effect(r, row) ==
  /\ run' \in [Run -> Row]
  /\ \A q \in Run : q # r => run'[q] = run[q]
  /\ StatusStep(r, row)
  /\ workState' \in [Task -> WorkStates]
  /\ queued' \in Count /\ executed' \in Count /\ due' \subseteq Run \X Node

LEMMA StartNodeEffect ==
  ASSUME TypeInv, NEW r \in Run, NEW row \in Row, NEW n \in Node, StartNode(r, n, row)
  PROVE  Effect(r, row)
<1> DEFINE s == [row.ns[n] EXCEPT !.attempts = @ + 1]
<1>1. row.ns \in [Node -> NodeState]
  BY DEF Row
<1>2. s \in NodeState
  BY <1>1 DEF NodeState
<1>3. /\ run' \in [Run -> Row]
      /\ \A q \in Run : q # r => run'[q] = run[q]
      /\ run'[r].status = run[r].status
  <2>1. CASE Type[n] \in {"spawn", "wait"}
    <3>1. [row.ns EXCEPT ![n] = [s EXCEPT !.st = "running"]] \in [Node -> NodeState]
      BY <1>1, <1>2 DEF NodeState
    <3>2. WriteNodeStates(r, [row.ns EXCEPT ![n] = [s EXCEPT !.st = "running"]])
      BY <2>1 DEF StartNode
    <3>3. QED
      BY <3>1, <3>2, WriteNodeStatesEffect DEF TypeInv
  <2>2. CASE Type[n] \notin {"spawn", "wait"}
    <3>1. PICK done \in Executed(n, s) : WriteNodeStates(r, [row.ns EXCEPT ![n] = done])
      BY <2>2 DEF StartNode
    <3>2. [row.ns EXCEPT ![n] = done] \in [Node -> NodeState]
      BY <1>1, <1>2, ExecutedType
    <3>3. QED
      BY <3>1, <3>2, WriteNodeStatesEffect DEF TypeInv
  <2>3. QED
    BY <2>1, <2>2
<1>4. queued' \in Count /\ executed' \in Count
  BY CountBump DEF StartNode, TypeInv
<1>5. workState' \in [Task -> WorkStates] /\ due' \subseteq Run \X Node
  BY DEF StartNode, TypeInv, WorkStates
<1>6. QED
  BY <1>3, <1>4, <1>5 DEF Effect, StatusStep

LEMMA CheckNodeEffect ==
  ASSUME TypeInv, NEW r \in Run, NEW row \in Row, NEW n \in Node, CheckNode(r, n, row)
  PROVE  Effect(r, row)
<1>1. row.ns \in [Node -> NodeState]
  BY DEF Row
<1>2. PICK o \in CheckOutcome(r, n, row) :
        /\ WriteNodeStates(r, [row.ns EXCEPT ![n].st = o])
        /\ UNCHANGED <<queued, due, executed, workState>>
  BY DEF CheckNode
<1>3. CheckOutcome(r, n, row) \subseteq {"completed", "failed"}
  BY DEF CheckOutcome, SpawnOutcome, WaitOutcome
<1>4. [row.ns[n] EXCEPT !.st = o] \in NodeState
  BY <1>1, <1>3 DEF NodeState
<1>5. [row.ns EXCEPT ![n].st = o] \in [Node -> NodeState]
  BY <1>1, <1>4
<1>6. QED
  BY <1>2, <1>5, WriteNodeStatesEffect DEF TypeInv, Effect, StatusStep, WorkStates

LEMMA TransitionEffect ==
  ASSUME TypeInv, NEW r \in Run, NEW row \in Row, NEW n \in Node,
         row.status = "running", Transition(r, n, row)
  PROVE  Effect(r, row)
<1>1. row.ns[n].goto \in Node \cup {NoNode}
  BY DEF Row, NodeState
<1>2. PICK g \in IF row.ns[n].goto # NoNode THEN {row.ns[n].goto} ELSE Succ[n] :
        IF g = NoNode THEN FinishRun(r, "completed")
        ELSE MoveTo(r, g) /\ UNCHANGED workState
  BY DEF Transition
<1>3. g \in Node \cup {NoNode}
  BY <1>1, GraphAssumption DEF GraphAssumption
<1>4. UNCHANGED <<queued, due, executed>>
  BY DEF Transition
<1>5. CASE g = NoNode
  BY <1>2, <1>4, <1>5, FinishRunEffect DEF TypeInv, Effect, StatusStep, WorkStates
<1>6. CASE g # NoNode
  BY <1>2, <1>3, <1>4, <1>6, MoveToEffect DEF TypeInv, Effect, StatusStep, WorkStates
<1>7. QED
  BY <1>5, <1>6

LEMMA HandleFailureEffect ==
  ASSUME TypeInv, NEW r \in Run, NEW row \in Row, NEW n \in Node,
         row.status = "running", HandleFailure(r, n, row)
  PROVE  Effect(r, row)
<1>1. row.ns \in [Node -> NodeState]
  BY DEF Row
<1>2. UNCHANGED <<queued, due, executed>>
  BY DEF HandleFailure
<1>3. CASE WriteNodeStates(r, [row.ns EXCEPT ![n].st = "pending"]) /\ UNCHANGED workState
  <2>1. [row.ns EXCEPT ![n].st = "pending"] \in [Node -> NodeState]
    BY <1>1 DEF NodeState
  <2>2. QED
    BY <1>2, <1>3, <2>1, WriteNodeStatesEffect DEF TypeInv, Effect, StatusStep, WorkStates
<1>4. CASE Fallback[n] # NoNode /\ MoveTo(r, Fallback[n]) /\ UNCHANGED workState
  <2>1. Fallback[n] \in Node
    BY <1>4, GraphAssumption DEF GraphAssumption
  <2>2. QED
    BY <1>2, <1>4, <2>1, MoveToEffect DEF TypeInv, Effect, StatusStep, WorkStates
<1>5. CASE FinishRun(r, "failed")
  BY <1>2, <1>5, FinishRunEffect DEF TypeInv, Effect, StatusStep, WorkStates
<1>6. QED
  BY <1>3, <1>4, <1>5 DEF HandleFailure

LEMMA AdvanceRowEffect ==
  ASSUME TypeInv, NEW r \in Run, NEW row \in Row, AdvanceRow(r, row)
  PROVE  Effect(r, row)
<1>1. CASE /\ row.status = "pending"
           /\ run' = [run EXCEPT ![r].status = "running", ![r].node = Entry[r]]
           /\ UNCHANGED <<queued, due, executed, workState>>
  <2>1. Entry[r] \in Node
    BY GraphAssumption DEF GraphAssumption
  <2>2. /\ run' \in [Run -> Row] /\ run'[r].status = "running"
        /\ \A q \in Run : q # r => run'[q] = run[q]
    BY <1>1, <2>1 DEF TypeInv, Row
  <2>3. QED
    BY <1>1, <2>2 DEF TypeInv, Effect, StatusStep, WorkStates
<1>2. CASE row.status = "running" /\ row.node # NoNode
  <2>1. row.node \in Node
    BY <1>2 DEF Row
  <2>2. \/ StartNode(r, row.node, row) \/ CheckNode(r, row.node, row)
        \/ Transition(r, row.node, row) \/ HandleFailure(r, row.node, row)
    BY <1>2 DEF AdvanceRow
  <2>3. QED
    BY <1>2, <2>1, <2>2, StartNodeEffect, CheckNodeEffect, TransitionEffect,
       HandleFailureEffect
<1>3. QED
  BY <1>1, <1>2 DEF AdvanceRow

-----------------------------------------------------------------------------
(* What the steps of phase 1 do to a tick *)

LEMMA TodoType ==
  ASSUME TypeInv, NEW t \in Tick
  PROVE  /\ DOMAIN tick[t].todo \subseteq Run
         /\ \A r \in DOMAIN tick[t].todo : tick[t].todo[r] \in Row
<1>1. tick[t] \in TickState
  BY DEF TypeInv
<1>2. PICK S \in SUBSET Run : tick[t].todo \in [S -> Row]
  BY <1>1 DEF TickState
<1>3. QED
  BY <1>2

LEMMA TickUpdate ==
  ASSUME TypeInv, NEW t \in Tick, NEW S \in SUBSET Run, NEW todo \in [S -> Row],
         NEW p \in 0 .. MaxPasses, NEW c \in BOOLEAN,
         tick' = [tick EXCEPT ![t] = [todo |-> todo, passes |-> p, calling |-> c]]
  PROVE  tick' \in [Tick -> TickState]
<1>1. [todo |-> todo, passes |-> p, calling |-> c] \in TickState
  BY DEF TickState
<1>2. QED
  BY <1>1 DEF TypeInv

LEMMA LeaveRunType ==
  ASSUME TypeInv, NEW t \in Tick, NEW r \in Run, LeaveRun(t, r)
  PROVE  tick' \in [Tick -> TickState] /\ cpu' \in Tick \cup {NoTick}
<1> DEFINE rest == Without(tick[t].todo, r)
           S == DOMAIN tick[t].todo \ {r}
<1>1. rest \in [S -> Row] /\ S \subseteq Run
  BY TodoType DEF Without
<1>2. tick' = [tick EXCEPT ![t] = [todo |-> rest, passes |-> 0, calling |-> FALSE]]
  BY DEF LeaveRun
<1>3. 0 \in 0 .. MaxPasses
  BY TickAssumption DEF TickAssumption
<1>4. tick' \in [Tick -> TickState]
  BY <1>1, <1>2, <1>3, TickUpdate
<1>5. QED
  BY <1>4 DEF LeaveRun

LEMMA AfterPassType ==
  ASSUME TypeInv, NEW t \in Tick, NEW r \in Current(t), run' \in [Run -> Row],
         AfterPass(t, r)
  PROVE  tick' \in [Tick -> TickState] /\ cpu' \in Tick \cup {NoTick}
<1>1. r \in DOMAIN tick[t].todo /\ r \in Run
  BY CurrentInTodo, TodoType
<1>2. CASE LeaveRun(t, r)
  BY <1>1, <1>2, LeaveRunType
<1>3. CASE /\ tick[t].passes + 1 < MaxPasses
           /\ tick' = [tick EXCEPT ![t] = [todo |-> [@.todo EXCEPT ![r] = run'[r]],
                                           passes |-> @.passes + 1, calling |-> FALSE]]
           /\ cpu' = t
  <2> DEFINE todo == [tick[t].todo EXCEPT ![r] = run'[r]]
             S == DOMAIN tick[t].todo
  <2>1. tick[t] \in TickState
    BY DEF TypeInv
  <2>2. PICK D \in SUBSET Run : tick[t].todo \in [D -> Row]
    BY <2>1 DEF TickState
  <2>3. todo \in [D -> Row]
    BY <2>2, <1>1
  <2>4. tick[t].passes + 1 \in 0 .. MaxPasses
    BY <1>3, <2>1, TickAssumption DEF TickState, TickAssumption
  <2>5. tick' = [tick EXCEPT ![t] = [todo |-> todo, passes |-> tick[t].passes + 1,
                                     calling |-> FALSE]]
    BY <1>3
  <2>6. tick' \in [Tick -> TickState]
    BY <2>3, <2>4, <2>5, TickUpdate
  <2>7. QED
    BY <1>3, <2>6
<1>4. QED
  BY <1>2, <1>3 DEF AfterPass

LEMMA WriteSpawnResultEffect ==
  ASSUME TypeInv, NEW r \in Run, NEW n \in Node, NEW key \in BOOLEAN,
         NEW failed \in BOOLEAN, WriteSpawnResult(r, n, key, failed)
  PROVE  /\ run' \in [Run -> Row]
         /\ \A q \in Run : run'[q].status = run[q].status
<1> DEFINE s == [run[r].ns[n] EXCEPT !.key = run[r].ns[n].key \/ key,
                                     !.failed = run[r].ns[n].failed \/ failed]
           row == [run[r] EXCEPT !.ns = [run[r].ns EXCEPT ![n] = s]]
<1>1. run[r] \in Row /\ run[r].ns \in [Node -> NodeState] /\ run[r].ns[n] \in NodeState
  BY DEF TypeInv, Row
<1>2. run[r].ns[n].key \in BOOLEAN /\ run[r].ns[n].failed \in BOOLEAN
  BY <1>1 DEF NodeState
<1>3. s \in NodeState
  BY <1>1, <1>2 DEF NodeState
<1>4. [run[r].ns EXCEPT ![n] = s] \in [Node -> NodeState]
  BY <1>1, <1>3
<1>5. row \in Row /\ row.status = run[r].status
  BY <1>1, <1>4 DEF Row
<1>6. run' = [run EXCEPT ![r] = row]
  <2>1. run' = [run EXCEPT ![r].ns[n] = s]
    BY DEF WriteSpawnResult
  <2> HIDE DEF s
  <2>2. QED
    BY <1>1, <2>1
<1>7. QED
  BY <1>5, <1>6 DEF TypeInv

-----------------------------------------------------------------------------
(* Type correctness *)

LEMMA InitType == Init => TypeInv
<1> SUFFICES ASSUME Init PROVE TypeInv
  OBVIOUS
<1>1. [status |-> "none", node |-> NoNode, ns |-> [n \in Node |-> Fresh]] \in Row
  BY FreshType DEF Row
<1>2. run \in [Run -> Row]
  BY <1>1 DEF Init
<1>3. IdleTick \in TickState
  <2>1. IdleTick.todo \in [{} -> Row]
    BY DEF IdleTick
  <2>2. IdleTick.todo \in UNION {[S -> Row] : S \in SUBSET Run}
    BY <2>1
  <2>3. 0 \in 0 .. MaxPasses
    BY TickAssumption DEF TickAssumption
  <2>4. QED
    BY <2>2, <2>3 DEF IdleTick, TickState
<1>4. tick \in [Tick -> TickState]
  BY <1>3 DEF Init
<1>5. Zero \in Count
  BY DEF Zero, Count
<1>6. queued \in Count /\ working \in Count /\ executed \in Count
  BY <1>5 DEF Init
<1>7. /\ created \in [Run -> Nat] /\ cpu \in Tick \cup {NoTick}
      /\ workState \in [Task -> WorkStates] /\ spawnCount \in [Task -> Int]
      /\ resets \in [Task -> Nat] /\ due \subseteq Run \X Node
  BY DEF Init, WorkStates
<1>8. QED
  BY <1>2, <1>4, <1>6, <1>7 DEF TypeInv, WorkStates

LEMMA StartRunType == ASSUME TypeInv, NEW r \in Run, StartRun(r) PROVE TypeInv'
<1>1. run' \in [Run -> Row]
  <2>1. [run[r] EXCEPT !.status = "pending"] \in Row
    BY DEF TypeInv, Row
  <2>2. run' = [run EXCEPT ![r] = [run[r] EXCEPT !.status = "pending"]]
    BY DEF StartRun
  <2>3. QED
    BY <2>1, <2>2 DEF TypeInv
<1>2. workState' \in [Task -> WorkStates]
  <2>1. CASE UNCHANGED workState
    BY <2>1 DEF TypeInv, WorkStates
  <2>2. CASE workState' = [workState EXCEPT ![TaskOf[r]] = "in_progress"]
    BY <2>2 DEF TypeInv, WorkStates
  <2>3. QED
    BY <2>1, <2>2 DEF StartRun
<1>3. created' \in [Run -> Nat]
  <2>1. Cardinality({q \in Run : run[q].status # "none"}) \in Nat
    BY GraphAssumption, FS_Subset, FS_CardinalityType DEF GraphAssumption
  <2>2. QED
    BY <2>1 DEF StartRun, TypeInv
<1>4. UNCHANGED <<tick, cpu, spawnCount, resets, queued, working, due, executed>>
  BY DEF StartRun
<1>5. QED
  BY <1>1, <1>2, <1>3, <1>4 DEF TypeInv, WorkStates

LEMMA TaskStepType ==
  ASSUME TypeInv, NEW k \in Task, RetryBlockedTask(k) \/ SweepOrphanedTask(k)
  PROVE  TypeInv'
<1>1. workState' \in [Task -> WorkStates] /\ resets' \in [Task -> Nat]
  BY DEF RetryBlockedTask, SweepOrphanedTask, TypeInv, WorkStates
<1>2. spawnCount' \in [Task -> Int]
  BY DEF RetryBlockedTask, SweepOrphanedTask, TypeInv
<1>3. UNCHANGED <<run, created, tick, cpu, queued, working, due, executed>>
  BY DEF RetryBlockedTask, SweepOrphanedTask
<1>4. QED
  BY <1>1, <1>2, <1>3 DEF TypeInv, WorkStates

LEMMA TickStartType == ASSUME TypeInv, NEW t \in Tick, TickStart(t) PROVE TypeInv'
<1> DEFINE S == ActiveRuns(SnapshotLimit)
<1>1. S \in SUBSET Run /\ [r \in S |-> run[r]] \in [S -> Row]
  BY ActiveRunsActive DEF TypeInv
<1>2. tick[t].passes \in 0 .. MaxPasses /\ tick[t].calling \in BOOLEAN
  BY DEF TypeInv, TickState
<1>3. [tick[t] EXCEPT !.todo = [r \in S |-> run[r]]] \in TickState
  <2>1. [r \in S |-> run[r]] \in UNION {[D -> Row] : D \in SUBSET Run}
    BY <1>1
  <2> HIDE DEF S
  <2>2. QED
    BY <2>1 DEF TypeInv, TickState
<1>4. tick' \in [Tick -> TickState]
  BY <1>3 DEF TickStart, TypeInv
<1>5. cpu' \in Tick \cup {NoTick}
      /\ UNCHANGED <<run, created, workState, spawnCount, resets, queued, working, due, executed>>
  BY DEF TickStart
<1>6. QED
  BY <1>4, <1>5 DEF TypeInv

\* Advance and EndCall: what the pass does, and then what AfterPass does.
LEMMA AdvanceEffect ==
  ASSUME TypeInv, NEW t \in Tick, Advance(t)
  PROVE  /\ \E r \in Current(t) : Effect(r, tick[t].todo[r]) /\ AfterPass(t, r)
         /\ UNCHANGED <<created, spawnCount, resets, working>>
<1>1. PICK r \in Current(t) : AdvanceRow(r, tick[t].todo[r]) /\ AfterPass(t, r)
  BY DEF Advance
<1>2. r \in Run /\ tick[t].todo[r] \in Row
  BY CurrentInTodo, TodoType
<1>3. Effect(r, tick[t].todo[r])
  BY <1>1, <1>2, AdvanceRowEffect
<1>4. QED
  BY <1>1, <1>3 DEF Advance

LEMMA EndCallEffect ==
  ASSUME TypeInv, NEW t \in Tick, EndCall(t)
  PROVE  /\ \E r \in Current(t) : Effect(r, tick[t].todo[r]) /\ AfterPass(t, r)
         /\ UNCHANGED <<created, spawnCount, resets, working>>
<1>1. PICK r \in Current(t) :
        LET row == tick[t].todo[r]
            s == [row.ns[row.node] EXCEPT !.attempts = @ + 1]
        IN /\ \E done \in Executed(row.node, s) :
                WriteNodeStates(r, [row.ns EXCEPT ![row.node] = done])
           /\ AfterPass(t, r)
  BY DEF EndCall
<1> DEFINE row == tick[t].todo[r]
           n == row.node
           s == [row.ns[n] EXCEPT !.attempts = @ + 1]
<1>2. r \in Run /\ row \in Row
  BY CurrentInTodo, TodoType
<1>3. row.ns \in [Node -> NodeState] /\ n \in Node \cup {NoNode}
  BY <1>2 DEF Row
<1>4. PICK done \in Executed(n, s) : WriteNodeStates(r, [row.ns EXCEPT ![n] = done])
  BY <1>1
<1>5. [row.ns EXCEPT ![n] = done] \in [Node -> NodeState]
  <2>1. CASE n \in Node
    <3>1. row.ns[n] \in NodeState
      BY <1>3, <2>1
    <3>2. s \in NodeState
      BY <3>1, AttemptType
    <3>3. done \in NodeState
      BY <1>4, <2>1, <3>2, ExecutedType
    <3>4. QED
      BY <1>3, <3>3
  <2>2. CASE n = NoNode
    <3>1. n \notin DOMAIN row.ns
      BY <1>3, <2>2, GraphAssumption DEF GraphAssumption
    <3>2. QED
      BY <1>3, <3>1
  <2>3. QED
    BY <1>3, <2>1, <2>2
<1>6. /\ run' \in [Run -> Row] /\ run'[r].status = run[r].status
      /\ \A q \in Run : q # r => run'[q] = run[q]
  BY <1>2, <1>4, <1>5, WriteNodeStatesEffect DEF TypeInv
<1>7. /\ workState' \in [Task -> WorkStates]
      /\ queued' \in Count /\ executed' \in Count /\ due' \subseteq Run \X Node
  BY DEF EndCall, TypeInv, WorkStates
<1>8. Effect(r, row)
  BY <1>6, <1>7 DEF Effect, StatusStep
<1>9. QED
  BY <1>1, <1>8 DEF EndCall

LEMMA PassType ==
  ASSUME TypeInv, NEW t \in Tick,
         \E r \in Current(t) : Effect(r, tick[t].todo[r]) /\ AfterPass(t, r),
         UNCHANGED <<created, spawnCount, resets, working>>
  PROVE  TypeInv'
<1>1. PICK r \in Current(t) : Effect(r, tick[t].todo[r]) /\ AfterPass(t, r)
  OBVIOUS
<1>2. /\ run' \in [Run -> Row] /\ workState' \in [Task -> WorkStates]
      /\ queued' \in Count /\ executed' \in Count /\ due' \subseteq Run \X Node
  BY <1>1 DEF Effect
<1>3. tick' \in [Tick -> TickState] /\ cpu' \in Tick \cup {NoTick}
  BY <1>1, <1>2, AfterPassType
<1>4. QED
  BY <1>2, <1>3 DEF TypeInv, WorkStates

LEMMA StillRunningType ==
  ASSUME TypeInv, NEW t \in Tick, StillRunning(t) PROVE TypeInv'
<1>1. PICK r \in Current(t) : LeaveRun(t, r)
  BY DEF StillRunning
<1>2. tick' \in [Tick -> TickState] /\ cpu' \in Tick \cup {NoTick}
  BY <1>1, CurrentInTodo, TodoType, LeaveRunType
<1>3. UNCHANGED <<run, created, workState, spawnCount, resets, queued, working, due, executed>>
  BY DEF StillRunning
<1>4. QED
  BY <1>2, <1>3 DEF TypeInv

LEMMA BeginCallType == ASSUME TypeInv, NEW t \in Tick, BeginCall(t) PROVE TypeInv'
<1>1. PICK r \in Current(t) :
        /\ tick[t].todo[r].node # NoNode
        /\ executed' = Bump(executed, r, tick[t].todo[r].node)
  BY DEF BeginCall
<1>2. r \in Run /\ tick[t].todo[r].node \in Node
  BY <1>1, CurrentInTodo, TodoType DEF Row
<1>3. executed' \in Count
  BY <1>1, <1>2, CountBump DEF TypeInv
<1>4. tick' \in [Tick -> TickState]
  <2>1. [tick[t] EXCEPT !.calling = TRUE] \in TickState
    BY DEF TypeInv, TickState
  <2>2. tick' = [tick EXCEPT ![t] = [tick[t] EXCEPT !.calling = TRUE]]
    BY DEF BeginCall
  <2>3. QED
    BY <2>1, <2>2 DEF TypeInv
<1>5. /\ cpu' = NoTick
      /\ UNCHANGED <<run, created, workState, spawnCount, resets, queued, working, due>>
  BY DEF BeginCall
<1>6. QED
  BY <1>3, <1>4, <1>5 DEF TypeInv

LEMMA FailStaleRunType ==
  ASSUME TypeInv, NEW r \in Run, FailStaleRun(r) PROVE TypeInv'
<1>1. [run[r] EXCEPT !.status = "failed"] \in Row
  BY DEF TypeInv, Row
<1>2. run' = [run EXCEPT ![r] = [run[r] EXCEPT !.status = "failed"]]
  BY DEF FailStaleRun
<1>3. run' \in [Run -> Row]
  BY <1>1, <1>2 DEF TypeInv
<1>4. UNCHANGED <<created, tick, cpu, workState, spawnCount, resets, queued, working,
                  due, executed>>
  BY DEF FailStaleRun
<1>5. QED
  BY <1>3, <1>4 DEF TypeInv

LEMMA HandlerType ==
  ASSUME TypeInv, NEW r \in Run, NEW n \in Node, Handler(r, n) PROVE TypeInv'
<1>0. TaskOf[r] \in Task \cup {NoTask}
  BY GraphAssumption DEF GraphAssumption
<1>1. CASE StartWorker(r, n)
  <2>1. queued' \in Count /\ working' \in Count
    BY <1>1, CountDrop, CountBump DEF StartWorker, TypeInv
  <2>2. spawnCount' \in [Task -> Int]
    BY <1>0, <1>1 DEF StartWorker, TypeInv
  <2>3. UNCHANGED <<run, created, tick, cpu, workState, resets, due, executed>>
    BY <1>1 DEF StartWorker
  <2>4. QED
    BY <2>1, <2>2, <2>3 DEF TypeInv
<1>2. CASE GuardStops(r, n)
  <2>1. queued' \in Count
    BY <1>2, CountDrop DEF GuardStops, TypeInv
  <2>2. spawnCount' \in [Task -> Int]
    BY <1>0, <1>2 DEF GuardStops, TypeInv
  <2>3. workState' \in [Task -> WorkStates]
    BY <1>0, <1>2 DEF GuardStops, TypeInv, WorkStates
  <2>4. UNCHANGED <<run, created, tick, cpu, resets, working, due, executed>>
    BY <1>2 DEF GuardStops
  <2>5. QED
    BY <2>1, <2>2, <2>3, <2>4 DEF TypeInv, WorkStates
<1>3. CASE RefuseSpawn(r, n)
  <2>1. queued' \in Count
    BY <1>3, CountDrop DEF RefuseSpawn, TypeInv
  <2>2. run' \in [Run -> Row]
    BY <1>3, WriteSpawnResultEffect DEF RefuseSpawn
  <2>3. UNCHANGED <<created, tick, cpu, workState, spawnCount, resets, working, due, executed>>
    BY <1>3 DEF RefuseSpawn
  <2>4. QED
    BY <2>1, <2>2, <2>3 DEF TypeInv
<1>4. CASE WorkerSucceeds(r, n)
  <2>1. working' \in Count
    BY <1>4, CountDrop DEF WorkerSucceeds, TypeInv
  <2>2. run' \in [Run -> Row]
    BY <1>4, WriteSpawnResultEffect DEF WorkerSucceeds
  <2>3. workState' \in [Task -> WorkStates]
    BY <1>0, <1>4 DEF WorkerSucceeds, TypeInv, WorkStates
  <2>4. UNCHANGED <<created, tick, cpu, spawnCount, resets, queued, due, executed>>
    BY <1>4 DEF WorkerSucceeds
  <2>5. QED
    BY <2>1, <2>2, <2>3, <2>4 DEF TypeInv, WorkStates
<1>5. CASE \E key \in BOOLEAN : WorkerFails(r, n, key)
  <2>1. working' \in Count
    BY <1>5, CountDrop DEF WorkerFails, TypeInv
  <2>2. run' \in [Run -> Row]
    BY <1>5, WriteSpawnResultEffect DEF WorkerFails
  <2>3. UNCHANGED <<created, tick, cpu, workState, spawnCount, resets, queued, due, executed>>
    BY <1>5 DEF WorkerFails
  <2>4. QED
    BY <2>1, <2>2, <2>3 DEF TypeInv
<1>6. QED
  BY <1>1, <1>2, <1>3, <1>4, <1>5 DEF Handler

LEMMA StepType == TypeInv /\ [Next]_vars => TypeInv'
<1> SUFFICES ASSUME TypeInv, [Next]_vars PROVE TypeInv'
  OBVIOUS
<1>1. ASSUME NEW t \in Tick, Advance(t) \/ EndCall(t) PROVE TypeInv'
  BY <1>1, AdvanceEffect, EndCallEffect, PassType
<1>2. ASSUME NEW t \in Tick, Phase1(t) PROVE TypeInv'
  BY <1>1, <1>2, TickStartType, StillRunningType, BeginCallType DEF Phase1
<1>3. ASSUME NEW r \in Run, NEW n \in Node, ComeDue(r, n) PROVE TypeInv'
  BY <1>3 DEF ComeDue, TypeInv
<1>4. CASE UNCHANGED vars
  BY <1>4 DEF vars, TypeInv
<1>5. QED
  BY <1>2, <1>3, <1>4, StartRunType, FailStaleRunType, TaskStepType, HandlerType DEF Next

\* Every variable keeps its type, for every workflow and every number of
\* runs, ticks and tasks (the tables and the tick state of phase 1).
THEOREM TypeCorrect == Spec => []TypeOK
<1>1. Init => TypeInv
  BY InitType
<1>2. TypeInv /\ [Next]_vars => TypeInv'
  BY StepType
<1>3. QED
  BY <1>1, <1>2, TypeInvIsStronger, PTL DEF Spec
-----------------------------------------------------------------------------
(* The life cycle of a run, for ticks that do not overlap *)

\* Ticks take turns in phase 1 ...
Exclusive ==
  \A t, u \in Tick : t # u => tick[t] = IdleTick \/ tick[u] = IdleTick

\* ... and so the rows a tick still has to advance show the present status.
Faithful ==
  \A t \in Tick : \A r \in DOMAIN tick[t].todo :
    Active(r) /\ tick[t].todo[r].status = run[r].status

IInv == TypeInv /\ Exclusive /\ Faithful

LEMMA IdleHasNoRow == ASSUME NEW t, tick[t] = IdleTick PROVE DOMAIN tick[t].todo = {}
<1>1. DOMAIN IdleTick.todo = {}
  BY DEF IdleTick
<1>2. QED
  BY <1>1

LEMMA OthersIdle ==
  ASSUME Exclusive, NEW t \in Tick, Current(t) # {}
  PROVE  \A u \in Tick : u # t => tick[u] = IdleTick
<1>1. DOMAIN tick[t].todo # {}
  BY CurrentInTodo
<1>2. tick[t] # IdleTick
  BY <1>1, IdleHasNoRow
<1>3. QED
  BY <1>2 DEF Exclusive

LEMMA AloneStaysExclusive ==
  ASSUME NEW t \in Tick, \A u \in Tick : u # t => tick[u] = IdleTick,
         \A u \in Tick : u # t => tick'[u] = tick[u]
  PROVE  Exclusive'
  BY DEF Exclusive, IdleTick

LEMMA LeaveRunTodo ==
  ASSUME TypeInv, NEW t \in Tick, NEW r \in Run, LeaveRun(t, r)
  PROVE  /\ DOMAIN tick'[t].todo = DOMAIN tick[t].todo \ {r}
         /\ \A q \in DOMAIN tick'[t].todo : tick'[t].todo[q] = tick[t].todo[q]
         /\ \A u \in Tick : u # t => tick'[u] = tick[u]
<1>1. tick' = [tick EXCEPT ![t] = [todo |-> Without(tick[t].todo, r), passes |-> 0,
                                   calling |-> FALSE]]
  BY DEF LeaveRun
<1>2. tick'[t].todo = Without(tick[t].todo, r)
  BY <1>1 DEF TypeInv
<1>3. QED
  BY <1>1, <1>2 DEF Without, TypeInv

\* The one tick that has rows leaves a run: its other rows stay faithful.
LEMMA LeaveRunFaithful ==
  ASSUME IInv, NEW t \in Tick, NEW r \in Current(t),
         \A q \in Run : q # r => run'[q] = run[q], LeaveRun(t, r)
  PROVE  Exclusive' /\ Faithful'
<1>a. r \in DOMAIN tick[t].todo /\ r \in Run
  BY CurrentInTodo, TodoType DEF IInv
<1>b. \A u \in Tick : u # t => tick[u] = IdleTick
  BY OthersIdle DEF IInv
<1>c. \A q \in Run : q # r => run'[q] = run[q]
  OBVIOUS
<1>1. /\ DOMAIN tick'[t].todo = DOMAIN tick[t].todo \ {r}
      /\ \A q \in DOMAIN tick'[t].todo : tick'[t].todo[q] = tick[t].todo[q]
      /\ \A u \in Tick : u # t => tick'[u] = tick[u]
  BY <1>a, LeaveRunTodo DEF IInv
<1>2. Exclusive'
  BY <1>b, <1>1, AloneStaysExclusive
<1>3. ASSUME NEW u \in Tick, NEW q \in DOMAIN tick'[u].todo
      PROVE  Active(q)' /\ tick'[u].todo[q].status = run'[q].status
  <2>1. u = t
    <3>1. SUFFICES ASSUME u # t PROVE FALSE
      OBVIOUS
    <3>2. tick'[u] = tick[u] /\ DOMAIN tick[u].todo = {}
      BY <1>b, <1>1, <3>1, IdleHasNoRow
    <3>3. QED
      BY <1>3, <3>2
  <2>2. q \in DOMAIN tick[t].todo /\ q # r /\ q \in Run
    BY <1>1, <1>3, <2>1, TodoType DEF IInv
  <2>3. run'[q] = run[q] /\ tick'[t].todo[q] = tick[t].todo[q]
    BY <1>c, <1>1, <1>3, <2>1, <2>2
  <2>4. Active(q) /\ tick[t].todo[q].status = run[q].status
    BY <2>2 DEF IInv, Faithful
  <2>5. QED
    BY <2>1, <2>3, <2>4 DEF Active
<1>4. QED
  BY <1>2, <1>3 DEF Faithful

\* A pass of the one tick that has rows keeps its rows faithful.
LEMMA PassFaithful ==
  ASSUME IInv, NEW t \in Tick, NEW r \in Current(t),
         Effect(r, tick[t].todo[r]), AfterPass(t, r)
  PROVE  Exclusive' /\ Faithful'
<1>1. r \in DOMAIN tick[t].todo /\ r \in Run
  BY CurrentInTodo, TodoType DEF IInv
<1>2. \A u \in Tick : u # t => tick[u] = IdleTick
  BY OthersIdle DEF IInv
<1>3. \A q \in Run : q # r => run'[q] = run[q]
  BY DEF Effect
<1>4. CASE LeaveRun(t, r)
  BY <1>3, <1>4, LeaveRunFaithful
<1>5. CASE /\ r \in ActiveRuns(1)'
           /\ tick' = [tick EXCEPT ![t] = [todo |-> [@.todo EXCEPT ![r] = run'[r]],
                                           passes |-> @.passes + 1, calling |-> FALSE]]
  <2>1. tick'[t].todo = [tick[t].todo EXCEPT ![r] = run'[r]]
    BY <1>5 DEF IInv, TypeInv
  <2>2. \A u \in Tick : u # t => tick'[u] = tick[u]
    BY <1>5 DEF IInv, TypeInv
  <2>3. Exclusive'
    BY <1>2, <2>2, AloneStaysExclusive
  <2>4. Active(r)'
    BY <1>5 DEF ActiveRuns
  <2>5. ASSUME NEW u \in Tick, NEW q \in DOMAIN tick'[u].todo
        PROVE  Active(q)' /\ tick'[u].todo[q].status = run'[q].status
    <3>1. u = t
      <4>1. SUFFICES ASSUME u # t PROVE FALSE
        OBVIOUS
      <4>2. tick'[u] = tick[u] /\ DOMAIN tick[u].todo = {}
        BY <1>2, <2>2, <4>1, IdleHasNoRow
      <4>3. QED
        BY <2>5, <4>2
    <3>2. CASE q = r
      <4>1. tick'[t].todo[r] = run'[r]
        BY <1>1, <2>1
      <4>2. QED
        BY <2>4, <3>1, <3>2, <4>1
    <3>3. CASE q # r
      <4>1. q \in DOMAIN tick[t].todo /\ q \in Run
        BY <2>1, <2>5, <3>1, TodoType DEF IInv
      <4>2. run'[q] = run[q] /\ tick'[t].todo[q] = tick[t].todo[q]
        BY <1>3, <2>1, <3>3, <4>1
      <4>3. Active(q) /\ tick[t].todo[q].status = run[q].status
        BY <4>1 DEF IInv, Faithful
      <4>4. QED
        BY <3>1, <4>2, <4>3 DEF Active
    <3>4. QED
      BY <3>2, <3>3
  <2>6. QED
    BY <2>3, <2>5 DEF Faithful
<1>6. QED
  BY <1>4, <1>5 DEF AfterPass
\* A step that leaves the ticks and the status of active runs alone.
LEMMA QuietFaithful ==
  ASSUME IInv, UNCHANGED tick,
         \A q \in Run : Active(q) => run'[q].status = run[q].status
  PROVE  Exclusive' /\ Faithful'
<1>1. Exclusive'
  BY DEF IInv, Exclusive, IdleTick
<1>2. ASSUME NEW t \in Tick, NEW r \in DOMAIN tick'[t].todo
      PROVE  Active(r)' /\ tick'[t].todo[r].status = run'[r].status
  <2>1. r \in DOMAIN tick[t].todo /\ r \in Run
    BY <1>2, TodoType DEF IInv
  <2>2. Active(r) /\ tick[t].todo[r].status = run[r].status
    BY <2>1 DEF IInv, Faithful
  <2>3. QED
    BY <2>1, <2>2 DEF Active
<1>3. QED
  BY <1>1, <1>2 DEF Faithful

LEMMA TickStartFaithful ==
  ASSUME Overlap = FALSE, IInv, NEW t \in Tick, TickStart(t)
  PROVE  Exclusive' /\ Faithful'
<1>1. \A u \in Tick : tick[u] = IdleTick
  BY DEF TickStart
<1>2. tick'[t].todo = [r \in ActiveRuns(SnapshotLimit) |-> run[r]]
  <2>1. tick' = [tick EXCEPT ![t] = [tick[t] EXCEPT
                   !.todo = [r \in ActiveRuns(SnapshotLimit) |-> run[r]]]]
    BY DEF TickStart
  <2>2. tick[t] = IdleTick /\ t \in DOMAIN tick
    BY <1>1 DEF IInv, TypeInv
  <2>3. QED
    BY <2>1, <2>2 DEF IdleTick
<1>3. \A u \in Tick : u # t => tick'[u] = tick[u]
  BY DEF TickStart, IInv, TypeInv
<1>4. Exclusive'
  BY <1>1, <1>3, AloneStaysExclusive
<1>5. ASSUME NEW u \in Tick, NEW r \in DOMAIN tick'[u].todo
      PROVE  Active(r)' /\ tick'[u].todo[r].status = run'[r].status
  <2>1. u = t
    <3>1. SUFFICES ASSUME u # t PROVE FALSE
      OBVIOUS
    <3>2. DOMAIN tick'[u].todo = {}
      BY <1>1, <1>3, <3>1, IdleHasNoRow
    <3>3. QED
      BY <1>5, <3>2
  <2>2. r \in ActiveRuns(SnapshotLimit)
    BY <1>2, <1>5, <2>1
  <2>3. run' = run
    BY DEF TickStart
  <2>4. QED
    BY <1>2, <2>1, <2>2, <2>3, ActiveRunsActive DEF Active
<1>6. QED
  BY <1>4, <1>5 DEF Faithful

LEMMA BeginCallFaithful ==
  ASSUME IInv, NEW t \in Tick, BeginCall(t) PROVE Exclusive' /\ Faithful'
<1>1. Current(t) # {}
  BY DEF BeginCall
<1>2. \A u \in Tick : u # t => tick[u] = IdleTick
  BY <1>1, OthersIdle DEF IInv
<1>3. /\ \A u \in Tick : u # t => tick'[u] = tick[u]
      /\ tick'[t] = [tick[t] EXCEPT !.calling = TRUE]
      /\ run' = run
  BY DEF BeginCall, IInv, TypeInv
<1>4. Exclusive'
  BY <1>2, <1>3, AloneStaysExclusive
<1>5. tick'[t].todo = tick[t].todo
  BY <1>3 DEF IInv, TypeInv, TickState
<1>6. \A u \in Tick : tick'[u].todo = tick[u].todo
  BY <1>3, <1>5
<1>7. QED
  BY <1>3, <1>4, <1>6 DEF IInv, Faithful, Active

LEMMA FailStaleRunFaithful ==
  ASSUME Overlap = FALSE, IInv, NEW r \in Run, FailStaleRun(r)
  PROVE  Exclusive' /\ Faithful'
<1>1. tick' = tick /\ \A u \in Tick : tick[u] = IdleTick
  BY DEF FailStaleRun
<1>2. \A u \in Tick : DOMAIN tick'[u].todo = {}
  BY <1>1, IdleHasNoRow
<1>3. QED
  BY <1>1, <1>2 DEF Exclusive, Faithful, IdleTick

\* The status of a run, in the handlers' steps, stays as it is.
LEMMA HandlerKeepsStatus ==
  ASSUME TypeInv, NEW r \in Run, NEW n \in Node, Handler(r, n)
  PROVE  tick' = tick /\ \A q \in Run : run'[q].status = run[q].status
<1>1. CASE StartWorker(r, n) \/ GuardStops(r, n)
  BY <1>1 DEF StartWorker, GuardStops
<1>2. CASE RefuseSpawn(r, n)
  BY <1>2, WriteSpawnResultEffect DEF RefuseSpawn
<1>3. CASE WorkerSucceeds(r, n)
  BY <1>3, WriteSpawnResultEffect DEF WorkerSucceeds
<1>4. CASE \E key \in BOOLEAN : WorkerFails(r, n, key)
  BY <1>4, WriteSpawnResultEffect DEF WorkerFails
<1>5. QED
  BY <1>1, <1>2, <1>3, <1>4 DEF Handler

LEMMA StepFaithful ==
  ASSUME Overlap = FALSE, IInv, [Next]_vars PROVE Exclusive' /\ Faithful'
<1>0. TypeInv
  BY DEF IInv
<1>1. ASSUME NEW t \in Tick, Advance(t) \/ EndCall(t) PROVE Exclusive' /\ Faithful'
  BY <1>0, <1>1, AdvanceEffect, EndCallEffect, PassFaithful
<1>2. ASSUME NEW t \in Tick, StillRunning(t) PROVE Exclusive' /\ Faithful'
  BY <1>2, LeaveRunFaithful DEF StillRunning
<1>3. ASSUME NEW t \in Tick, Phase1(t) PROVE Exclusive' /\ Faithful'
  BY <1>1, <1>2, <1>3, TickStartFaithful, BeginCallFaithful DEF Phase1
<1>4. ASSUME NEW r \in Run, StartRun(r) PROVE Exclusive' /\ Faithful'
  BY <1>0, <1>4, QuietFaithful DEF StartRun, Active, TypeInv
<1>5. ASSUME NEW k \in Task, RetryBlockedTask(k) \/ SweepOrphanedTask(k)
      PROVE  Exclusive' /\ Faithful'
  BY <1>5, QuietFaithful DEF RetryBlockedTask, SweepOrphanedTask
<1>6. ASSUME NEW r \in Run, NEW n \in Node, Handler(r, n) \/ ComeDue(r, n)
      PROVE  Exclusive' /\ Faithful'
  BY <1>0, <1>6, HandlerKeepsStatus, QuietFaithful DEF ComeDue
<1>7. CASE UNCHANGED vars
  BY <1>7, QuietFaithful DEF vars
<1>8. QED
  BY <1>3, <1>4, <1>5, <1>6, <1>7, FailStaleRunFaithful DEF Next
LEMMA LifecycleActive == Lifecycle!Active = {r \in Run : Active(r)}
  BY DEF Lifecycle!Active, RunStatus, Active

LEMMA StatusStays ==
  ASSUME \A q \in Run : run'[q].status = run[q].status
  PROVE  RunStatus' = RunStatus
  BY DEF RunStatus

LEMMA StatusSet ==
  ASSUME NEW r \in Run, \A q \in Run : q # r => run'[q].status = run[q].status
  PROVE  RunStatus' = [RunStatus EXCEPT ![r] = run'[r].status]
  BY DEF RunStatus

LEMMA StartRunCreates ==
  ASSUME TypeInv, NEW r \in Run, StartRun(r) PROVE Lifecycle!Create(r)
<1>1. /\ run'[r].status = "pending"
      /\ \A q \in Run : q # r => run'[q].status = run[q].status
  BY DEF StartRun, TypeInv, Row
<1>2. RunStatus' = [RunStatus EXCEPT ![r] = "pending"]
  BY <1>1, StatusSet
<1>3. RunStatus[r] = "none"
  BY DEF StartRun, RunStatus
<1>4. TaskOf[r] # NoTask => \A q \in Lifecycle!Active : TaskOf[q] # TaskOf[r]
  BY LifecycleActive DEF StartRun
<1>5. QED
  BY <1>2, <1>3, <1>4 DEF Lifecycle!Create

\* A pass over a faithful row begins the run, finishes it or keeps its status.
LEMMA PassFollowsLifecycle ==
  ASSUME IInv, NEW t \in Tick, NEW r \in Current(t), Effect(r, tick[t].todo[r])
  PROVE  Lifecycle!Next \/ RunStatus' = RunStatus
<1>1. r \in DOMAIN tick[t].todo /\ r \in Run
  BY CurrentInTodo, TodoType DEF IInv
<1>2. Active(r) /\ tick[t].todo[r].status = run[r].status
  BY <1>1 DEF IInv, Faithful
<1>3. \A q \in Run : q # r => run'[q].status = run[q].status
  BY DEF Effect
<1>4. RunStatus' = [RunStatus EXCEPT ![r] = run'[r].status]
  BY <1>1, <1>3, StatusSet
<1>5. RunStatus[r] = run[r].status
  BY <1>1 DEF RunStatus
<1>6. CASE run'[r].status = run[r].status
  BY <1>3, <1>6, StatusStays
<1>7. CASE run[r].status = "pending" /\ run'[r].status = "running"
  <2>1. Lifecycle!Begin(r)
    BY <1>4, <1>5, <1>7 DEF Lifecycle!Begin
  <2>2. QED
    BY <1>1, <2>1 DEF Lifecycle!Next
<1>8. CASE run[r].status = "running" /\ run'[r].status \in {"completed", "failed"}
  <2>1. r \in Lifecycle!Active
    BY <1>1, <1>2, LifecycleActive
  <2>2. Lifecycle!Finish(r)
    BY <1>4, <1>8, <2>1 DEF Lifecycle!Finish
  <2>3. QED
    BY <1>1, <2>2 DEF Lifecycle!Next
<1>9. QED
  BY <1>2, <1>6, <1>7, <1>8 DEF Effect, StatusStep

LEMMA FailStaleRunFinishes ==
  ASSUME TypeInv, NEW r \in Run, FailStaleRun(r) PROVE Lifecycle!Finish(r)
<1>1. /\ run'[r].status = "failed"
      /\ \A q \in Run : q # r => run'[q].status = run[q].status
  BY DEF FailStaleRun, TypeInv, Row
<1>2. RunStatus' = [RunStatus EXCEPT ![r] = "failed"]
  BY <1>1, StatusSet
<1>3. r \in Lifecycle!Active
  BY LifecycleActive DEF FailStaleRun, Active
<1>4. QED
  BY <1>2, <1>3 DEF Lifecycle!Finish

LEMMA StepFollowsLifecycle == IInv /\ [Next]_vars => [Lifecycle!Next]_RunStatus
<1> SUFFICES ASSUME IInv, [Next]_vars PROVE Lifecycle!Next \/ RunStatus' = RunStatus
  OBVIOUS
<1>0. TypeInv
  BY DEF IInv
<1>1. ASSUME NEW t \in Tick, Advance(t) \/ EndCall(t)
      PROVE  Lifecycle!Next \/ RunStatus' = RunStatus
  BY <1>0, <1>1, AdvanceEffect, EndCallEffect, PassFollowsLifecycle
<1>2. ASSUME NEW t \in Tick, Phase1(t) PROVE Lifecycle!Next \/ RunStatus' = RunStatus
  BY <1>1, <1>2, StatusStays DEF Phase1, TickStart, StillRunning, BeginCall
<1>3. ASSUME NEW r \in Run, StartRun(r) \/ FailStaleRun(r) PROVE Lifecycle!Next
  BY <1>0, <1>3, StartRunCreates, FailStaleRunFinishes DEF Lifecycle!Next
<1>4. ASSUME NEW k \in Task, RetryBlockedTask(k) \/ SweepOrphanedTask(k)
      PROVE  RunStatus' = RunStatus
  BY <1>4, StatusStays DEF RetryBlockedTask, SweepOrphanedTask
<1>5. ASSUME NEW r \in Run, NEW n \in Node, Handler(r, n) \/ ComeDue(r, n)
      PROVE  RunStatus' = RunStatus
  BY <1>0, <1>5, HandlerKeepsStatus, StatusStays DEF ComeDue
<1>6. CASE UNCHANGED vars
  BY <1>6, StatusStays DEF vars
<1>7. QED
  BY <1>2, <1>3, <1>4, <1>5, <1>6 DEF Next

LEMMA InitFaithful == Init => IInv /\ Lifecycle!Init
<1> SUFFICES ASSUME Init PROVE IInv /\ Lifecycle!Init
  OBVIOUS
<1>1. TypeInv
  BY InitType
<1>2. \A t \in Tick : tick[t] = IdleTick
  BY DEF Init
<1>3. Exclusive /\ Faithful
  BY <1>2, IdleHasNoRow DEF Exclusive, Faithful
<1>4. Lifecycle!Init
  BY DEF Init, Lifecycle!Init, RunStatus
<1>5. QED
  BY <1>1, <1>3, <1>4 DEF IInv

\* When ticks do not overlap, the rows a tick goes on with are faithful to the
\* table, although it read them before its awaits (runTick, phase 1).
THEOREM RowsFaithful == ASSUME Overlap = FALSE PROVE Spec => []IInv
<1>1. Init => IInv
  BY InitFaithful
<1>2. IInv /\ [Next]_vars => IInv'
  BY StepType, StepFaithful DEF IInv
<1>3. QED
  BY <1>1, <1>2, PTL DEF Spec

\* When ticks do not overlap, every run of every workflow is created, begins
\* and finishes once, and a task never has two active runs (startRun, advance).
THEOREM LifecycleImplemented == ASSUME Overlap = FALSE PROVE Spec => ImplementsLifecycle
<1>1. Init => IInv /\ Lifecycle!Init
  BY InitFaithful
<1>2. IInv /\ [Next]_vars => IInv'
  BY StepType, StepFaithful DEF IInv
<1>3. IInv /\ [Next]_vars => [Lifecycle!Next]_RunStatus
  BY StepFollowsLifecycle
<1>4. QED
  BY <1>1, <1>2, <1>3, PTL DEF Spec, ImplementsLifecycle, Lifecycle!Spec

-----------------------------------------------------------------------------
(* What a pass, a call and a handler do to the states of nodes *)

\* All node states are written as they were read, but for the one of n.
Wrote(r, n, row) ==
  /\ run'[r].status = run[r].status /\ run'[r].node = run[r].node
  /\ \A m \in Node : m # n => run'[r].ns[m] = row.ns[m]

AtNode(row) == row.status = "running" /\ row.node \in Node

Begins(r, row) ==
  /\ row.status = "pending" /\ run'[r].status = "running" /\ run'[r].node \in Node
  /\ run'[r].ns = run[r].ns
  /\ UNCHANGED <<queued, executed, workState>>

Starts(r, n, row) ==
  /\ AtNode(row) /\ n = row.node /\ row.ns[n].st = "pending"
  /\ Wrote(r, n, row)
  /\ run'[r].ns[n].attempts = row.ns[n].attempts + 1
  /\ run'[r].ns[n].st # "pending"
  /\ executed' = Bump(executed, r, n)
  /\ queued' = IF Type[n] = "spawn" THEN Bump(queued, r, n) ELSE queued
  /\ UNCHANGED workState

Settles(r, n, row) ==
  /\ AtNode(row) /\ n = row.node /\ row.ns[n].st \in {"running", "failed"}
  /\ Wrote(r, n, row)
  /\ run'[r].ns[n].attempts = row.ns[n].attempts
  /\ run'[r].ns[n].st # "running"
  /\ UNCHANGED <<queued, executed, workState>>

Moves(r, n, row) ==
  /\ AtNode(row) /\ n = row.node /\ row.ns[n].st \in {"completed", "failed"}
  /\ run'[r].status = run[r].status /\ run'[r].node \in Node /\ run'[r].ns = run[r].ns
  /\ UNCHANGED <<queued, executed, workState>>

Ends(r, n, row) ==
  /\ AtNode(row) /\ n = row.node /\ row.ns[n].st \in {"completed", "failed"}
  /\ run'[r].status \in {"completed", "failed"} /\ run'[r].node = NoNode
  /\ run'[r].ns = run[r].ns
  /\ \A k \in Task : k # TaskOf[r] => workState'[k] = workState[k]
  /\ UNCHANGED <<queued, executed>>

\* What one pass over a row does.
Pass(r, row) ==
  \/ Begins(r, row)
  \/ \E n \in Node : Starts(r, n, row) \/ Settles(r, n, row) \/ Moves(r, n, row) \/ Ends(r, n, row)

\* What the answer of a call does.
Answers(r, n, row) ==
  /\ n = row.node
  /\ Wrote(r, n, row)
  /\ run'[r].ns[n].attempts = row.ns[n].attempts + 1
  /\ run'[r].ns[n].st \in {"completed", "failed"}
  /\ UNCHANGED <<queued, executed, workState>>

LEMMA ExecutedKeepsCount ==
  ASSUME NEW n \in Node, NEW s \in NodeState, NEW d \in Executed(n, s)
  PROVE  d.attempts = s.attempts /\ d.st \in {"completed", "failed"}
  BY DEF Executed, NodeState

LEMMA WriteNodeStatesWrites ==
  ASSUME run \in [Run -> Row], NEW r \in Run, NEW ns \in [Node -> NodeState],
         WriteNodeStates(r, ns)
  PROVE  /\ run'[r].ns = ns
         /\ run'[r].status = run[r].status /\ run'[r].node = run[r].node
  BY DEF WriteNodeStates, Row

LEMMA StartNodeStarts ==
  ASSUME TypeInv, NEW r \in Run, NEW row \in Row, NEW n \in Node, n = row.node,
         row.status = "running", row.ns[n].st = "pending", StartNode(r, n, row)
  PROVE  Starts(r, n, row)
<1> DEFINE s == [row.ns[n] EXCEPT !.attempts = @ + 1]
<1>1. row.ns \in [Node -> NodeState] /\ s \in NodeState
  BY AttemptType DEF Row
<1>2. s.attempts = row.ns[n].attempts + 1
  BY <1>1 DEF NodeState, Row
<1>3. Wrote(r, n, row) /\ run'[r].ns[n].attempts = s.attempts /\ run'[r].ns[n].st # "pending"
  <2>1. CASE Type[n] \in {"spawn", "wait"}
    <3> DEFINE d == [s EXCEPT !.st = "running"]
    <3>1. d \in NodeState /\ d.attempts = s.attempts /\ d.st = "running"
      BY <1>1 DEF NodeState
    <3>2. WriteNodeStates(r, [row.ns EXCEPT ![n] = d])
      BY <2>1 DEF StartNode
    <3> HIDE DEF d, s
    <3>3. [row.ns EXCEPT ![n] = d] \in [Node -> NodeState]
      BY <1>1, <3>1
    <3>4. QED
      BY <1>1, <3>1, <3>2, <3>3, WriteNodeStatesWrites DEF TypeInv, Wrote
  <2>2. CASE Type[n] \notin {"spawn", "wait"}
    <3>1. PICK d \in Executed(n, s) : WriteNodeStates(r, [row.ns EXCEPT ![n] = d])
      BY <2>2 DEF StartNode
    <3> HIDE DEF s
    <3>2. d \in NodeState /\ d.attempts = s.attempts /\ d.st # "pending"
      BY <1>1, ExecutedType, ExecutedKeepsCount
    <3>3. [row.ns EXCEPT ![n] = d] \in [Node -> NodeState]
      BY <1>1, <3>2
    <3>4. QED
      BY <1>1, <3>1, <3>2, <3>3, WriteNodeStatesWrites DEF TypeInv, Wrote
  <2>3. QED
    BY <2>1, <2>2
<1>4. QED
  BY <1>2, <1>3 DEF StartNode, Starts, AtNode

\* The state of one node is set, the others are written as they were read.
LEMMA SetsState ==
  ASSUME TypeInv, NEW r \in Run, NEW row \in Row, NEW n \in Node,
         NEW o \in {"pending", "completed", "failed"},
         WriteNodeStates(r, [row.ns EXCEPT ![n].st = o])
  PROVE  /\ Wrote(r, n, row)
         /\ run'[r].ns[n].attempts = row.ns[n].attempts /\ run'[r].ns[n].st = o
<1> DEFINE d == [row.ns[n] EXCEPT !.st = o]
<1>1. row.ns \in [Node -> NodeState]
  BY DEF Row
<1>2. d \in NodeState /\ d.attempts = row.ns[n].attempts /\ d.st = o
  BY <1>1 DEF NodeState
<1>3. WriteNodeStates(r, [row.ns EXCEPT ![n] = d])
  OBVIOUS
<1> HIDE DEF d
<1>4. [row.ns EXCEPT ![n] = d] \in [Node -> NodeState]
  BY <1>1, <1>2
<1>5. QED
  BY <1>1, <1>2, <1>3, <1>4, WriteNodeStatesWrites DEF TypeInv, Wrote

LEMMA CheckNodeSettles ==
  ASSUME TypeInv, NEW r \in Run, NEW row \in Row, NEW n \in Node, n = row.node,
         row.status = "running", row.ns[n].st = "running", CheckNode(r, n, row)
  PROVE  Settles(r, n, row)
<1>1. PICK o \in CheckOutcome(r, n, row) :
        /\ WriteNodeStates(r, [row.ns EXCEPT ![n].st = o])
        /\ UNCHANGED <<queued, due, executed, workState>>
  BY DEF CheckNode
<1>2. o \in {"completed", "failed"}
  BY DEF CheckOutcome, SpawnOutcome, WaitOutcome
<1>3. /\ Wrote(r, n, row)
      /\ run'[r].ns[n].attempts = row.ns[n].attempts /\ run'[r].ns[n].st = o
  <2>1. WriteNodeStates(r, [row.ns EXCEPT ![n].st = o])
    BY <1>1
  <2>2. o \in {"pending", "completed", "failed"}
    BY <1>2
  <2>3. QED
    BY ONLY TypeInv, r \in Run, row \in Row, n \in Node, <2>1, <2>2, SetsState, ZenonT(30)
<1>4. QED
  BY <1>1, <1>2, <1>3 DEF Settles, AtNode

LEMMA FinishRunEnds ==
  ASSUME TypeInv, NEW r \in Run, NEW o \in {"completed", "failed"}, FinishRun(r, o)
  PROVE  /\ run'[r].status = o /\ run'[r].node = NoNode /\ run'[r].ns = run[r].ns
         /\ \A k \in Task : k # TaskOf[r] => workState'[k] = workState[k]
  BY DEF FinishRun, TypeInv, Row

LEMMA MoveToMoves ==
  ASSUME TypeInv, NEW r \in Run, NEW g \in Node, MoveTo(r, g)
  PROVE  run'[r].status = run[r].status /\ run'[r].node = g /\ run'[r].ns = run[r].ns
  BY DEF MoveTo, TypeInv, Row

LEMMA TransitionMovesOrEnds ==
  ASSUME TypeInv, NEW r \in Run, NEW row \in Row, NEW n \in Node, n = row.node,
         row.status = "running", row.ns[n].st = "completed", Transition(r, n, row)
  PROVE  Moves(r, n, row) \/ Ends(r, n, row)
<1>1. row.ns[n].goto \in Node \cup {NoNode}
  BY DEF Row, NodeState
<1>2. PICK g \in IF row.ns[n].goto # NoNode THEN {row.ns[n].goto} ELSE Succ[n] :
        IF g = NoNode THEN FinishRun(r, "completed")
        ELSE MoveTo(r, g) /\ UNCHANGED workState
  BY DEF Transition
<1>3. g \in Node \cup {NoNode}
  BY <1>1, GraphAssumption DEF GraphAssumption
<1>4. UNCHANGED <<queued, executed>>
  BY DEF Transition
<1>5. CASE g = NoNode
  BY <1>2, <1>4, <1>5, FinishRunEnds DEF Ends, AtNode
<1>6. CASE g # NoNode
  BY <1>2, <1>3, <1>4, <1>6, MoveToMoves DEF Moves, AtNode
<1>7. QED
  BY <1>5, <1>6

LEMMA HandleFailureCases ==
  ASSUME TypeInv, NEW r \in Run, NEW row \in Row, NEW n \in Node, n = row.node,
         row.status = "running", row.ns[n].st = "failed", HandleFailure(r, n, row)
  PROVE  Settles(r, n, row) \/ Moves(r, n, row) \/ Ends(r, n, row)
<1>1. UNCHANGED <<queued, executed>>
  BY DEF HandleFailure
<1>2. CASE WriteNodeStates(r, [row.ns EXCEPT ![n].st = "pending"]) /\ UNCHANGED workState
  <2>1. /\ Wrote(r, n, row)
        /\ run'[r].ns[n].attempts = row.ns[n].attempts /\ run'[r].ns[n].st = "pending"
    BY <1>2, SetsState
  <2>2. QED
    BY <1>1, <1>2, <2>1 DEF Settles, AtNode
<1>3. CASE Fallback[n] # NoNode /\ MoveTo(r, Fallback[n]) /\ UNCHANGED workState
  <2>1. Fallback[n] \in Node
    BY <1>3, GraphAssumption DEF GraphAssumption
  <2>2. QED
    BY <1>1, <1>3, <2>1, MoveToMoves DEF Moves, AtNode
<1>4. CASE FinishRun(r, "failed")
  BY <1>1, <1>4, FinishRunEnds DEF Ends, AtNode
<1>5. QED
  BY <1>2, <1>3, <1>4 DEF HandleFailure

LEMMA AdvanceRowPasses ==
  ASSUME TypeInv, NEW r \in Run, NEW row \in Row, AdvanceRow(r, row)
  PROVE  Pass(r, row)
<1>1. CASE /\ row.status = "pending"
           /\ run' = [run EXCEPT ![r].status = "running", ![r].node = Entry[r]]
           /\ UNCHANGED <<queued, due, executed, workState>>
  <2>1. Entry[r] \in Node
    BY GraphAssumption DEF GraphAssumption
  <2>2. run'[r].status = "running" /\ run'[r].node = Entry[r] /\ run'[r].ns = run[r].ns
    BY <1>1 DEF TypeInv, Row
  <2>3. QED
    BY <1>1, <2>1, <2>2 DEF Pass, Begins
<1>2. CASE row.status = "running" /\ row.node # NoNode
  <2>1. row.node \in Node
    BY <1>2 DEF Row
  <2>2. \/ row.ns[row.node].st = "pending" /\ StartNode(r, row.node, row)
        \/ row.ns[row.node].st = "running" /\ CheckNode(r, row.node, row)
        \/ row.ns[row.node].st = "completed" /\ Transition(r, row.node, row)
        \/ row.ns[row.node].st = "failed" /\ HandleFailure(r, row.node, row)
    BY <1>2 DEF AdvanceRow
  <2>3. QED
    BY <1>2, <2>1, <2>2, StartNodeStarts, CheckNodeSettles, TransitionMovesOrEnds,
       HandleFailureCases DEF Pass
<1>3. QED
  BY <1>1, <1>2 DEF AdvanceRow

\* The answer of a call, at the node where the call was begun.
LEMMA EndCallAnswers ==
  ASSUME TypeInv, NEW r \in Run, NEW row \in Row, row.node \in Node,
         LET s == [row.ns[row.node] EXCEPT !.attempts = @ + 1]
         IN \E done \in Executed(row.node, s) :
              WriteNodeStates(r, [row.ns EXCEPT ![row.node] = done]),
         UNCHANGED <<queued, executed, workState>>
  PROVE  Answers(r, row.node, row)
<1> DEFINE n == row.node
           s == [row.ns[n] EXCEPT !.attempts = @ + 1]
<1>1. row.ns \in [Node -> NodeState] /\ s \in NodeState
  BY AttemptType DEF Row
<1>2. s.attempts = row.ns[n].attempts + 1
  BY <1>1 DEF NodeState, Row
<1>3. PICK d \in Executed(n, s) : WriteNodeStates(r, [row.ns EXCEPT ![n] = d])
  OBVIOUS
<1> HIDE DEF s
<1>4. d \in NodeState /\ d.attempts = s.attempts /\ d.st \in {"completed", "failed"}
  BY <1>1, ExecutedType, ExecutedKeepsCount
<1>5. [row.ns EXCEPT ![n] = d] \in [Node -> NodeState]
  BY <1>1, <1>4
<1>6. QED
  BY <1>1, <1>2, <1>3, <1>4, <1>5, WriteNodeStatesWrites DEF TypeInv, Wrote, Answers

-----------------------------------------------------------------------------
(* Rows as read and the present ones: beside the status, the node and the   *)
(* progress of every node agree, for ticks that do not overlap.             *)

\* What a pass decides from, apart from the result that a handler may store.
Tracks(row, cur) ==
  /\ row.status = cur.status /\ row.node = cur.node
  /\ \A n \in Node : row.ns[n].st = cur.ns[n].st /\ row.ns[n].attempts = cur.ns[n].attempts

Tracked == \A t \in Tick : \A r \in DOMAIN tick[t].todo : Tracks(tick[t].todo[r], run[r])

AtCall(row) ==
  /\ AtNode(row) /\ Type[row.node] = "call" /\ row.ns[row.node].st = "pending"

\* A tick that awaits has given up the CPU and is at a call that has not ended.
CallsWait ==
  \A t \in Tick :
    tick[t].calling => cpu # t /\ \A r \in Current(t) : AtCall(tick[t].todo[r])

StartedRuns == {r \in Run : run[r].status # "none"}

\* The order of created_at is total: Current(t) is one run.
CreatedOnce ==
  /\ \A r \in StartedRuns : created[r] < Cardinality(StartedRuns)
  /\ \A r, q \in StartedRuns : r # q => created[r] # created[q]

PInv == IInv /\ Tracked /\ CallsWait /\ CreatedOnce

LEMMA TracksItself == ASSUME NEW row PROVE Tracks(row, row)
  BY DEF Tracks

LEMMA IdleWaitsForNoCall == ASSUME NEW t, tick[t] = IdleTick PROVE tick[t].calling = FALSE
  BY DEF IdleTick

LEMMA CurrentIsOne ==
  ASSUME PInv, NEW t \in Tick, NEW r \in Current(t), NEW q \in Current(t)
  PROVE  q = r
<1>1. r \in DOMAIN tick[t].todo /\ q \in DOMAIN tick[t].todo /\ r \in Run /\ q \in Run
  BY CurrentInTodo, TodoType DEF PInv, IInv
<1>2. r \in StartedRuns /\ q \in StartedRuns
  BY <1>1 DEF PInv, IInv, Faithful, Active, StartedRuns
<1>3. created[r] <= created[q] /\ created[q] <= created[r]
  BY <1>1 DEF Current, Oldest
<1>4. created[r] \in Nat /\ created[q] \in Nat
  BY <1>1 DEF PInv, IInv, TypeInv
<1>5. created[r] = created[q]
  BY <1>3, <1>4
<1>6. QED
  BY <1>2, <1>5 DEF PInv, CreatedOnce

\* How a tick goes on after a pass over r.
GoesOn(t, r) ==
  /\ tick'[t].calling = FALSE
  /\ \A q \in DOMAIN tick'[t].todo :
       /\ q \in DOMAIN tick[t].todo
       /\ q = r => tick'[t].todo[q] = run'[r]
       /\ q # r => tick'[t].todo[q] = tick[t].todo[q]
  /\ \A u \in Tick : u # t => tick'[u] = tick[u]

LEMMA LeaveRunGoesOn ==
  ASSUME TypeInv, NEW t \in Tick, NEW r \in Run, LeaveRun(t, r) PROVE GoesOn(t, r)
<1>1. /\ DOMAIN tick'[t].todo = DOMAIN tick[t].todo \ {r}
      /\ \A q \in DOMAIN tick'[t].todo : tick'[t].todo[q] = tick[t].todo[q]
      /\ \A u \in Tick : u # t => tick'[u] = tick[u]
  BY LeaveRunTodo
<1>2. tick'[t].calling = FALSE
  BY DEF LeaveRun, TypeInv
<1>3. QED
  BY <1>1, <1>2 DEF GoesOn

LEMMA AfterPassGoesOn ==
  ASSUME TypeInv, NEW t \in Tick, NEW r \in Current(t), AfterPass(t, r) PROVE GoesOn(t, r)
<1>1. r \in DOMAIN tick[t].todo /\ r \in Run
  BY CurrentInTodo, TodoType
<1>2. CASE LeaveRun(t, r)
  BY <1>1, <1>2, LeaveRunGoesOn
<1>3. CASE tick' = [tick EXCEPT ![t] = [todo |-> [@.todo EXCEPT ![r] = run'[r]],
                                        passes |-> @.passes + 1, calling |-> FALSE]]
  <2>1. tick'[t] = [todo |-> [tick[t].todo EXCEPT ![r] = run'[r]],
                    passes |-> tick[t].passes + 1, calling |-> FALSE]
    BY <1>3 DEF TypeInv
  <2>2. \A u \in Tick : u # t => tick'[u] = tick[u]
    BY <1>3 DEF TypeInv
  <2>3. QED
    BY <1>1, <2>1, <2>2 DEF GoesOn
<1>4. QED
  BY <1>2, <1>3 DEF AfterPass

\* The one tick that has rows goes on: no call is waited for any more.
LEMMA GoesOnKeeps ==
  ASSUME PInv, NEW t \in Tick, NEW r \in Current(t), GoesOn(t, r),
         \A q \in Run : q # r => run'[q] = run[q],
         run'[r].status # "none", UNCHANGED created
  PROVE  Tracked' /\ CallsWait' /\ CreatedOnce'
<1>1. r \in DOMAIN tick[t].todo /\ r \in Run
  BY CurrentInTodo, TodoType DEF PInv, IInv
<1>2. \A u \in Tick : u # t => tick[u] = IdleTick
  BY OthersIdle DEF PInv, IInv
<1>3. \A u \in Tick : u # t => tick'[u] = tick[u]
  BY DEF GoesOn
<1>4. \A u \in Tick : u # t => DOMAIN tick'[u].todo = {} /\ tick'[u].calling = FALSE
  BY <1>2, <1>3, IdleHasNoRow, IdleWaitsForNoCall
<1>5. CallsWait'
  BY <1>4 DEF CallsWait, GoesOn
<1>6. ASSUME NEW q \in DOMAIN tick'[t].todo PROVE Tracks(tick'[t].todo[q], run'[q])
  <2>1. CASE q = r
    BY <1>6, <2>1, TracksItself DEF GoesOn
  <2>2. CASE q # r
    <3>1. q \in DOMAIN tick[t].todo /\ tick'[t].todo[q] = tick[t].todo[q]
      BY <1>6, <2>2 DEF GoesOn
    <3>2. q \in Run
      BY <3>1, TodoType DEF PInv, IInv
    <3>3. run'[q] = run[q]
      BY <2>2, <3>2
    <3>4. Tracks(tick[t].todo[q], run[q])
      BY <3>1 DEF PInv, Tracked
    <3>5. QED
      BY <3>1, <3>3, <3>4
  <2>3. QED
    BY <2>1, <2>2
<1>7. Tracked'
  <2>1. ASSUME NEW u \in Tick, NEW q \in DOMAIN tick'[u].todo
        PROVE  Tracks(tick'[u].todo[q], run'[q])
    <3>1. u = t
      BY <1>4, <2>1
    <3>2. QED
      BY <1>6, <2>1, <3>1
  <2>2. QED
    BY <2>1 DEF Tracked, Tracks
<1>8. StartedRuns' = StartedRuns
  <2>1. run[r].status # "none"
    BY <1>1 DEF PInv, IInv, Faithful, Active
  <2>2. QED
    BY <2>1 DEF StartedRuns
<1>9. CreatedOnce'
  BY <1>8 DEF PInv, CreatedOnce
<1>10. QED
  BY <1>5, <1>7, <1>9

\* A pass, and the answer of a call.
LEMMA PassKeepsRows ==
  ASSUME PInv, NEW t \in Tick, NEW r \in Current(t),
         Effect(r, tick[t].todo[r]), AfterPass(t, r), UNCHANGED created
  PROVE  Tracked' /\ CallsWait' /\ CreatedOnce'
<1>1. r \in DOMAIN tick[t].todo /\ r \in Run
  BY CurrentInTodo, TodoType DEF PInv, IInv
<1>2. Active(r)
  BY <1>1 DEF PInv, IInv, Faithful
<1>3. run'[r].status # "none" /\ \A q \in Run : q # r => run'[q] = run[q]
  BY <1>2 DEF Effect, StatusStep, Active
<1>4. GoesOn(t, r)
  BY AfterPassGoesOn DEF PInv, IInv
<1>5. QED
  BY <1>3, <1>4, GoesOnKeeps

\* A step that leaves ticks, order and progress alone: handlers and tasks.
Quiet ==
  /\ UNCHANGED <<tick, cpu, created, executed>>
  /\ \A q \in Run : Tracks(run[q], run'[q])

LEMMA QuietKeepsRows == ASSUME PInv, Quiet PROVE Tracked' /\ CallsWait' /\ CreatedOnce'
<1>1. ASSUME NEW t \in Tick, NEW r \in DOMAIN tick'[t].todo
      PROVE  Tracks(tick'[t].todo[r], run'[r])
  <2>1. r \in DOMAIN tick[t].todo /\ r \in Run /\ tick'[t].todo[r] = tick[t].todo[r]
    BY <1>1, TodoType DEF PInv, IInv, Quiet
  <2>2. Tracks(tick[t].todo[r], run[r]) /\ Tracks(run[r], run'[r])
    BY <2>1 DEF PInv, Tracked, Quiet
  <2>3. QED
    BY <2>1, <2>2 DEF Tracks
<1>2. Tracked'
  BY <1>1 DEF Tracked, Tracks
<1>3. CallsWait'
  BY DEF PInv, CallsWait, Quiet, Current, Oldest, AtCall, AtNode
<1>4. StartedRuns' = StartedRuns
  BY DEF StartedRuns, Quiet, Tracks
<1>5. CreatedOnce'
  BY <1>4 DEF PInv, CreatedOnce, Quiet
<1>6. QED
  BY <1>2, <1>3, <1>5

LEMMA WriteSpawnResultTracks ==
  ASSUME TypeInv, NEW r \in Run, NEW n \in Node, NEW key \in BOOLEAN,
         NEW failed \in BOOLEAN, WriteSpawnResult(r, n, key, failed)
  PROVE  \A q \in Run : Tracks(run[q], run'[q])
<1> DEFINE s == [run[r].ns[n] EXCEPT !.key = run[r].ns[n].key \/ key,
                                     !.failed = run[r].ns[n].failed \/ failed]
           row == [run[r] EXCEPT !.ns = [run[r].ns EXCEPT ![n] = s]]
<1>1. run[r] \in Row /\ run[r].ns \in [Node -> NodeState] /\ run[r].ns[n] \in NodeState
  BY DEF TypeInv, Row
<1>2. s.st = run[r].ns[n].st /\ s.attempts = run[r].ns[n].attempts
  BY <1>1 DEF NodeState
<1>3. run' = [run EXCEPT ![r] = row]
  <2>1. run' = [run EXCEPT ![r].ns[n] = s]
    BY DEF WriteSpawnResult
  <2> HIDE DEF s
  <2>2. QED
    BY <1>1, <2>1
<1>4. Tracks(run[r], row)
  <2> HIDE DEF s
  <2>1. QED
    BY <1>1, <1>2 DEF Tracks, Row
<1> HIDE DEF row
<1>5. QED
  BY <1>3, <1>4, TracksItself DEF TypeInv

LEMMA HandlerIsQuiet ==
  ASSUME TypeInv, NEW r \in Run, NEW n \in Node, Handler(r, n) PROVE Quiet
<1>1. UNCHANGED <<tick, cpu, created, executed>>
  BY DEF Handler, StartWorker, GuardStops, RefuseSpawn, WorkerSucceeds, WorkerFails
<1>2. \A q \in Run : Tracks(run[q], run'[q])
  <2>1. CASE StartWorker(r, n) \/ GuardStops(r, n)
    BY <2>1, TracksItself DEF StartWorker, GuardStops
  <2>2. CASE RefuseSpawn(r, n) \/ WorkerSucceeds(r, n)
    BY <2>2, WriteSpawnResultTracks DEF RefuseSpawn, WorkerSucceeds
  <2>3. CASE \E key \in BOOLEAN : WorkerFails(r, n, key)
    BY <2>3, WriteSpawnResultTracks DEF WorkerFails
  <2>4. QED
    BY <2>1, <2>2, <2>3 DEF Handler
<1>3. QED
  BY <1>1, <1>2 DEF Quiet

LEMMA RunKeptIsQuiet ==
  ASSUME UNCHANGED <<run, tick, cpu, created, executed>> PROVE Quiet
  BY TracksItself DEF Quiet

LEMMA TickStartKeepsRows ==
  ASSUME Overlap = FALSE, PInv, NEW t \in Tick, TickStart(t)
  PROVE  Tracked' /\ CallsWait' /\ CreatedOnce'
<1>1. \A u \in Tick : tick[u] = IdleTick
  BY DEF TickStart
<1>2. tick' = [tick EXCEPT ![t] = [tick[t] EXCEPT
                 !.todo = [r \in ActiveRuns(SnapshotLimit) |-> run[r]]]]
  BY DEF TickStart
<1>3. tick'[t] = [IdleTick EXCEPT !.todo = [r \in ActiveRuns(SnapshotLimit) |-> run[r]]]
  BY <1>1, <1>2 DEF PInv, IInv, TypeInv
<1>4. /\ tick'[t].todo = [r \in ActiveRuns(SnapshotLimit) |-> run[r]]
      /\ tick'[t].calling = FALSE
  BY <1>3 DEF IdleTick
<1>5. \A u \in Tick : u # t => DOMAIN tick'[u].todo = {} /\ tick'[u].calling = FALSE
  <2>1. \A u \in Tick : u # t => tick'[u] = tick[u]
    BY <1>2 DEF PInv, IInv, TypeInv
  <2>2. QED
    BY <1>1, <2>1, IdleHasNoRow, IdleWaitsForNoCall
<1>6. run' = run /\ created' = created
  BY DEF TickStart
<1>7. Tracked'
  BY <1>4, <1>5, <1>6 DEF Tracked, Tracks
<1>8. CallsWait'
  BY <1>4, <1>5 DEF CallsWait
<1>9. CreatedOnce'
  BY <1>6 DEF PInv, CreatedOnce, StartedRuns
<1>10. QED
  BY <1>7, <1>8, <1>9

LEMMA BeginCallKeepsRows ==
  ASSUME PInv, NEW t \in Tick, BeginCall(t) PROVE Tracked' /\ CallsWait' /\ CreatedOnce'
<1>1. PICK r \in Current(t) : /\ tick[t].todo[r].status = "running"
                              /\ tick[t].todo[r].node # NoNode
                              /\ Type[tick[t].todo[r].node] = "call"
                              /\ tick[t].todo[r].ns[tick[t].todo[r].node].st = "pending"
  BY DEF BeginCall
<1>2. AtCall(tick[t].todo[r])
  <2>1. tick[t].todo[r] \in Row
    BY CurrentInTodo, TodoType DEF PInv, IInv
  <2>2. QED
    BY <1>1, <2>1 DEF AtCall, AtNode, Row
<1>3. run' = run /\ created' = created /\ cpu' = NoTick
  BY DEF BeginCall
<1>4. \A u \in Tick : tick'[u].todo = tick[u].todo /\ (u # t => tick'[u] = tick[u])
  BY DEF BeginCall, PInv, IInv, TypeInv, TickState
<1>5. \A u \in Tick : u # t => tick[u] = IdleTick
  BY <1>1, OthersIdle DEF PInv, IInv
<1>6. Tracked'
  BY <1>3, <1>4 DEF PInv, Tracked, Tracks
<1>7. CallsWait'
  <2>1. \A u \in Tick : u # t => tick'[u].calling = FALSE
    BY <1>4, <1>5, IdleWaitsForNoCall
  <2>2. NoTick # t
    BY TickAssumption DEF TickAssumption
  <2>3. \A q \in Current(t)' : q \in Current(t)
    BY <1>3, <1>4 DEF Current, Oldest
  <2>4. \A q \in Current(t)' : AtCall(tick[t].todo[q])
    BY <1>1, <1>2, <2>3, CurrentIsOne
  <2>5. QED
    BY <1>3, <1>4, <2>1, <2>2, <2>4 DEF CallsWait, AtCall, AtNode
<1>8. CreatedOnce'
  BY <1>3 DEF PInv, CreatedOnce, StartedRuns
<1>9. QED
  BY <1>6, <1>7, <1>8

LEMMA FailStaleRunKeepsRows ==
  ASSUME Overlap = FALSE, PInv, NEW r \in Run, FailStaleRun(r)
  PROVE  Tracked' /\ CallsWait' /\ CreatedOnce'
<1>1. tick' = tick /\ created' = created /\ \A u \in Tick : tick[u] = IdleTick
  BY DEF FailStaleRun
<1>2. Tracked' /\ CallsWait'
  <2>1. \A u \in Tick : DOMAIN tick'[u].todo = {} /\ tick'[u].calling = FALSE
    BY <1>1, IdleHasNoRow, IdleWaitsForNoCall
  <2>2. QED
    BY <2>1 DEF Tracked, CallsWait
<1>3. StartedRuns' = StartedRuns
  BY DEF FailStaleRun, StartedRuns, PInv, IInv, TypeInv, Row
<1>4. QED
  BY <1>1, <1>2, <1>3 DEF PInv, CreatedOnce

LEMMA StartRunKeepsRows ==
  ASSUME PInv, NEW r \in Run, StartRun(r) PROVE Tracked' /\ CallsWait' /\ CreatedOnce'
<1>1. /\ \A q \in Run : q # r => run'[q] = run[q] /\ created'[q] = created[q]
      /\ run'[r].status = "pending" /\ run[r].status = "none"
      /\ created'[r] = Cardinality(StartedRuns)
      /\ tick' = tick /\ cpu' = cpu
  BY DEF StartRun, StartedRuns, PInv, IInv, TypeInv, Row
<1>2. ASSUME NEW t \in Tick, NEW q \in DOMAIN tick[t].todo
      PROVE  q \in Run /\ q # r
  BY <1>1, TodoType DEF PInv, IInv, Faithful, Active
<1>3. Tracked'
  BY <1>1, <1>2 DEF PInv, Tracked, Tracks
<1>4. \A t \in Tick : Current(t)' = Current(t)
  BY <1>1, <1>2 DEF Current, Oldest
<1>5. CallsWait'
  BY <1>1, <1>4 DEF PInv, CallsWait, AtCall, AtNode
<1>6. /\ StartedRuns' = StartedRuns \cup {r} /\ r \notin StartedRuns
      /\ IsFiniteSet(StartedRuns)
  <2>1. StartedRuns' = StartedRuns \cup {r} /\ r \notin StartedRuns
    BY <1>1 DEF StartedRuns
  <2>2. QED
    BY <2>1, GraphAssumption, FS_Subset DEF GraphAssumption, StartedRuns
<1>7. /\ Cardinality(StartedRuns') = Cardinality(StartedRuns) + 1
      /\ Cardinality(StartedRuns) \in Nat
  BY <1>6, FS_AddElement, FS_CardinalityType
<1>8. \A q \in StartedRuns : q \in Run /\ q # r /\ created[q] \in Nat /\ created'[q] = created[q]
  BY <1>1, <1>6 DEF StartedRuns, PInv, IInv, TypeInv
<1>9. \A q \in StartedRuns : created[q] < Cardinality(StartedRuns)
  BY DEF PInv, CreatedOnce
<1>10. CreatedOnce'
  <2>1. \A q \in StartedRuns' : created'[q] < Cardinality(StartedRuns')
    BY <1>1, <1>6, <1>7, <1>8, <1>9
  <2>2. \A p, q \in StartedRuns' : p # q => created'[p] # created'[q]
    <3>1. \A p, q \in StartedRuns : p # q => created'[p] # created'[q]
      BY <1>8 DEF PInv, CreatedOnce
    <3>2. \A q \in StartedRuns : created'[q] # created'[r]
      BY <1>1, <1>7, <1>8, <1>9
    <3>3. QED
      BY <1>6, <3>1, <3>2
  <2>3. QED
    BY <2>1, <2>2 DEF CreatedOnce
<1>11. QED
  BY <1>3, <1>5, <1>10

LEMMA StepKeepsRows ==
  ASSUME Overlap = FALSE, PInv, [Next]_vars PROVE PInv'
<1>0. TypeInv /\ IInv
  BY DEF PInv, IInv
<1>1. IInv'
  BY <1>0, StepType, StepFaithful DEF IInv
<1>2. ASSUME NEW t \in Tick, Advance(t) \/ EndCall(t)
      PROVE  Tracked' /\ CallsWait' /\ CreatedOnce'
  BY <1>0, <1>2, AdvanceEffect, EndCallEffect, PassKeepsRows
<1>3. ASSUME NEW t \in Tick, StillRunning(t)
      PROVE  Tracked' /\ CallsWait' /\ CreatedOnce'
  <2>1. PICK r \in Current(t) : tick[t].todo[r].status = "running" /\ LeaveRun(t, r)
    BY <1>3 DEF StillRunning
  <2>2. r \in Run /\ r \in DOMAIN tick[t].todo
    BY <1>0, CurrentInTodo, TodoType
  <2>3. run' = run /\ created' = created
    BY <1>3 DEF StillRunning
  <2>4. run[r].status # "none"
    BY <2>2 DEF PInv, IInv, Faithful, Active
  <2>5. GoesOn(t, r)
    BY <1>0, <2>1, <2>2, LeaveRunGoesOn
  <2>6. QED
    BY <2>3, <2>4, <2>5, GoesOnKeeps
<1>4. ASSUME NEW t \in Tick, Phase1(t) PROVE Tracked' /\ CallsWait' /\ CreatedOnce'
  BY <1>2, <1>3, <1>4, TickStartKeepsRows, BeginCallKeepsRows DEF Phase1
<1>5. ASSUME NEW r \in Run, StartRun(r) \/ FailStaleRun(r)
      PROVE  Tracked' /\ CallsWait' /\ CreatedOnce'
  BY <1>5, StartRunKeepsRows, FailStaleRunKeepsRows
<1>6. ASSUME Quiet PROVE Tracked' /\ CallsWait' /\ CreatedOnce'
  BY <1>6, QuietKeepsRows
<1>7. ASSUME NEW k \in Task, RetryBlockedTask(k) \/ SweepOrphanedTask(k) PROVE Quiet
  BY <1>7, RunKeptIsQuiet DEF RetryBlockedTask, SweepOrphanedTask
<1>8. ASSUME NEW r \in Run, NEW n \in Node, Handler(r, n) \/ ComeDue(r, n) PROVE Quiet
  BY <1>0, <1>8, HandlerIsQuiet, RunKeptIsQuiet DEF ComeDue
<1>9. ASSUME UNCHANGED vars PROVE Quiet
  BY <1>9, RunKeptIsQuiet DEF vars
<1>10. Tracked' /\ CallsWait' /\ CreatedOnce'
  BY <1>4, <1>5, <1>6, <1>7, <1>8, <1>9 DEF Next
<1>11. QED
  BY <1>1, <1>10 DEF PInv

LEMMA InitRows == Init => PInv
<1> SUFFICES ASSUME Init PROVE PInv
  OBVIOUS
<1>1. IInv
  BY InitFaithful
<1>2. \A t \in Tick : tick[t] = IdleTick
  BY DEF Init
<1>3. Tracked /\ CallsWait
  BY <1>2, IdleHasNoRow, IdleWaitsForNoCall DEF Tracked, CallsWait
<1>4. StartedRuns = {}
  BY DEF Init, StartedRuns
<1>5. CreatedOnce
  BY <1>4 DEF CreatedOnce
<1>6. QED
  BY <1>1, <1>3, <1>5 DEF PInv

-----------------------------------------------------------------------------
(* What any step does to the row of a run *)

LEMMA PassOfAdvance ==
  ASSUME PInv, NEW t \in Tick, Advance(t)
  PROVE  \E r \in Current(t) :
           /\ r \in Run /\ tick[t].todo[r] \in Row
           /\ Tracks(tick[t].todo[r], run[r])
           /\ Pass(r, tick[t].todo[r]) /\ GoesOn(t, r)
           /\ \A q \in Run : q # r => run'[q] = run[q]
<1>0. TypeInv
  BY DEF PInv, IInv
<1>1. PICK r \in Current(t) : AdvanceRow(r, tick[t].todo[r]) /\ AfterPass(t, r)
  BY DEF Advance
<1>2. r \in DOMAIN tick[t].todo /\ r \in Run /\ tick[t].todo[r] \in Row
  BY <1>0, CurrentInTodo, TodoType
<1>3. Tracks(tick[t].todo[r], run[r])
  BY <1>2 DEF PInv, Tracked
<1>4. Effect(r, tick[t].todo[r])
  BY <1>0, <1>1, <1>2, AdvanceRowEffect
<1>5. Pass(r, tick[t].todo[r]) /\ GoesOn(t, r)
  BY <1>0, <1>1, <1>2, AdvanceRowPasses, AfterPassGoesOn
<1>6. QED
  BY <1>2, <1>3, <1>4, <1>5 DEF Effect

LEMMA AnswerOfEndCall ==
  ASSUME PInv, NEW t \in Tick, EndCall(t)
  PROVE  \E r \in Current(t) :
           /\ r \in Run /\ tick[t].todo[r] \in Row
           /\ Tracks(tick[t].todo[r], run[r])
           /\ AtCall(tick[t].todo[r])
           /\ Answers(r, tick[t].todo[r].node, tick[t].todo[r]) /\ GoesOn(t, r)
           /\ \A q \in Run : q # r => run'[q] = run[q]
<1>0. TypeInv
  BY DEF PInv, IInv
<1>1. PICK r \in Current(t) :
        /\ LET row == tick[t].todo[r]
               s == [row.ns[row.node] EXCEPT !.attempts = @ + 1]
           IN \E done \in Executed(row.node, s) :
                WriteNodeStates(r, [row.ns EXCEPT ![row.node] = done])
        /\ AfterPass(t, r)
  BY DEF EndCall
<1> DEFINE row == tick[t].todo[r]
<1>2. r \in DOMAIN tick[t].todo /\ r \in Run /\ row \in Row
  BY <1>0, CurrentInTodo, TodoType
<1>3. Tracks(row, run[r])
  BY <1>2 DEF PInv, Tracked
<1>4. AtCall(row)
  BY DEF EndCall, PInv, CallsWait
<1>5. row.node \in Node
  BY <1>4 DEF AtCall, AtNode
<1>6. UNCHANGED <<queued, executed, workState>>
  BY DEF EndCall
<1>7. Answers(r, row.node, row)
  <2> DEFINE x == row
  <2>1. LET s == [x.ns[x.node] EXCEPT !.attempts = @ + 1]
        IN \E done \in Executed(x.node, s) :
             WriteNodeStates(r, [x.ns EXCEPT ![x.node] = done])
    BY <1>1
  <2>2. x \in Row /\ x.node \in Node
    BY <1>2, <1>5
  <2> HIDE DEF x
  <2>3. Answers(r, x.node, x)
    BY <1>0, <1>2, <1>6, <2>1, <2>2, EndCallAnswers
  <2>4. QED
    BY <2>3 DEF x
<1>8. GoesOn(t, r)
  BY <1>0, <1>1, AfterPassGoesOn
<1>9. \A q \in Run : q # r => run'[q] = run[q]
  BY <1>0, <1>1 DEF WriteNodeStates, TypeInv
<1>10. QED
  BY <1>2, <1>3, <1>4, <1>7, <1>8, <1>9

\* The steps of a run: it is created, enters its workflow, works at its node,
\* leaves it, is given up, or makes no progress.
IsCreated(r) ==
  /\ StartRun(r)
  /\ run[r].status = "none" /\ run'[r].status = "pending"
  /\ run'[r].node = run[r].node /\ run'[r].ns = run[r].ns

Enters(r) ==
  /\ run[r].status = "pending" /\ run'[r].status = "running"
  /\ run'[r].node \in Node /\ run'[r].ns = run[r].ns

Works(r) ==
  /\ run[r].status = "running" /\ run'[r].status = "running"
  /\ run[r].node \in Node /\ run'[r].node = run[r].node
  /\ run[r].ns[run[r].node].st # "completed"
  /\ \A m \in Node : m # run[r].node => run'[r].ns[m].st = run[r].ns[m].st

Leaves(r) ==
  /\ run[r].status = "running" /\ run[r].node \in Node
  /\ run[r].ns[run[r].node].st \in {"completed", "failed"}
  /\ run'[r].ns = run[r].ns
  /\ \/ run'[r].status = "running" /\ run'[r].node \in Node
     \/ run'[r].status \in {"completed", "failed"} /\ run'[r].node = NoNode

IsGivenUp(r) ==
  /\ run[r].status = "running" /\ run'[r].status = "failed"
  /\ run'[r].node = run[r].node /\ run'[r].ns = run[r].ns

RunStep(r) ==
  \/ IsCreated(r) \/ Enters(r) \/ Works(r) \/ Leaves(r) \/ IsGivenUp(r)
  \/ Tracks(run[r], run'[r])

LEMMA PassIsRunStep ==
  ASSUME NEW r \in Run, NEW row \in Row, Tracks(row, run[r]), Pass(r, row)
  PROVE  RunStep(r)
<1>1. CASE Begins(r, row)
  BY <1>1 DEF Begins, Tracks, RunStep, Enters
<1>2. ASSUME NEW n \in Node, Starts(r, n, row) \/ Settles(r, n, row) PROVE RunStep(r)
  <2>1. /\ run[r].status = "running" /\ run[r].node = n /\ run[r].ns[n].st # "completed"
        /\ Wrote(r, n, row)
    BY <1>2 DEF Starts, Settles, Tracks, AtNode
  <2>2. Works(r)
    BY <2>1 DEF Wrote, Works, Tracks
  <2>3. QED
    BY <2>2 DEF RunStep
<1>3. ASSUME NEW n \in Node, Moves(r, n, row) \/ Ends(r, n, row) PROVE RunStep(r)
  <2>1. Leaves(r)
    BY <1>3 DEF Moves, Ends, Tracks, AtNode, Leaves
  <2>2. QED
    BY <2>1 DEF RunStep
<1>4. QED
  BY <1>1, <1>2, <1>3 DEF Pass

LEMMA AnswerIsRunStep ==
  ASSUME NEW r \in Run, NEW row \in Row, Tracks(row, run[r]), AtCall(row),
         Answers(r, row.node, row)
  PROVE  RunStep(r)
<1>1. /\ run[r].status = "running" /\ run[r].node = row.node /\ row.node \in Node
      /\ run[r].ns[row.node].st # "completed"
  BY DEF AtCall, AtNode, Tracks
<1>2. Works(r)
  BY <1>1 DEF Answers, Wrote, Works, Tracks
<1>3. QED
  BY <1>2 DEF RunStep

LEMMA StepIsRunStep ==
  ASSUME PInv, [Next]_vars PROVE \A q \in Run : RunStep(q)
<1>0. TypeInv
  BY DEF PInv, IInv
<1>1. ASSUME run' = run PROVE \A q \in Run : RunStep(q)
  BY <1>1, TracksItself DEF RunStep
<1>2. ASSUME NEW t \in Tick, Advance(t) PROVE \A q \in Run : RunStep(q)
  <2>1. PICK r \in Current(t) :
           /\ r \in Run /\ tick[t].todo[r] \in Row
           /\ Tracks(tick[t].todo[r], run[r])
           /\ Pass(r, tick[t].todo[r]) /\ GoesOn(t, r)
           /\ \A q \in Run : q # r => run'[q] = run[q]
    BY <1>2, PassOfAdvance
  <2>2. RunStep(r)
    BY <2>1, PassIsRunStep
  <2>3. QED
    BY <2>1, <2>2, TracksItself DEF RunStep
<1>3. ASSUME NEW t \in Tick, EndCall(t) PROVE \A q \in Run : RunStep(q)
  <2>1. PICK r \in Current(t) :
           /\ r \in Run /\ tick[t].todo[r] \in Row
           /\ Tracks(tick[t].todo[r], run[r])
           /\ AtCall(tick[t].todo[r])
           /\ Answers(r, tick[t].todo[r].node, tick[t].todo[r]) /\ GoesOn(t, r)
           /\ \A q \in Run : q # r => run'[q] = run[q]
    BY <1>3, AnswerOfEndCall
  <2>2. RunStep(r)
    BY <2>1, AnswerIsRunStep
  <2>3. QED
    BY <2>1, <2>2, TracksItself DEF RunStep
<1>4. ASSUME NEW t \in Tick, Phase1(t) PROVE \A q \in Run : RunStep(q)
  BY <1>1, <1>2, <1>3, <1>4 DEF Phase1, TickStart, StillRunning, BeginCall
<1>5. ASSUME NEW r \in Run, StartRun(r) \/ FailStaleRun(r) PROVE \A q \in Run : RunStep(q)
  <2>1. IsCreated(r) \/ IsGivenUp(r)
    BY <1>0, <1>5 DEF StartRun, FailStaleRun, IsCreated, IsGivenUp, TypeInv, Row
  <2>2. \A q \in Run : q # r => run'[q] = run[q]
    BY <1>0, <1>5 DEF StartRun, FailStaleRun, TypeInv
  <2>3. QED
    BY <2>1, <2>2, TracksItself DEF RunStep
<1>6. ASSUME NEW k \in Task, RetryBlockedTask(k) \/ SweepOrphanedTask(k)
      PROVE  \A q \in Run : RunStep(q)
  BY <1>1, <1>6 DEF RetryBlockedTask, SweepOrphanedTask
<1>7. ASSUME NEW r \in Run, NEW n \in Node, Handler(r, n) \/ ComeDue(r, n)
      PROVE  \A q \in Run : RunStep(q)
  BY <1>0, <1>1, <1>7, HandlerIsQuiet DEF ComeDue, Quiet, RunStep
<1>8. CASE UNCHANGED vars
  BY <1>1, <1>8 DEF vars
<1>9. QED
  BY <1>4, <1>5, <1>6, <1>7, <1>8 DEF Next

\* A run that has not begun is at no node and has none running.
BlankBefore ==
  \A r \in Run : run[r].status \in {"none", "pending"} =>
    run[r].node = NoNode /\ \A n \in Node : run[r].ns[n].st # "running"

LEMMA RunStepLeavesNone ==
  ASSUME BlankBefore, NothingLeftRunning, \A q \in Run : RunStep(q)
  PROVE  BlankBefore' /\ NothingLeftRunning'
<1>1. ASSUME NEW r \in Run
      PROVE  /\ run'[r].status \in {"none", "pending"} =>
                  run'[r].node = NoNode /\ \A n \in Node : run'[r].ns[n].st # "running"
             /\ \A n \in Node : Active(r)' /\ run'[r].ns[n].st = "running" => run'[r].node = n
  <2>1. CASE IsCreated(r) \/ Enters(r)
    BY <2>1 DEF IsCreated, Enters, BlankBefore
  <2>2. CASE Works(r)
    BY <2>2 DEF Works, NothingLeftRunning, Active
  <2>3. CASE Leaves(r) \/ IsGivenUp(r)
    BY <2>3 DEF Leaves, IsGivenUp, NothingLeftRunning, Active
  <2>4. CASE Tracks(run[r], run'[r])
    BY <2>4 DEF Tracks, BlankBefore, NothingLeftRunning, Active
  <2>5. QED
    BY <2>1, <2>2, <2>3, <2>4 DEF RunStep
<1>2. QED
  BY <1>1 DEF BlankBefore, NothingLeftRunning

\* When ticks do not overlap, a run that has moved on leaves no node running
\* behind it, whichever rows were read before the awaits of a tick
\* (advance, _transition, _handleFailure).
THEOREM NoneLeftRunning == ASSUME Overlap = FALSE PROVE Spec => []NothingLeftRunning
<1>1. Init => PInv
  BY InitRows
<1>2. PInv /\ [Next]_vars => PInv'
  BY StepKeepsRows
<1>3. Init => BlankBefore /\ NothingLeftRunning
  <2>1. ASSUME Init, NEW r \in Run
        PROVE  /\ run[r].status = "none" /\ run[r].node = NoNode
               /\ \A n \in Node : run[r].ns[n].st = "pending"
    BY <2>1 DEF Init, Fresh
  <2>2. QED
    BY <2>1 DEF BlankBefore, NothingLeftRunning, Active
<1>4. PInv /\ BlankBefore /\ NothingLeftRunning /\ [Next]_vars
        => BlankBefore' /\ NothingLeftRunning'
  BY StepIsRunStep, RunStepLeavesNone
<1>5. QED
  BY <1>1, <1>2, <1>3, <1>4, PTL DEF Spec

LEMMA RunStepKeepsCompletion ==
  ASSUME \A q \in Run : RunStep(q)
  PROVE  \A r \in Run, n \in Node :
           run[r].ns[n].st = "completed" => run'[r].ns[n].st = "completed"
<1> SUFFICES ASSUME NEW r \in Run, NEW n \in Node, run[r].ns[n].st = "completed"
             PROVE  run'[r].ns[n].st = "completed"
  OBVIOUS
<1>1. RunStep(r)
  OBVIOUS
<1>2. CASE IsCreated(r) \/ Enters(r) \/ Leaves(r) \/ IsGivenUp(r)
  BY <1>2 DEF IsCreated, Enters, Leaves, IsGivenUp
<1>3. CASE Works(r)
  BY <1>3 DEF Works
<1>4. CASE Tracks(run[r], run'[r])
  BY <1>4 DEF Tracks
<1>5. QED
  BY <1>1, <1>2, <1>3, <1>4 DEF RunStep

\* When ticks do not overlap, no write of node_states, not even the one after
\* an await, undoes what was completed (_startNode, _checkNode, _handleFailure,
\* writeSpawnResult).
THEOREM CompletionStays == ASSUME Overlap = FALSE PROVE Spec => CompletionFinal
<1>1. Init => PInv
  BY InitRows
<1>2. PInv /\ [Next]_vars => PInv'
  BY StepKeepsRows
<1>3. PInv /\ [Next]_vars =>
        [\A r \in Run, n \in Node :
           run[r].ns[n].st = "completed" => run'[r].ns[n].st = "completed"]_run
  BY StepIsRunStep, RunStepKeepsCompletion
<1>4. QED
  BY <1>1, <1>2, <1>3, PTL DEF Spec, CompletionFinal

-----------------------------------------------------------------------------
(* The attempts of a node count its executions, for ticks that do not overlap *)

\* The ticks that await the call at node n of run r.
CallSet(r, n) ==
  {t \in Tick : tick[t].calling /\ r \in Current(t) /\ tick[t].todo[r].node = n}

LEMMA CallsAreOfCallSet == ASSUME NEW r, NEW n PROVE Calls(r, n) = Cardinality(CallSet(r, n))
  BY DEF Calls, CallSet

LEMMA NobodyCalls ==
  ASSUME \A t \in Tick : tick[t].calling = FALSE
  PROVE  \A r \in Run, n \in Node : Calls(r, n) = 0
<1>1. \A r \in Run, n \in Node : CallSet(r, n) = {}
  BY DEF CallSet
<1>2. QED
  BY <1>1, CallsAreOfCallSet, FS_EmptySet

LEMMA NobodyCallsNext ==
  ASSUME \A t \in Tick : tick'[t].calling = FALSE
  PROVE  \A r \in Run, n \in Node : Calls(r, n)' = 0
<1> SUFFICES ASSUME NEW r \in Run, NEW n \in Node PROVE Calls(r, n)' = 0
  OBVIOUS
<1>1. Calls(r, n)' = Cardinality({})
  <2>1. {t \in Tick : /\ tick[t].calling /\ r \in Current(t)
                      /\ tick[t].todo[r].node = n}' = {}
    OBVIOUS
  <2>2. QED
    BY <2>1 DEF Calls
<1>2. QED
  BY <1>1, FS_EmptySet

LEMMA RunningTickCallsNot ==
  ASSUME PInv, NEW t \in Tick, cpu = t, Current(t) # {}
  PROVE  \A u \in Tick : tick[u].calling = FALSE
<1>1. tick[t].calling \in BOOLEAN /\ ~tick[t].calling
  BY DEF PInv, IInv, TypeInv, TickState, CallsWait
<1>2. \A u \in Tick : u # t => tick[u] = IdleTick
  BY OthersIdle DEF PInv, IInv
<1>3. QED
  BY <1>1, <1>2, IdleWaitsForNoCall

LEMMA GoesOnCallsNot ==
  ASSUME PInv, NEW t \in Tick, NEW r \in Current(t), GoesOn(t, r)
  PROVE  \A u \in Tick : tick'[u].calling = FALSE
<1>1. \A u \in Tick : u # t => tick[u] = IdleTick
  BY OthersIdle DEF PInv, IInv
<1>2. \A u \in Tick : u # t => tick'[u] = tick[u]
  BY DEF GoesOn
<1>3. QED
  BY <1>1, <1>2, IdleWaitsForNoCall DEF GoesOn

\* Ticks and their order stay, and with them the calls that are awaited.
LEMMA SameCalls ==
  ASSUME UNCHANGED tick, \A t \in Tick : Current(t)' = Current(t)
  PROVE  \A r \in Run, n \in Node : Calls(r, n)' = Calls(r, n)
<1> SUFFICES ASSUME NEW r \in Run, NEW n \in Node PROVE Calls(r, n)' = Calls(r, n)
  OBVIOUS
<1>1. {t \in Tick : /\ tick[t].calling /\ r \in Current(t) /\ tick[t].todo[r].node = n}'
      = {t \in Tick : /\ tick[t].calling /\ r \in Current(t) /\ tick[t].todo[r].node = n}
  OBVIOUS
<1>2. QED
  BY <1>1 DEF Calls

LEMMA BumpCounts ==
  ASSUME NEW c \in Count, NEW r \in Run, NEW n \in Node
  PROVE  /\ Bump(c, r, n)[r][n] = c[r][n] + 1
         /\ \A q \in Run, m \in Node : q # r \/ m # n => Bump(c, r, n)[q][m] = c[q][m]
<1>1. c[r] \in [Node -> Nat]
  BY DEF Count
<1>2. Bump(c, r, n) = [c EXCEPT ![r] = [c[r] EXCEPT ![n] = c[r][n] + 1]]
  BY DEF Bump
<1>3. QED
  BY <1>1, <1>2 DEF Count

LEMMA CountTypes ==
  ASSUME TypeInv, NEW r \in Run, NEW n \in Node
  PROVE  run[r].ns[n].attempts \in Nat /\ executed[r][n] \in Nat
  BY DEF TypeInv, Row, NodeState, Count

LEMMA AdvanceCounts ==
  ASSUME PInv, EveryStartCounted, NEW t \in Tick, Advance(t) PROVE EveryStartCounted'
<1>0. TypeInv
  BY DEF PInv, IInv
<1>1. PICK r \in Current(t) :
         /\ r \in Run /\ tick[t].todo[r] \in Row
         /\ Tracks(tick[t].todo[r], run[r])
         /\ Pass(r, tick[t].todo[r]) /\ GoesOn(t, r)
         /\ \A q \in Run : q # r => run'[q] = run[q]
  BY PassOfAdvance
<1> DEFINE row == tick[t].todo[r]
<1>2. \A q \in Run, m \in Node : Calls(q, m) = 0
  BY <1>1, RunningTickCallsNot, NobodyCalls DEF Advance
<1>3. \A q \in Run, m \in Node : Calls(q, m)' = 0
  BY <1>1, GoesOnCallsNot, NobodyCallsNext
<1>4. \A q \in Run, m \in Node : executed[q][m] = run[q].ns[m].attempts
  BY <1>0, <1>2, CountTypes DEF EveryStartCounted
<1>5. \A q \in Run, m \in Node : executed'[q][m] = run'[q].ns[m].attempts
  <2>1. CASE /\ executed' = executed
             /\ \A m \in Node : run'[r].ns[m].attempts = run[r].ns[m].attempts
    BY <1>1, <1>4, <2>1
  <2>2. CASE Begins(r, row)
    BY <2>1, <2>2 DEF Begins
  <2>3. ASSUME NEW n \in Node, Settles(r, n, row) \/ Moves(r, n, row) \/ Ends(r, n, row)
        PROVE  /\ executed' = executed
               /\ \A m \in Node : run'[r].ns[m].attempts = run[r].ns[m].attempts
    BY <1>1, <2>3 DEF Settles, Moves, Ends, Wrote, Tracks
  <2>4. ASSUME NEW n \in Node, Starts(r, n, row)
        PROVE  \A q \in Run, m \in Node : executed'[q][m] = run'[q].ns[m].attempts
    <3>1. /\ run'[r].ns[n].attempts = run[r].ns[n].attempts + 1
          /\ \A m \in Node : m # n => run'[r].ns[m].attempts = run[r].ns[m].attempts
      BY <1>1, <2>4 DEF Starts, Wrote, Tracks
    <3>2. /\ executed'[r][n] = executed[r][n] + 1
          /\ \A q \in Run, m \in Node : q # r \/ m # n => executed'[q][m] = executed[q][m]
      <4>1. executed' = Bump(executed, r, n) /\ executed \in Count
        BY <1>0, <2>4 DEF Starts, TypeInv
      <4>2. QED
        BY <1>1, <4>1, BumpCounts
    <3>3. QED
      BY <1>1, <1>4, <3>1, <3>2
  <2>5. QED
    BY <1>1, <2>1, <2>2, <2>3, <2>4 DEF Pass
<1>6. TypeInv'
  BY <1>0, StepType DEF Next, Phase1
<1>7. \A q \in Run, m \in Node : run'[q].ns[m].attempts \in Nat
  BY <1>6 DEF TypeInv, Row, NodeState
<1>8. QED
  BY <1>3, <1>5, <1>7 DEF EveryStartCounted

LEMMA BeginCallCounts ==
  ASSUME PInv, EveryStartCounted, NEW t \in Tick, BeginCall(t) PROVE EveryStartCounted'
<1>0. TypeInv
  BY DEF PInv, IInv
<1>1. PICK r \in Current(t) : /\ tick[t].todo[r].node # NoNode
                              /\ executed' = Bump(executed, r, tick[t].todo[r].node)
  BY DEF BeginCall
<1>2. PICK n \in Node : n = tick[t].todo[r].node
  BY <1>0, <1>1, CurrentInTodo, TodoType DEF Row
<1>a. r \in Run
  BY <1>0, CurrentInTodo, TodoType
<1>3. cpu = t /\ run' = run /\ created' = created
  BY DEF BeginCall
<1>4. \A q \in Run, m \in Node : executed[q][m] = run[q].ns[m].attempts
  <2>1. \A q \in Run, m \in Node : Calls(q, m) = 0
    BY <1>1, <1>3, RunningTickCallsNot, NobodyCalls
  <2>2. QED
    BY <1>0, <2>1, CountTypes DEF EveryStartCounted
<1>5. /\ executed'[r][n] = executed[r][n] + 1
      /\ \A q \in Run, m \in Node : q # r \/ m # n => executed'[q][m] = executed[q][m]
  <2>1. executed' = Bump(executed, r, n)
    BY <1>1, <1>2
  <2>2. QED
    BY <1>0, <1>a, <2>1, BumpCounts DEF TypeInv
<1>6. /\ tick'[t].calling = TRUE
      /\ \A u \in Tick : tick'[u].todo = tick[u].todo
      /\ \A u \in Tick : u # t => tick'[u].calling = FALSE
  <2>1. \A u \in Tick : tick[u].calling = FALSE
    BY <1>1, <1>3, RunningTickCallsNot
  <2>2. QED
    BY <2>1 DEF BeginCall, PInv, IInv, TypeInv, TickState
<1>7. \A u \in Tick : Current(u)' = Current(u)
  BY <1>3, <1>6 DEF Current, Oldest
<1>8. Calls(r, n)' = 1
  <2>1. {u \in Tick : /\ tick[u].calling /\ r \in Current(u)
                      /\ tick[u].todo[r].node = n}' = {t}
    BY <1>1, <1>2, <1>6, <1>7
  <2>2. Calls(r, n)' = Cardinality({t})
    BY <2>1 DEF Calls
  <2>3. QED
    BY <2>2, FS_Singleton
<1>9. ASSUME NEW q \in Run, NEW m \in Node, q # r \/ m # n PROVE Calls(q, m)' = 0
  <2>1. {u \in Tick : /\ tick[u].calling /\ q \in Current(u)
                      /\ tick[u].todo[q].node = m}' = {}
    <3>1. q \in Current(t) => q = r
      BY <1>1, CurrentIsOne
    <3>2. QED
      BY <1>2, <1>6, <1>7, <1>9, <3>1
  <2>2. Calls(q, m)' = Cardinality({})
    BY <2>1 DEF Calls
  <2>3. QED
    BY <2>2, FS_EmptySet
<1>10. \A q \in Run, m \in Node : executed'[q][m] = run'[q].ns[m].attempts + Calls(q, m)'
  <2>1. executed'[r][n] = run'[r].ns[n].attempts + Calls(r, n)'
    BY <1>a, <1>3, <1>4, <1>5, <1>8
  <2>2. ASSUME NEW q \in Run, NEW m \in Node, q # r \/ m # n
        PROVE  executed'[q][m] = run'[q].ns[m].attempts + Calls(q, m)'
    <3>1. Calls(q, m)' = 0 /\ run[q].ns[m].attempts \in Nat
      BY <1>0, <1>9, <2>2, CountTypes
    <3>2. QED
      BY <1>3, <1>4, <1>5, <2>2, <3>1
  <2>3. QED
    BY <2>1, <2>2
<1>11. QED
  BY <1>10 DEF EveryStartCounted

LEMMA EndCallCounts ==
  ASSUME PInv, EveryStartCounted, NEW t \in Tick, EndCall(t) PROVE EveryStartCounted'
<1>0. TypeInv
  BY DEF PInv, IInv
<1>1. PICK r \in Current(t) :
         /\ r \in Run /\ tick[t].todo[r] \in Row
         /\ Tracks(tick[t].todo[r], run[r])
         /\ AtCall(tick[t].todo[r])
         /\ Answers(r, tick[t].todo[r].node, tick[t].todo[r]) /\ GoesOn(t, r)
         /\ \A q \in Run : q # r => run'[q] = run[q]
  BY AnswerOfEndCall
<1>2. PICK n \in Node : n = tick[t].todo[r].node
  BY <1>1 DEF AtCall, AtNode
<1>a. tick[t].calling
  BY DEF EndCall
<1>3. \A u \in Tick : u # t => tick[u].calling = FALSE
  BY <1>1, OthersIdle, IdleWaitsForNoCall DEF PInv, IInv
<1>4. Calls(r, n) = 1
  <2>1. CallSet(r, n) = {t}
    BY <1>1, <1>2, <1>a, <1>3 DEF CallSet
  <2>2. QED
    BY <2>1, CallsAreOfCallSet, FS_Singleton
<1>5. ASSUME NEW q \in Run, NEW m \in Node, q # r \/ m # n PROVE Calls(q, m) = 0
  <2>1. q \in Current(t) => q = r
    BY <1>1, CurrentIsOne
  <2>2. CallSet(q, m) = {}
    BY <1>2, <1>3, <1>5, <2>1 DEF CallSet
  <2>3. QED
    BY <2>2, CallsAreOfCallSet, FS_EmptySet
<1>6. \A q \in Run, m \in Node : Calls(q, m)' = 0
  BY <1>1, GoesOnCallsNot, NobodyCallsNext
<1>7. executed' = executed
  BY DEF EndCall
<1>8. /\ run'[r].ns[n].attempts = run[r].ns[n].attempts + 1
      /\ \A m \in Node : m # n => run'[r].ns[m].attempts = run[r].ns[m].attempts
  BY <1>1, <1>2 DEF Answers, Wrote, Tracks
<1>9. \A q \in Run, m \in Node : executed'[q][m] = run'[q].ns[m].attempts + Calls(q, m)'
  <2>1. executed'[r][n] = run'[r].ns[n].attempts + Calls(r, n)'
    <3>1. executed[r][n] = run[r].ns[n].attempts + 1 /\ run[r].ns[n].attempts \in Nat
      BY <1>0, <1>1, <1>2, <1>4, CountTypes DEF EveryStartCounted
    <3>2. Calls(r, n)' = 0
      BY <1>1, <1>6
    <3>3. executed'[r][n] = run'[r].ns[n].attempts
      BY <1>7, <1>8, <3>1
    <3>4. run'[r].ns[n].attempts \in Nat
      BY <1>8, <3>1
    <3> HIDE <1>1, <1>8, <3>1
    <3>5. QED
      BY <3>2, <3>3, <3>4
  <2>2. ASSUME NEW q \in Run, NEW m \in Node, q # r \/ m # n
        PROVE  executed'[q][m] = run'[q].ns[m].attempts + Calls(q, m)'
    <3>1. executed[q][m] = run[q].ns[m].attempts + 0 /\ run[q].ns[m].attempts \in Nat
      BY <1>0, <1>5, <2>2, CountTypes DEF EveryStartCounted
    <3>2. run'[q].ns[m].attempts = run[q].ns[m].attempts
      BY <1>1, <1>8, <2>2
    <3>3. QED
      BY <1>6, <1>7, <3>1, <3>2
  <2>3. QED
    BY <2>1, <2>2
<1>10. QED
  BY <1>9 DEF EveryStartCounted

\* Steps in which no node is executed and no call begins or ends.
LEMMA OthersCount ==
  ASSUME EveryStartCounted, executed' = executed,
         \A q \in Run, m \in Node : /\ run'[q].ns[m].attempts = run[q].ns[m].attempts
                                    /\ Calls(q, m)' = Calls(q, m)
  PROVE  EveryStartCounted'
  BY DEF EveryStartCounted

LEMMA IdleCallsStay ==
  ASSUME \A t \in Tick : tick[t].calling = FALSE, \A t \in Tick : tick'[t].calling = FALSE
  PROVE  \A q \in Run, m \in Node : Calls(q, m)' = Calls(q, m)
  BY NobodyCalls, NobodyCallsNext

LEMMA StepCounts ==
  ASSUME Overlap = FALSE, PInv, EveryStartCounted, [Next]_vars PROVE EveryStartCounted'
<1>0. TypeInv
  BY DEF PInv, IInv
<1>1. ASSUME NEW t \in Tick, TickStart(t) PROVE EveryStartCounted'
  <2>1. \A u \in Tick : tick[u].calling = FALSE
    BY <1>1, IdleWaitsForNoCall DEF TickStart
  <2>2. \A u \in Tick : tick'[u].calling = FALSE
    BY <1>0, <1>1, <2>1 DEF TickStart, TypeInv, TickState
  <2>3. run' = run /\ executed' = executed
    BY <1>1 DEF TickStart
  <2>4. QED
    BY <2>1, <2>2, <2>3, IdleCallsStay, OthersCount
<1>2. ASSUME NEW t \in Tick, StillRunning(t) PROVE EveryStartCounted'
  <2>1. PICK r \in Current(t) : LeaveRun(t, r)
    BY <1>2 DEF StillRunning
  <2>2. r \in Run
    BY <1>0, CurrentInTodo, TodoType
  <2>3. \A u \in Tick : tick[u].calling = FALSE
    BY <1>2, <2>1, RunningTickCallsNot DEF StillRunning
  <2>4. \A u \in Tick : tick'[u].calling = FALSE
    BY <1>0, <2>1, <2>2, LeaveRunGoesOn, GoesOnCallsNot
  <2>5. run' = run /\ executed' = executed
    BY <1>2 DEF StillRunning
  <2>6. QED
    BY <2>3, <2>4, <2>5, IdleCallsStay, OthersCount
<1>3. ASSUME NEW r \in Run, StartRun(r) PROVE EveryStartCounted'
  <2>1. /\ tick' = tick /\ executed' = executed
        /\ \A q \in Run : run'[q].ns = run[q].ns /\ (q # r => created'[q] = created[q])
        /\ run[r].status = "none"
    BY <1>0, <1>3 DEF StartRun, TypeInv, Row
  <2>2. \A t \in Tick : \A q \in DOMAIN tick[t].todo : q \in Run /\ q # r
    BY <1>0, <2>1, TodoType DEF PInv, IInv, Faithful, Active
  <2>3. \A t \in Tick : Current(t)' = Current(t)
    BY <2>1, <2>2 DEF Current, Oldest
  <2>4. QED
    BY <2>1, <2>3, SameCalls, OthersCount
<1>4. ASSUME UNCHANGED <<tick, created, executed>>,
             \A q \in Run, m \in Node : run'[q].ns[m].attempts = run[q].ns[m].attempts
      PROVE  EveryStartCounted'
  <2>1. \A t \in Tick : Current(t)' = Current(t)
    BY <1>4 DEF Current, Oldest
  <2>2. QED
    BY <1>4, <2>1, SameCalls, OthersCount
<1>5. ASSUME NEW r \in Run, FailStaleRun(r) PROVE EveryStartCounted'
  BY <1>0, <1>4, <1>5 DEF FailStaleRun, TypeInv, Row
<1>6. ASSUME Quiet PROVE EveryStartCounted'
  BY <1>4, <1>6 DEF Quiet, Tracks
<1>7. ASSUME NEW k \in Task, RetryBlockedTask(k) \/ SweepOrphanedTask(k) PROVE Quiet
  BY <1>7, RunKeptIsQuiet DEF RetryBlockedTask, SweepOrphanedTask
<1>8. ASSUME NEW r \in Run, NEW n \in Node, Handler(r, n) \/ ComeDue(r, n) PROVE Quiet
  BY <1>0, <1>8, HandlerIsQuiet, RunKeptIsQuiet DEF ComeDue
<1>9. ASSUME UNCHANGED vars PROVE Quiet
  BY <1>9, RunKeptIsQuiet DEF vars
<1>10. QED
  BY <1>1, <1>2, <1>3, <1>5, <1>6, <1>7, <1>8, <1>9, AdvanceCounts, BeginCallCounts,
     EndCallCounts DEF Next, Phase1

\* When ticks do not overlap, the attempts of a node, from which retries and
\* escalation are decided, count each of its executions once, also those whose
\* answer is still awaited (_startNode, _handleFailure).
THEOREM StartsCounted == ASSUME Overlap = FALSE PROVE Spec => []EveryStartCounted
<1>1. Init => PInv
  BY InitRows
<1>2. PInv /\ [Next]_vars => PInv'
  BY StepKeepsRows
<1>3. Init => EveryStartCounted
  <2> SUFFICES ASSUME Init PROVE EveryStartCounted
    OBVIOUS
  <2>1. \A t \in Tick : tick[t].calling = FALSE
    BY IdleWaitsForNoCall DEF Init
  <2>2. \A r \in Run, n \in Node : Calls(r, n) = 0
    BY <2>1, NobodyCalls
  <2>3. \A r \in Run, n \in Node : executed[r][n] = 0 /\ run[r].ns[n].attempts = 0
    BY DEF Init, Zero, Fresh
  <2>4. QED
    BY <2>2, <2>3 DEF EveryStartCounted
<1>4. PInv /\ EveryStartCounted /\ [Next]_vars => EveryStartCounted'
  BY StepCounts
<1>5. QED
  BY <1>1, <1>2, <1>3, <1>4, PTL DEF Spec

-----------------------------------------------------------------------------
(* A waiting spawn node is answered, for ticks that do not overlap *)

\* A task has one active run at most,
OneActive ==
  \A r, q \in Run :
    Active(r) /\ Active(q) /\ TaskOf[r] # NoTask /\ TaskOf[q] = TaskOf[r] => q = r

\* and while it has one it is neither blocked nor open for another run, unless
\* it is an audit that the guard has stopped.
TaskHeld ==
  \A r \in Run :
    Active(r) /\ TaskOf[r] # NoTask
    => \/ workState[TaskOf[r]] \in {"in_progress", "done", "escalated"}
       \/ AuditStopped(TaskOf[r])

SInv == PInv /\ BlankBefore /\ NothingLeftRunning /\ OneActive /\ TaskHeld /\ SpawnAnswered

LEMMA TaskOfType == ASSUME NEW r \in Run, TaskOf[r] # NoTask PROVE TaskOf[r] \in Task
  BY GraphAssumption DEF GraphAssumption

LEMMA ActiveWas ==
  ASSUME NEW q \in Run, RunStep(q), Active(q)' PROVE Active(q) \/ StartRun(q)
<1>1. CASE IsCreated(q)
  BY <1>1 DEF IsCreated
<1>2. CASE Enters(q) \/ Works(q) \/ Leaves(q) \/ IsGivenUp(q)
  BY <1>2 DEF Enters, Works, Leaves, IsGivenUp, Active
<1>3. CASE Tracks(run[q], run'[q])
  BY <1>3 DEF Tracks, Active
<1>4. QED
  BY <1>1, <1>2, <1>3 DEF RunStep

LEMMA StepKeepsOneActive ==
  ASSUME SInv, [Next]_vars PROVE OneActive'
<1>0. TypeInv /\ \A q \in Run : RunStep(q)
  BY StepIsRunStep DEF SInv, PInv, IInv
<1>1. ASSUME NEW r \in Run, NEW q \in Run, Active(r)', Active(q)', TaskOf[r] # NoTask,
             TaskOf[q] = TaskOf[r], q # r
      PROVE  FALSE
  <2>1. ASSUME NEW p \in Run, NEW o \in Run, StartRun(p), Active(o)', o # p,
               TaskOf[p] # NoTask, TaskOf[o] = TaskOf[p]
        PROVE  FALSE
    <3>1. Active(o)
      BY <1>0, <2>1 DEF StartRun, Active, TypeInv
    <3>2. QED
      BY <2>1, <3>1 DEF StartRun
  <2>2. Active(r) /\ Active(q)
    BY <1>0, <1>1, <2>1, ActiveWas
  <2>3. QED
    BY <1>1, <2>2 DEF SInv, OneActive
<1>2. QED
  BY <1>1 DEF OneActive

LEMMA DropCounts ==
  ASSUME NEW c \in Count, NEW r \in Run, NEW n \in Node
  PROVE  /\ Drop(c, r, n)[r][n] = c[r][n] - 1
         /\ \A q \in Run, m \in Node : q # r \/ m # n => Drop(c, r, n)[q][m] = c[q][m]
<1>1. c[r] \in [Node -> Nat]
  BY DEF Count
<1>2. Drop(c, r, n) = [c EXCEPT ![r] = [c[r] EXCEPT ![n] = c[r][n] - 1]]
  BY DEF Drop
<1>3. QED
  BY <1>1, <1>2 DEF Count

LEMMA CountIsNat == ASSUME NEW c \in Count, NEW r \in Run, NEW n \in Node PROVE c[r][n] \in Nat
  BY DEF Count

\* writeSpawnResult stores a failure and forgets none.
LEMMA WriteSpawnResultStores ==
  ASSUME TypeInv, NEW r \in Run, NEW n \in Node, NEW key \in BOOLEAN,
         NEW failed \in BOOLEAN, WriteSpawnResult(r, n, key, failed)
  PROVE  /\ failed => run'[r].ns[n].failed
         /\ \A q \in Run, m \in Node : run[q].ns[m].failed => run'[q].ns[m].failed
<1> DEFINE s == [run[r].ns[n] EXCEPT !.key = run[r].ns[n].key \/ key,
                                     !.failed = run[r].ns[n].failed \/ failed]
           row == [run[r] EXCEPT !.ns = [run[r].ns EXCEPT ![n] = s]]
<1>1. run[r] \in Row /\ run[r].ns \in [Node -> NodeState] /\ run[r].ns[n] \in NodeState
  BY DEF TypeInv, Row
<1>2. s.failed = (run[r].ns[n].failed \/ failed)
  BY <1>1 DEF NodeState
<1>3. (failed => s.failed) /\ (run[r].ns[n].failed => s.failed)
  <2> HIDE DEF s
  <2>1. QED
    BY <1>2, Zenon
<1>4. run' = [run EXCEPT ![r] = row]
  <2>1. run' = [run EXCEPT ![r].ns[n] = s]
    BY DEF WriteSpawnResult
  <2> HIDE DEF s
  <2>2. QED
    BY <1>1, <2>1
<1> HIDE DEF s
<1>5. row.ns[n] = s /\ \A m \in Node : m # n => row.ns[m] = run[r].ns[m]
  BY <1>1 DEF Row
<1>6. run'[r] = row /\ \A q \in Run : q # r => run'[q] = run[q]
  BY <1>4 DEF TypeInv
<1> HIDE DEF row
<1>7. run'[r].ns[n].failed = s.failed
  BY <1>5, <1>6
<1>8. \A q \in Run, m \in Node : q # r \/ m # n => run'[q].ns[m].failed = run[q].ns[m].failed
  BY <1>5, <1>6
<1>9. QED
  BY <1>3, <1>7, <1>8, Zenon

\* No step takes a spawn off the count of an audit.
LEMMA StoppedStays ==
  ASSUME TypeInv, [Next]_vars, NEW k \in Task, AuditStopped(k) PROVE AuditStopped(k)'
<1>0. k \in Audit /\ spawnCount[k] >= SpawnLimit /\ spawnCount[k] \in Int /\ SpawnLimit \in Int
  BY TickAssumption DEF TypeInv, AuditStopped, TickAssumption
<1>1. spawnCount'[k] = spawnCount[k] \/ spawnCount'[k] = spawnCount[k] + 1
  <2>1. ASSUME NEW t \in Tick, Phase1(t) PROVE spawnCount' = spawnCount
    BY <2>1 DEF Phase1, TickStart, Advance, StillRunning, BeginCall, EndCall
  <2>2. ASSUME NEW r \in Run, StartRun(r) \/ FailStaleRun(r) PROVE spawnCount' = spawnCount
    BY <2>2 DEF StartRun, FailStaleRun
  <2>3. ASSUME NEW j \in Task, RetryBlockedTask(j) \/ SweepOrphanedTask(j)
        PROVE  spawnCount'[k] = spawnCount[k]
    <3>1. CASE j \in Audit
      BY <2>3, <3>1 DEF RetryBlockedTask, SweepOrphanedTask
    <3>2. CASE j \notin Audit
      BY <1>0, <2>3, <3>2 DEF RetryBlockedTask, SweepOrphanedTask, TypeInv
    <3>3. QED
      BY <3>1, <3>2
  <2>4. ASSUME NEW r \in Run, NEW n \in Node, Handler(r, n)
        PROVE  spawnCount'[k] = spawnCount[k] \/ spawnCount'[k] = spawnCount[k] + 1
    <3>1. \/ spawnCount' = spawnCount
          \/ spawnCount' = [spawnCount EXCEPT ![TaskOf[r]] = @ + 1]
      BY <2>4 DEF Handler, StartWorker, GuardStops, RefuseSpawn, WorkerSucceeds, WorkerFails
    <3>2. QED
      BY <3>1 DEF TypeInv
  <2>5. ASSUME NEW r \in Run, NEW n \in Node, ComeDue(r, n) PROVE spawnCount' = spawnCount
    BY <2>5 DEF ComeDue
  <2>6. CASE UNCHANGED vars
    BY <2>6 DEF vars
  <2>7. QED
    BY <2>1, <2>2, <2>3, <2>4, <2>5, <2>6 DEF Next
<1>2. QED
  BY <1>0, <1>1 DEF AuditStopped

\* What a step may do to the state of a task that has an active run.
LEMMA HandlerTask ==
  ASSUME TypeInv, NEW r \in Run, NEW n \in Node, Handler(r, n), NEW k \in Task
  PROVE  \/ workState'[k] = workState[k]
         \/ workState'[k] \in {"done", "escalated"}
         \/ AuditStopped(k)'
<1>1. CASE StartWorker(r, n) \/ RefuseSpawn(r, n) \/ \E key \in BOOLEAN : WorkerFails(r, n, key)
  BY <1>1 DEF StartWorker, RefuseSpawn, WorkerFails
<1>2. CASE WorkerSucceeds(r, n)
  BY <1>2 DEF WorkerSucceeds, TypeInv
<1>3. CASE GuardStops(r, n)
  <2>1. CASE workState' = workState
    BY <2>1
  <2>2. CASE workState' # workState
    <3>1. /\ spawnCount[TaskOf[r]] + 1 >= SpawnLimit
          /\ spawnCount' = [spawnCount EXCEPT ![TaskOf[r]] = @ + 1]
          /\ workState' = [workState EXCEPT ![TaskOf[r]] =
                             IF TaskOf[r] \in Audit THEN "blocked" ELSE "escalated"]
      BY <1>3, <2>2 DEF GuardStops
    <3>2. CASE TaskOf[r] = k
      <4>1. spawnCount'[k] = spawnCount[k] + 1
        BY <3>1, <3>2 DEF TypeInv
      <4>2. CASE k \in Audit
        BY <3>1, <3>2, <4>1, <4>2 DEF AuditStopped
      <4>3. CASE k \notin Audit
        BY <3>1, <3>2, <4>3 DEF TypeInv
      <4>4. QED
        BY <4>2, <4>3
    <3>3. CASE TaskOf[r] # k
      BY <3>1, <3>3 DEF TypeInv
    <3>4. QED
      BY <3>2, <3>3
  <2>3. QED
    BY <2>1, <2>2
<1>4. QED
  BY <1>1, <1>2, <1>3 DEF Handler

LEMMA StepHoldsTask ==
  ASSUME SInv, [Next]_vars, NEW q \in Run, TaskOf[q] # NoTask, Active(q), Active(q)'
  PROVE  \/ workState'[TaskOf[q]] = workState[TaskOf[q]]
         \/ workState'[TaskOf[q]] \in {"done", "escalated"}
         \/ AuditStopped(TaskOf[q])'
<1> DEFINE k == TaskOf[q]
<1>0. TypeInv /\ k \in Task
  BY TaskOfType DEF SInv, PInv, IInv
<1> HIDE DEF k
<1>a. CASE AuditStopped(k)
  BY <1>0, <1>a, StoppedStays DEF k
<1>b. SUFFICES ASSUME ~AuditStopped(k)
               PROVE  \/ workState'[k] = workState[k]
                      \/ workState'[k] \in {"done", "escalated"}
                      \/ AuditStopped(k)'
  BY <1>a DEF k
<1> USE DEF k
<1>1. workState[k] \in {"in_progress", "done", "escalated"}
  BY <1>b DEF SInv, TaskHeld
<1>2. ASSUME NEW t \in Tick, Advance(t) PROVE workState'[k] = workState[k]
  <2>1. PICK r \in Current(t) :
           /\ r \in Run /\ tick[t].todo[r] \in Row
           /\ Tracks(tick[t].todo[r], run[r])
           /\ Pass(r, tick[t].todo[r]) /\ GoesOn(t, r)
           /\ \A p \in Run : p # r => run'[p] = run[p]
    BY <1>2, PassOfAdvance DEF SInv
  <2>2. ASSUME NEW n \in Node, Ends(r, n, tick[t].todo[r]) PROVE k # TaskOf[r]
    <3>1. Active(r) /\ ~Active(r)'
      BY <2>1, <2>2 DEF Ends, AtNode, Tracks, Active
    <3>2. QED
      BY <2>1, <3>1 DEF SInv, OneActive
  <2>3. CASE Begins(r, tick[t].todo[r])
    BY <2>3 DEF Begins
  <2>4. ASSUME NEW n \in Node, Starts(r, n, tick[t].todo[r]) \/ Settles(r, n, tick[t].todo[r])
                               \/ Moves(r, n, tick[t].todo[r])
        PROVE  workState'[k] = workState[k]
    BY <2>4 DEF Starts, Settles, Moves
  <2>5. ASSUME NEW n \in Node, Ends(r, n, tick[t].todo[r]) PROVE workState'[k] = workState[k]
    BY <1>0, <2>2, <2>5 DEF Ends
  <2>6. QED
    BY <2>1, <2>3, <2>4, <2>5 DEF Pass
<1>3. ASSUME NEW t \in Tick, Phase1(t) PROVE workState'[k] = workState[k]
  BY <1>2, <1>3 DEF Phase1, TickStart, StillRunning, BeginCall, EndCall
<1>4. ASSUME NEW r \in Run, StartRun(r) PROVE workState'[k] = workState[k]
  BY <1>0, <1>4 DEF StartRun, TypeInv
<1>5. ASSUME NEW r \in Run, FailStaleRun(r) PROVE workState'[k] = workState[k]
  BY <1>5 DEF FailStaleRun
<1>6. ASSUME NEW j \in Task, RetryBlockedTask(j) \/ SweepOrphanedTask(j)
      PROVE  workState'[k] = workState[k]
  <2>1. j # k
    BY <1>1, <1>6 DEF RetryBlockedTask, SweepOrphanedTask
  <2>2. QED
    BY <1>0, <1>6, <2>1 DEF RetryBlockedTask, SweepOrphanedTask, TypeInv
<1>7. ASSUME NEW r \in Run, NEW n \in Node, Handler(r, n)
      PROVE  \/ workState'[k] = workState[k] \/ workState'[k] \in {"done", "escalated"}
             \/ AuditStopped(k)'
  BY <1>0, <1>7, HandlerTask
<1>8. ASSUME NEW r \in Run, NEW n \in Node, ComeDue(r, n) PROVE workState'[k] = workState[k]
  BY <1>8 DEF ComeDue
<1>9. CASE UNCHANGED vars
  BY <1>9 DEF vars
<1>10. QED
  BY <1>3, <1>4, <1>5, <1>6, <1>7, <1>8, <1>9 DEF Next

LEMMA StepKeepsTaskHeld ==
  ASSUME SInv, [Next]_vars PROVE TaskHeld'
<1>0. TypeInv /\ \A q \in Run : RunStep(q)
  BY StepIsRunStep DEF SInv, PInv, IInv
<1>1. ASSUME NEW q \in Run, Active(q)', TaskOf[q] # NoTask
      PROVE  \/ workState'[TaskOf[q]] \in {"in_progress", "done", "escalated"}
             \/ AuditStopped(TaskOf[q])'
  <2>1. CASE StartRun(q)
    BY <1>0, <1>1, <2>1, TaskOfType DEF StartRun, TypeInv
  <2>2. CASE Active(q)
    <3>1. TaskOf[q] \in Task
      BY <1>1, TaskOfType
    <3>2. CASE AuditStopped(TaskOf[q])
      BY <1>0, <3>1, <3>2, StoppedStays
    <3>3. CASE workState[TaskOf[q]] \in {"in_progress", "done", "escalated"}
      BY <1>1, <2>2, <3>3, StepHoldsTask
    <3>4. QED
      BY <1>1, <2>2, <3>2, <3>3 DEF SInv, TaskHeld
  <2>3. QED
    BY <1>0, <1>1, <2>1, <2>2, ActiveWas
<1>2. QED
  BY <1>1 DEF TaskHeld, AuditStopped

\* A run waits at spawn node m, and what it waits for.
WaitsAt(q, m) ==
  /\ run[q].status = "running" /\ run[q].node = m /\ Type[m] = "spawn"
  /\ run[q].ns[m].st = "running" /\ TaskOf[q] # NoTask

Answered(q, m) ==
  \/ queued[q][m] + working[q][m] > 0
  \/ run[q].ns[m].failed
  \/ workState[TaskOf[q]] \in {"done", "completed", "blocked", "escalated"}
  \/ AuditStopped(TaskOf[q])

LEMMA SpawnAnsweredByNode ==
  SpawnAnswered <=>
    \A q \in Run : run[q].node # NoNode /\ WaitsAt(q, run[q].node) => Answered(q, run[q].node)
  BY DEF SpawnAnswered, WaitsAt, Answered

LEMMA WaitingIsAnswered ==
  ASSUME SInv, NEW q \in Run, NEW m \in Node, WaitsAt(q, m) PROVE Answered(q, m)
<1>1. run[q].node = m /\ m # NoNode
  BY GraphAssumption DEF WaitsAt, GraphAssumption
<1>2. QED
  BY <1>1, SpawnAnsweredByNode DEF SInv

\* Nothing that the run waits for is taken from it.
LEMMA StaysAnswered ==
  ASSUME SInv, [Next]_vars, NEW q \in Run, NEW m \in Node, WaitsAt(q, m), WaitsAt(q, m)',
         queued[q][m] + working[q][m] > 0 => queued'[q][m] + working'[q][m] > 0,
         run[q].ns[m].failed => run'[q].ns[m].failed
  PROVE  Answered(q, m)'
<1>1. Answered(q, m)
  BY WaitingIsAnswered
<1>2. \/ workState'[TaskOf[q]] = workState[TaskOf[q]]
      \/ workState'[TaskOf[q]] \in {"done", "escalated"}
      \/ AuditStopped(TaskOf[q])'
  BY StepHoldsTask DEF WaitsAt, Active
<1>3. AuditStopped(TaskOf[q]) => AuditStopped(TaskOf[q])'
  BY TaskOfType, StoppedStays DEF WaitsAt, SInv, PInv, IInv
<1>4. QED
  BY <1>1, <1>2, <1>3 DEF Answered

LEMMA AdvanceAnswers ==
  ASSUME SInv, NEW t \in Tick, Advance(t), NEW q \in Run, NEW m \in Node, WaitsAt(q, m)'
  PROVE  Answered(q, m)'
<1>0. PInv /\ TypeInv /\ [Next]_vars
  BY DEF SInv, PInv, IInv, Next, Phase1
<1>1. PICK r \in Current(t) :
         /\ r \in Run /\ tick[t].todo[r] \in Row
         /\ Tracks(tick[t].todo[r], run[r])
         /\ Pass(r, tick[t].todo[r]) /\ GoesOn(t, r)
         /\ \A p \in Run : p # r => run'[p] = run[p]
  BY <1>0, PassOfAdvance
<1>2. PICK row \in Row : row = tick[t].todo[r]
  BY <1>1
<1>3. working' = working
  BY DEF Advance
<1>4. CASE q # r
  <2>1. run'[q] = run[q] /\ WaitsAt(q, m)
    BY <1>1, <1>4 DEF WaitsAt
  <2>2. queued'[q][m] = queued[q][m]
    <3>1. queued' = queued \/ \E n \in Node : queued' = Bump(queued, r, n)
      BY <1>1 DEF Pass, Begins, Starts, Settles, Moves, Ends
    <3>2. QED
      BY <1>0, <1>1, <1>4, <3>1, BumpCounts DEF TypeInv
  <2>3. QED
    BY <1>0, <1>3, <2>1, <2>2, StaysAnswered
<1>5. CASE q = r
  <2>1. run'[r].status = "running" /\ run'[r].node = m /\ run'[r].ns[m].st = "running"
        /\ Type[m] = "spawn"
    BY <1>5 DEF WaitsAt
  <2>2. ~Begins(r, row)
    BY <1>1, <1>2, <2>1 DEF Begins, Tracks, SInv, BlankBefore
  <2>3. ASSUME NEW n \in Node, Settles(r, n, row) \/ Moves(r, n, row) \/ Ends(r, n, row)
        PROVE  FALSE
    <3>1. CASE Settles(r, n, row)
      BY <1>1, <1>2, <2>1, <3>1 DEF Settles, Wrote, Tracks
    <3>2. CASE Moves(r, n, row)
      <4>1. /\ run[r].status = "running" /\ run[r].node = n /\ run[r].ns[m].st = "running"
            /\ run[r].ns[n].st # "running"
        BY <1>1, <1>2, <2>1, <3>2 DEF Moves, AtNode, Tracks
      <4>2. QED
        BY <1>1, <4>1 DEF SInv, NothingLeftRunning, Active
    <3>3. CASE Ends(r, n, row)
      BY <2>1, <3>3 DEF Ends
    <3>4. QED
      BY <2>3, <3>1, <3>2, <3>3
  <2>4. PICK n \in Node : Starts(r, n, row)
    BY <1>1, <1>2, <2>2, <2>3 DEF Pass
  <2>5. n = m
    BY <1>1, <1>2, <2>1, <2>4 DEF Starts, Wrote, Tracks
  <2>6. queued' = Bump(queued, r, m)
    BY <2>1, <2>4, <2>5 DEF Starts
  <2>7. queued'[r][m] = queued[r][m] + 1 /\ queued[r][m] \in Nat /\ working[r][m] \in Nat
    BY <1>0, <1>1, <2>6, BumpCounts, CountIsNat DEF TypeInv
  <2>8. queued'[r][m] + working'[r][m] > 0
    BY <1>3, <2>7
  <2>9. QED
    BY <1>5, <2>8 DEF Answered
<1>6. QED
  BY <1>4, <1>5

LEMMA EndCallLeavesAnswered ==
  ASSUME SInv, NEW t \in Tick, EndCall(t), NEW q \in Run, NEW m \in Node, WaitsAt(q, m)'
  PROVE  Answered(q, m)'
<1>0. PInv /\ TypeInv /\ [Next]_vars
  BY DEF SInv, PInv, IInv, Next, Phase1
<1>1. PICK r \in Current(t) :
         /\ r \in Run /\ tick[t].todo[r] \in Row
         /\ Tracks(tick[t].todo[r], run[r])
         /\ AtCall(tick[t].todo[r])
         /\ Answers(r, tick[t].todo[r].node, tick[t].todo[r]) /\ GoesOn(t, r)
         /\ \A p \in Run : p # r => run'[p] = run[p]
  BY <1>0, AnswerOfEndCall
<1>2. q # r
  BY <1>1 DEF WaitsAt, Answers, Wrote, AtCall, Tracks
<1>3. run'[q] = run[q] /\ WaitsAt(q, m)
  BY <1>1, <1>2 DEF WaitsAt
<1>4. queued' = queued /\ working' = working
  BY DEF EndCall
<1>5. QED
  BY <1>0, <1>3, <1>4, StaysAnswered

LEMMA HandlerAnswers ==
  ASSUME SInv, NEW r \in Run, NEW n \in Node, Handler(r, n),
         NEW q \in Run, NEW m \in Node, WaitsAt(q, m)'
  PROVE  Answered(q, m)'
<1>0. TypeInv /\ [Next]_vars
  BY DEF SInv, PInv, IInv, Next
<1>1. WaitsAt(q, m)
  <2>1. Tracks(run[q], run'[q])
    BY <1>0, HandlerIsQuiet DEF Quiet
  <2>2. QED
    BY <2>1 DEF Tracks, WaitsAt
<1>2. TaskOf[q] \in Task
  BY <1>1, TaskOfType DEF WaitsAt
<1>3. queued[q][m] \in Nat /\ working[q][m] \in Nat
  BY <1>0, CountIsNat DEF TypeInv
<1>4. CASE StartWorker(r, n)
  <2>1. queued' = Drop(queued, r, n) /\ working' = Bump(working, r, n) /\ run' = run
    BY <1>4 DEF StartWorker
  <2>2. queued'[q][m] + working'[q][m] = queued[q][m] + working[q][m]
    <3>1. CASE q = r /\ m = n
      <4>1. queued'[q][m] = queued[q][m] - 1 /\ working'[q][m] = working[q][m] + 1
        BY <1>0, <2>1, <3>1, DropCounts, BumpCounts DEF TypeInv
      <4>2. QED
        BY <1>3, <4>1
    <3>2. CASE q # r \/ m # n
      <4>1. queued'[q][m] = queued[q][m] /\ working'[q][m] = working[q][m]
        BY <1>0, <2>1, <3>2, DropCounts, BumpCounts DEF TypeInv
      <4>2. QED
        BY <4>1
    <3>3. QED
      BY <3>1, <3>2
  <2>3. QED
    BY <1>0, <1>1, <2>1, <2>2, StaysAnswered
<1>5. CASE GuardStops(r, n)
  <2>1. queued' = Drop(queued, r, n) /\ working' = working /\ run' = run
    BY <1>5 DEF GuardStops
  <2>2. CASE q = r
    <3>1. workState'[TaskOf[q]] \in {"blocked", "escalated"}
      BY <1>0, <1>2, <1>5, <2>2 DEF GuardStops, TypeInv
    <3>2. QED
      BY <3>1 DEF Answered
  <2>3. CASE q # r
    <3>1. queued'[q][m] = queued[q][m]
      BY <1>0, <2>1, <2>3, DropCounts DEF TypeInv
    <3>2. QED
      BY <1>0, <1>1, <2>1, <3>1, StaysAnswered
  <2>4. QED
    BY <2>2, <2>3
<1>6. CASE RefuseSpawn(r, n) \/ \E key \in BOOLEAN : WorkerFails(r, n, key)
  <2>1. /\ run'[r].ns[n].failed
        /\ \A p \in Run, o \in Node : run[p].ns[o].failed => run'[p].ns[o].failed
    BY <1>0, <1>6, WriteSpawnResultStores DEF RefuseSpawn, WorkerFails
  <2>2. CASE q = r /\ m = n
    BY <2>1, <2>2 DEF Answered
  <2>3. CASE q # r \/ m # n
    <3>1. \/ queued' = Drop(queued, r, n) /\ working' = working
          \/ working' = Drop(working, r, n) /\ queued' = queued
      BY <1>6 DEF RefuseSpawn, WorkerFails
    <3>2. queued'[q][m] = queued[q][m] /\ working'[q][m] = working[q][m]
      BY <1>0, <2>3, <3>1, DropCounts DEF TypeInv
    <3>3. QED
      BY <1>0, <1>1, <2>1, <3>2, StaysAnswered
  <2>4. QED
    BY <2>2, <2>3
<1>7. CASE WorkerSucceeds(r, n)
  <2>1. working' = Drop(working, r, n) /\ queued' = queued
    BY <1>7 DEF WorkerSucceeds
  <2>2. CASE q = r
    <3>1. workState'[TaskOf[q]] = "done"
      BY <1>0, <1>1, <1>2, <1>7, <2>2 DEF WorkerSucceeds, TypeInv, WaitsAt
    <3>2. QED
      BY <3>1 DEF Answered
  <2>3. CASE q # r
    <3>1. working'[q][m] = working[q][m]
      BY <1>0, <2>1, <2>3, DropCounts DEF TypeInv
    <3>2. run[q].ns[m].failed => run'[q].ns[m].failed
      BY <1>0, <1>7, WriteSpawnResultStores DEF WorkerSucceeds
    <3>3. QED
      BY <1>0, <1>1, <2>1, <3>1, <3>2, StaysAnswered
  <2>4. QED
    BY <2>2, <2>3
<1>8. QED
  BY <1>4, <1>5, <1>6, <1>7 DEF Handler

LEMMA StepKeepsAnswered ==
  ASSUME SInv, [Next]_vars PROVE SpawnAnswered'
<1>0. TypeInv
  BY DEF SInv, PInv, IInv
<1>1. ASSUME NEW q \in Run, NEW m \in Node, WaitsAt(q, m)' PROVE Answered(q, m)'
  <2>1. ASSUME run'[q] = run[q], queued' = queued, working' = working PROVE Answered(q, m)'
    BY <1>1, <2>1, StaysAnswered DEF WaitsAt
  <2>2. ASSUME NEW t \in Tick, Phase1(t) PROVE Answered(q, m)'
    BY <1>1, <2>1, <2>2, AdvanceAnswers, EndCallLeavesAnswered
       DEF Phase1, TickStart, StillRunning, BeginCall
  <2>3. ASSUME NEW r \in Run, StartRun(r) \/ FailStaleRun(r) PROVE Answered(q, m)'
    <3>1. q # r
      BY <1>0, <1>1, <2>3 DEF StartRun, FailStaleRun, WaitsAt, TypeInv, Row
    <3>2. run'[q] = run[q] /\ queued' = queued /\ working' = working
      BY <1>0, <2>3, <3>1 DEF StartRun, FailStaleRun, TypeInv
    <3>3. QED
      BY <2>1, <3>2
  <2>4. ASSUME NEW k \in Task, RetryBlockedTask(k) \/ SweepOrphanedTask(k)
        PROVE  Answered(q, m)'
    BY <2>1, <2>4 DEF RetryBlockedTask, SweepOrphanedTask
  <2>5. ASSUME NEW r \in Run, NEW n \in Node, Handler(r, n) \/ ComeDue(r, n)
        PROVE  Answered(q, m)'
    BY <1>1, <2>1, <2>5, HandlerAnswers DEF ComeDue
  <2>6. CASE UNCHANGED vars
    BY <2>1, <2>6 DEF vars
  <2>7. QED
    BY <2>2, <2>3, <2>4, <2>5, <2>6 DEF Next
<1>2. TypeInv'
  BY <1>0, StepType
<1>3. ASSUME NEW q \in Run, run'[q].node # NoNode, WaitsAt(q, run[q].node)'
      PROVE  Answered(q, run[q].node)'
  <2>1. PICK m \in Node : m = run'[q].node
    BY <1>2, <1>3 DEF TypeInv, Row
  <2>2. Answered(q, m)'
    BY <1>1, <1>3, <2>1 DEF WaitsAt
  <2>3. QED
    BY <2>1, <2>2 DEF Answered
<1>4. QED
  BY <1>3 DEF SpawnAnswered, WaitsAt, Answered

\* When ticks do not overlap, a run of a task that waits at a spawn node has
\* something to wait for, however results, resets, sweeps and other runs of
\* the task interleave (_checkSpawnAgent, writeSpawnResult,
\* incrementAndCheckSpawnCount with its branch for audits).
THEOREM WaitingSpawnAnswered == ASSUME Overlap = FALSE PROVE Spec => []SpawnAnswered
<1>1. Init => SInv
  <2> SUFFICES ASSUME Init PROVE SInv
    OBVIOUS
  <2>1. \A r \in Run : /\ run[r].status = "none" /\ run[r].node = NoNode
                       /\ \A n \in Node : run[r].ns[n].st = "pending"
    BY DEF Init, Fresh
  <2>2. BlankBefore /\ NothingLeftRunning /\ OneActive /\ TaskHeld /\ SpawnAnswered
    BY <2>1 DEF BlankBefore, NothingLeftRunning, OneActive, TaskHeld, SpawnAnswered, Active
  <2>3. QED
    BY <2>2, InitRows DEF SInv
<1>2. SInv /\ [Next]_vars => SInv'
  <2> SUFFICES ASSUME SInv, [Next]_vars PROVE SInv'
    OBVIOUS
  <2>1. PInv'
    BY StepKeepsRows DEF SInv
  <2>2. BlankBefore' /\ NothingLeftRunning'
    BY StepIsRunStep, RunStepLeavesNone DEF SInv
  <2>3. QED
    BY <2>1, <2>2, StepKeepsOneActive, StepKeepsTaskHeld, StepKeepsAnswered DEF SInv
<1>3. SInv => SpawnAnswered
  BY DEF SInv
<1>4. QED
  BY <1>1, <1>2, <1>3, PTL DEF Spec
=============================================================================
