-------------------------------- MODULE Cron --------------------------------
(***************************************************************************)
(* The scheduler (services/cron.ts): system jobs, which are code, and agent *)
(* jobs, which are rows of cron_jobs, fired by one tick per minute, by hand *)
(* and, after a start, by two loops that catch up with what was missed.     *)
(*                                                                         *)
(* A tick and the two loops await the handler of each job they fire; the    *)
(* head of a loop's todo is the job whose handler runs.  Time is the minute *)
(* of the wall clock; a tick is at least a minute after the one before it.  *)
(***************************************************************************)
EXTENDS Integers, Sequences, SequencesExt, FiniteSets, FiniteSetsExt, Functions

CONSTANTS
  SystemJob, CronJob, AtJob, EveryJob,  \* agent jobs by the kind of their schedule
  JobOrder,        \* the rows, then the order in which both maps are iterated
  Matches,         \* the minutes in which a system or cron job is due
  At,              \* the minute of an at job
  Every,           \* everyMs in minutes
  Added,           \* agent jobs that do not exist from the beginning
  Spoken,          \* agent jobs that need the onEvent handler: no script or workflow
  CatchUpWindow,   \* CATCH_UP_WINDOW_MS, 240
  LastMinute,      \* bound: the clock stops there, the ticks do not
  MaxChanges,      \* bound: jobs added, removed, toggled, triggered
  MaxStarts        \* bound: starts of the process

AgentJob == CronJob \cup AtJob \cup EveryJob
Job == SystemJob \cup AgentJob
Minute == 0 .. LastMinute

\* The last minute stands for the time after it: its ticks repeat, and no
\* system job is due then.
ASSUME CronAssumption ==
  /\ SystemJob \cap AgentJob = {} /\ CronJob \cap AtJob = {}
  /\ EveryJob \cap (CronJob \cup AtJob) = {}
  /\ \A j \in SystemJob : LastMinute \notin Matches[j]
  /\ JobOrder \in Seq(Job) /\ Range(JobOrder) = Job /\ IsInjective(JobOrder)
  /\ Matches \in [SystemJob \cup CronJob -> SUBSET Minute]
  /\ At \in [AtJob -> Minute] /\ Every \in [EveryJob -> Nat \ {0}]
  /\ Added \subseteq AgentJob /\ Spoken \subseteq AgentJob
  /\ CatchUpWindow \in Nat \ {0}
  /\ {LastMinute, MaxChanges, MaxStarts} \subseteq Nat

VARIABLES
  minute,     \* the wall clock
  ticked,     \* the minute in which the interval timer fired last
  starts,     \* starts of the process so far
  running,    \* the process is up
  present,    \* "new", "kept" or "removed"
  enabled,
  lastFired,  \* last_fired, lastRun: the minute, or -1
  handler,    \* onEvent is registered
  copies,     \* jobs whose entry in agentJobs was replaced: the entry, and the
              \* one that the last tick has in its snapshot
  again,      \* the last minute in which a job was added under its name, or -1
  dropped,    \* jobs last fired without a handler
  loop,       \* the tick and the catch-up loops: what is left, and their now
  fires,      \* how often a job was fired for a minute it was due in
  changes

rowVars == <<present, enabled, lastFired, dropped>>
cronVars == <<minute, ticked, starts, running, rowVars, handler, copies, again, loop,
              fires, changes>>

Loop == {"tick", "agents", "system"}
Idle == [todo |-> <<>>, now |-> 0]
Entry == [fired : -1 .. LastMinute, on : BOOLEAN]
NoCopies == [j \in {} |-> {}]

CronTypeOK ==
  /\ minute \in Minute /\ ticked \in Minute /\ starts \in 0 .. MaxStarts
  /\ running \in BOOLEAN
  /\ present \in [Job -> {"new", "kept", "removed"}]
  /\ enabled \in [Job -> BOOLEAN]
  /\ lastFired \in [Job -> -1 .. LastMinute]
  /\ handler \in BOOLEAN /\ dropped \subseteq Job
  /\ DOMAIN copies \subseteq AgentJob
  /\ \A j \in DOMAIN copies : copies[j] \in [tick : Entry, agents : Entry]
  /\ again \in [AgentJob -> -1 .. LastMinute]
  /\ loop \in [Loop -> [todo : Seq(Job), now : Minute]]
  /\ fires \in [Job -> [Minute -> Nat]]
  /\ changes \in 0 .. MaxChanges

CronInit ==
  /\ minute = 0 /\ ticked = 0 /\ starts = 0 /\ running = FALSE
  /\ present = [j \in Job |-> IF j \in Added THEN "new" ELSE "kept"]
  /\ enabled = [j \in Job |-> TRUE]
  /\ lastFired = [j \in Job |-> -1]
  /\ handler = FALSE /\ copies = NoCopies /\ dropped = {}
  /\ again = [j \in AgentJob |-> -1]
  /\ loop = [l \in Loop |-> Idle]
  /\ fires = [j \in Job |-> [m \in Minute |-> 0]]
  /\ changes = 0

----------------------------------------------------------------------------
(* Which jobs are due *)

\* The jobs of S in the order of the map
InOrder(S) ==
  LET kept[n \in 0 .. Len(JobOrder)] ==
        IF n = 0 THEN <<>>
        ELSE kept[n - 1] \o IF JobOrder[n] \in S THEN <<JobOrder[n]>> ELSE <<>>
  IN kept[Len(JobOrder)]

\* agentJobs after loadAgentJobs
Rows == {j \in AgentJob : present[j] = "kept"}

\* The most recent minute in which j should have been fired, or -1
findLastCronMatch(j, now) ==
  Max({m \in Matches[j] : now - CatchUpWindow < m /\ m <= now} \cup {-1})

\* What loop l reads of job j
Read(c, l, j) ==
  IF j \in DOMAIN c THEN c[j][l] ELSE [fired |-> lastFired[j], on |-> enabled[j]]

\* catchUpMissedJobs and catchUpMissedSystemJobs
Missed(now) ==
  {j \in SystemJob \cup CronJob :
     /\ present[j] = "kept" /\ Read(copies, "agents", j).on
     /\ findLastCronMatch(j, now) > Read(copies, "agents", j).fired}

\* _tickInner.  lastRun of a system job has milliseconds and now has none, so
\* that "duplicate runs within the same minute" are avoided for cron jobs only.
\* An interval of whole minutes may be found a few milliseconds short (early).
TickDue(c, now, early) ==
  {j \in Job :
     LET fired == Read(c, "tick", j).fired IN
     /\ Read(c, "tick", j).on
     /\ \/ j \in SystemJob /\ now \in Matches[j]
        \/ j \in CronJob /\ now \in Matches[j] /\ fired # now
        \/ j \in AtJob /\ minute >= At[j] /\ fired = -1
        \/ /\ j \in EveryJob
           /\ \/ fired = -1
              \/ minute - fired > Every[j]
              \/ minute - fired = Every[j] /\ j \notin early}

\* The minute for which a loop fires j, none for an interval.
Occasion(l, j, now) ==
  CASE l # "tick" -> {findLastCronMatch(j, now)}
    [] l = "tick" /\ j \in AtJob -> {At[j]}
    [] l = "tick" /\ j \in EveryJob -> {}
    [] OTHER -> {now}

\* What is left of a loop from its first job in due on
From(todo, due) ==
  LET at == {i \in DOMAIN todo : todo[i] \in due}
  IN IF at = {} THEN <<>> ELSE SubSeq(todo, Min(at), Len(todo))

----------------------------------------------------------------------------
(* Loops *)

\* mutant: last_fired is written by the caller, when the handler has ended.
FiringUnmarked(l, new, marks) == marks

\* mutant: the mark is rounded up.
FiringRoundedUp(l, new, marks) ==
  IF new.todo = <<>> THEN marks ELSE [marks EXCEPT ![Head(new.todo)] = minute + 1]

\* runSystemJob and fireAgentJob: the job that loop l has come to is marked
\* before its handler runs.
Firing(l, new, marks) ==
  IF new.todo = <<>> THEN marks ELSE [marks EXCEPT ![Head(new.todo)] = minute]

\* The entry that loop l has of it is marked as well.
CopyFired(l, new, c) ==
  IF new.todo = <<>> \/ Head(new.todo) \notin DOMAIN c THEN c
  ELSE [c EXCEPT ![Head(new.todo)][l].fired = minute]

\* Without its handler it is dropped.
Drops(j) == j \in Spoken /\ ~handler

Dropping(new, drops) ==
  IF new.todo = <<>> THEN drops
  ELSE {j \in drops \cup {Head(new.todo)} : j = Head(new.todo) => Drops(j)}

\* The count of the minute for which l runs a job
Counted(l, new, counts) ==
  IF new.todo = <<>> THEN counts
  ELSE LET j == Head(new.todo)
       IN [counts EXCEPT ![j] = [m \in Minute |->
             IF m \in Occasion(l, j, new.now) /\ ~Drops(j) THEN @[m] + 1 ELSE @[m]]]

\* mutant: the rows are replaced under a catch-up loop, which ends there.
LoadedEnding(lp) ==
  [lp EXCEPT !["agents"].todo = IF @ = <<>> THEN @ ELSE <<Head(@)>>]

\* loadAgentJobs clears the map that catchUpMissedJobs iterates and fills it
\* anew: the iterator goes on with the first of the new entries.
Loaded(lp) ==
  [lp EXCEPT !["agents"].todo = IF @ = <<>> THEN @ ELSE <<Head(@)>> \o InOrder(Rows)]

\* A tick goes on with rest up to its next handler: the system jobs that are
\* left, then a snapshot of the rows, which are loaded anew.
TickOn(rest, now, systemLeft) ==
  \E early \in SUBSET EveryJob :
    \E systems \in {IF systemLeft THEN From(rest, TickDue(copies, now, early)) ELSE <<>>} :
      LET load == systemLeft /\ systems = <<>>
          c == IF load THEN NoCopies ELSE copies
          agents == From(IF load THEN InOrder(Rows) ELSE rest, TickDue(c, now, early))
      IN \E new \in {[todo |-> IF systems # <<>> THEN systems ELSE agents, now |-> now]} :
           /\ loop' = [IF load THEN Loaded(loop) ELSE loop EXCEPT !["tick"] = new]
           /\ lastFired' = Firing("tick", new, lastFired)
           /\ copies' = CopyFired("tick", new, c)
           /\ dropped' = Dropping(new, dropped)
           /\ fires' = Counted("tick", new, fires)

\* The timer fires; a tick that is still running makes it return (tickRunning).
tick ==
  /\ running /\ (ticked # minute \/ minute = LastMinute)
  /\ ticked' = minute
  /\ IF loop["tick"].todo # <<>> THEN UNCHANGED <<loop, lastFired, copies, dropped, fires>>
     ELSE TickOn(InOrder(SystemJob), minute, TRUE)
  /\ UNCHANGED <<minute, starts, running, present, enabled, handler, again, changes>>

\* The handler of the job at the head of a loop ends, well or badly, and the
\* loop goes on; an at job fired by a tick is disabled.
TickGoesOn ==
  LET todo == loop["tick"].todo  j == Head(todo)
  IN /\ todo # <<>>
     /\ enabled' = [enabled EXCEPT ![j] = @ /\ j \notin AtJob]
     /\ TickOn(Tail(todo), loop["tick"].now, j \in SystemJob)
     /\ UNCHANGED <<minute, ticked, starts, running, present, handler, again, changes>>

CatchUpGoesOn(l) ==
  LET todo == loop[l].todo
  IN /\ l # "tick" /\ todo # <<>>
     /\ \E new \in {[loop[l] EXCEPT !.todo = From(Tail(todo), Missed(loop[l].now))]} :
          /\ loop' = [loop EXCEPT ![l] = new]
          /\ lastFired' = Firing(l, new, lastFired)
          /\ copies' = CopyFired(l, new, copies)
          /\ dropped' = Dropping(new, dropped)
          /\ fires' = Counted(l, new, fires)
     /\ UNCHANGED <<minute, ticked, starts, running, present, enabled, handler, again, changes>>

----------------------------------------------------------------------------
(* Jobs by hand: the API and the cron tool *)

Change == running /\ changes < MaxChanges /\ changes' = changes + 1

\* A new entry goes to the end of the map, also for a catch-up loop.  Under a
\* name that exists the entry is replaced in its place by one that was never
\* fired, until rows are loaded; the row stays, and the entry a tick has.
addAgentJob(j) ==
  /\ Change
  /\ \/ /\ present[j] = "new"
        /\ present' = [present EXCEPT ![j] = "kept"]
        /\ loop' = [loop EXCEPT !["agents"].todo = IF @ = <<>> THEN @ ELSE Append(@, j)]
        /\ UNCHANGED <<copies, again>>
     \/ /\ present[j] = "kept"
        /\ \E on \in BOOLEAN :
             copies' = [i \in DOMAIN copies \cup {j} |->
               IF i # j THEN copies[i]
               ELSE [tick |-> Read(copies, "tick", j), agents |-> [fired |-> -1, on |-> on]]]
        /\ again' = [again EXCEPT ![j] = minute]
        /\ UNCHANGED <<present, loop>>
  /\ UNCHANGED <<minute, ticked, starts, running, enabled, lastFired, handler, dropped, fires>>

\* A tick that has the job in its snapshot fires it all the same.
removeAgentJob(j) ==
  /\ Change /\ j \in Rows
  /\ present' = [present EXCEPT ![j] = "removed"]
  /\ UNCHANGED <<minute, ticked, starts, running, enabled, lastFired, handler, copies,
                 again, dropped, loop, fires>>

toggleJob(j) ==
  /\ Change /\ present[j] = "kept"
  /\ enabled' = [enabled EXCEPT ![j] = ~@]
  /\ copies' = [i \in DOMAIN copies |->
       IF i = j THEN [copies[i] EXCEPT !.agents.on = ~enabled[j]] ELSE copies[i]]
  /\ UNCHANGED <<minute, ticked, starts, running, present, lastFired, handler, again,
                 dropped, loop, fires>>

triggerJob(j) ==
  /\ Change /\ present[j] = "kept"
  /\ \E now \in {[todo |-> <<j>>]} :
       /\ lastFired' = Firing("agents", now, lastFired)
       /\ copies' = CopyFired("agents", now, copies)
       /\ dropped' = Dropping(now, dropped)
  /\ UNCHANGED <<minute, ticked, starts, running, present, enabled, handler, again, loop,
                 fires>>

----------------------------------------------------------------------------
(* The process *)

\* Both catch-up loops run up to their first handler; the first tick is a
\* minute away.  System jobs forget that they were run or disabled.  The
\* handler of agent jobs is not registered yet.
start ==
  /\ ~running /\ starts < MaxStarts
  /\ running' = TRUE /\ starts' = starts + 1 /\ ticked' = minute
  /\ enabled' = [j \in Job |-> j \in SystemJob \/ enabled[j]]
  /\ \E forgot \in {[j \in Job |-> IF j \in SystemJob THEN -1 ELSE lastFired[j]]} :
     \E missed \in {{j \in SystemJob \cup CronJob :
                       /\ present[j] = "kept" /\ (j \in SystemJob \/ enabled[j])
                       /\ findLastCronMatch(j, minute) > forgot[j]}} :
     LET begun(S) == [todo |-> From(InOrder(S), missed), now |-> minute]
     IN \E agents \in {begun(Rows)}, system \in {begun(SystemJob)} :
          /\ loop' = [loop EXCEPT !["agents"] = agents, !["system"] = system]
          /\ lastFired' = Firing("system", system, Firing("agents", agents, forgot))
          /\ dropped' = Dropping(system, Dropping(agents, dropped))
          /\ fires' = Counted("system", system, Counted("agents", agents, fires))
  /\ UNCHANGED <<minute, present, handler, copies, again, changes>>

\* main has created the agent and goes on.
setEventHandler ==
  /\ running /\ ~handler
  /\ handler' = TRUE
  /\ UNCHANGED <<minute, ticked, starts, running, rowVars, copies, again, loop, fires, changes>>

\* A crash, or a stop that the process does not survive
crash ==
  /\ running /\ starts < MaxStarts
  /\ running' = FALSE
  /\ handler' = FALSE /\ copies' = NoCopies
  /\ loop' = [l \in Loop |-> Idle]
  /\ UNCHANGED <<minute, ticked, starts, rowVars, again, fires, changes>>

\* The bound on the clock keeps a behaviour short; no handler is outrun by
\* more than the whole of it.
PassMinute ==
  /\ minute < LastMinute
  /\ minute' = minute + 1
  /\ UNCHANGED <<ticked, starts, running, rowVars, handler, copies, again, loop, fires,
                 changes>>

CronLoop == TickGoesOn \/ CatchUpGoesOn("agents") \/ CatchUpGoesOn("system")

CronNext ==
  \/ tick \/ TickGoesOn \/ \E l \in Loop : CatchUpGoesOn(l)
  \/ \E j \in AgentJob : addAgentJob(j) \/ removeAgentJob(j)
  \/ \E j \in Job : toggleJob(j) \/ triggerJob(j)
  \/ start \/ setEventHandler \/ crash \/ PassMinute

CronSpec == CronInit /\ [][CronNext]_cronVars

\* The process is started again, its timer fires, time passes and the handler
\* of every job ends: scripts and conversations have timeouts.
CronFairness ==
  /\ WF_cronVars(start) /\ WF_cronVars(tick) /\ WF_cronVars(PassMinute)
  /\ WF_cronVars(TickGoesOn)
  /\ WF_cronVars(CatchUpGoesOn("agents")) /\ WF_cronVars(CatchUpGoesOn("system"))

----------------------------------------------------------------------------
(* Properties *)

\* A job is run once for a minute it is due in, and an at job once, whatever
\* crashes, catches up, is late or is triggered by hand in between, unless it is
\* added under its name in that minute or later, which forgets that it was fired;
\* for system jobs, whose lastRun is in memory, within one run of the process.
FiresOnce ==
  \A j \in Job, m \in Minute :
    IF j \in AgentJob THEN again[j] < m => fires[j][m] <= 1
    ELSE starts = 1 => fires[j][m] <= 1

\* lastExpectedFire of the start whose loop this is or was
Expected(j) == findLastCronMatch(j, loop["agents"].now)

Owed(j) ==
  /\ running /\ loop["agents"].todo # <<>> /\ j \in Rows /\ j \in Missed(loop["agents"].now)
  /\ lastFired[j] < Expected(j) /\ (j \in Spoken => handler)

\* What a catch-up loop has found missed it runs, although ticks replace the map
\* it iterates (catchUpMissedJobs, loadAgentJobs): scripts and workflows, and of
\* the other agent jobs those it comes to when the handler is registered.  Those
\* it comes to before, the first of a start at least, are marked and dropped.
MissedIsCaughtUp ==
  \A j \in CronJob :
    Owed(j) ~>
      \/ lastFired[j] >= Expected(j) /\ j \notin dropped
      \/ present[j] = "removed" \/ ~Read(copies, "agents", j).on \/ ~running
=============================================================================
