----------------------------- MODULE Processes -----------------------------
(***************************************************************************)
(* Processes of lobs-core and what starts and stops them: `lobs start`,     *)
(* `lobs stop` and `lobs restart` (cli/lobs.ts), launchd, and main.ts with  *)
(* its PID file.  Everything is shared by separate processes without a      *)
(* lock: the PID file, the port and the signals.                            *)
(***************************************************************************)
EXTENDS Integers, Sequences, FiniteSets

CONSTANTS
  Kind,            \* commands in use
  MaxProcesses,    \* bound: processes of lobs-core
  MaxCommands,     \* bound: commands of the CLI
  MaxProcCrashes,      \* bound: processes that crash or stop on a fatal error
  MaxReuses,       \* bound: pids of dead processes given to another program
  MaxSilences      \* bound: health requests that a server leaves unanswered

ASSUME ProcessesAssumption ==
  /\ Kind \subseteq {"start", "start --launchd", "stop", "restart"}
  /\ {MaxProcesses, MaxCommands, MaxProcCrashes, MaxReuses, MaxSilences} \subseteq Nat

VARIABLES
  place,         \* where each process is
  byLaunchd,  \* processes that launchd spawned
  watched,    \* the primary that a standby polls
  pidFile,    \* lobs.pid
  reused,     \* pids that now belong to another program
  loaded,     \* the launchd service is loaded
  commands,   \* the commands of the CLI in the order in which they began
  mishaps     \* crashes, reuses and silences that are still to be expected

procVars == <<place, byLaunchd, watched, pidFile, reused, loaded, commands, mishaps>>

\* pids in the order in which processes are spawned
Pid == 1 .. MaxProcesses
NoPid == 0

ProcTypeOK ==
  /\ place \in [Pid -> {"none", "spawned", "claiming", "starting", "bound", "ready",
                     "draining", "closing", "standby", "gone"}]
  /\ byLaunchd \subseteq Pid
  /\ watched \in [Pid -> Pid \cup {NoPid}]
  /\ pidFile \in Pid \cup {NoPid}
  /\ reused \subseteq {p \in Pid : place[p] = "gone"}
  /\ loaded \in BOOLEAN
  /\ Len(commands) <= MaxCommands
  /\ \A i \in DOMAIN commands : commands[i] \in
       [kind : Kind, pc : {"start", "probe", "launch", "loading", "watch", "stop", "wait",
                           "restart", "waitGone", "done"},
        pid : Pid \cup {NoPid}, alone : BOOLEAN]
  /\ mishaps \in [crash : Nat, reuse : Nat, silence : Nat]

ProcInit ==
  /\ place = [p \in Pid |-> "none"] /\ byLaunchd = {}
  /\ watched = [p \in Pid |-> NoPid]
  /\ pidFile = NoPid /\ reused = {} /\ loaded = FALSE
  /\ commands = <<>>
  /\ mishaps \in {[crash |-> c, reuse |-> r, silence |-> s] :
                     c \in 0 .. MaxProcCrashes, r \in 0 .. MaxReuses, s \in 0 .. MaxSilences}

----------------------------------------------------------------------------
(* What a process can see of the others *)

Lives(p) == place[p] \notin {"none", "gone"}

\* process.kill(pid, 0)
isPidAlive(p) == Lives(p) \/ p \in reused

Listens(p) == place[p] \in {"bound", "ready", "draining", "closing"}
Serving == \E p \in Pid : Listens(p)

getListeningPid == IF Serving THEN CHOOSE p \in Pid : Listens(p) ELSE NoPid

getRunningPid ==
  IF pidFile # NoPid /\ isPidAlive(pidFile) THEN pidFile ELSE NoPid

getKnownPid == IF getRunningPid # NoPid THEN getRunningPid ELSE getListeningPid

\* isServerReachable: a busy server may not answer within 2 s.
Answers(reachable) ==
  \/ reachable /\ Serving /\ UNCHANGED mishaps
  \/ ~reachable /\ ~Serving /\ UNCHANGED mishaps
  \/ /\ ~reachable /\ Serving /\ mishaps.silence > 0
     /\ mishaps' = [mishaps EXCEPT !.silence = @ - 1]

\* SIGTERM: main.ts installs its handlers when it is ready.
Terminated(p) ==
  CASE place[p] = "ready" -> "draining"
    [] place[p] \in {"spawned", "claiming", "starting", "bound", "standby"} -> "gone"
    [] OTHER -> place[p]

\* p is the pid of the next process.
Unborn(p) == place[p] = "none" /\ \A q \in 1 .. p - 1 : place[q] # "none"

----------------------------------------------------------------------------
(* main.ts *)

\* The PID file names a process that is alive: a process of launchd becomes a
\* standby, another one exits.
FindPrimary(p) ==
  /\ place[p] = "spawned" /\ getRunningPid # NoPid
  /\ place' = [place EXCEPT ![p] = IF p \in byLaunchd THEN "standby" ELSE "gone"]
  /\ watched' = [watched EXCEPT ![p] = IF p \in byLaunchd THEN pidFile ELSE NoPid]
  /\ UNCHANGED <<byLaunchd, pidFile, reused, loaded, commands, mishaps>>

FindNoPrimary(p) ==
  /\ place[p] = "spawned" /\ getRunningPid = NoPid
  /\ place' = [place EXCEPT ![p] = "claiming"]
  /\ watched' = [watched EXCEPT ![p] = pidFile]
  /\ UNCHANGED <<byLaunchd, pidFile, reused, loaded, commands, mishaps>>

\* A stale file is unlinked, which fails if it is gone by now (main().catch
\* exits), and the file is written, whatever it holds by now.
ClaimPidFile(p) ==
  /\ place[p] = "claiming"
  /\ watched' = [watched EXCEPT ![p] = NoPid]
  /\ IF watched[p] # NoPid /\ pidFile = NoPid
     THEN place' = [place EXCEPT ![p] = "gone"] /\ UNCHANGED pidFile
     ELSE place' = [place EXCEPT ![p] = "starting"] /\ pidFile' = p
  /\ UNCHANGED <<byLaunchd, reused, loaded, commands, mishaps>>

\* mutant: a standby waits for the PID file to go away, which a crash leaves.
StandbyForFile(p) ==
  /\ place[p] = "standby" /\ pidFile = NoPid
  /\ place' = [place EXCEPT ![p] = "gone"]
  /\ watched' = [watched EXCEPT ![p] = NoPid]
  /\ UNCHANGED <<byLaunchd, pidFile, reused, loaded, commands, mishaps>>

\* A standby polls its primary and exits after it.
Standby(p) ==
  /\ place[p] = "standby" /\ ~isPidAlive(watched[p])
  /\ place' = [place EXCEPT ![p] = "gone"]
  /\ watched' = [watched EXCEPT ![p] = NoPid]
  /\ UNCHANGED <<byLaunchd, pidFile, reused, loaded, commands, mishaps>>

\* The control loop is started and the port asked for; a port in use is a
\* fatal error, which removes the PID file, whoever wrote it.
Listen(p) ==
  /\ place[p] = "starting"
  /\ IF Serving THEN place' = [place EXCEPT ![p] = "gone"] /\ pidFile' = NoPid
     ELSE place' = [place EXCEPT ![p] = "bound"] /\ UNCHANGED pidFile
  /\ UNCHANGED <<byLaunchd, watched, reused, loaded, commands, mishaps>>

\* Discord is connected and the signal handlers are installed.
BecomeReady(p) ==
  /\ place[p] = "bound"
  /\ place' = [place EXCEPT ![p] = "ready"]
  /\ UNCHANGED <<byLaunchd, watched, pidFile, reused, loaded, commands, mishaps>>

\* shutdown: workers have 20 s for their checkpoints, then the PID file is
\* removed, whoever wrote it, and the services are stopped.
Drained(p) ==
  /\ place[p] = "draining"
  /\ place' = [place EXCEPT ![p] = "closing"] /\ pidFile' = NoPid
  /\ UNCHANGED <<byLaunchd, watched, reused, loaded, commands, mishaps>>

Closed(p) ==
  /\ place[p] = "closing"
  /\ place' = [place EXCEPT ![p] = "gone"]
  /\ UNCHANGED <<byLaunchd, watched, pidFile, reused, loaded, commands, mishaps>>

\* A fatal exception removes the PID file; a crash, a start that fails and
\* SIGKILL leave it.
ProcCrash(p) ==
  /\ Lives(p) /\ mishaps.crash > 0
  /\ mishaps' = [mishaps EXCEPT !.crash = @ - 1]
  /\ place' = [place EXCEPT ![p] = "gone"]
  /\ watched' = [watched EXCEPT ![p] = NoPid]
  /\ pidFile' \in {pidFile, NoPid}
  /\ UNCHANGED <<byLaunchd, reused, loaded, commands>>

----------------------------------------------------------------------------
(* The system *)

\* launchd keeps one process of a loaded service alive.
KeepAlive(p) ==
  /\ loaded /\ Unborn(p) /\ \A q \in byLaunchd : ~Lives(q)
  /\ place' = [place EXCEPT ![p] = "spawned"]
  /\ byLaunchd' = byLaunchd \cup {p}
  /\ UNCHANGED <<watched, pidFile, reused, loaded, commands, mishaps>>

\* The pid that a crashed process left in the file goes to another program.
Reuse ==
  /\ mishaps.reuse > 0
  /\ pidFile # NoPid /\ place[pidFile] = "gone" /\ pidFile \notin reused
  /\ mishaps' = [mishaps EXCEPT !.reuse = @ - 1]
  /\ reused' = reused \cup {pidFile}
  /\ UNCHANGED <<place, byLaunchd, watched, pidFile, loaded, commands>>

----------------------------------------------------------------------------
(* cli/lobs.ts *)

Goes(i, pc) == commands' = [commands EXCEPT ![i].pc = pc]

\* cmdStop ends; in cmdRestart there is more to come.
Stopped(i) ==
  IF commands[i].kind = "restart" THEN Goes(i, "waitGone") ELSE Goes(i, "done")

\* launchctl unload also terminates the process of the service.
Unloaded == [p \in Pid |-> IF loaded /\ p \in byLaunchd THEN Terminated(p) ELSE place[p]]

Begin(kind) ==
  /\ Len(commands) < MaxCommands
  /\ commands' = Append(commands,
       [kind |-> kind, pid |-> NoPid,
        pc |-> IF kind \in {"stop", "restart"} THEN kind ELSE "start",
        alone |-> \A i \in DOMAIN commands : commands[i].pc = "done"])
  /\ UNCHANGED <<place, byLaunchd, watched, pidFile, reused, loaded, mishaps>>

\* mutant: a PID file that names a live process is believed.
TrustPidFile(i) ==
  /\ commands[i].pc = "probe"
  /\ Goes(i, "done")
  /\ UNCHANGED <<place, byLaunchd, watched, pidFile, reused, loaded, mishaps>>

\* A server that does not answer makes the PID file "stale"; a port in use
\* ends the command.
ProbeServer(i) ==
  /\ commands[i].pc = "probe"
  /\ \E reachable \in BOOLEAN :
       /\ Answers(reachable)
       /\ IF reachable THEN Goes(i, "done") /\ UNCHANGED pidFile
          ELSE /\ pidFile' = NoPid
               /\ Goes(i, IF Serving THEN "done" ELSE "launch")
  /\ UNCHANGED <<place, byLaunchd, watched, reused, loaded>>

LookForServer(i) ==
  /\ commands[i].pc = "start"
  /\ Goes(i, IF getRunningPid # NoPid THEN "probe" ELSE IF Serving THEN "done" ELSE "launch")
  /\ UNCHANGED <<place, byLaunchd, watched, pidFile, reused, loaded, mishaps>>

\* spawn of dist/main.js
SpawnMain(i, p, before) ==
  /\ Unborn(p)
  /\ place' = [before EXCEPT ![p] = "spawned"]
  /\ commands' = [commands EXCEPT ![i].pc = "watch", ![i].pid = p]
  /\ UNCHANGED <<byLaunchd, watched, pidFile, reused, mishaps>>

\* Without --launchd the service is unloaded before the spawn.
Launch(i, p) ==
  /\ commands[i].pc = "launch"
  /\ commands[i].kind # "start --launchd" /\ loaded' = FALSE
  /\ SpawnMain(i, p, Unloaded)

LoadService(i) ==
  /\ commands[i].pc = "launch" /\ commands[i].kind = "start --launchd"
  /\ loaded' = TRUE /\ Goes(i, "loading")
  /\ UNCHANGED <<place, byLaunchd, watched, pidFile, reused, mishaps>>

\* The service had 5 s to answer: it did, or main.js is spawned all the same.
ServiceAnswers(i) ==
  /\ commands[i].pc = "loading" /\ Serving
  /\ Goes(i, "done")
  /\ UNCHANGED <<place, byLaunchd, watched, pidFile, reused, loaded, mishaps>>

ServiceSilent(i, p) ==
  /\ commands[i].pc = "loading" /\ ~Serving
  /\ SpawnMain(i, p, place) /\ UNCHANGED loaded

\* After the spawn: a server answers, the child exits, or 5 s are over, which
\* it does not take to write the PID file.
WatchChild(i) ==
  /\ commands[i].pc = "watch"
  /\ Serving \/ place[commands[i].pid] \notin {"spawned", "claiming"}
  /\ Goes(i, "done")
  /\ UNCHANGED <<place, byLaunchd, watched, pidFile, reused, loaded, mishaps>>

\* cmdStop: SIGTERM to the known pid, be it of another program.
StopKnown(i) ==
  LET pid == getKnownPid
  IN /\ commands[i].pc = "stop"
     /\ loaded' = FALSE
     /\ IF pid = NoPid
        THEN Stopped(i) /\ pidFile' = NoPid /\ place' = Unloaded /\ UNCHANGED <<reused, watched>>
        ELSE /\ commands' = [commands EXCEPT ![i].pc = "wait", ![i].pid = pid]
             /\ place' = [Unloaded EXCEPT ![pid] = IF @ = place[pid] THEN Terminated(pid) ELSE @]
             /\ reused' = reused \ {pid}
             /\ UNCHANGED <<pidFile, watched>>
     /\ UNCHANGED <<byLaunchd, mishaps>>

\* 10 s for a graceful shutdown, then SIGKILL; the PID file is removed,
\* whoever wrote it.
StopEnds(i) ==
  LET pid == commands[i].pid
  IN /\ commands[i].pc = "wait"
     /\ place' = [place EXCEPT ![pid] = "gone"] /\ pidFile' = NoPid
     /\ Stopped(i)
     /\ UNCHANGED <<byLaunchd, watched, reused, loaded, mishaps>>

\* cmdRestart
Restart(i) ==
  /\ commands[i].pc = "restart"
  /\ Goes(i, IF getKnownPid = NoPid THEN "start" ELSE "stop")
  /\ UNCHANGED <<place, byLaunchd, watched, pidFile, reused, loaded, mishaps>>

\* No pid is known any more, or 7 s are over.
StartAgain(i) ==
  /\ commands[i].pc = "waitGone"
  /\ Goes(i, "start")
  /\ UNCHANGED <<place, byLaunchd, watched, pidFile, reused, loaded, mishaps>>

ProcessStep(p) ==
  \/ FindPrimary(p) \/ FindNoPrimary(p) \/ ClaimPidFile(p) \/ Standby(p)
  \/ Listen(p) \/ BecomeReady(p) \/ Drained(p) \/ Closed(p)

CommandStep(i) ==
  \/ LookForServer(i) \/ ProbeServer(i) \/ LoadService(i) \/ ServiceAnswers(i)
  \/ WatchChild(i) \/ StopKnown(i) \/ StopEnds(i) \/ Restart(i) \/ StartAgain(i)
  \/ \E p \in Pid : Launch(i, p) \/ ServiceSilent(i, p)

ProcNext ==
  \/ \E p \in Pid : ProcessStep(p) \/ ProcCrash(p) \/ KeepAlive(p)
  \/ \E i \in DOMAIN commands : CommandStep(i)
  \/ \E kind \in Kind : Begin(kind)
  \/ Reuse

ProcSpec == ProcInit /\ [][ProcNext]_procVars

\* Every process runs, every wait of the CLI is bounded and launchd respawns.
ProcFairness ==
  /\ \A p \in Pid : WF_procVars(ProcessStep(p)) /\ WF_procVars(KeepAlive(p))
  /\ \A i \in 1 .. MaxCommands : WF_procVars(i \in DOMAIN commands /\ CommandStep(i))

----------------------------------------------------------------------------
(* Properties *)

NoMoreMishaps == mishaps.crash = 0 /\ mishaps.reuse = 0
Begins(i) ==
  /\ i = Len(commands) /\ commands[i].kind # "stop" /\ commands[i].alone
  /\ commands[i].pc \in {"start", "restart"} /\ NoMoreMishaps

Superseded(i) == Len(commands) > i
\* Every pid of the instance was spawned and is gone.
NoPidLeft == \A p \in Pid : place[p] = "gone"

\* A start or a restart that overlaps no other command ends with a server,
\* whatever a crash, a slow start or a reused pid has left behind (cmdStart).
StartServes ==
  \A i \in 1 .. MaxCommands : Begins(i) ~> Serving \/ Superseded(i) \/ NoPidLeft

ServiceDown == loaded /\ ~Serving /\ NoMoreMishaps

\* While its service is loaded the server comes back, also behind a primary
\* that was started by hand ("exit 0 when it dies so launchd's next respawn can
\* claim the lock cleanly", main.ts), unless the PID file names a stranger.
ServiceComesBack == ServiceDown ~> Serving \/ ~loaded \/ reused # {} \/ NoPidLeft
=============================================================================
