----------------------------- MODULE MCServices -----------------------------
(* The modules that share no state with each other, one in each case.        *)
EXTENDS Cron, AgentLoop, IntelPipeline, Processes, LiveMeeting, Voice, Memory

CONSTANTS a1, a2, b1, e1, y1, c1, c2, c3

MCOrder == <<y1, a1, a2, b1, e1>>
MCMatches ==
  [j \in SystemJob \cup CronJob |-> CASE j = a1 -> {1} [] j = a2 -> {0, 2} [] j = y1 -> {1}]
MCAt == [j \in AtJob |-> 1]
MCEvery == [j \in EveryJob |-> 1]

MCIndexed ==
  <<[type |-> "document", auth |-> 1, scope |-> "system", conf |-> 2,
     status |-> "active", by |-> 0]>>
MCExtractable ==
  {[auth |-> 0, scope |-> "system", conf |-> 1], [auth |-> 0, scope |-> "project", conf |-> 2]}
\* Two sessions of one cluster and one candidate, one session of two clusters,
\* or one of a cluster with two candidates
MCUnreflected ==
  {(c1 :> 1) @@ (c2 :> 1) @@ (c3 :> 0), (c1 :> 2) @@ (c2 :> 0) @@ (c3 :> 0),
   (c1 :> 0) @@ (c2 :> 0) @@ (c3 :> 1)}
MCCandidates == (c1 :> 1) @@ (c2 :> 1) @@ (c3 :> 2)

VARIABLE case

ServicesInit ==
  /\ CronInit /\ LoopInit /\ IntelInit /\ ProcInit /\ MeetingInit /\ VoiceInit
  /\ MemoryInit
  /\ case \in {"cron", "worker", "intel", "cli", "launchd", "meeting", "voice", "memory",
              "memory by hand"}
  /\ case \notin {"cli", "launchd"} => mishaps = [crash |-> 0, reuse |-> 0, silence |-> 0]
  /\ case = "launchd" => mishaps.silence = 0 /\ mishaps.reuse = 0
  /\ case \notin {"memory", "memory by hand"} => clusters[c3] = 1

\* In the case launchd the service is installed first.
Restricted ==
  /\ case = "cli" => \A i \in DOMAIN commands' : commands'[i].kind # "start --launchd"
  /\ case = "launchd" => \A i \in DOMAIN commands' :
                           commands'[i].kind = IF i = 1 THEN "start --launchd" ELSE "restart"

\* Memories are consolidated, or they decay and conflicts are settled by hand.
Tended == IF case = "memory" THEN byHand' = 0 ELSE merging' = merging

ServicesNext ==
  /\ \/ case = "cron" /\ CronNext
        /\ UNCHANGED <<loopVars, intelVars, procVars, meetingVars, voiceVars, memoryVars>>
     \/ case = "worker" /\ LoopNext
        /\ UNCHANGED <<cronVars, intelVars, procVars, meetingVars, voiceVars, memoryVars>>
     \/ case = "intel" /\ IntelNext
        /\ UNCHANGED <<cronVars, loopVars, procVars, meetingVars, voiceVars, memoryVars>>
     \/ case \in {"cli", "launchd"} /\ ProcNext /\ Restricted
        /\ UNCHANGED <<cronVars, loopVars, intelVars, meetingVars, voiceVars, memoryVars>>
     \/ case = "meeting" /\ MeetingNext
        /\ UNCHANGED <<cronVars, loopVars, intelVars, procVars, voiceVars, memoryVars>>
     \/ case = "voice" /\ VoiceNext
        /\ UNCHANGED <<cronVars, loopVars, intelVars, procVars, meetingVars, memoryVars>>
     \/ case \in {"memory", "memory by hand"} /\ MemoryNext /\ Tended
        /\ UNCHANGED <<cronVars, loopVars, intelVars, procVars, meetingVars, voiceVars>>
  /\ UNCHANGED case

ServicesVars == <<case, cronVars, loopVars, intelVars, procVars, meetingVars, voiceVars, memoryVars>>

\* The fairness that the modules' properties need, each in its case
ServicesSpec ==
  /\ ServicesInit /\ [][ServicesNext]_ServicesVars
  /\ WF_cronVars(case = "cron" /\ CatchUpGoesOn("agents"))
  /\ WF_loopVars(case = "worker" /\ LoopStep)
  /\ WF_procVars(case = "launchd" /\ \E p \in Pid : KeepAlive(p))
  /\ \A p \in Pid : WF_procVars(case \in {"cli", "launchd"} /\ ProcessStep(p))
  /\ \A i \in 1 .. MaxCommands :
       WF_procVars(case \in {"cli", "launchd"} /\ i \in DOMAIN commands /\ CommandStep(i))

\* The values that the counters, clocks and places of all modules take
ServicesTypeOK ==
  /\ CronTypeOK /\ LoopTypeOK /\ IntelTypeOK /\ ProcTypeOK
  /\ MeetingTypeOK /\ VoiceTypeOK /\ MemoryTypeOK
=============================================================================
