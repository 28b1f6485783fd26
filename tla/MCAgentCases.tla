---------------------------- MODULE MCAgentCases ----------------------------
(* Either the process restarts while two channels compete, of which the first *)
(* has superseded runs, or that one is paused and resumed by its vim session  *)
(* while the other has no message.                                            *)
EXTENDS MCMainAgent

VARIABLE case

CasesInit == Init /\ case \in {"restart", "pause"}
CasesNext ==
  /\ Next
  /\ case = "restart" => \A c \in Channel : ~PauseChannel(c) /\ ~ResumeChannel(c)
  /\ case = "restart" => Stale(c2)' = 0
  /\ case = "pause" => restarts' = restarts /\ ~Arrived(v1)'
  /\ UNCHANGED case
CasesSpec ==
  /\ CasesInit /\ [][CasesNext]_<<vars, case>>
  /\ WF_vars(RecoverQueued)
  /\ \A c \in Channel :
       WF_vars(ReadHistory(c)) /\ WF_vars(Finish(c)) /\ WF_vars(StaleEnds(c))
=============================================================================
