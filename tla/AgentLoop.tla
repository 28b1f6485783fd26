----------------------------- MODULE AgentLoop -----------------------------
(***************************************************************************)
(* The loop of a worker (runner/agent-loop.ts) over the runs of one task:   *)
(* call the model, execute its tools, until it ends its turn; its           *)
(* compaction (services/compaction.ts), its transcript on disk              *)
(* (runner/session-transcript.ts) and the resumption of an unfinished       *)
(* session by the next run (processSpawnWithRunner).                        *)
(*                                                                         *)
(* A message is what the API's pairing rule sees of it: "user" and "say"    *)
(* are texts of the user and of the assistant, "use" is an assistant        *)
(* message with tool calls, "result" the user message with their results,   *)
(* "cut" with the results a resumption makes up.                            *)
(***************************************************************************)
EXTENDS Integers, Sequences, SequencesExt

CONSTANTS
  MaxTurns,       \* 200
  MinTurns,       \* 50, what a resumed run has at least
  MaxResumed,     \* 120, the longest session that is resumed, in turns
  Continuations,  \* 2 continuations after max_tokens
  CriticalLoop,   \* 15 identical calls
  MaxRuns,        \* bound: runs of the task
  MaxCompactions  \* bound: compactions in all runs

ASSUME LoopAssumption ==
  /\ {MaxTurns, MinTurns, CriticalLoop} \subseteq Nat \ {0} /\ MinTurns <= MaxTurns
  /\ {MaxResumed, Continuations, MaxRuns, MaxCompactions} \subseteq Nat

VARIABLES
  conv,         \* messages
  turns,
  maxTurns,
  continuation, \* queryState.continuationCount
  resumed,      \* isResume
  streak,       \* how many of the last calls were the same (LoopDetector)
  where,        \* where the loop is: "out", "top", "llm" or "tools"
  aborted,      \* abortSignal of the run
  late,         \* the timeout of the run has passed
  result,       \* stopReason of the last run, "crash", or "none"
  lastTurn,     \* the file's last turn record
  lastSummary,  \* the file's last summary: "none", "succeeded" or "failed"
  runs, compactions

loopVars == <<conv, turns, maxTurns, continuation, resumed, streak, where, aborted, late, result,
              lastTurn, lastSummary, runs, compactions>>

Message == {"user", "say", "use", "result", "cut"}
Assistant == {"say", "use"}
StopReason == {"end_turn", "max_turns", "timeout", "interrupted", "error"}
NoTurn == [messages |-> <<>>, response |-> "say", stop |-> "none"]

\* What a response may be: its message and its stopReason.  A response cut at
\* the token limit may contain tool calls; "tool_use" without a call ends the
\* turn, and a stopReason the loop does not know ends it as end_turn, too.
Response ==
  {<<"say", "end_turn">>, <<"say", "max_tokens">>, <<"use", "max_tokens">>, <<"use", "tool_use">>}

LoopTypeOK ==
  /\ conv \in Seq(Message)
  /\ turns \in 0 .. MaxTurns /\ maxTurns \in 1 .. MaxTurns + MinTurns
  /\ continuation \in 0 .. Continuations + 1
  /\ {resumed, aborted, late} \subseteq BOOLEAN
  /\ streak \in 0 .. CriticalLoop
  /\ where \in {"out", "top", "llm", "tools"}
  /\ result \in StopReason \cup {"crash", "none"}
  /\ lastTurn \in [messages : Seq(Message), response : Assistant,
                   stop : {"none", "end_turn", "max_tokens", "tool_use"}]
  /\ lastSummary \in {"none", "succeeded", "failed"}
  /\ runs \in 0 .. MaxRuns /\ compactions \in 0 .. MaxCompactions

LoopInit ==
  /\ conv = <<>> /\ turns = 0 /\ maxTurns = MaxTurns /\ continuation = 0
  /\ resumed = FALSE /\ streak = 0 /\ where = "out" /\ aborted = FALSE /\ late = FALSE
  /\ result = "none"
  /\ lastTurn = NoTurn /\ lastSummary = "none" /\ runs = 0 /\ compactions = 0

----------------------------------------------------------------------------
(* The start of a run *)

\* mutant: what was sent last only.
ResumableUnanswered == lastTurn.messages

\* What was sent last, the answer, and made-up results for its calls
\* (loadResumableMessages)
Resumable ==
  lastTurn.messages \o <<lastTurn.response>>
    \o (IF lastTurn.stop = "tool_use" THEN <<"cut">> ELSE <<>>)

\* A finished, an empty or a very long session is not resumed.
MayResume ==
  /\ lastTurn # NoTurn /\ lastSummary # "succeeded"
  /\ Len(Resumable) > 2 /\ Len(Resumable) \div 2 <= MaxResumed

\* A task is also run again after a success, when it is reopened.
StartRun ==
  /\ where = "out" /\ runs < MaxRuns
  /\ runs' = runs + 1
  /\ resumed' = MayResume
  /\ conv' = IF MayResume THEN Resumable ELSE <<"user">>
  /\ maxTurns' = IF ~MayResume THEN MaxTurns
                 ELSE LET left == MaxTurns - Len(Resumable) \div 2
                      IN IF left > MinTurns THEN left ELSE MinTurns
  /\ turns' = 0 /\ continuation' = 0 /\ streak' = 0 /\ aborted' = FALSE /\ late' = FALSE
  /\ where' = "top"
  /\ UNCHANGED <<result, lastTurn, lastSummary, compactions>>

----------------------------------------------------------------------------
(* A turn *)

\* What the loop reports: a run that has used all its turns has stopped for
\* that, whatever it had stopped for.
Ending(reason, n) == IF n >= maxTurns THEN "max_turns" ELSE reason

\* The loop is left: summary and result.  An exception skips the test of the
\* limit.
Stop(reason) ==
  /\ where' = "out" /\ result' = reason
  /\ lastSummary' = IF reason = "end_turn" THEN "succeeded" ELSE "failed"

UsedUp(n) == n >= maxTurns

\* The checks at the top
LeaveLoop ==
  /\ where = "top"
  /\ \/ UsedUp(turns) /\ Stop("max_turns")
     \/ turns < maxTurns /\ late /\ Stop("timeout")
     \/ turns < maxTurns /\ ~late /\ aborted /\ Stop("interrupted")
  /\ UNCHANGED <<conv, turns, maxTurns, continuation, resumed, streak, aborted, late, lastTurn,
                 runs, compactions>>

\* mutant: the split is not moved back.
SplitAnywhere(s) == LET target == (Len(s) * 3) \div 5 IN IF target < 2 THEN 2 ELSE target

\* Where compactMessages splits: results are not parted from their calls, but
\* at least two messages are summarised.  Messages of results are no
\* neighbours, so that one step back is enough.
findSafeSplitPoint(s) ==
  LET target == (Len(s) * 3) \div 5
      split == IF target > 0 /\ s[target + 1] \in {"result", "cut"} THEN target - 1 ELSE target
  IN IF split < 2 THEN 2 ELSE split

\* compactMessages with a summary or, if the summariser fails, without
Compacted(s, summarised) ==
  LET split == findSafeSplitPoint(s)
      kept == SubSeq(s, split + 1, Len(s))
  IN IF ~summarised THEN kept
     ELSE (IF kept # <<>> /\ Head(kept) \in Assistant THEN <<"user">> ELSE <<"user", "say">>)
          \o kept

Flushed(s) == IF turns > 0 \/ resumed THEN Append(s, "user") ELSE s

\* The context may have grown too large; reminders (of the resumption, of the
\* last turn, of a loop) are only now put after the results.
BeginTurn ==
  /\ where = "top" /\ turns < maxTurns /\ ~late /\ ~aborted
  /\ turns' = turns + 1
  /\ \/ conv' = Flushed(conv) /\ UNCHANGED compactions
     \/ /\ compactions < MaxCompactions
        /\ compactions' = compactions + 1
        /\ \E summarised \in BOOLEAN : conv' = Flushed(Compacted(conv, summarised))
  /\ where' = "llm"
  /\ UNCHANGED <<maxTurns, continuation, resumed, streak, aborted, late, result, lastTurn,
                 lastSummary, runs>>

\* The history with a response the model is asked to continue: calls that were
\* cut get results.
Continued(response) ==
  conv \o <<response>> \o (IF response = "use" THEN <<"result">> ELSE <<>>)

\* The model answers: the turn is written to the file, then
LlmAnswers ==
  /\ where = "llm"
  /\ \E r \in Response :
       /\ lastTurn' = [messages |-> conv, response |-> r[1], stop |-> r[2]]
       /\ \/ /\ r[2] = "end_turn"
             /\ conv' = Append(conv, r[1])
             /\ Stop(Ending("end_turn", turns))
             /\ UNCHANGED continuation
          \/ /\ r[2] = "max_tokens" /\ continuation < Continuations
             /\ continuation' = continuation + 1
             /\ conv' = Continued(r[1])
             /\ where' = "top"
             /\ UNCHANGED <<result, lastSummary>>
          \/ /\ r[2] = "max_tokens" /\ continuation >= Continuations
             /\ continuation' = continuation + 1
             /\ conv' = Append(conv, r[1])
             /\ Stop(Ending("end_turn", turns))
          \/ /\ r[2] = "tool_use"
             /\ conv' = Append(conv, r[1])
             /\ where' = "tools"
             /\ UNCHANGED <<continuation, result, lastSummary>>
  /\ UNCHANGED <<turns, maxTurns, resumed, streak, aborted, late, runs, compactions>>

\* The call fails, in the end, or times out.
LlmFails ==
  /\ where = "llm"
  /\ Stop(IF late THEN Ending("timeout", turns) ELSE "error")
  /\ UNCHANGED <<conv, turns, maxTurns, continuation, resumed, streak, aborted, late, lastTurn, runs,
                 compactions>>

\* The tools have answered, failed or timed out.  The same call once too often
\* ends the run at once, without a summary.
ToolsAnswer ==
  /\ where = "tools"
  /\ \E same \in BOOLEAN :
       /\ streak' = IF same THEN streak + 1 ELSE 1
       /\ IF streak' >= CriticalLoop
          THEN /\ where' = "out" /\ result' = "error"
               /\ UNCHANGED <<conv, continuation, lastSummary>>
          ELSE /\ conv' = Append(conv, "result")
               /\ continuation' = 0
               /\ IF aborted THEN Stop(Ending("interrupted", turns))
                  ELSE where' = "top" /\ UNCHANGED <<result, lastSummary>>
  /\ UNCHANGED <<turns, maxTurns, resumed, aborted, late, lastTurn, runs, compactions>>

----------------------------------------------------------------------------
(* The process *)

\* flushWorkerCheckpoints
Abort ==
  /\ where # "out" /\ ~aborted
  /\ aborted' = TRUE
  /\ UNCHANGED <<conv, turns, maxTurns, continuation, resumed, streak, where, late, result, lastTurn,
                 lastSummary, runs, compactions>>

\* timeoutMs passes; the loop looks at the clock at the top only.
RunLate ==
  /\ where # "out" /\ ~late
  /\ late' = TRUE
  /\ UNCHANGED <<conv, turns, maxTurns, continuation, resumed, streak, where, aborted, result,
                 lastTurn, lastSummary, runs, compactions>>

\* The process dies with the run; the file stays.
LoopCrash ==
  /\ where # "out"
  /\ where' = "out" /\ result' = "crash"
  /\ UNCHANGED <<conv, turns, maxTurns, continuation, resumed, streak, aborted, late, lastTurn,
                 lastSummary, runs, compactions>>

LoopStep == LeaveLoop \/ BeginTurn \/ LlmAnswers \/ LlmFails \/ ToolsAnswer

LoopNext == StartRun \/ LoopStep \/ Abort \/ RunLate \/ LoopCrash

LoopSpec == LoopInit /\ [][LoopNext]_loopVars

\* The client and the tools have timeouts.
LoopFairness == WF_loopVars(LoopStep)

----------------------------------------------------------------------------
(* Properties *)

\* Each message with calls is followed by one with results, and only there are
\* results.
Paired(s) ==
  \A i \in DOMAIN s :
    /\ s[i] = "use" => i < Len(s) /\ s[i + 1] \in {"result", "cut"}
    /\ s[i] \in {"result", "cut"} => i > 1 /\ s[i - 1] = "use"

\* The messages, with the results that are under way; between two runs those
\* of the file
WellPaired ==
  CASE where = "out" -> Paired(lastTurn.messages) /\ lastTurn.stop # "max_tokens"
    [] where = "tools" -> Paired(Append(conv, "result"))
    [] OTHER -> Paired(conv)

\* What the model is sent obeys the API's pairing rule, over tool rounds,
\* truncated responses, compactions, crashes and resumptions.  It is lost in
\* two places only: where fewer than five messages are compacted, and where a
\* session is resumed that died after a truncated response.
PairingKept ==
  [][/\ WellPaired /\ where' # "out"
     /\ compactions' # compactions => Len(conv) > 4
     => WellPaired']_loopVars

\* A worker that was checkpointed goes on with the conversation it had: only
\* the results of its last round are made up (writeSummary,
\* loadResumableMessages).
CheckpointKept ==
  [][/\ where = "out" /\ where' = "top" /\ result = "interrupted"
     /\ turns > 0 /\ lastTurn.stop # "max_tokens"
     /\ Len(conv) > 2 /\ Len(conv) \div 2 <= MaxResumed
     => /\ resumed' /\ Len(conv') = Len(conv)
        /\ \A i \in 1 .. Len(conv) - 1 : conv'[i] = conv[i]]_loopVars

=============================================================================
