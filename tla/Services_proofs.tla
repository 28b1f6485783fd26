--------------------------- MODULE Services_proofs ---------------------------
(* Proofs about the modules that MCServices puts side by side: the agent loop,  *)
(* the intelligence pipeline, the processes, the live meeting and the voice     *)
(* sessions, and that all of them keep their types.  Those of the scheduler and *)
(* of the memory are long and have modules of their own.                        *)
EXTENDS MCServices, Cron_proofs, Memory_proofs

----------------------------------------------------------------------------
(* The agent loop *)

Results == {"result", "cut"}

----------------------------------------------------------------------------
(* The pairing rule *)

\* What is put together of paired pieces is paired.
LEMMA PairedConcat ==
  ASSUME NEW S, NEW s \in Seq(S), NEW t \in Seq(S), Paired(s), Paired(t)
  PROVE  Paired(s \o t)
<1> DEFINE u == s \o t
           m == Len(s)
           n == Len(t)
<1>1. /\ m \in Nat /\ n \in Nat /\ Len(u) = m + n /\ DOMAIN u = 1 .. m + n
      /\ DOMAIN s = 1 .. m /\ DOMAIN t = 1 .. n
      /\ \A i \in 1 .. m : u[i] = s[i]
      /\ \A i \in m + 1 .. m + n : u[i] = t[i - m]
  OBVIOUS
<1>2. ASSUME NEW i \in DOMAIN u
      PROVE  /\ u[i] = "use" => i < Len(u) /\ u[i + 1] \in {"result", "cut"}
             /\ u[i] \in {"result", "cut"} => i > 1 /\ u[i - 1] = "use"
  <2> HIDE DEF u, m, n
  <2>1. CASE i \in 1 .. m
    <3>1. /\ s[i] = "use" => i < m /\ s[i + 1] \in {"result", "cut"}
          /\ s[i] \in {"result", "cut"} => i > 1 /\ s[i - 1] = "use"
      BY <1>1, <2>1 DEF Paired, m
    <3>2. /\ i < m => i + 1 \in 1 .. m /\ i < m + n
          /\ i > 1 => i - 1 \in 1 .. m
      BY <1>1, <2>1
    <3>3. QED
      BY <1>1, <2>1, <3>1, <3>2
  <2>2. CASE i \in m + 1 .. m + n
    <3> DEFINE k == i - m
    <3>1. k \in 1 .. n /\ u[i] = t[k]
      BY <1>1, <2>2
    <3>2. /\ t[k] = "use" => k < n /\ t[k + 1] \in {"result", "cut"}
          /\ t[k] \in {"result", "cut"} => k > 1 /\ t[k - 1] = "use"
      BY <1>1, <3>1 DEF Paired, n
    <3>3. /\ k < n => i + 1 \in m + 1 .. m + n /\ i < m + n /\ (i + 1) - m = k + 1
          /\ k > 1 => i - 1 \in m + 1 .. m + n /\ i > 1 /\ (i - 1) - m = k - 1
      <4>1. m \in Nat /\ n \in Nat /\ i \in Int /\ i >= m + 1 /\ i <= m + n
        BY <1>1, <2>2
      <4>2. QED
        BY <4>1
    <3>4. /\ k < n => u[i + 1] = t[k + 1]
          /\ k > 1 => u[i - 1] = t[k - 1]
      BY <1>1, <3>3
    <3> HIDE DEF k
    <3>5. QED
      BY <1>1, <3>1, <3>2, <3>3, <3>4
  <2>3. QED
    BY <1>1, <2>1, <2>2
<1>3. QED
  BY <1>2 DEF Paired

LEMMA PairedPieces ==
  /\ Paired(<<>>) /\ Paired(<<"user">>) /\ Paired(<<"say">>) /\ Paired(<<"user", "say">>)
  /\ Paired(<<"use", "result">>) /\ Paired(<<"use", "cut">>)
<1>1. Paired(<<>>) /\ Paired(<<"user">>) /\ Paired(<<"say">>) /\ Paired(<<"user", "say">>)
  BY DEF Paired
<1>2. ASSUME NEW r \in {"result", "cut"} PROVE Paired(<<"use", r>>)
  <2> DEFINE s == <<"use", r>>
  <2>1. DOMAIN s = {1, 2} /\ Len(s) = 2 /\ s[1] = "use" /\ s[2] = r /\ 1 + 1 = 2 /\ 2 - 1 = 1
    OBVIOUS
  <2> HIDE DEF s
  <2>2. Paired(s)
    BY <2>1 DEF Paired
  <2>3. QED
    BY <2>2 DEF s
<1>3. QED
  BY <1>1, <1>2

\* A suffix that does not begin with a result is paired.
LEMMA PairedSuffix ==
  ASSUME NEW S, NEW s \in Seq(S), Paired(s), NEW k \in 1 .. Len(s), s[k] \notin Results
  PROVE  Paired(SubSeq(s, k, Len(s)))
<1> DEFINE t == SubSeq(s, k, Len(s))
           n == Len(s)
<1>1. /\ n \in Nat /\ k \in 1 .. n /\ DOMAIN s = 1 .. n
      /\ Len(t) = n - k + 1 /\ DOMAIN t = 1 .. n - k + 1
      /\ \A i \in 1 .. n - k + 1 : t[i] = s[i + k - 1]
  OBVIOUS
<1>2. ASSUME NEW i \in DOMAIN t
      PROVE  /\ t[i] = "use" => i < Len(t) /\ t[i + 1] \in {"result", "cut"}
             /\ t[i] \in {"result", "cut"} => i > 1 /\ t[i - 1] = "use"
  <2> HIDE DEF t, n
  <2> DEFINE j == i + k - 1
  <2>1. j \in 1 .. n /\ t[i] = s[j] /\ i \in 1 .. n - k + 1
    BY <1>1
  <2>2. /\ s[j] = "use" => j < n /\ s[j + 1] \in {"result", "cut"}
        /\ s[j] \in {"result", "cut"} => j > 1 /\ s[j - 1] = "use"
    BY <1>1, <2>1 DEF Paired, n
  <2>3. /\ j < n => i + 1 \in 1 .. n - k + 1 /\ i < n - k + 1 /\ (i + 1) + k - 1 = j + 1
        /\ i > 1 => i - 1 \in 1 .. n - k + 1 /\ (i - 1) + k - 1 = j - 1
    <3>1. n \in Nat /\ k \in Int /\ k >= 1 /\ k <= n /\ i \in Int /\ i >= 1 /\ i <= n - k + 1
      BY <1>1, <2>1
    <3>2. QED
      BY <3>1
  <2>4. /\ j < n => t[i + 1] = s[j + 1]
        /\ i > 1 => t[i - 1] = s[j - 1]
    <3>1. \A h \in 1 .. n - k + 1 : t[h] = s[h + k - 1]
      BY <1>1
    <3> HIDE DEF j
    <3>2. j < n => t[i + 1] = s[(i + 1) + k - 1]
      BY <2>3, <3>1
    <3>3. i > 1 => t[i - 1] = s[(i - 1) + k - 1]
      BY <2>3, <3>1
    <3>4. QED
      BY <2>3, <3>2, <3>3
  <2>5. i = 1 => j = k
    BY <1>1
  <2>6. i > 1 \/ i = 1
    BY <2>1
  <2> HIDE DEF j
  <2>7. QED
    BY <1>1, <2>1, <2>2, <2>3, <2>4, <2>5, <2>6 DEF Results
<1>3. QED
  BY <1>2 DEF Paired

----------------------------------------------------------------------------
(* Compaction *)

LEMMA SplitType ==
  ASSUME NEW S, NEW s \in Seq(S)
  PROVE  findSafeSplitPoint(s) \in Nat /\ findSafeSplitPoint(s) >= 2
<1> DEFINE target == (Len(s) * 3) \div 5
<1>1. target \in Nat
  OBVIOUS
<1> HIDE DEF target
<1>2. findSafeSplitPoint(s) =
        LET split == IF target > 0 /\ s[target + 1] \in {"result", "cut"} THEN target - 1 ELSE target
        IN IF split < 2 THEN 2 ELSE split
  BY DEF findSafeSplitPoint, target
<1>3. QED
  BY <1>1, <1>2

\* Of five messages or more, compaction parts no result from its calls.
LEMMA SplitSafe ==
  ASSUME NEW S, NEW s \in Seq(S), Paired(s), Len(s) > 4
  PROVE  findSafeSplitPoint(s) + 1 \in 1 .. Len(s) /\ s[findSafeSplitPoint(s) + 1] \notin Results
<1> DEFINE target == (Len(s) * 3) \div 5
<1>1. target \in Nat /\ target >= 3 /\ target + 1 \in 1 .. Len(s) /\ target \in 1 .. Len(s)
  OBVIOUS
<1> HIDE DEF target
<1>2. findSafeSplitPoint(s) =
        LET split == IF target > 0 /\ s[target + 1] \in {"result", "cut"} THEN target - 1 ELSE target
        IN IF split < 2 THEN 2 ELSE split
  BY DEF findSafeSplitPoint, target
<1>3. CASE s[target + 1] \in {"result", "cut"}
  <2>1. findSafeSplitPoint(s) = target - 1
    BY <1>1, <1>2, <1>3
  <2>2. s[target] = "use"
    <3>1. s[(target + 1) - 1] = "use"
      BY <1>1, <1>3 DEF Paired
    <3>2. (target + 1) - 1 = target
      BY <1>1
    <3>3. QED
      BY <3>1, <3>2
  <2>3. findSafeSplitPoint(s) + 1 = target
    BY <1>1, <2>1
  <2>4. QED
    BY <1>1, <2>2, <2>3 DEF Results
<1>4. CASE s[target + 1] \notin {"result", "cut"}
  <2>1. findSafeSplitPoint(s) = target
    BY <1>1, <1>2, <1>4
  <2>2. QED
    BY <1>1, <1>4, <2>1 DEF Results
<1>5. QED
  BY <1>3, <1>4

LEMMA CompactedKeeps ==
  ASSUME NEW s \in Seq(Message), NEW b \in BOOLEAN
  PROVE  /\ Compacted(s, b) \in Seq(Message)
         /\ Paired(s) /\ Len(s) > 4 => Paired(Compacted(s, b))
<1> DEFINE split == findSafeSplitPoint(s)
           kept == SubSeq(s, split + 1, Len(s))
           head == IF kept # <<>> /\ Head(kept) \in Assistant THEN <<"user">> ELSE <<"user", "say">>
<1>1. split \in Nat
  BY SplitType
<1>2. ASSUME Paired(s), Len(s) > 4 PROVE Paired(kept)
  <2>1. split + 1 \in 1 .. Len(s) /\ s[split + 1] \notin Results
    BY <1>2, SplitSafe
  <2> HIDE DEF split
  <2>2. QED
    BY <1>2, <2>1, PairedSuffix
<1> HIDE DEF split
<1>3. kept \in Seq(Message)
  BY <1>1
<1>4. Compacted(s, b) = IF ~b THEN kept ELSE head \o kept
  BY DEF Compacted, split
<1> HIDE DEF kept
<1>5. head \in Seq(Message) /\ Paired(head)
  <2>1. <<"user">> \in Seq(Message) /\ <<"user", "say">> \in Seq(Message)
    BY DEF Message
  <2>2. head = <<"user">> \/ head = <<"user", "say">>
    OBVIOUS
  <2>3. QED
    BY <2>1, <2>2, PairedPieces
<1> HIDE DEF head
<1>6. head \o kept \in Seq(Message)
  BY <1>3, <1>5
<1>7. ASSUME Paired(s), Len(s) > 4 PROVE Paired(head \o kept) /\ Paired(kept)
  BY <1>2, <1>3, <1>5, <1>7, PairedConcat
<1>8. QED
  BY <1>3, <1>4, <1>6, <1>7

----------------------------------------------------------------------------
(* The inductive invariant *)

\* The file's last turn with the results of its calls
Answered == lastTurn.messages \o <<lastTurn.response, "result">>

\* A run uses no more than its turns, and stops at its limits.
Limited ==
  /\ turns <= maxTurns /\ maxTurns <= MaxTurns
  /\ where # "out" => continuation <= Continuations /\ streak < CriticalLoop

\* What the file says last is what the loop goes on from: the calls whose
\* results are awaited, or the round that has just been answered, unless the
\* answer was truncated.
FileTrue ==
  /\ lastTurn = NoTurn \/ <<lastTurn.response, lastTurn.stop>> \in Response
  /\ where = "tools" =>
       lastTurn.stop = "tool_use" /\ conv = Append(lastTurn.messages, lastTurn.response)
  /\ turns > 0 /\ lastTurn.stop # "max_tokens" =>
       /\ where = "top" => lastTurn.stop = "tool_use" /\ conv = Answered
       /\ where = "out" /\ result = "interrupted" =>
            lastTurn.stop = "tool_use" /\ conv = Answered /\ lastSummary = "failed"

LoopInv == LoopTypeOK /\ Limited /\ FileTrue

LEMMA Bounds ==
  /\ MaxTurns \in Nat \ {0} /\ MinTurns \in Nat \ {0} /\ CriticalLoop \in Nat \ {0}
  /\ MinTurns <= MaxTurns
  /\ MaxResumed \in Nat /\ Continuations \in Nat /\ MaxRuns \in Nat /\ MaxCompactions \in Nat
  BY LoopAssumption DEF LoopAssumption

\* The type without the sets of Booleans
LEMMA LoopInvTypes ==
  ASSUME LoopInv
  PROVE  /\ conv \in Seq(Message) /\ turns \in 0 .. MaxTurns /\ turns <= maxTurns
         /\ maxTurns \in 1 .. MaxTurns
         /\ continuation \in 0 .. Continuations + 1
         /\ resumed \in BOOLEAN /\ aborted \in BOOLEAN /\ late \in BOOLEAN
         /\ streak \in 0 .. CriticalLoop /\ where \in {"out", "top", "llm", "tools"}
         /\ result \in StopReason \cup {"crash", "none"}
         /\ lastTurn \in [messages : Seq(Message), response : Assistant,
                          stop : {"none", "end_turn", "max_tokens", "tool_use"}]
         /\ lastSummary \in {"none", "succeeded", "failed"}
         /\ runs \in 0 .. MaxRuns /\ compactions \in 0 .. MaxCompactions
<1>1. maxTurns \in 1 .. MaxTurns + MinTurns /\ maxTurns <= MaxTurns
  BY DEF LoopInv, LoopTypeOK, Limited
<1>2. maxTurns \in 1 .. MaxTurns
  BY <1>1, Bounds
<1>3. QED
  BY <1>2 DEF LoopInv, LoopTypeOK, Limited

LEMMA TypeFrom ==
  ASSUME conv' \in Seq(Message), turns' \in 0 .. MaxTurns, maxTurns' \in 1 .. MaxTurns,
         continuation' \in 0 .. Continuations + 1,
         resumed' \in BOOLEAN, aborted' \in BOOLEAN, late' \in BOOLEAN,
         streak' \in 0 .. CriticalLoop, where' \in {"out", "top", "llm", "tools"},
         result' \in StopReason \cup {"crash", "none"},
         lastTurn' \in [messages : Seq(Message), response : Assistant,
                        stop : {"none", "end_turn", "max_tokens", "tool_use"}],
         lastSummary' \in {"none", "succeeded", "failed"},
         runs' \in 0 .. MaxRuns, compactions' \in 0 .. MaxCompactions
  PROVE  LoopTypeOK'
<1>1. maxTurns' \in 1 .. MaxTurns + MinTurns
  BY Bounds
<1>2. QED
  BY <1>1 DEF LoopTypeOK

LEMMA ResumableType ==
  ASSUME LoopInv
  PROVE  /\ Resumable \in Seq(Message)
         /\ lastTurn.messages \in Seq(Message) /\ lastTurn.response \in Message
         /\ lastTurn.stop = "tool_use" =>
              /\ Len(Resumable) = Len(Answered) /\ Len(Answered) = Len(lastTurn.messages) + 2
              /\ \A i \in 1 .. Len(Answered) - 1 : Resumable[i] = Answered[i]
<1>1. /\ lastTurn.messages \in Seq(Message) /\ lastTurn.response \in Message
      /\ "cut" \in Message /\ "result" \in Message
  BY LoopInvTypes DEF Assistant, Message
<1> DEFINE m == lastTurn.messages
           r == lastTurn.response
<1>2. CASE lastTurn.stop = "tool_use"
  <2>1. Resumable = (m \o <<r>>) \o <<"cut">> /\ Answered = m \o <<r, "result">>
    BY <1>2 DEF Resumable, Answered
  <2> HIDE DEF m, r
  <2>2. m \in Seq(Message) /\ r \in Message
    BY <1>1 DEF m, r
  <2>3. /\ (m \o <<r>>) \o <<"cut">> \in Seq(Message)
        /\ Len((m \o <<r>>) \o <<"cut">>) = Len(m) + 2 /\ Len(m \o <<r, "result">>) = Len(m) + 2
    BY <1>1, <2>2
  <2>4. ASSUME NEW i \in 1 .. Len(m) + 1
        PROVE  ((m \o <<r>>) \o <<"cut">>)[i] = (m \o <<r, "result">>)[i]
    <3>1. CASE i \in 1 .. Len(m)
      BY <2>2, <3>1
    <3>2. CASE i = Len(m) + 1
      BY <2>2, <3>2
    <3>3. i \in 1 .. Len(m) \/ i = Len(m) + 1
      BY <2>2
    <3>4. QED
      BY <3>1, <3>2, <3>3
  <2>5. Len(Answered) - 1 = Len(m) + 1
    BY <2>1, <2>2, <2>3
  <2>6. QED
    BY <1>1, <2>1, <2>3, <2>4, <2>5 DEF m
<1>3. CASE lastTurn.stop # "tool_use"
  <2>1. Resumable = (m \o <<r>>) \o <<>>
    BY <1>3 DEF Resumable
  <2> HIDE DEF m, r
  <2>2. m \in Seq(Message) /\ r \in Message
    BY <1>1 DEF m, r
  <2>3. (m \o <<r>>) \o <<>> \in Seq(Message)
    BY <2>2
  <2>4. QED
    BY <1>1, <1>3, <2>1, <2>3
<1>4. QED
  BY <1>2, <1>3

LEMMA StartRunStep == ASSUME LoopInv, StartRun PROVE LoopInv'
<1>1. /\ where = "out" /\ runs < MaxRuns /\ runs' = runs + 1 /\ resumed' = MayResume
      /\ conv' = IF MayResume THEN Resumable ELSE <<"user">>
      /\ maxTurns' = IF ~MayResume THEN MaxTurns
                     ELSE LET left == MaxTurns - Len(Resumable) \div 2
                          IN IF left > MinTurns THEN left ELSE MinTurns
      /\ turns' = 0 /\ continuation' = 0 /\ streak' = 0 /\ aborted' = FALSE /\ late' = FALSE
      /\ where' = "top"
      /\ UNCHANGED <<result, lastTurn, lastSummary, compactions>>
  BY DEF StartRun
<1>2. conv' \in Seq(Message)
  <2>1. <<"user">> \in Seq(Message)
    BY DEF Message
  <2>2. QED
    BY <1>1, <2>1, ResumableType
<1>3. maxTurns' \in 1 .. MaxTurns
  <2> DEFINE half == Len(Resumable) \div 2
  <2>1. half \in Nat
    <3>1. Len(Resumable) \in Nat
      BY ResumableType
    <3>2. QED
      BY <3>1
  <2> HIDE DEF half
  <2>2. maxTurns' = IF ~MayResume THEN MaxTurns
                    ELSE IF MaxTurns - half > MinTurns THEN MaxTurns - half ELSE MinTurns
    BY <1>1 DEF half
  <2>3. QED
    BY <2>1, <2>2, Bounds
<1>4. resumed' \in BOOLEAN
  BY <1>1 DEF MayResume
<1>5. runs' \in 0 .. MaxRuns
  BY <1>1, LoopInvTypes, Bounds
<1>6. turns' \in 0 .. MaxTurns /\ continuation' \in 0 .. Continuations + 1 /\ streak' \in 0 .. CriticalLoop
  BY <1>1, Bounds
<1>7. LoopTypeOK'
  BY <1>1, <1>2, <1>3, <1>4, <1>5, <1>6, LoopInvTypes, TypeFrom
<1>8. Limited'
  BY <1>1, <1>3, Bounds DEF Limited
<1>9. FileTrue'
  BY <1>1 DEF LoopInv, FileTrue
<1>10. QED
  BY <1>7, <1>8, <1>9 DEF LoopInv

\* A run that ends, at the top or in the model
LEMMA EndStep == ASSUME LoopInv, LeaveLoop \/ LlmFails PROVE LoopInv'
<1>1. /\ UNCHANGED <<conv, turns, maxTurns, continuation, resumed, streak, aborted, late, lastTurn,
                     runs, compactions>>
      /\ where' = "out" /\ result' \in StopReason
      /\ lastSummary' \in {"succeeded", "failed"}
      /\ result' = "interrupted" => lastSummary' = "failed"
      /\ where # "out" /\ (result' = "interrupted" => where = "top")
  BY DEF LeaveLoop, LlmFails, Stop, Ending, StopReason
<1>2. LoopTypeOK'
  BY <1>1, LoopInvTypes, TypeFrom
<1>3. Limited' /\ FileTrue'
  BY <1>1 DEF LoopInv, Limited, FileTrue, Answered
<1>4. QED
  BY <1>2, <1>3 DEF LoopInv

LEMMA FlushedType ==
  ASSUME NEW s \in Seq(Message)
  PROVE  Flushed(s) \in Seq(Message) /\ (Paired(s) => Paired(Flushed(s)))
<1>1. "user" \in Message /\ <<"user">> \in Seq(Message) /\ Append(s, "user") = s \o <<"user">>
  BY DEF Message
<1>2. Append(s, "user") \in Seq(Message)
  BY <1>1
<1>3. Paired(s) => Paired(s \o <<"user">>)
  BY <1>1, PairedConcat, PairedPieces
<1>4. QED
  BY <1>1, <1>2, <1>3 DEF Flushed

LEMMA BeginTurnStep == ASSUME LoopInv, BeginTurn PROVE LoopInv'
<1>1. /\ where = "top" /\ turns < maxTurns /\ turns' = turns + 1 /\ where' = "llm"
      /\ \/ conv' = Flushed(conv) /\ UNCHANGED compactions
         \/ /\ compactions < MaxCompactions /\ compactions' = compactions + 1
            /\ \E b \in BOOLEAN : conv' = Flushed(Compacted(conv, b))
      /\ UNCHANGED <<maxTurns, continuation, resumed, streak, aborted, late, result, lastTurn,
                     lastSummary, runs>>
  BY DEF BeginTurn
<1>2. conv' \in Seq(Message)
  BY <1>1, LoopInvTypes, FlushedType, CompactedKeeps
<1>3. compactions' \in 0 .. MaxCompactions
  BY <1>1, LoopInvTypes, Bounds
<1>4. turns' \in 0 .. MaxTurns /\ turns' <= maxTurns
  BY <1>1, LoopInvTypes, Bounds
<1>5. LoopTypeOK'
  BY <1>1, <1>2, <1>3, <1>4, LoopInvTypes, TypeFrom
<1>6. Limited'
  BY <1>1, <1>4 DEF LoopInv, Limited
<1>7. FileTrue'
  BY <1>1 DEF LoopInv, FileTrue
<1>8. QED
  BY <1>5, <1>6, <1>7 DEF LoopInv

LEMMA LlmAnswersStep == ASSUME LoopInv, LlmAnswers PROVE LoopInv'
<1>1. PICK r \in Response :
        /\ lastTurn' = [messages |-> conv, response |-> r[1], stop |-> r[2]]
        /\ \/ /\ r[2] = "end_turn" /\ conv' = Append(conv, r[1])
              /\ Stop(Ending("end_turn", turns)) /\ UNCHANGED continuation
           \/ /\ r[2] = "max_tokens" /\ continuation < Continuations
              /\ continuation' = continuation + 1
              /\ conv' = Continued(r[1]) /\ where' = "top"
              /\ UNCHANGED <<result, lastSummary>>
           \/ /\ r[2] = "max_tokens" /\ continuation >= Continuations
              /\ continuation' = continuation + 1
              /\ conv' = Append(conv, r[1])
              /\ Stop(Ending("end_turn", turns))
           \/ /\ r[2] = "tool_use" /\ conv' = Append(conv, r[1]) /\ where' = "tools"
              /\ UNCHANGED <<continuation, result, lastSummary>>
  BY DEF LlmAnswers
<1>2. /\ where = "llm"
      /\ UNCHANGED <<turns, maxTurns, resumed, streak, aborted, late, runs, compactions>>
  BY DEF LlmAnswers
<1>3. /\ r[1] \in Assistant /\ r[1] \in Message /\ r = <<r[1], r[2]>>
      /\ r[2] \in {"none", "end_turn", "max_tokens", "tool_use"}
  BY DEF Response, Assistant, Message
<1>4. conv \in Seq(Message)
  BY LoopInvTypes
<1>5. conv' \in Seq(Message)
  <2>1. Append(conv, r[1]) \in Seq(Message)
    BY <1>3, <1>4
  <2>2. Continued(r[1]) \in Seq(Message)
    <3>1. <<r[1]>> \in Seq(Message) /\ <<"result">> \in Seq(Message) /\ <<>> \in Seq(Message)
      BY <1>3 DEF Message
    <3>2. (conv \o <<r[1]>>) \o <<"result">> \in Seq(Message) /\ (conv \o <<r[1]>>) \o <<>> \in Seq(Message)
      BY <1>4, <3>1
    <3>3. QED
      BY <3>2 DEF Continued
  <2>3. QED
    BY <1>1, <2>1, <2>2
<1>6. /\ continuation' \in 0 .. Continuations + 1 /\ (where' # "out" => continuation' <= Continuations)
  <2>1. continuation \in 0 .. Continuations
    BY <1>2, LoopInvTypes, Bounds DEF LoopInv, Limited
  <2>2. QED
    BY <1>1, <2>1, Bounds DEF Stop
<1>7. /\ where' \in {"out", "top", "tools"} /\ result' \in StopReason \cup {"crash", "none"}
      /\ lastSummary' \in {"none", "succeeded", "failed"}
      /\ where' = "out" => result' # "interrupted"
  BY <1>1, LoopInvTypes DEF Stop, Ending, StopReason
<1>8. /\ lastTurn' \in [messages : Seq(Message), response : Assistant,
                        stop : {"none", "end_turn", "max_tokens", "tool_use"}]
      /\ lastTurn'.messages = conv /\ lastTurn'.response = r[1] /\ lastTurn'.stop = r[2]
  BY <1>1, <1>3, <1>4
<1>9. LoopTypeOK'
  BY <1>2, <1>5, <1>6, <1>7, <1>8, LoopInvTypes, TypeFrom
<1>10. Limited'
  BY <1>2, <1>6 DEF LoopInv, Limited
<1>11. FileTrue'
  <2>1. <<lastTurn'.response, lastTurn'.stop>> \in Response
    BY <1>3, <1>8
  <2>2. where' = "tools" => r[2] = "tool_use" /\ conv' = Append(conv, r[1])
    BY <1>1 DEF Stop
  <2>3. where' = "top" => r[2] = "max_tokens"
    BY <1>1 DEF Stop
  <2>4. QED
    BY <1>7, <1>8, <2>1, <2>2, <2>3 DEF FileTrue
<1>12. QED
  BY <1>9, <1>10, <1>11 DEF LoopInv

LEMMA ToolsAnswerStep == ASSUME LoopInv, ToolsAnswer PROVE LoopInv'
<1>1. PICK same \in BOOLEAN :
        /\ streak' = IF same THEN streak + 1 ELSE 1
        /\ IF streak' >= CriticalLoop
           THEN /\ where' = "out" /\ result' = "error"
                /\ UNCHANGED <<conv, continuation, lastSummary>>
           ELSE /\ conv' = Append(conv, "result") /\ continuation' = 0
                /\ IF aborted THEN Stop(Ending("interrupted", turns))
                   ELSE where' = "top" /\ UNCHANGED <<result, lastSummary>>
  BY DEF ToolsAnswer
<1>2. /\ where = "tools"
      /\ UNCHANGED <<turns, maxTurns, resumed, aborted, late, lastTurn, runs, compactions>>
  BY DEF ToolsAnswer
<1>3. streak \in 0 .. CriticalLoop /\ streak < CriticalLoop
  BY <1>2, LoopInvTypes DEF LoopInv, Limited
<1>4. streak' \in 0 .. CriticalLoop
  BY <1>1, <1>3, Bounds
<1>5. where' # "out" => streak' < CriticalLoop
  BY <1>1, <1>4, Bounds
<1>6. /\ conv \in Seq(Message) /\ Append(conv, "result") \in Seq(Message)
  BY LoopInvTypes DEF Message
<1>7. conv' \in Seq(Message)
  BY <1>1, <1>6
<1>8. continuation' \in 0 .. Continuations + 1 /\ (where' # "out" => continuation' <= Continuations)
  BY <1>1, LoopInvTypes, Bounds
<1>9. /\ where' \in {"out", "top"} /\ result' \in StopReason \cup {"crash", "none"}
      /\ lastSummary' \in {"none", "succeeded", "failed"}
      /\ where' = "top" \/ result' = "interrupted" =>
           conv' = Append(conv, "result")
      /\ result' = "interrupted" /\ where' = "out" => lastSummary' = "failed"
  BY <1>1, LoopInvTypes DEF Stop, Ending, StopReason
<1>10. LoopTypeOK'
  BY <1>2, <1>4, <1>7, <1>8, <1>9, LoopInvTypes, TypeFrom
<1>11. Limited'
  BY <1>2, <1>5, <1>8 DEF LoopInv, Limited
<1>12. Append(conv, "result") = Answered
  <2>1. conv = Append(lastTurn.messages, lastTurn.response)
    BY <1>2 DEF LoopInv, FileTrue
  <2> DEFINE m == lastTurn.messages
             a == lastTurn.response
  <2>2. m \in Seq(Message) /\ a \in Message /\ "result" \in Message
    BY ResumableType DEF Message
  <2> HIDE DEF m, a
  <2>3. Append(Append(m, a), "result") = m \o <<a, "result">>
    BY <2>2
  <2>4. QED
    BY <2>1, <2>3 DEF Answered, m, a
<1>13. FileTrue'
  BY <1>2, <1>9, <1>12 DEF LoopInv, FileTrue, Answered
<1>14. QED
  BY <1>10, <1>11, <1>13 DEF LoopInv

\* The process: a checkpoint, the clock, a crash, or nothing
LEMMA LoopProcessStep ==
  ASSUME LoopInv, Abort \/ RunLate \/ LoopCrash \/ UNCHANGED loopVars
  PROVE  LoopInv'
<1>1. /\ UNCHANGED <<conv, turns, maxTurns, continuation, resumed, streak, lastTurn, lastSummary,
                     runs, compactions>>
      /\ aborted' \in BOOLEAN /\ late' \in BOOLEAN
      /\ UNCHANGED <<where, result>> \/ (where' = "out" /\ result' = "crash")
  BY LoopInvTypes DEF Abort, RunLate, LoopCrash, loopVars
<1>2. where' \in {"out", "top", "llm", "tools"} /\ result' \in StopReason \cup {"crash", "none"}
  BY <1>1, LoopInvTypes
<1>3. LoopTypeOK'
  BY <1>1, <1>2, LoopInvTypes, TypeFrom
<1>4. Limited' /\ FileTrue'
  BY <1>1 DEF LoopInv, Limited, FileTrue, Answered
<1>5. QED
  BY <1>3, <1>4 DEF LoopInv

LEMMA LoopInvInit == ASSUME LoopInit PROVE LoopInv
<1>1. <<>> \in Seq(Message) /\ "say" \in Assistant
  BY DEF Assistant
<1>2. LoopTypeOK
  <2>1. NoTurn \in [messages : Seq(Message), response : Assistant,
                    stop : {"none", "end_turn", "max_tokens", "tool_use"}]
    BY <1>1 DEF NoTurn
  <2>2. MaxTurns \in 1 .. MaxTurns + MinTurns
    BY Bounds
  <2>3. QED
    <3>1. /\ 0 \in 0 .. MaxTurns /\ 0 \in 0 .. Continuations + 1 /\ 0 \in 0 .. CriticalLoop
          /\ 0 \in 0 .. MaxRuns /\ 0 \in 0 .. MaxCompactions
      BY Bounds
    <3>2. /\ conv \in Seq(Message) /\ turns \in 0 .. MaxTurns
          /\ continuation \in 0 .. Continuations + 1 /\ streak \in 0 .. CriticalLoop
          /\ runs \in 0 .. MaxRuns /\ compactions \in 0 .. MaxCompactions
      BY <1>1, <3>1 DEF LoopInit
    <3>3. {resumed, aborted, late} \subseteq BOOLEAN
      BY DEF LoopInit
    <3>4. QED
      BY <2>1, <2>2, <3>2, <3>3 DEF LoopInit, LoopTypeOK
<1>3. Limited /\ FileTrue
  BY Bounds DEF LoopInit, Limited, FileTrue
<1>4. QED
  BY <1>2, <1>3 DEF LoopInv

LEMMA LoopInvNext == ASSUME LoopInv, [LoopNext]_loopVars PROVE LoopInv'
  BY StartRunStep, EndStep, BeginTurnStep, LlmAnswersStep, ToolsAnswerStep, LoopProcessStep
     DEF LoopNext, LoopStep

LEMMA LoopInvHolds == LoopSpec => []LoopInv
<1>1. LoopInit => LoopInv
  BY LoopInvInit
<1>2. LoopInv /\ [LoopNext]_loopVars => LoopInv'
  BY LoopInvNext
<1>3. QED
  BY <1>1, <1>2, PTL DEF LoopSpec

----------------------------------------------------------------------------
(* Theorems *)

\* The loop's state has its type: no run has more turns, continuations or
\* repeated calls than its limits allow (AgentLoop, LoopDetector).
THEOREM LoopTypeCorrect == LoopSpec => []LoopTypeOK
<1>1. LoopInv => LoopTypeOK
  BY DEF LoopInv
<1>2. QED
  BY <1>1, LoopInvHolds, PTL

LEMMA StartPairs ==
  ASSUME LoopInv, StartRun, Paired(lastTurn.messages), lastTurn.stop # "max_tokens"
  PROVE  Paired(conv')
<1> DEFINE m == lastTurn.messages
           r == lastTurn.response
<1>1. conv' = IF MayResume THEN Resumable ELSE <<"user">>
  BY DEF StartRun
<1>2. CASE ~MayResume
  BY <1>1, <1>2, PairedPieces
<1>3. CASE MayResume
  <2>1. <<r, lastTurn.stop>> \in Response
    BY <1>3 DEF LoopInv, FileTrue, MayResume
  <2>2. /\ m \in Seq(Message) /\ Paired(m)
        /\ <<"say">> \in Seq(Message) /\ <<"use", "cut">> \in Seq(Message)
    BY LoopInvTypes DEF Message
  <2> HIDE DEF m
  <2>3. CASE r = "say" /\ lastTurn.stop = "end_turn"
    <3>1. Resumable = (m \o <<"say">>) \o <<>>
      BY <2>3 DEF Resumable, m
    <3>2. (m \o <<"say">>) \o <<>> = m \o <<"say">>
      BY <2>2
    <3>3. QED
      BY <1>1, <1>3, <2>2, <3>1, <3>2, PairedConcat, PairedPieces
  <2>4. CASE r = "use" /\ lastTurn.stop = "tool_use"
    <3>1. Resumable = (m \o <<"use">>) \o <<"cut">>
      BY <2>4 DEF Resumable, m
    <3>2. (m \o <<"use">>) \o <<"cut">> = m \o <<"use", "cut">>
      BY <2>2
    <3>3. QED
      BY <1>1, <1>3, <2>2, <3>1, <3>2, PairedConcat, PairedPieces
  <2>5. QED
    BY <2>1, <2>3, <2>4 DEF Response
<1>4. QED
  BY <1>2, <1>3

LEMMA AnswerPairs ==
  ASSUME LoopInv, LlmAnswers, Paired(conv), where' # "out"
  PROVE  IF where' = "tools" THEN Paired(Append(conv', "result")) ELSE Paired(conv')
<1>1. conv \in Seq(Message)
  BY LoopInvTypes
<1>2. PICK r \in Response :
        \/ r[2] = "max_tokens" /\ conv' = Continued(r[1]) /\ where' = "top"
        \/ r[2] = "tool_use" /\ conv' = Append(conv, r[1]) /\ where' = "tools"
  BY DEF LlmAnswers, Stop
<1>3. <<"say">> \in Seq(Message) /\ <<"use", "result">> \in Seq(Message)
  BY DEF Message
<1>4. Paired(conv \o <<"say">>) /\ Paired(conv \o <<"use", "result">>)
  BY <1>1, <1>3, PairedConcat, PairedPieces
<1>5. CASE where' = "top"
  <2>1. r[1] \in {"say", "use"} /\ conv' = Continued(r[1])
    BY <1>2, <1>5 DEF Response
  <2>2. Continued("say") = conv \o <<"say">>
    <3>1. Continued("say") = (conv \o <<"say">>) \o <<>>
      BY DEF Continued
    <3>2. QED
      BY <1>1, <3>1
  <2>3. Continued("use") = conv \o <<"use", "result">>
    <3>1. Continued("use") = (conv \o <<"use">>) \o <<"result">>
      BY DEF Continued
    <3>2. (conv \o <<"use">>) \o <<"result">> = conv \o <<"use", "result">>
      BY <1>1
    <3>3. QED
      BY <3>1, <3>2
  <2>4. QED
    BY <1>4, <1>5, <2>1, <2>2, <2>3
<1>6. CASE where' = "tools"
  <2>1. r[1] = "use" /\ conv' = Append(conv, "use")
    BY <1>2, <1>6 DEF Response
  <2>2. Append(Append(conv, "use"), "result") = conv \o <<"use", "result">>
    BY <1>1 DEF Message
  <2>3. QED
    BY <1>4, <1>6, <2>1, <2>2
<1>7. QED
  BY <1>2, <1>5, <1>6

\* What the model is sent obeys the API's pairing rule, over tool rounds,
\* truncated responses, compactions of more than four messages, crashes and
\* resumptions of sessions that did not die after a truncated response
\* (AgentLoop, compactMessages, loadResumableMessages).
THEOREM PairsStay == LoopSpec => PairingKept
<1> DEFINE Kept == /\ WellPaired /\ where' # "out"
                   /\ compactions' # compactions => Len(conv) > 4
                   => WellPaired'
<1>1. ASSUME LoopInv, [LoopNext]_loopVars PROVE Kept
  <2>1. SUFFICES ASSUME WellPaired, where' # "out",
                        compactions' # compactions => Len(conv) > 4
                 PROVE  WellPaired'
    OBVIOUS
  <2>2. where \in {"out", "top", "llm", "tools"} /\ conv \in Seq(Message)
    BY <1>1, LoopInvTypes
  <2>3. CASE StartRun
    <3>1. where = "out" /\ where' = "top"
      BY <2>3 DEF StartRun
    <3>2. Paired(lastTurn.messages) /\ lastTurn.stop # "max_tokens"
      BY <2>1, <3>1 DEF WellPaired
    <3>3. Paired(conv')
      BY <1>1, <2>3, <3>2, StartPairs
    <3>4. QED
      BY <3>1, <3>3 DEF WellPaired, Paired
  <2>4. CASE BeginTurn
    <3>1. /\ where = "top" /\ where' = "llm"
          /\ \/ conv' = Flushed(conv)
             \/ /\ compactions' = compactions + 1
                /\ \E b \in BOOLEAN : conv' = Flushed(Compacted(conv, b))
      BY <2>4 DEF BeginTurn
    <3>2. Paired(conv)
      BY <2>1, <3>1 DEF WellPaired
    <3>3. Paired(conv')
      <4>1. CASE conv' = Flushed(conv)
        BY <2>2, <3>2, <4>1, FlushedType
      <4>2. ASSUME compactions' = compactions + 1,
                   NEW b \in BOOLEAN, conv' = Flushed(Compacted(conv, b))
            PROVE  Paired(conv')
        <5>1. Len(conv) > 4
          BY <1>1, <2>1, <4>2, LoopInvTypes
        <5>2. QED
          BY <2>2, <3>2, <4>2, <5>1, CompactedKeeps, FlushedType
      <4>3. QED
        BY <3>1, <4>1, <4>2
    <3>4. QED
      BY <3>1, <3>3 DEF WellPaired, Paired
  <2>5. CASE LlmAnswers
    <3>1. where = "llm" /\ where' \in {"top", "tools"}
      BY <2>1, <2>5 DEF LlmAnswers, Stop
    <3>2. Paired(conv)
      BY <2>1, <3>1 DEF WellPaired
    <3>3. IF where' = "tools" THEN Paired(Append(conv', "result")) ELSE Paired(conv')
      BY <1>1, <2>1, <2>5, <3>2, AnswerPairs
    <3>4. QED
      BY <3>1, <3>3 DEF WellPaired, Paired
  <2>6. CASE ToolsAnswer
    <3>1. where = "tools" /\ where' = "top" /\ conv' = Append(conv, "result")
      BY <2>1, <2>6 DEF ToolsAnswer, Stop
    <3>2. Paired(Append(conv, "result"))
      BY <2>1, <3>1 DEF WellPaired
    <3>3. QED
      BY <3>1, <3>2 DEF WellPaired, Paired
  <2>7. CASE Abort \/ RunLate \/ UNCHANGED loopVars
    <3>1. UNCHANGED <<conv, where, lastTurn>>
      BY <2>7 DEF Abort, RunLate, loopVars
    <3>2. QED
      BY <2>1, <3>1 DEF WellPaired, Paired
  <2>8. ~(LeaveLoop \/ LlmFails \/ LoopCrash)
    BY <2>1 DEF LeaveLoop, LlmFails, LoopCrash, Stop
  <2>9. QED
    BY <1>1, <2>3, <2>4, <2>5, <2>6, <2>7, <2>8 DEF LoopNext, LoopStep
<1>2. LoopInv /\ [LoopNext]_loopVars => [Kept]_loopVars
  BY <1>1
<1>3. QED
  BY <1>2, LoopInvHolds, PTL DEF LoopSpec, PairingKept

\* A worker that was checkpointed goes on with the conversation it had: only
\* the results of its last round are made up (writeSummary,
\* loadResumableMessages).
THEOREM CheckpointResumed == LoopSpec => CheckpointKept
<1> DEFINE Kept == /\ where = "out" /\ where' = "top" /\ result = "interrupted"
                   /\ turns > 0 /\ lastTurn.stop # "max_tokens"
                   /\ Len(conv) > 2 /\ Len(conv) \div 2 <= MaxResumed
                   => /\ resumed' /\ Len(conv') = Len(conv)
                      /\ \A i \in 1 .. Len(conv) - 1 : conv'[i] = conv[i]
<1>1. ASSUME LoopInv, [LoopNext]_loopVars PROVE Kept
  <2>1. SUFFICES ASSUME where = "out", where' = "top", result = "interrupted",
                        turns > 0, lastTurn.stop # "max_tokens",
                        Len(conv) > 2, Len(conv) \div 2 <= MaxResumed
                 PROVE  /\ resumed' /\ Len(conv') = Len(conv)
                        /\ \A i \in 1 .. Len(conv) - 1 : conv'[i] = conv[i]
    OBVIOUS
  <2>2. StartRun
    BY <1>1, <2>1 DEF LoopNext, LoopStep, LeaveLoop, BeginTurn, LlmAnswers, LlmFails, ToolsAnswer,
                      Abort, RunLate, LoopCrash, loopVars
  <2>3. lastTurn.stop = "tool_use" /\ conv = Answered /\ lastSummary = "failed"
    BY <1>1, <2>1 DEF LoopInv, FileTrue
  <2>4. /\ Len(Resumable) = Len(conv)
        /\ \A i \in 1 .. Len(conv) - 1 : Resumable[i] = conv[i]
    BY <1>1, <2>3, ResumableType
  <2>5. lastTurn # NoTurn
    BY <2>3 DEF NoTurn
  <2>6. MayResume
    BY <2>1, <2>3, <2>4, <2>5 DEF MayResume
  <2>7. resumed' = MayResume /\ conv' = Resumable
    BY <2>2, <2>6 DEF StartRun
  <2>8. QED
    BY <2>4, <2>6, <2>7
<1>2. LoopInv /\ [LoopNext]_loopVars => [Kept]_loopVars
  BY <1>1
<1>3. QED
  BY <1>2, LoopInvHolds, PTL DEF LoopSpec, CheckpointKept

----------------------------------------------------------------------------
(* The intelligence pipeline.  That an item has one researcher needs that a    *)
(* sweep never enqueues an item that exists: a source nobody has found has no  *)
(* item, and to find it and to save it is one step.                            *)

State == [kind : {"none", "check", "processor", "sweep", "feed", "call", "ended"},
          left : Nat, item : Item \cup {NoItem}]

ClaimTables ==
  /\ source \in [Source -> {"unknown", "discovered", "queued", "processed"}]
  /\ item \in [Item -> {"none", "queued", "processing", "completed", "failed"}]
  /\ run \in [Run -> State]

\* A source that was not found has no item.
Unfound == \A u \in Source : source[u] = "unknown" => item[u] = "none"

\* Who has an item has it alone, and its row says so.
Alone ==
  \A r \in Run : run[r].item # NoItem =>
    /\ item[run[r].item] = "processing"
    /\ \A q \in Run \ {r} : run[q].item # run[r].item

Claims == ClaimTables /\ Unfound /\ Alone

\* A claim by a run that holds nothing, after which the table of items is items
\* with the claimed item at work.
LEMMA ClaimKeeps ==
  ASSUME Claims, NEW r \in Run, NEW state \in State, state.item = NoItem,
         NEW items \in [Item -> {"none", "queued", "processing", "completed", "failed"}],
         \A i \in Item : (\E q \in Run \ {r} : run[q].item = i) \/ item[i] \in {"none", "queued"}
                           => items[i] = item[i],
         \A i \in Item : items[i] = "none" <=> item[i] = "none",
         UNCHANGED source, Claim(r, state, items)
  PROVE  /\ Claims'
         /\ \A q \in Run \ {r} : run'[q] = run[q]
         /\ run'[r].item # NoItem => run'[r].kind = state.kind
<1> DEFINE Goal ==
      /\ Claims'
      /\ \A q \in Run \ {r} : run'[q] = run[q]
      /\ run'[r].item # NoItem => run'[r].kind = state.kind
<1>1. NoItem \notin Item
  BY IntelAssumption DEF Item, NoItem
<1>2. CASE run' = [run EXCEPT ![r] = Ended] /\ item' = items
  <2>1. Ended \in State /\ Ended.item = NoItem
    BY DEF Ended, NotStarted, State
  <2>2. \A q \in Run \ {r} : run'[q] = run[q]
    BY <1>2 DEF Claims, ClaimTables
  <2>3. run'[r].item = NoItem
    BY <1>2, <2>1 DEF Claims, ClaimTables
  <2>4. Claims'
    BY <1>1, <1>2, <2>1 DEF Claims, ClaimTables, Unfound, Alone, State, Item
  <2> QED
    BY <2>2, <2>3, <2>4
<1>3. ASSUME NEW i \in Claimable, state.left > 0,
             run' = [run EXCEPT ![r] = [state EXCEPT !.item = i, !.left = @ - 1]],
             item' = [items EXCEPT ![i] = "processing"]
      PROVE  Goal
  <2> DEFINE new == [state EXCEPT !.item = i, !.left = @ - 1]
  <2>1. i \in Item /\ item[i] = "queued"
    BY DEF Claimable
  <2>2. new \in State /\ new.item = i /\ new.kind = state.kind
    <3>1. state.left - 1 \in Nat
      BY <1>3 DEF State
    <3> QED
      BY <2>1, <3>1 DEF State
  <2> HIDE DEF new
  <2>3. run' = [run EXCEPT ![r] = new]
    BY <1>3 DEF new
  <2>4. \A q \in Run \ {r} : run[q].item # i
    BY <1>1, <2>1 DEF Claims, Alone
  <2>5. ClaimTables'
    BY <1>3, <2>1, <2>2, <2>3 DEF Claims, ClaimTables
  <2>6. Unfound'
    BY <1>3, <2>1 DEF Claims, ClaimTables, Unfound, Item
  <2>7. Alone'
    BY <1>1, <1>3, <2>1, <2>2, <2>3, <2>4 DEF Claims, ClaimTables, Alone, State
  <2>8. run'[r] = new /\ \A q \in Run \ {r} : run'[q] = run[q]
    BY <2>3 DEF Claims, ClaimTables
  <2> QED
    BY <2>2, <2>5, <2>6, <2>7, <2>8 DEF Claims
<1> QED
  BY <1>2, <1>3 DEF Claim

\* A run that does not hold an item, before or after, changes nothing of this.
LEMMA RunKeeps ==
  ASSUME Claims, NEW r \in Run, NEW new \in State, run[r].item = NoItem, new.item = NoItem,
         run' = [run EXCEPT ![r] = new], UNCHANGED <<source, item>>
  PROVE  Claims'
BY DEF Claims, ClaimTables, Unfound, Alone

\* Only a processor and a call of the API hold an item.
Holders == \A r \in Run : run[r].item # NoItem => run[r].kind \in {"processor", "call"}

LEMMA ClaimsStep == Claims /\ Holders /\ [IntelNext]_intelVars => Claims' /\ Holders'
<1> SUFFICES ASSUME Claims, Holders, [IntelNext]_intelVars PROVE Claims' /\ Holders'
  OBVIOUS
<1> USE DEF Claims
<1>0. NotStarted \in State /\ Ended \in State /\ NotStarted.item = NoItem /\ Ended.item = NoItem
  BY DEF Ended, NotStarted, State
<1>h. NoItem \notin Item
  BY IntelAssumption DEF Item, NoItem
<1>1. ASSUME NEW i \in Manual, Enqueue(i) PROVE Claims' /\ Holders'
  BY <1>1, IntelAssumption DEF Enqueue, ClaimTables, Unfound, Alone, Holders, Item, State
<1>2. CASE ResetFailed
  <2>1. \A i \in Item : /\ item'[i] = "none" <=> item[i] = "none"
                        /\ item[i] = "processing" => item'[i] = "processing"
    BY <1>2 DEF ResetFailed, ClaimTables
  <2> QED
    BY <1>2, <2>1 DEF ResetFailed, ClaimTables, Unfound, Alone, Holders, Item, State
<1>3. ASSUME NEW r \in Run, CallNext(r) PROVE Claims' /\ Holders'
  <2> DEFINE new == [kind |-> "call", left |-> 1, item |-> NoItem]
  <2>1. new \in State /\ new.item = NoItem
    BY DEF State
  <2>2. /\ Claims' /\ \A q \in Run \ {r} : run'[q] = run[q]
        /\ run'[r].item # NoItem => run'[r].kind = "call"
    BY <1>3, <2>1, ClaimKeeps DEF CallNext, ClaimTables
  <2> QED
    BY <2>2 DEF Holders
<1>4. ASSUME NEW r \in Run, NEW i \in Item, CallItem(r, i) PROVE Claims' /\ Holders'
  <2> DEFINE new == [kind |-> "call", left |-> 0, item |-> i]
  <2>1. new \in State /\ new.item = i /\ new.kind = "call"
    BY DEF State
  <2> HIDE DEF new
  <2>2. /\ run' = [run EXCEPT ![r] = new] /\ item' = [item EXCEPT ![i] = "processing"]
        /\ item[i] \notin {"none", "processing"} /\ UNCHANGED source
    BY <1>4 DEF CallItem, MayProcess, new
  <2>3. \A q \in Run : run[q].item # i
    BY <1>h, <2>2 DEF Alone
  <2> QED
    BY <1>h, <2>1, <2>2, <2>3 DEF ClaimTables, Unfound, Alone, Holders, Item
<1>5. ASSUME NEW r \in Run, runWorker(r) \/ ModelUnavailable(r) \/ ExecuteSweep(r)
                              \/ SweepOneFeed(r)
      PROVE  Claims' /\ Holders'
  <2>1. \E new \in State : /\ new.item = NoItem /\ run' = [run EXCEPT ![r] = new]
                          /\ UNCHANGED <<source, item>> /\ run[r].kind \in {"none", "check"}
    <3>1. CASE runWorker(r)
      <4>1. [run[r] EXCEPT !.kind = "check"] \in State
        BY DEF ClaimTables, State
      <4>2. [run[r] EXCEPT !.kind = "check"].item = NoItem
        BY <3>1 DEF runWorker, Holders, ClaimTables, State
      <4> QED
        BY <3>1, <4>1, <4>2 DEF runWorker
    <3>2. CASE ModelUnavailable(r)
      BY <1>0, <3>2 DEF ModelUnavailable
    <3>3. CASE ExecuteSweep(r)
      BY <3>3, IntelAssumption DEF ExecuteSweep, State
    <3>4. CASE SweepOneFeed(r)
      BY <3>4 DEF SweepOneFeed, State
    <3> QED
      BY <1>5, <3>1, <3>2, <3>3, <3>4
  <2>2. run[r].item = NoItem
    BY <2>1 DEF Holders
  <2>3. PICK new \in State : new.item = NoItem /\ run' = [run EXCEPT ![r] = new]
    BY <2>1
  <2>4. Claims'
    BY <2>1, <2>2, <2>3, RunKeeps
  <2> QED
    BY <2>3, <2>4 DEF Holders, ClaimTables
<1>6. ASSUME NEW r \in Run, ExecuteProcessor(r) PROVE Claims' /\ Holders'
  <2> DEFINE new == [kind |-> "processor", left |-> PerRun, item |-> NoItem]
  <2>1. new \in State /\ new.item = NoItem
    BY IntelAssumption DEF State
  <2>2. /\ Claims' /\ \A q \in Run \ {r} : run'[q] = run[q]
        /\ run'[r].item # NoItem => run'[r].kind = "processor"
    BY <1>6, <2>1, ClaimKeeps DEF ExecuteProcessor, ClaimTables
  <2> QED
    BY <2>2 DEF Holders
<1>7. ASSUME NEW r \in Run, Researched(r) PROVE Claims' /\ Holders'
  <2>1. PICK to \in {"completed", "failed"} :
          Claim(r, [run[r] EXCEPT !.item = NoItem], [item EXCEPT ![run[r].item] = to])
    BY <1>7 DEF Researched
  <2>2. run[r].item # NoItem /\ UNCHANGED source
    BY <1>7 DEF Researched
  <2> DEFINE new == [run[r] EXCEPT !.item = NoItem]
             items == [item EXCEPT ![run[r].item] = to]
  <2>3. new \in State /\ new.item = NoItem /\ new.kind = run[r].kind
    BY DEF ClaimTables, State
  <2>4. run[r].item \in Item /\ item[run[r].item] = "processing"
    BY <2>2 DEF ClaimTables, Alone, State
  <2>5. /\ items \in [Item -> {"none", "queued", "processing", "completed", "failed"}]
        /\ \A i \in Item : items[i] = "none" <=> item[i] = "none"
        /\ \A i \in Item : i # run[r].item => items[i] = item[i]
    BY <2>4 DEF ClaimTables
  <2>6. Claim(r, new, items)
    BY <2>1
  <2> HIDE DEF new, items
  <2>7. \A i \in Item : (\E q \in Run \ {r} : run[q].item = i) \/ item[i] \in {"none", "queued"}
                          => items[i] = item[i]
    BY <2>2, <2>4, <2>5 DEF Alone
  <2>8. /\ Claims' /\ \A q \in Run \ {r} : run'[q] = run[q]
        /\ run'[r].item # NoItem => run'[r].kind = run[r].kind
    BY <2>2, <2>3, <2>5, <2>6, <2>7, ClaimKeeps
  <2> QED
    BY <2>2, <2>8 DEF Holders
<1>8. ASSUME NEW r \in Run, sweepFeed(r) PROVE Claims' /\ Holders'
  <2>1. PICK new \in SUBSET Source, enqueued \in SUBSET Source :
          /\ enqueued \subseteq new /\ \A u \in new : ~Known(u)
          /\ LET last == run[r].left = 1
                 swept == Swept(new, enqueued, source)
             IN /\ source' = IF last /\ run[r].kind = "sweep" THEN Extracted(swept) ELSE swept
                /\ run' = [run EXCEPT ![r] = IF last THEN Ended
                                               ELSE [run[r] EXCEPT !.left = @ - 1]]
          /\ item' = [i \in Item |-> IF i \in enqueued THEN "queued" ELSE item[i]]
    BY <1>8 DEF sweepFeed
  <2>2. /\ source' \in [Source -> {"unknown", "discovered", "queued", "processed"}]
        /\ \A u \in Source : source'[u] = "unknown" => source[u] = "unknown" /\ u \notin new
    BY <2>1 DEF ClaimTables, Swept, Extracted
  <2>3. run[r].item = NoItem
    BY <1>8 DEF sweepFeed, Holders
  <2>4. PICK next \in State : next.item = NoItem /\ run' = [run EXCEPT ![r] = next]
    <3>1. run[r].left \in Nat /\ run[r].left > 0
      BY <1>8 DEF sweepFeed, ClaimTables, State
    <3>2. [run[r] EXCEPT !.left = @ - 1] \in State /\ [run[r] EXCEPT !.left = @ - 1].item = NoItem
      BY <2>3, <3>1 DEF ClaimTables, State
    <3> DEFINE next == IF run[r].left = 1 THEN Ended ELSE [run[r] EXCEPT !.left = @ - 1]
    <3>3. run' = [run EXCEPT ![r] = next]
      BY <2>1
    <3>4. next \in State /\ next.item = NoItem
      BY <1>0, <3>2
    <3> HIDE DEF next
    <3> QED
      BY <3>3, <3>4
  <2>5. \A i \in enqueued : i \in Source /\ item[i] = "none"
    BY <2>1 DEF Known, Unfound
  <2>6. \A q \in Run : run'[q].item = run[q].item
                       /\ (run[q].item # NoItem => run'[q] = run[q])
    BY <2>3, <2>4 DEF ClaimTables
  <2>7. ClaimTables'
    BY <2>1, <2>2, <2>4 DEF ClaimTables
  <2>8. Unfound'
    BY <2>1, <2>2 DEF Unfound, Item
  <2>9. Alone'
    BY <2>1, <2>5, <2>6 DEF Alone, ClaimTables, State
  <2>10. Holders'
    BY <2>6 DEF Holders
  <2> QED
    BY <2>7, <2>8, <2>9, <2>10
<1>9. CASE IntelCrash
  <2>1. \A r \in Run : run'[r].item = NoItem /\ run'[r] \in State
    BY <1>0, <1>9 DEF IntelCrash, Holders, ClaimTables
  <2> QED
    BY <1>9, <2>1 DEF IntelCrash, ClaimTables, Unfound, Alone, Holders
<1>10. CASE UNCHANGED intelVars
  BY <1>10 DEF intelVars, ClaimTables, Unfound, Alone, Holders
<1> QED
  BY <1>1, <1>2, <1>3, <1>4, <1>5, <1>6, <1>7, <1>8, <1>9, <1>10 DEF IntelNext

----------------------------------------------------------------------------
\* No insight of a source that is found by its URL is there twice.
NotedOnce ==
  /\ insights \in [Item -> [Title -> Nat]]
  /\ \A u \in Source \ Redirected, t \in Title : insights[u][t] <= 1

LEMMA NotedStep == Claims /\ NotedOnce /\ [IntelNext]_intelVars => NotedOnce'
<1> SUFFICES ASSUME Claims, NotedOnce, [IntelNext]_intelVars PROVE NotedOnce'
  OBVIOUS
<1>1. ASSUME NEW r \in Run, Researched(r) PROVE NotedOnce'
  <2>1. PICK titles \in SUBSET Title :
          insights' = [insights EXCEPT ![run[r].item] = Noted(run[r].item, titles)]
    BY <1>1 DEF Researched
  <2>2. run[r].item \in Item
    BY <1>1 DEF Researched, Claims, ClaimTables, State
  <2>3. \A i \in Item : Noted(i, titles) \in [Title -> Nat]
    BY DEF Noted, NotedOnce
  <2>4. \A u \in Source \ Redirected, t \in Title : Noted(u, titles)[t] <= 1
    BY DEF Noted, NotedOnce, Item
  <2> QED
    BY <2>1, <2>2, <2>3, <2>4 DEF NotedOnce, Item
<1>2. CASE UNCHANGED insights
  BY <1>2 DEF NotedOnce
<1>3. (\E r \in Run : Researched(r)) \/ UNCHANGED insights
  BY DEF IntelNext, intelVars, Enqueue, ResetFailed, CallNext, CallItem, runWorker,
         ModelUnavailable, ExecuteProcessor, ExecuteSweep, SweepOneFeed, sweepFeed, IntelCrash
<1> QED
  BY <1>1, <1>2, <1>3

\* One run researches an item at a time, and no insight of a source found by its
\* URL is stored twice, for any sources, runs, limits, failures and crashes
\* (claimNextQueuedItem, processItem, addInsight).
THEOREM ResearchersExclude == IntelSpec => []OneResearcher
<1> DEFINE IntelInv == Claims /\ Holders /\ NotedOnce
<1>1. IntelInit => IntelInv
  BY DEF IntelInit, Claims, ClaimTables, Unfound, Alone, Holders, NotedOnce, State, NotStarted, Item
<1>2. IntelInv /\ [IntelNext]_intelVars => IntelInv'
  BY ClaimsStep, NotedStep
<1>3. IntelInv => OneResearcher
  <2> SUFFICES ASSUME IntelInv PROVE OneResearcher
    OBVIOUS
  <2>1. ASSUME NEW i \in Item
        PROVE  LET busy == {r \in Run : run[r].item = i}
               IN Cardinality(busy) <= 1 /\ (busy # {} => item[i] = "processing")
    <3> DEFINE busy == {r \in Run : run[r].item = i}
    <3>1. i # NoItem
      BY IntelAssumption DEF Item, NoItem
    <3>2. busy # {} => item[i] = "processing"
      BY <3>1 DEF Claims, Alone
    <3>3. CASE busy = {}
      <4>1. Cardinality(busy) = 0
        BY <3>3, FS_EmptySet
      <4> QED
        BY <3>3, <4>1
    <3>4. CASE busy # {}
      <4>1. PICK r \in Run : run[r].item = i
        BY <3>4
      <4>2. busy = {r}
        BY <3>1, <4>1 DEF Claims, Alone
      <4>3. Cardinality(busy) = 1
        BY <4>2, FS_Singleton
      <4> QED
        BY <3>2, <4>3
    <3> QED
      BY <3>3, <3>4
  <2> QED
    BY <2>1 DEF OneResearcher, NotedOnce
<1> QED
  BY <1>1, <1>2, <1>3, PTL DEF IntelSpec

\* Enqueues and researches fail within the bound.
Failures == failures \in 0 .. MaxFailures /\ crashes \in 0 .. MaxCrashes

LEMMA FailuresStep == Failures /\ [IntelNext]_intelVars => Failures'
<1> SUFFICES ASSUME Failures, [IntelNext]_intelVars PROVE Failures'
  OBVIOUS
<1>0. /\ failures \in Nat /\ crashes \in Nat /\ failures <= MaxFailures /\ crashes <= MaxCrashes
      /\ MaxFailures \in Nat /\ MaxCrashes \in Nat
  <2>1. MaxFailures \in Nat /\ MaxCrashes \in Nat
    BY IntelAssumption
  <2>2. QED
    BY <2>1 DEF Failures
<1>1. ASSUME NEW r \in Run, Researched(r) PROVE Failures'
  <2>1. failures' = failures \/ (failures' = failures + 1 /\ failures < MaxFailures)
    BY <1>1 DEF Researched
  <2>2. crashes' = crashes
    BY <1>1 DEF Researched
  <2>3. QED
    BY <1>0, <2>1, <2>2 DEF Failures
<1>2. ASSUME NEW r \in Run, sweepFeed(r) PROVE Failures'
  <2>1. PICK lost \in SUBSET Source :
          /\ failures' = failures + Cardinality(lost)
          /\ failures + Cardinality(lost) <= MaxFailures
    <3>1. \A new, enqueued \in SUBSET Source : new \ enqueued \in SUBSET Source
      OBVIOUS
    <3>2. \E new, enqueued \in SUBSET Source :
            /\ failures' = failures + Cardinality(new \ enqueued)
            /\ failures + Cardinality(new \ enqueued) <= MaxFailures
      BY <1>2 DEF sweepFeed
    <3>3. QED
      BY <3>1, <3>2
  <2>2. IsFiniteSet(lost)
    BY IntelAssumption, FS_Subset
  <2>3. Cardinality(lost) \in Nat
    BY <2>2, FS_CardinalityType
  <2>4. crashes' = crashes
    BY <1>2 DEF sweepFeed
  <2>5. QED
    BY <1>0, <2>1, <2>3, <2>4 DEF Failures
<1>3. CASE IntelCrash
  BY <1>0, <1>3 DEF IntelCrash, Failures
<1>4. CASE UNCHANGED <<failures, crashes>>
  BY <1>4 DEF Failures
<1>5. \/ \E r \in Run : Researched(r) \/ sweepFeed(r)
      \/ IntelCrash \/ UNCHANGED <<failures, crashes>>
  BY DEF IntelNext, intelVars, Enqueue, ResetFailed, CallNext, CallItem, runWorker,
         ModelUnavailable, ExecuteProcessor, ExecuteSweep, SweepOneFeed
<1>6. QED
  BY <1>1, <1>2, <1>3, <1>4, <1>5

\* The tables of sources, items and insights and what each run awaits have
\* their types, and no more than MaxFailures sources fail (intel-sweep.ts,
\* research-queue.ts).
THEOREM IntelTypeCorrect == IntelSpec => []IntelTypeOK
<1> DEFINE IntelInv == Claims /\ Holders /\ NotedOnce /\ Failures
<1>1. IntelInit => IntelInv
  <2>1. MaxFailures \in Nat /\ MaxCrashes \in Nat
    BY IntelAssumption
  <2>2. IntelInit => Failures
    BY <2>1 DEF IntelInit, Failures
  <2>3. IntelInit => Claims /\ Holders /\ NotedOnce
    BY DEF IntelInit, Claims, ClaimTables, Unfound, Alone, Holders, NotedOnce, State, NotStarted, Item
  <2>4. QED
    BY <2>2, <2>3
<1>2. IntelInv /\ [IntelNext]_intelVars => IntelInv'
  BY ClaimsStep, NotedStep, FailuresStep
<1>3. IntelInv => IntelTypeOK
  BY DEF Claims, ClaimTables, State, NotedOnce, Failures, IntelTypeOK
<1>4. QED
  BY <1>1, <1>2, <1>3, PTL DEF IntelSpec

----------------------------------------------------------------------------
(* The live meeting.  OneAnalysis is not inductive: that the lock is free must *)
(* mean that nobody analyses, unless the session is gone.                      *)

\* A session that is not cleaned up is locked exactly while it is analysed; one
\* that is gone has at most the analysis it had, and no lock.
LockInv ==
  /\ analyses = 0 \/ analyses = 1
  /\ lock => analyses = 1 /\ meeting # "gone"
  /\ analyses = 1 => lock \/ meeting = "gone"

LEMMA LockInvStep == LockInv /\ [MeetingNext]_meetingVars => LockInv'
<1> SUFFICES ASSUME LockInv, [MeetingNext]_meetingVars PROVE LockInv'
  OBVIOUS
<1>1. CASE startSession
  BY <1>1 DEF startSession, LockInv
<1>2. CASE stopSession
  <2>1. meeting # "gone" /\ meeting' # "gone" /\ UNCHANGED <<lock, analyses>>
    BY <1>2 DEF stopSession
  <2> QED
    BY <2>1 DEF LockInv
<1>3. CASE CleanUp
  BY <1>3 DEF CleanUp, LockInv
<1>4. ASSUME NEW c \in Chunk, ChunkArrives(c) PROVE LockInv'
  <2>1. UNCHANGED <<meeting, lock, analyses>>
    BY <1>4 DEF ChunkArrives
  <2> QED
    BY <2>1 DEF LockInv
<1>5. ASSUME NEW c \in Chunk, Transcribed(c) PROVE LockInv'
  <2>1. UNCHANGED meeting
    BY <1>5 DEF Transcribed
  <2>2. CASE MayAnalyse(c)
    <3>1. ~lock /\ meeting # "gone" /\ lock' /\ analyses' = analyses + 1
      BY <1>5, <2>2 DEF Transcribed, MayAnalyse
    <3> QED
      BY <2>1, <3>1 DEF LockInv
  <2>3. CASE ~MayAnalyse(c)
    <3>1. UNCHANGED <<lock, analyses>>
      BY <1>5, <2>3 DEF Transcribed
    <3> QED
      BY <2>1, <3>1 DEF LockInv
  <2> QED
    BY <2>2, <2>3
<1>6. ASSUME NEW c \in Chunk, TranscriptionFails(c) PROVE LockInv'
  BY <1>6 DEF TranscriptionFails, LockInv
<1>7. CASE AnalysisEnds
  <2>1. analyses > 0 /\ analyses' = analyses - 1 /\ ~lock' /\ UNCHANGED meeting
    BY <1>7 DEF AnalysisEnds
  <2> QED
    BY <2>1 DEF LockInv
<1>8. CASE ResearchEnds
  BY <1>8 DEF ResearchEnds, LockInv
<1>9. CASE UNCHANGED meetingVars
  BY <1>9 DEF meetingVars, LockInv
<1> QED
  BY <1>1, <1>2, <1>3, <1>4, <1>5, <1>6, <1>7, <1>8, <1>9 DEF MeetingNext

\* A session is analysed by one call at a time, and no lock is left behind, over
\* any number of chunks in any order, stops and clean-ups (runAnalysis).
THEOREM OneAnalysisAtATime == MeetingSpec => []OneAnalysis
<1>1. MeetingInit => LockInv
  BY DEF MeetingInit, LockInv
<1>2. LockInv => OneAnalysis
  BY DEF LockInv, OneAnalysis
<1> QED
  BY <1>1, <1>2, LockInvStep, PTL DEF MeetingSpec

\* The text of some chunks has a length.
LEMMA TextLengthType ==
  ASSUME NEW n \in Nat
  PROVE  TextLength(n) \in Nat
<1> DEFINE spoken == {c \in 1 .. n : chunk[c].spoken}
<1>1. IsFiniteSet(1 .. n)
  <2>1. 1 \in Int /\ n \in Int
    OBVIOUS
  <2>2. QED
    BY <2>1, FS_Interval, Zenon
<1>2. IsFiniteSet(spoken)
  <2>1. spoken \subseteq 1 .. n
    OBVIOUS
  <2> HIDE DEF spoken
  <2>2. QED
    BY <1>1, <2>1, FS_Subset
<1>3. Cardinality(spoken) \in Nat
  <2> HIDE DEF spoken
  <2>1. QED
    BY <1>2, FS_CardinalityType
<1>4. QED
  BY <1>3 DEF TextLength

\* What is started is at most what is still open together with what has ended.
MeetingTypes == MeetingTypeOK /\ research.open <= research.started

LEMMA MeetingTypesStep == MeetingTypes /\ [MeetingNext]_meetingVars => MeetingTypes'
<1> SUFFICES ASSUME MeetingTypes, [MeetingNext]_meetingVars PROVE MeetingTypes'
  OBVIOUS
<1> DEFINE Said == [is : {"none", "transcribing", "answered", "failed"},
                    spoken : BOOLEAN, before : Nat]
<1>0. /\ chunk \in [Chunk -> Said] /\ transcript \in 0 .. MaxChunks /\ MaxChunks \in Nat
      /\ segments \in Seq([from : Nat, to : Nat])
      /\ lock \in BOOLEAN /\ analyses \in Nat /\ found \in Nat
      /\ record \in Seq([transcript : Nat, found : Nat])
  BY MeetingAssumption DEF MeetingTypes, MeetingTypeOK
<1>1. CASE startSession
  BY <1>1 DEF startSession, MeetingTypes, MeetingTypeOK
<1>2. CASE stopSession
  <2> DEFINE row == [transcript |-> transcript, found |-> found]
  <2>1. row \in [transcript : Nat, found : Nat]
    BY <1>0
  <2> HIDE DEF row
  <2>2. Append(record, row) \in Seq([transcript : Nat, found : Nat])
    BY <1>0, <2>1, AppendProperties
  <2>3. record' \in Seq([transcript : Nat, found : Nat])
    BY <1>0, <1>2, <2>2 DEF stopSession, row
  <2>4. meeting' \in {"processing", "completed"}
    BY <1>2 DEF stopSession
  <2>5. UNCHANGED <<chunk, transcript, segments, lock, analyses, research, found>>
    BY <1>2 DEF stopSession
  <2>6. QED
    BY <2>3, <2>4, <2>5 DEF MeetingTypes, MeetingTypeOK
<1>3. CASE CleanUp
  BY <1>3 DEF CleanUp, MeetingTypes, MeetingTypeOK
<1>4. ASSUME NEW c \in Chunk, ChunkArrives(c) PROVE MeetingTypes'
  <2>1. TextLength(transcript) \in Nat
    BY <1>0, TextLengthType
  <2>2. chunk' \in [Chunk -> Said]
    BY <1>0, <1>4, <2>1 DEF ChunkArrives
  <2>3. UNCHANGED <<meeting, transcript, segments, lock, analyses, research, found, record>>
    BY <1>4 DEF ChunkArrives
  <2>4. QED
    BY <2>2, <2>3 DEF MeetingTypes, MeetingTypeOK
<1>5. ASSUME NEW c \in Chunk, Transcribed(c) PROVE MeetingTypes'
  <2>1. c \in 0 .. MaxChunks /\ c \in Nat
    BY <1>0 DEF Chunk
  <2>2. TextLength(c) \in Nat
    BY <2>1, TextLengthType
  <2>3. NewText(c) \in [from : Nat, to : Nat]
    BY <1>0, <2>2 DEF NewText
  <2>4. segments' \in Seq([from : Nat, to : Nat])
    <3>1. Append(segments, NewText(c)) \in Seq([from : Nat, to : Nat])
      BY <1>0, <2>3, AppendProperties
    <3>2. QED
      BY <1>0, <1>5, <3>1 DEF Transcribed
  <2>5. chunk' \in [Chunk -> Said]
    BY <1>0, <1>5 DEF Transcribed
  <2>6. lock' \in BOOLEAN /\ analyses' \in Nat
    <3>1. analyses + 1 \in Nat
      BY <1>0
    <3>2. QED
      BY <1>0, <1>5, <3>1 DEF Transcribed
  <2>7. transcript' \in 0 .. MaxChunks /\ UNCHANGED <<meeting, research, found, record>>
    BY <1>5, <2>1 DEF Transcribed
  <2>8. QED
    BY <2>4, <2>5, <2>6, <2>7 DEF MeetingTypes, MeetingTypeOK
<1>6. ASSUME NEW c \in Chunk, TranscriptionFails(c) PROVE MeetingTypes'
  <2>1. chunk' \in [Chunk -> Said]
    BY <1>0, <1>6 DEF TranscriptionFails
  <2>2. UNCHANGED <<meeting, transcript, segments, lock, analyses, research, found, record>>
    BY <1>6 DEF TranscriptionFails
  <2>3. QED
    BY <2>1, <2>2 DEF MeetingTypes, MeetingTypeOK
<1>7. CASE AnalysisEnds
  <2>1. PICK learnt \in 0 .. 1, asked \in 0 .. 1 :
          /\ asked = 1 => research.started < MaxResearch
          /\ lock' = FALSE /\ found' = found + learnt
          /\ research' = [started |-> research.started + asked, open |-> research.open + asked]
    BY <1>7 DEF AnalysisEnds
  <2>2. /\ research.started \in 0 .. MaxResearch /\ research.open \in 0 .. MaxResearch
        /\ research.open <= research.started /\ MaxResearch \in Nat
    BY MeetingAssumption DEF MeetingTypes, MeetingTypeOK
  <2>3. asked = 0 \/ asked = 1
    OBVIOUS
  <2>4. /\ research.started + asked \in 0 .. MaxResearch /\ research.open + asked \in 0 .. MaxResearch
        /\ research.open + asked <= research.started + asked
    BY <2>1, <2>2, <2>3
  <2>5. /\ research' \in [started : 0 .. MaxResearch, open : 0 .. MaxResearch]
        /\ research'.open <= research'.started
    BY <2>1, <2>4
  <2>6. found' \in Nat /\ lock' \in BOOLEAN
    <3>1. found + learnt \in Nat
      BY <1>0
    <3>2. QED
      BY <2>1, <3>1
  <2>7. analyses' \in Nat /\ UNCHANGED <<meeting, chunk, transcript, segments, record>>
    BY <1>0, <1>7 DEF AnalysisEnds
  <2>8. QED
    BY <2>5, <2>6, <2>7 DEF MeetingTypes, MeetingTypeOK
<1>8. CASE ResearchEnds
  <2>1. /\ research \in [started : 0 .. MaxResearch, open : 0 .. MaxResearch]
        /\ research.open <= research.started /\ MaxResearch \in Nat /\ research.open > 0
    BY <1>8, MeetingAssumption DEF MeetingTypes, MeetingTypeOK, ResearchEnds
  <2> DEFINE left == research.open - 1
  <2>2. left \in 0 .. MaxResearch /\ left <= research.started
    BY <2>1
  <2>3. research' = [research EXCEPT !.open = left]
    BY <1>8 DEF ResearchEnds
  <2> HIDE DEF left
  <2>4. /\ research' \in [started : 0 .. MaxResearch, open : 0 .. MaxResearch]
        /\ research'.open <= research'.started
    BY <2>1, <2>2, <2>3
  <2>5. found' \in Nat /\ UNCHANGED <<meeting, chunk, transcript, segments, lock, analyses, record>>
    BY <1>0, <1>8 DEF ResearchEnds
  <2>6. QED
    BY <2>4, <2>5 DEF MeetingTypes, MeetingTypeOK
<1>9. CASE UNCHANGED meetingVars
  BY <1>9 DEF meetingVars, MeetingTypes, MeetingTypeOK
<1>10. QED
  BY <1>1, <1>2, <1>3, <1>4, <1>5, <1>6, <1>7, <1>8, <1>9 DEF MeetingNext

\* The types of the session and its texts, and no more research at work than
\* was started.
THEOREM MeetingTypeCorrect == MeetingSpec => []MeetingTypeOK
<1>1. MeetingInit => MeetingTypes
  <2> SUFFICES ASSUME MeetingInit PROVE MeetingTypes
    OBVIOUS
  <2>1. 0 \in 0 .. MaxChunks /\ 0 \in 0 .. MaxResearch
    BY MeetingAssumption
  <2>2. /\ research = [started |-> 0, open |-> 0] /\ segments = <<>> /\ record = <<>>
        /\ transcript = 0 /\ analyses = 0 /\ found = 0 /\ lock = FALSE /\ meeting = "none"
    BY DEF MeetingInit
  <2>3. chunk \in [Chunk -> [is : {"none", "transcribing", "answered", "failed"},
                            spoken : BOOLEAN, before : Nat]]
    BY DEF MeetingInit
  <2>4. research \in [started : 0 .. MaxResearch, open : 0 .. MaxResearch]
        /\ research.open <= research.started
    BY <2>1, <2>2
  <2>5. segments \in Seq([from : Nat, to : Nat]) /\ record \in Seq([transcript : Nat, found : Nat])
    BY <2>2
  <2>6. transcript \in 0 .. MaxChunks
    BY <2>1, <2>2
  <2>7. QED
    BY <2>2, <2>3, <2>4, <2>5, <2>6 DEF MeetingTypes, MeetingTypeOK
<1>2. MeetingTypes => MeetingTypeOK
  BY DEF MeetingTypes
<1>3. QED
  BY <1>1, <1>2, MeetingTypesStep, PTL DEF MeetingSpec

----------------------------------------------------------------------------
(* The voice sessions *)

RtIs == {"none", "instructing", "connecting", "up", "pausing"}
RtState == [is : RtIs, closing : BOOLEAN, reconnecting : BOOLEAN]
Deferred == [captured : 0 .. MaxActions, queued : 0 .. MaxActions]
Called == {j \in Join : call[j] # "none"}

\* The type, and what keeps a counter within it: every connection was made by a
\* join of its own, and an action that is queued was captured.
Typed ==
  /\ VoiceTypeOK
  /\ line.id <= Cardinality(Called)
  /\ \A j \in Join : actions[j].queued <= actions[j].captured

\* A session opens a transport only when it has none.
Transport ==
  \A j \in Join : /\ transports[j] <= 1
                  /\ rt[j].is \in {"none", "instructing", "pausing"} => transports[j] = 0

\* How far each join has come, as long as nothing raced: one at a time builds,
\* while none is stored; a session that is gone is down, or will be after its
\* pause.
Unraced ==
  /\ \A j \in Joining : stored = NoJoin /\ \A k \in Joining : k = j
  /\ stored # NoJoin => call[stored] = "done"
  /\ \A j \in Join :
       /\ stored # j => actions[j].queued = 0
       /\ call[j] \in {"none", "joining"} => rt[j].is = "none"
       /\ call[j] = "building" => rt[j].is \in {"instructing", "connecting"}
       /\ call[j] \in {"done", "failed"} /\ stored # j =>
            rt[j].is = "none" \/ (rt[j].is = "pausing" /\ rt[j].closing)

\* Whatever raced, a join that has not built its session has none.
Unbuilt ==
  \A j \in Join : call[j] \in {"none", "joining"} => rt[j].is = "none"

VoiceInv == Typed /\ Transport /\ Unbuilt /\ (~raced => Unraced)

----------------------------------------------------------------------------
(* What the actions write *)

LEMMA Types ==
  ASSUME VoiceTypeOK
  PROVE  /\ rt \in [Join -> RtState] /\ actions \in [Join -> Deferred]
         /\ transports \in [Join -> Nat]
         /\ call \in [Join -> {"none", "joining", "building", "done", "failed"}]
         /\ stored \in Join \cup {NoJoin} /\ NoJoin \notin Join
  BY VoiceAssumption DEF VoiceTypeOK, RtState, RtIs, Deferred, VoiceAssumption

\* destroySession of what is stored
LEMMA DestroyWrites ==
  ASSUME VoiceTypeOK, Destroy
  PROVE  /\ stored \in Join /\ stored' = NoJoin
         /\ rt' \in [Join -> RtState] /\ rt'[stored].closing = TRUE
         /\ rt'[stored].is = IF rt[stored].is \in {"up", "connecting"} THEN "none" ELSE rt[stored].is
         /\ transports' \in [Join -> Nat]
         /\ transports'[stored] = IF rt[stored].is = "instructing" THEN transports[stored] ELSE 0
         /\ actions' \in [Join -> Deferred] /\ actions'[stored].queued = 0
         /\ \A k \in Join : k # stored => /\ rt'[k] = rt[k] /\ transports'[k] = transports[k]
                                          /\ actions'[k] = actions[k]
<1>1. /\ stored # NoJoin /\ rt' = SessionClosed(stored, rt)
      /\ transports' = IF rt[stored].is = "instructing" THEN transports
                       ELSE Cleaned(stored, transports)
      /\ actions' = QueueDrained(stored, actions) /\ stored' = NoJoin
  BY DEF Destroy
<1>2. PICK s \in Join : s = stored
  BY <1>1, Types
<1>3. rt \in [Join -> RtState] /\ transports \in [Join -> Nat] /\ actions \in [Join -> Deferred]
  BY Types
<1>4. /\ rt' \in [Join -> RtState] /\ rt'[s].closing = TRUE
      /\ rt'[s].is = IF rt[s].is \in {"up", "connecting"} THEN "none" ELSE rt[s].is
      /\ \A k \in Join : k # s => rt'[k] = rt[k]
  <2> DEFINE i == IF rt[s].is \in {"up", "connecting"} THEN "none" ELSE rt[s].is
  <2>1. rt' = [rt EXCEPT ![s].closing = TRUE, ![s].is = i]
    BY <1>1, <1>2 DEF SessionClosed
  <2>2. i \in RtIs
    BY <1>3 DEF RtState, RtIs
  <2> HIDE DEF i
  <2>3. /\ rt' \in [Join -> RtState] /\ rt'[s].closing = TRUE /\ rt'[s].is = i
        /\ \A k \in Join : k # s => rt'[k] = rt[k]
    BY <1>3, <2>1, <2>2 DEF RtState
  <2>4. QED
    BY <2>3 DEF i
<1>5. /\ transports' \in [Join -> Nat]
      /\ transports'[s] = IF rt[s].is = "instructing" THEN transports[s] ELSE 0
      /\ \A k \in Join : k # s => transports'[k] = transports[k]
  BY <1>1, <1>2, <1>3 DEF Cleaned
<1>6. /\ actions' \in [Join -> Deferred] /\ actions'[s].queued = 0
      /\ \A k \in Join : k # s => actions'[k] = actions[k]
  BY <1>1, <1>2, <1>3, VoiceAssumption DEF QueueDrained, Deferred, VoiceAssumption
<1>7. QED
  BY <1>1, <1>2, <1>4, <1>5, <1>6

\* What is stored is destroyed, if anything is: nothing is orphaned by it.
Emptied ==
  IF stored = NoJoin THEN UNCHANGED <<stored, rt, transports, actions>> ELSE Destroy

LEMMA EmptiedKeeps ==
  ASSUME VoiceInv, Emptied
  PROVE  /\ stored' = NoJoin /\ rt' \in [Join -> RtState] /\ transports' \in [Join -> Nat]
         /\ actions' \in [Join -> Deferred]
         /\ \A j \in Join :
              /\ actions'[j].queued <= actions'[j].captured
              /\ transports'[j] <= 1
              /\ rt'[j].is \in {"none", "instructing", "pausing"} => transports'[j] = 0
              /\ rt[j].is = "none" => rt'[j].is = "none"
         /\ ~raced /\ (stored = NoJoin \/ ~ClosedTooEarly) =>
              \A j \in Join :
                /\ actions'[j].queued = 0
                /\ j # stored => rt'[j] = rt[j]
                /\ call[j] \in {"done", "failed"} =>
                     rt'[j].is = "none" \/ (rt'[j].is = "pausing" /\ rt'[j].closing)
<1>1. VoiceTypeOK /\ Transport /\ \A j \in Join : actions[j].queued <= actions[j].captured
  BY DEF VoiceInv, Typed
<1>2. CASE stored = NoJoin
  <2>1. UNCHANGED <<stored, rt, transports, actions>>
    BY <1>2 DEF Emptied
  <2>2. \A j \in Join : stored # j
    BY <1>1, <1>2, Types
  <2>3. QED
    BY <1>1, <1>2, <2>1, <2>2, Types DEF VoiceInv, Transport, Unraced
<1>3. CASE stored # NoJoin
  <2>1. Destroy
    BY <1>3 DEF Emptied
  <2>2. /\ \A j \in Join : actions'[j].captured \in Nat
        /\ \A j \in Join : rt[j].is \in RtIs /\ transports[j] \in Nat
    BY <1>1, <2>1, DestroyWrites, Types, VoiceAssumption DEF Deferred, RtState, VoiceAssumption
  <2>3. \A j \in Join : /\ actions'[j].queued <= actions'[j].captured
                        /\ transports'[j] <= 1
                        /\ rt'[j].is \in {"none", "instructing", "pausing"} => transports'[j] = 0
                        /\ rt[j].is = "none" => rt'[j].is = "none"
    <3>1. SUFFICES ASSUME NEW j \in Join
                   PROVE  /\ actions'[j].queued <= actions'[j].captured
                          /\ transports'[j] <= 1
                          /\ rt'[j].is \in {"none", "instructing", "pausing"} => transports'[j] = 0
                          /\ rt[j].is = "none" => rt'[j].is = "none"
      OBVIOUS
    <3>2. CASE j # stored
      BY <1>1, <2>1, <3>2, DestroyWrites DEF Transport
    <3>3. CASE j = stored
      BY <1>1, <2>1, <2>2, <3>3, DestroyWrites DEF Transport
    <3>4. QED
      BY <3>2, <3>3
  <2>4. ASSUME ~raced, ~ClosedTooEarly, NEW j \in Join
        PROVE  /\ actions'[j].queued = 0
               /\ j # stored => rt'[j] = rt[j]
               /\ call[j] \in {"done", "failed"} =>
                    rt'[j].is = "none" \/ (rt'[j].is = "pausing" /\ rt'[j].closing)
    <3>1. Unraced /\ rt[stored].is \in {"none", "up", "pausing"}
      BY <1>1, <2>1, <2>2, <2>4, DestroyWrites DEF VoiceInv, ClosedTooEarly, RtIs
    <3>2. CASE j # stored
      BY <1>1, <2>1, <3>1, <3>2, DestroyWrites DEF Unraced
    <3>3. CASE j = stored
      BY <1>1, <2>1, <3>1, <3>3, DestroyWrites
    <3>4. QED
      BY <3>2, <3>3
  <2>5. QED
    BY <1>1, <1>3, <2>1, <2>3, <2>4, DestroyWrites
<1>4. QED
  BY <1>2, <1>3

----------------------------------------------------------------------------
(* The invariant, step by step *)

LEMMA CalledCount ==
  /\ IsFiniteSet(Called) /\ Cardinality(Called) \in Nat
  /\ Cardinality(Called) <= Cardinality(Join) /\ Cardinality(Join) \in Nat
<1>1. Called \subseteq Join /\ IsFiniteSet(Join)
  BY VoiceAssumption DEF Called, VoiceAssumption
<1>2. QED
  BY <1>1, FS_Subset, FS_CardinalityType

\* A call that begins is one more.
LEMMA CalledMore ==
  ASSUME VoiceTypeOK, NEW j \in Join, call[j] = "none", NEW c \in {"joining", "failed"},
         call' = [call EXCEPT ![j] = c]
  PROVE  Cardinality(Called') = Cardinality(Called) + 1
<1>1. Called' = Called \cup {j} /\ j \notin Called
  BY Types DEF Called
<1>2. QED
  BY <1>1, CalledCount, FS_AddElement

\* A call that goes on counts as before.
LEMMA CalledSame ==
  ASSUME VoiceTypeOK,
         \/ UNCHANGED call
         \/ \E j \in Join, c \in {"building", "done", "failed"} :
              call[j] # "none" /\ call' = [call EXCEPT ![j] = c]
  PROVE  Called' = Called
  BY Types DEF Called

LEMMA LineLeftType ==
  ASSUME VoiceTypeOK
  PROVE  LineLeft \in [id : Line, is : {"none", "live", "dropped"}] /\ LineLeft.id = line.id
  BY DEF LineLeft, VoiceTypeOK

LEMMA JoinStep == ASSUME VoiceInv, NEW j \in Join, join(j) PROVE VoiceInv'
<1>1. /\ call[j] = "none" /\ Emptied
      /\ line' = [id |-> IF LineLeft.is = "none" THEN line.id + 1 ELSE line.id, is |-> "live"]
      /\ lineOf' = [lineOf EXCEPT ![j] = line'.id]
      /\ call' = [call EXCEPT ![j] = "joining"]
      /\ raced' = (raced \/ Joining # {} \/ (stored # NoJoin /\ ClosedTooEarly))
      /\ UNCHANGED <<waiting, drops>>
  BY DEF join, Emptied
<1>2. VoiceTypeOK /\ Unbuilt /\ (~raced => Unraced) /\ line.id <= Cardinality(Called)
  BY DEF VoiceInv, Typed
<1>3. /\ stored' = NoJoin /\ rt' \in [Join -> RtState] /\ transports' \in [Join -> Nat]
      /\ actions' \in [Join -> Deferred]
      /\ \A k \in Join : /\ actions'[k].queued <= actions'[k].captured
                         /\ transports'[k] <= 1
                         /\ rt'[k].is \in {"none", "instructing", "pausing"} => transports'[k] = 0
                         /\ rt[k].is = "none" => rt'[k].is = "none"
  BY <1>1, EmptiedKeeps
<1>4. /\ line'.id \in Line /\ line'.is = "live" /\ line'.id <= Cardinality(Called')
      /\ line' \in [id : Line, is : {"none", "live", "dropped"}]
  <2>1. Cardinality(Called') = Cardinality(Called) + 1
    BY <1>1, <1>2, CalledMore
  <2>2. line.id \in 0 .. Cardinality(Join)
    BY <1>2 DEF VoiceTypeOK, Line
  <2>3. Cardinality(Called) + 1 <= Cardinality(Join)
    <3>1. Called \cup {j} \subseteq Join /\ j \notin Called /\ IsFiniteSet(Join)
      BY <1>1, VoiceAssumption DEF Called, VoiceAssumption
    <3>2. Cardinality(Called \cup {j}) = Cardinality(Called) + 1
      BY <3>1, CalledCount, FS_AddElement
    <3>3. QED
      BY <3>1, <3>2, FS_Subset
  <2>4. line'.id = line.id + 1 \/ line'.id = line.id
    BY <1>1
  <2>5. line'.id \in Line /\ line'.id <= Cardinality(Called')
    BY <1>2, <2>1, <2>2, <2>3, <2>4, CalledCount DEF Line
  <2>6. QED
    BY <1>1, <2>5
<1>5. /\ call' \in [Join -> {"none", "joining", "building", "done", "failed"}]
      /\ call'[j] = "joining" /\ \A k \in Join : k # j => call'[k] = call[k]
  BY <1>1, <1>2, Types
<1>6. VoiceTypeOK'
  <2>1. lineOf' \in [Join -> Line]
    BY <1>1, <1>2, <1>4 DEF VoiceTypeOK
  <2>2. raced' \in BOOLEAN
    BY <1>1
  <2>3. QED
    BY <1>1, <1>2, <1>3, <1>4, <1>5, <2>1, <2>2
       DEF VoiceTypeOK, RtState, RtIs, Deferred
<1>7. Typed' /\ Transport'
  BY <1>3, <1>4, <1>6 DEF Typed, Transport
<1>8. Unbuilt'
  BY <1>1, <1>2, <1>3, <1>5 DEF Unbuilt
<1>9. ASSUME ~raced' PROVE Unraced'
  <2>1. ~raced /\ Joining = {} /\ (stored = NoJoin \/ ~ClosedTooEarly) /\ Unraced
    BY <1>1, <1>2, <1>9
  <2>2. \A k \in Join :
          /\ actions'[k].queued = 0
          /\ k # stored => rt'[k] = rt[k]
          /\ call[k] \in {"done", "failed"} =>
               rt'[k].is = "none" \/ (rt'[k].is = "pausing" /\ rt'[k].closing)
    BY <1>1, <2>1, EmptiedKeeps
  <2>3. Joining' = {j}
    BY <1>5, <2>1 DEF Joining
  <2>4. \A k \in Join : call'[k] # "building"
    BY <1>5, <2>1 DEF Joining
  <2>5. \A k \in Join : call'[k] \in {"done", "failed"} => call[k] \in {"done", "failed"}
    BY <1>5
  <2>6. QED
    BY <1>3, <1>8, <2>2, <2>3, <2>4, <2>5 DEF Unraced, Unbuilt
<1>10. QED
  BY <1>7, <1>8, <1>9 DEF VoiceInv

\* What only takes the stored session away: leave and the end of a drop
LEMMA LeaveStep ==
  ASSUME VoiceInv, Emptied, line' = LineLeft, waiting' \subseteq waiting,
         raced' \in BOOLEAN, ~raced' => ~raced /\ (stored = NoJoin \/ ~ClosedTooEarly),
         UNCHANGED <<call, lineOf, drops>>
  PROVE  VoiceInv'
<1>1. VoiceTypeOK /\ Unbuilt /\ (~raced => Unraced) /\ line.id <= Cardinality(Called)
  BY DEF VoiceInv, Typed
<1>2. /\ stored' = NoJoin /\ rt' \in [Join -> RtState] /\ transports' \in [Join -> Nat]
      /\ actions' \in [Join -> Deferred]
      /\ \A k \in Join : /\ actions'[k].queued <= actions'[k].captured
                         /\ transports'[k] <= 1
                         /\ rt'[k].is \in {"none", "instructing", "pausing"} => transports'[k] = 0
                         /\ rt[k].is = "none" => rt'[k].is = "none"
  BY EmptiedKeeps
<1>3. line' \in [id : Line, is : {"none", "live", "dropped"}] /\ line'.id <= Cardinality(Called')
  BY <1>1, LineLeftType DEF Called
<1>4. VoiceTypeOK'
  BY <1>1, <1>2, <1>3 DEF VoiceTypeOK, RtState, RtIs, Deferred
<1>5. Typed' /\ Transport' /\ Unbuilt'
  BY <1>1, <1>2, <1>3, <1>4 DEF Typed, Transport, Unbuilt
<1>6. ASSUME ~raced' PROVE Unraced'
  <2>1. Unraced
    BY <1>1, <1>6
  <2>2. \A k \in Join :
          /\ actions'[k].queued = 0
          /\ k # stored => rt'[k] = rt[k]
          /\ call[k] \in {"done", "failed"} =>
               rt'[k].is = "none" \/ (rt'[k].is = "pausing" /\ rt'[k].closing)
    BY <1>6, EmptiedKeeps
  <2>3. Joining' = Joining /\ \A k \in Join : call[k] = "building" => k # stored
    BY <1>1, <2>1, Types DEF Joining, Unraced
  <2>4. QED
    BY <1>2, <1>5, <2>1, <2>2, <2>3 DEF Unraced, Unbuilt
<1>7. QED
  BY <1>5, <1>6 DEF VoiceInv

LEMMA LeavesStep ==
  ASSUME VoiceInv, leave \/ \E n \in Line : DropTimesOut(n) PROVE VoiceInv'
<1>1. CASE leave
  <2>1. /\ Destroy /\ line' = LineLeft /\ raced' = (raced \/ ClosedTooEarly)
        /\ UNCHANGED <<call, lineOf, waiting, drops>>
    BY <1>1 DEF leave
  <2>2. Emptied
    BY <2>1 DEF Emptied, Destroy
  <2>3. raced' \in BOOLEAN /\ (~raced' => ~raced /\ (stored = NoJoin \/ ~ClosedTooEarly))
    BY <2>1
  <2>4. QED
    BY <2>1, <2>2, <2>3, LeaveStep
<1>2. ASSUME NEW n \in Line, DropTimesOut(n) PROVE VoiceInv'
  <2>1. /\ waiting' = waiting \ {n} /\ Emptied /\ line' = LineLeft
        /\ raced' = (raced \/ (stored # NoJoin /\ (lineOf[stored] # n \/ ClosedTooEarly)))
        /\ UNCHANGED <<call, lineOf, drops>>
    BY <1>2 DEF DropTimesOut, Emptied
  <2>2. raced' \in BOOLEAN /\ (~raced' => ~raced /\ (stored = NoJoin \/ ~ClosedTooEarly))
    BY <2>1
  <2>3. waiting' \subseteq waiting
    BY <2>1
  <2>4. QED
    BY <2>1, <2>2, <2>3, LeaveStep
<1>3. QED
  BY <1>1, <1>2

\* What changes one session j and no other
LEMMA SessionStep ==
  ASSUME VoiceInv, NEW j \in Join, UNCHANGED <<line, lineOf, waiting, raced>>,
         drops' \in 0 .. MaxDrops,
         rt' \in [Join -> RtState], transports' \in [Join -> Nat], actions' \in [Join -> Deferred],
         call' \in [Join -> {"none", "joining", "building", "done", "failed"}],
         Cardinality(Called) <= Cardinality(Called'),
         stored' = stored \/ (stored' = j /\ call[j] = "building" /\ call'[j] = "done"),
         \A k \in Join : k # j => /\ rt'[k] = rt[k] /\ transports'[k] = transports[k]
                                  /\ actions'[k] = actions[k] /\ call'[k] = call[k],
         actions'[j].queued <= actions'[j].captured, transports'[j] <= 1,
         rt'[j].is \in {"none", "instructing", "pausing"} => transports'[j] = 0,
         call'[j] \in {"none", "joining"} => rt'[j].is = "none",
         ~raced => /\ call'[j] \in {"joining", "building"} => call[j] \in {"joining", "building"}
                   /\ stored = j => call'[j] = "done"
                   /\ stored' # j => actions'[j].queued = 0
                   /\ call'[j] = "building" => rt'[j].is \in {"instructing", "connecting"}
                   /\ call'[j] \in {"done", "failed"} /\ stored' # j =>
                        rt'[j].is = "none" \/ (rt'[j].is = "pausing" /\ rt'[j].closing)
  PROVE  VoiceInv'
<1>1. /\ VoiceTypeOK /\ Transport /\ Unbuilt /\ (~raced => Unraced)
      /\ line.id <= Cardinality(Called) /\ \A k \in Join : actions[k].queued <= actions[k].captured
  BY DEF VoiceInv, Typed
<1>2. stored' \in Join \cup {NoJoin}
  BY <1>1, Types
<1>3. VoiceTypeOK'
  BY <1>1, <1>2 DEF VoiceTypeOK, RtState, RtIs, Deferred
<1>4. line'.id <= Cardinality(Called')
  <2>1. line.id \in Nat /\ line' = line
    BY <1>1, CalledCount DEF VoiceTypeOK, Line
  <2>2. Cardinality(Called) \in Nat /\ Cardinality(Called') \in Nat
    <3>1. Called' \subseteq Join /\ IsFiniteSet(Join)
      BY VoiceAssumption DEF Called, VoiceAssumption
    <3>2. QED
      BY <3>1, CalledCount, FS_Subset, FS_CardinalityType
  <2>3. QED
    BY <1>1, <2>1, <2>2
<1>5. Typed' /\ Transport' /\ Unbuilt'
  BY <1>1, <1>3, <1>4 DEF Typed, Transport, Unbuilt
<1>6. ASSUME ~raced' PROVE Unraced'
  <2>1. Unraced /\ ~raced
    BY <1>1, <1>6
  <2>2. Joining' \subseteq Joining
    BY <2>1 DEF Joining
  <2>3. \A i \in Joining' : stored' = NoJoin /\ \A k \in Joining' : k = i
    <3>1. CASE stored' = stored
      BY <2>1, <2>2, <3>1 DEF Unraced
    <3>2. CASE stored' = j /\ call[j] = "building" /\ call'[j] = "done"
      <4>1. j \in Joining /\ j \notin Joining'
        BY <3>2 DEF Joining
      <4>2. Joining' = {}
        BY <2>1, <2>2, <4>1 DEF Unraced
      <4>3. QED
        BY <4>2
    <3>3. QED
      BY <3>1, <3>2
  <2>4. stored' # NoJoin => call'[stored'] = "done"
    BY <1>2, <2>1 DEF Unraced
  <2>5. ASSUME NEW k \in Join
        PROVE /\ stored' # k => actions'[k].queued = 0
              /\ call'[k] \in {"none", "joining"} => rt'[k].is = "none"
              /\ call'[k] = "building" => rt'[k].is \in {"instructing", "connecting"}
              /\ call'[k] \in {"done", "failed"} /\ stored' # k =>
                   rt'[k].is = "none" \/ (rt'[k].is = "pausing" /\ rt'[k].closing)
    <3>1. CASE k = j
      BY <2>1, <3>1
    <3>2. CASE k # j
      <4>1. stored' # k => stored # k \/ (j \in Joining /\ stored = NoJoin)
        BY <2>1 DEF Unraced, Joining
      <4>2. stored' # k => stored # k
        BY <2>1, <3>2, <4>1, Types, <1>1 DEF Unraced
      <4>3. QED
        BY <2>1, <3>2, <4>2 DEF Unraced
    <3>3. QED
      BY <3>1, <3>2
  <2>6. QED
    BY <2>3, <2>4, <2>5 DEF Unraced
<1>7. QED
  BY <1>5, <1>6 DEF VoiceInv

LEMMA VoiceInvTypes ==
  ASSUME VoiceInv, NEW j \in Join
  PROVE  /\ VoiceTypeOK /\ rt \in [Join -> RtState] /\ actions \in [Join -> Deferred]
         /\ transports \in [Join -> Nat]
         /\ call \in [Join -> {"none", "joining", "building", "done", "failed"}]
         /\ drops \in 0 .. MaxDrops
         /\ actions[j].queued <= actions[j].captured /\ transports[j] <= 1
         /\ rt[j].is \in {"none", "instructing", "pausing"} => transports[j] = 0
         /\ call[j] \in {"none", "joining"} => rt[j].is = "none"
         /\ stored # NoJoin /\ ~raced => call[stored] = "done"
         /\ ~raced => /\ stored # j => actions[j].queued = 0
                      /\ call[j] = "building" => rt[j].is \in {"instructing", "connecting"}
                      /\ call[j] \in {"done", "failed"} /\ stored # j =>
                           rt[j].is = "none" \/ (rt[j].is = "pausing" /\ rt[j].closing)
                      /\ stored = j => call[j] = "done"
<1>1. VoiceTypeOK /\ stored # NoJoin /\ ~raced => call[stored] = "done"
  BY DEF VoiceInv, Unraced
<1>2. NoJoin \notin Join
  BY VoiceAssumption DEF VoiceAssumption
<1>3. QED
  BY <1>1, <1>2, Types DEF VoiceInv, Typed, Transport, Unbuilt, Unraced, VoiceTypeOK

\* A call that begins or goes on
LEMMA CallStep ==
  ASSUME VoiceInv, NEW j \in Join, joinSame(j) \/ LineReady(j) \/ LineFails(j)
  PROVE  VoiceInv'
<1>1. CASE joinSame(j)
  <2>1. /\ call[j] = "none" /\ call' = [call EXCEPT ![j] = "failed"]
        /\ UNCHANGED <<stored, line, lineOf, waiting, rt, transports, actions, drops, raced>>
    BY <1>1 DEF joinSame
  <2>2. Cardinality(Called') = Cardinality(Called) + 1
    BY <2>1, VoiceInvTypes, CalledMore
  <2>3. Cardinality(Called) <= Cardinality(Called')
    BY <2>2, CalledCount
  <2>4. /\ call' \in [Join -> {"none", "joining", "building", "done", "failed"}]
        /\ call'[j] = "failed" /\ \A k \in Join : k # j => call'[k] = call[k]
    BY <2>1, VoiceInvTypes
  <2>5. QED
    BY <2>1, <2>3, <2>4, VoiceInvTypes, SessionStep
<1>2. CASE LineReady(j)
  <2>1. /\ call[j] = "joining" /\ call' = [call EXCEPT ![j] = "building"]
        /\ rt' = [rt EXCEPT ![j].is = "instructing"]
        /\ UNCHANGED <<stored, line, lineOf, waiting, transports, actions, drops, raced>>
    BY <1>2 DEF LineReady
  <2>2. Called' = Called
    BY <2>1, VoiceInvTypes, CalledSame
  <2>3. Cardinality(Called) <= Cardinality(Called')
    BY <2>2, CalledCount
  <2>4. /\ call' \in [Join -> {"none", "joining", "building", "done", "failed"}]
        /\ call'[j] = "building" /\ \A k \in Join : k # j => call'[k] = call[k]
    BY <2>1, VoiceInvTypes
  <2>5. /\ rt' \in [Join -> RtState] /\ rt'[j].is = "instructing"
        /\ \A k \in Join : k # j => rt'[k] = rt[k]
    <3>1. rt \in [Join -> RtState]
      BY VoiceInvTypes
    <3>2. QED
      BY <2>1, <3>1 DEF RtState, RtIs
  <2>6. transports[j] = 0 /\ (stored = j => raced)
    BY <2>1, VoiceInvTypes
  <2>7. QED
    BY <2>1, <2>3, <2>4, <2>5, <2>6, VoiceInvTypes, SessionStep
<1>3. CASE LineFails(j)
  <2>1. /\ call[j] = "joining" /\ call' = [call EXCEPT ![j] = "failed"]
        /\ UNCHANGED <<stored, line, lineOf, waiting, rt, transports, actions, drops, raced>>
    BY <1>3 DEF LineFails
  <2>2. Called' = Called
    BY <2>1, VoiceInvTypes, CalledSame
  <2>3. Cardinality(Called) <= Cardinality(Called')
    BY <2>2, CalledCount
  <2>4. /\ call' \in [Join -> {"none", "joining", "building", "done", "failed"}]
        /\ call'[j] = "failed" /\ \A k \in Join : k # j => call'[k] = call[k]
    BY <2>1, VoiceInvTypes
  <2>5. QED
    BY <2>1, <2>3, <2>4, VoiceInvTypes, SessionStep
<1>4. QED
  BY <1>1, <1>2, <1>3

\* A session that connects
LEMMA ConnectStep ==
  ASSUME VoiceInv, NEW j \in Join, OpenTransport(j) \/ Connected(j) \/ ConnectFails(j)
  PROVE  VoiceInv'
<1>1. CASE OpenTransport(j)
  <2>1. /\ rt[j].is = "instructing" /\ rt' = [rt EXCEPT ![j].is = "connecting"]
        /\ transports' = [transports EXCEPT ![j] = @ + 1]
        /\ UNCHANGED <<call, stored, line, lineOf, waiting, actions, drops, raced>>
    BY <1>1 DEF OpenTransport
  <2>2. Cardinality(Called) <= Cardinality(Called')
    BY <2>1, CalledCount DEF Called
  <2>3. /\ rt' \in [Join -> RtState] /\ rt'[j].is = "connecting"
        /\ \A k \in Join : k # j => rt'[k] = rt[k]
    <3>1. rt \in [Join -> RtState]
      BY VoiceInvTypes
    <3>2. QED
      BY <2>1, <3>1 DEF RtState, RtIs
  <2>4. /\ transports' \in [Join -> Nat] /\ transports'[j] = 1
        /\ \A k \in Join : k # j => transports'[k] = transports[k]
    BY <2>1, VoiceInvTypes
  <2>5. QED
    BY <2>1, <2>2, <2>3, <2>4, VoiceInvTypes, SessionStep
<1>2. CASE Connected(j)
  <2>1. /\ rt[j].is = "connecting"
        /\ rt' = [rt EXCEPT ![j].is = "up", ![j].reconnecting = FALSE]
        /\ IF call[j] = "building" THEN stored' = j /\ call' = [call EXCEPT ![j] = "done"]
           ELSE UNCHANGED <<stored, call>>
        /\ UNCHANGED <<line, lineOf, waiting, transports, actions, drops, raced>>
    BY <1>2 DEF Connected
  <2>2. Called' = Called
    BY <2>1, VoiceInvTypes, CalledSame
  <2>3. Cardinality(Called) <= Cardinality(Called')
    BY <2>2, CalledCount
  <2>4. /\ rt' \in [Join -> RtState] /\ rt'[j].is = "up"
        /\ \A k \in Join : k # j => rt'[k] = rt[k]
    <3>1. rt \in [Join -> RtState]
      BY VoiceInvTypes
    <3>2. QED
      BY <2>1, <3>1 DEF RtState, RtIs
  <2>5. CASE call[j] = "building"
    <3>1. /\ call' \in [Join -> {"none", "joining", "building", "done", "failed"}]
          /\ call'[j] = "done" /\ \A k \in Join : k # j => call'[k] = call[k]
      BY <2>1, <2>5, VoiceInvTypes
    <3>2. QED
      BY <2>1, <2>3, <2>4, <2>5, <3>1, VoiceInvTypes, SessionStep
  <2>6. CASE call[j] # "building"
    BY <2>1, <2>3, <2>4, <2>6, VoiceInvTypes, SessionStep
  <2>7. QED
    BY <2>5, <2>6
<1>3. CASE ConnectFails(j)
  <2> DEFINE c == IF call[j] = "building" THEN "failed" ELSE call[j]
  <2>1. /\ rt[j].is = "connecting"
        /\ rt' = [rt EXCEPT ![j].is = "none", ![j].reconnecting = FALSE]
        /\ transports' = Cleaned(j, transports)
        /\ call' = [call EXCEPT ![j] = c]
        /\ UNCHANGED <<stored, line, lineOf, waiting, actions, drops, raced>>
    BY <1>3 DEF ConnectFails
  <2>2. /\ call' \in [Join -> {"none", "joining", "building", "done", "failed"}]
        /\ call'[j] = c /\ \A k \in Join : k # j => call'[k] = call[k]
        /\ call[j] \in {"none", "joining", "building", "done", "failed"}
    BY <2>1, VoiceInvTypes
  <2>3. Called' = Called
    BY <2>2 DEF Called
  <2>4. Cardinality(Called) <= Cardinality(Called')
    BY <2>3, CalledCount
  <2>5. /\ rt' \in [Join -> RtState] /\ rt'[j].is = "none"
        /\ \A k \in Join : k # j => rt'[k] = rt[k]
    <3>1. rt \in [Join -> RtState]
      BY VoiceInvTypes
    <3>2. QED
      BY <2>1, <3>1 DEF RtState, RtIs
  <2>6. /\ transports' \in [Join -> Nat] /\ transports'[j] = 0
        /\ \A k \in Join : k # j => transports'[k] = transports[k]
    BY <2>1, VoiceInvTypes DEF Cleaned
  <2>7. QED
    BY <2>1, <2>2, <2>4, <2>5, <2>6, VoiceInvTypes, SessionStep
<1>4. QED
  BY <1>1, <1>2, <1>3

\* A session that loses its transport, connects anew, or defers an action
LEMMA UpStep ==
  ASSUME VoiceInv, NEW j \in Join, handleDisconnect(j) \/ Reconnect(j) \/ defer(j)
  PROVE  VoiceInv'
<1>1. CASE handleDisconnect(j)
  <2>1. /\ rt[j].is = "up" /\ drops < MaxDrops /\ drops' = drops + 1
        /\ rt' = [rt EXCEPT ![j].is = "pausing", ![j].reconnecting = TRUE]
        /\ transports' = Cleaned(j, transports)
        /\ UNCHANGED <<call, stored, line, lineOf, waiting, actions, raced>>
    BY <1>1 DEF handleDisconnect
  <2>2. Cardinality(Called) <= Cardinality(Called')
    BY <2>1, CalledCount DEF Called
  <2>3. /\ rt' \in [Join -> RtState] /\ rt'[j].is = "pausing"
        /\ \A k \in Join : k # j => rt'[k] = rt[k]
    <3>1. rt \in [Join -> RtState]
      BY VoiceInvTypes
    <3>2. QED
      BY <2>1, <3>1 DEF RtState, RtIs
  <2>4. /\ transports' \in [Join -> Nat] /\ transports'[j] = 0
        /\ \A k \in Join : k # j => transports'[k] = transports[k]
    BY <2>1, VoiceInvTypes DEF Cleaned
  <2>5. drops' \in 0 .. MaxDrops
    BY <2>1, VoiceInvTypes, VoiceAssumption DEF VoiceAssumption
  <2>6. QED
    BY <2>1, <2>2, <2>3, <2>4, <2>5, VoiceInvTypes, SessionStep
<1>2. CASE Reconnect(j)
  <2> DEFINE i == IF rt[j].closing THEN "none" ELSE "instructing"
  <2>1. /\ rt[j].is = "pausing" /\ rt' = [rt EXCEPT ![j].is = i]
        /\ UNCHANGED <<call, stored, line, lineOf, waiting, transports, actions, drops, raced>>
    BY <1>2 DEF Reconnect
  <2>2. Cardinality(Called) <= Cardinality(Called')
    BY <2>1, CalledCount DEF Called
  <2>3. i \in RtIs
    BY DEF RtIs
  <2>4. /\ rt' \in [Join -> RtState] /\ rt'[j].is = i
        /\ \A k \in Join : k # j => rt'[k] = rt[k]
    <3> HIDE DEF i
    <3>1. rt \in [Join -> RtState]
      BY VoiceInvTypes
    <3>2. QED
      BY <2>1, <2>3, <3>1 DEF RtState
  <2>5. QED
    BY <2>1, <2>2, <2>4, VoiceInvTypes, SessionStep
<1>3. CASE defer(j)
  <2> DEFINE q == [captured |-> actions[j].captured + 1, queued |-> actions[j].queued + 1]
  <2>1. /\ rt[j].is = "up" /\ actions[j].captured < MaxActions
        /\ actions' = [actions EXCEPT ![j] = q]
        /\ UNCHANGED <<call, stored, line, lineOf, waiting, rt, transports, drops, raced>>
    BY <1>3 DEF defer
  <2>2. Cardinality(Called) <= Cardinality(Called')
    BY <2>1, CalledCount DEF Called
  <2>3. q \in Deferred /\ q.queued <= q.captured
    <3>1. /\ actions[j].captured \in 0 .. MaxActions /\ actions[j].queued \in 0 .. MaxActions
          /\ actions[j].queued <= actions[j].captured /\ MaxActions \in Nat
      BY VoiceInvTypes, VoiceAssumption DEF Deferred, VoiceAssumption
    <3>2. /\ actions[j].captured + 1 \in 0 .. MaxActions /\ actions[j].queued + 1 \in 0 .. MaxActions
          /\ actions[j].queued + 1 <= actions[j].captured + 1
      BY <2>1, <3>1
    <3>3. QED
      BY <3>2 DEF Deferred
  <2> HIDE DEF q
  <2>4. /\ actions' \in [Join -> Deferred] /\ actions'[j] = q
        /\ \A k \in Join : k # j => actions'[k] = actions[k]
    BY <2>1, <2>3, VoiceInvTypes
  <2>5. QED
    BY <2>1, <2>2, <2>3, <2>4, VoiceInvTypes, SessionStep
<1>4. QED
  BY <1>1, <1>2, <1>3

\* The connection to Discord, and nothing else
LEMMA LineStep == ASSUME VoiceInv, LineDrops \/ LineRecovers PROVE VoiceInv'
<1>1. /\ UNCHANGED <<call, stored, lineOf, rt, transports, actions, raced>>
      /\ line'.id = line.id /\ line' \in [id : Line, is : {"none", "live", "dropped"}]
      /\ waiting' \subseteq Line /\ drops' \in 0 .. MaxDrops
  <2>1. VoiceTypeOK
    BY DEF VoiceInv, Typed
  <2>2. CASE LineDrops
    BY <2>1, <2>2, VoiceAssumption DEF LineDrops, VoiceTypeOK, VoiceAssumption
  <2>3. CASE LineRecovers
    BY <2>1, <2>3 DEF LineRecovers, VoiceTypeOK
  <2>4. QED
    BY <2>2, <2>3
<1>2. VoiceTypeOK'
  BY <1>1 DEF VoiceInv, Typed, VoiceTypeOK
<1>3. QED
  BY <1>1, <1>2 DEF VoiceInv, Typed, Called, Transport, Unbuilt, Unraced, Joining

LEMMA VoiceInvInit == ASSUME VoiceInit PROVE VoiceInv
<1>1. 0 \in Line /\ 0 \in 0 .. MaxActions /\ 0 \in 0 .. MaxDrops
  BY CalledCount, VoiceAssumption DEF Line, VoiceAssumption
<1>2. VoiceTypeOK
  BY <1>1 DEF VoiceInit, VoiceTypeOK
<1>3. Typed
  BY <1>2, CalledCount DEF VoiceInit, Typed
<1>4. QED
  BY <1>3 DEF VoiceInit, VoiceInv, Transport, Unbuilt, Unraced, Joining

LEMMA VoiceInvNext == ASSUME VoiceInv, [VoiceNext]_voiceVars PROVE VoiceInv'
<1>1. CASE UNCHANGED voiceVars
  BY <1>1 DEF voiceVars, VoiceInv, Typed, VoiceTypeOK, Called, Transport, Unbuilt, Unraced, Joining
<1>2. QED
  BY <1>1, JoinStep, LeavesStep, CallStep, ConnectStep, UpStep, LineStep DEF VoiceNext

LEMMA VoiceInvHolds == VoiceSpec => []VoiceInv
<1>1. VoiceInit => VoiceInv
  BY VoiceInvInit
<1>2. VoiceInv /\ [VoiceNext]_voiceVars => VoiceInv'
  BY VoiceInvNext
<1>3. QED
  BY <1>1, <1>2, PTL DEF VoiceSpec

----------------------------------------------------------------------------
(* Theorems *)

\* The manager's state has its type: no call of join makes more than one
\* connection, and no queue holds more actions than were captured.
THEOREM VoiceTypeCorrect == VoiceSpec => []VoiceTypeOK
<1>1. VoiceInv => VoiceTypeOK
  BY DEF VoiceInv, Typed
<1>2. QED
  BY <1>1, VoiceInvHolds, PTL

\* Unless joins overlapped or a session was closed while it connected, only the
\* session of the guild, or the one that a join builds, is connected to OpenAI,
\* and once; and no session that is gone has left an action in its queue (join,
\* leave, handleDisconnect).
THEOREM NoneOrphaned == VoiceSpec => []NothingOrphaned
<1>1. VoiceInv => NothingOrphaned
  <2>1. SUFFICES ASSUME VoiceInv, NEW j \in Join
                 PROVE  /\ transports[j] <= 1
                        /\ ~raced /\ stored # j /\ call[j] # "building" =>
                             transports[j] = 0 /\ actions[j].queued = 0
    BY DEF NothingOrphaned
  <2>2. call[j] \in {"none", "joining", "building", "done", "failed"}
    BY <2>1, VoiceInvTypes
  <2>3. QED
    BY <2>1, <2>2, VoiceInvTypes
<1>2. QED
  BY <1>1, VoiceInvHolds, PTL

----------------------------------------------------------------------------
(* The processes *)

Place == {"none", "spawned", "claiming", "starting", "bound", "ready",
          "draining", "closing", "standby", "gone"}
Command == [kind : Kind, pc : {"start", "probe", "launch", "loading", "watch", "stop", "wait",
                               "restart", "waitGone", "done"},
            pid : Pid \cup {NoPid}, alone : BOOLEAN]

\* A command that waits for a process has its pid.
Waits(c) == c.pc \in {"wait", "watch"} => c.pid \in Pid

Commands ==
  /\ commands \in Seq(Command) /\ Len(commands) <= MaxCommands
  /\ \A i \in DOMAIN commands : Waits(commands[i])

Pids ==
  /\ byLaunchd \subseteq Pid
  /\ watched \in [Pid -> Pid \cup {NoPid}]
  /\ pidFile \in Pid \cup {NoPid}
  /\ loaded \in BOOLEAN

Places ==
  /\ place \in [Pid -> Place]
  /\ reused \subseteq {p \in Pid : place[p] = "gone"}

Mishaps == mishaps \in [crash : Nat, reuse : Nat, silence : Nat]

ProcInv == Commands /\ Pids /\ Places /\ Mishaps

LEMMA CommandParts ==
  ASSUME Commands
  PROVE  /\ Len(commands) \in Nat /\ DOMAIN commands = 1 .. Len(commands)
         /\ commands \in [DOMAIN commands -> Command]
         /\ \A i \in DOMAIN commands : commands[i] \in Command
BY LenProperties, ElementOfSeq DEF Commands

\* One command goes on.
LEMMA CommandWritten ==
  ASSUME Commands, NEW i \in DOMAIN commands, NEW c \in Command, Waits(c),
         commands' = [commands EXCEPT ![i] = c]
  PROVE  Commands'
<1>1. /\ Len(commands) \in Nat /\ DOMAIN commands = 1 .. Len(commands)
      /\ commands \in [DOMAIN commands -> Command]
  BY CommandParts
<1>2. commands' \in [1 .. Len(commands) -> Command]
  BY <1>1
<1>3. commands' \in Seq(Command) /\ Len(commands') = Len(commands)
  BY <1>1, <1>2, SeqDef, LenProperties
<1>4. \A j \in DOMAIN commands' : Waits(commands'[j])
  BY <1>1 DEF Commands
<1>5. QED
  BY <1>3, <1>4 DEF Commands

\* It goes on to a step at which it waits for nobody.
LEMMA GoesOn ==
  ASSUME Commands, NEW i \in DOMAIN commands, NEW pc, Goes(i, pc),
         pc \in {"start", "probe", "launch", "loading", "stop", "restart", "waitGone", "done"}
  PROVE  Commands'
<1> DEFINE c == [commands[i] EXCEPT !.pc = pc]
<1>1. commands[i] \in Command
  BY CommandParts
<1>2. c \in Command /\ Waits(c)
  BY <1>1 DEF Command, Waits
<1>3. commands' = [commands EXCEPT ![i] = c]
  BY <1>1 DEF Goes
<1> HIDE DEF c
<1>4. QED
  BY <1>2, <1>3, CommandWritten

LEMMA StoppedOn ==
  ASSUME Commands, NEW i \in DOMAIN commands, Stopped(i)
  PROVE  Commands'
BY GoesOn DEF Stopped

\* It waits for a process.
LEMMA WaitsOn ==
  ASSUME Commands, NEW i \in DOMAIN commands, NEW p \in Pid, NEW pc \in {"wait", "watch"},
         commands' = [commands EXCEPT ![i].pc = pc, ![i].pid = p]
  PROVE  Commands'
<1> DEFINE c == [commands[i] EXCEPT !.pc = pc, !.pid = p]
<1>1. commands[i] \in Command /\ commands \in [DOMAIN commands -> Command]
  BY CommandParts
<1>2. c \in Command /\ Waits(c)
  BY <1>1 DEF Command, Waits
<1>3. commands' = [commands EXCEPT ![i] = c]
  BY <1>1
<1> HIDE DEF c
<1>4. QED
  BY <1>2, <1>3, CommandWritten

\* A process that is gone stays gone.
LEMMA PlaceWritten ==
  ASSUME Places, NEW p \in Pid, NEW new \in Place, place' = [place EXCEPT ![p] = new],
         place[p] # "gone" \/ new = "gone", reused' = reused
  PROVE  Places'
BY DEF Places

LEMMA TerminatedPlace ==
  ASSUME NEW p \in Pid, place \in [Pid -> Place]
  PROVE  Terminated(p) \in Place /\ (place[p] = "gone" => Terminated(p) = "gone")
BY DEF Terminated, Place

LEMMA UnloadedPlaces ==
  ASSUME place \in [Pid -> Place]
  PROVE  /\ Unloaded \in [Pid -> Place]
         /\ \A p \in Pid : place[p] = "gone" => Unloaded[p] = "gone"
BY TerminatedPlace DEF Unloaded

LEMMA ListeningPid ==
  ASSUME TRUE
  PROVE  getListeningPid \in Pid \cup {NoPid}
BY DEF getListeningPid, Serving

LEMMA KnownPid ==
  ASSUME Pids
  PROVE  getKnownPid \in Pid \cup {NoPid}
BY ListeningPid DEF getKnownPid, getRunningPid, Pids

----------------------------------------------------------------------------
(* The steps *)

LEMMA MishapOver ==
  ASSUME Mishaps,
         \/ mishaps' = mishaps
         \/ mishaps.crash > 0 /\ mishaps' = [mishaps EXCEPT !.crash = @ - 1]
         \/ mishaps.reuse > 0 /\ mishaps' = [mishaps EXCEPT !.reuse = @ - 1]
         \/ mishaps.silence > 0 /\ mishaps' = [mishaps EXCEPT !.silence = @ - 1]
  PROVE  Mishaps'
<1>1. mishaps.crash \in Nat /\ mishaps.reuse \in Nat /\ mishaps.silence \in Nat
  BY DEF Mishaps
<1>2. ASSUME NEW n \in Nat
      PROVE  /\ [mishaps EXCEPT !.crash = n] \in [crash : Nat, reuse : Nat, silence : Nat]
             /\ [mishaps EXCEPT !.reuse = n] \in [crash : Nat, reuse : Nat, silence : Nat]
             /\ [mishaps EXCEPT !.silence = n] \in [crash : Nat, reuse : Nat, silence : Nat]
  BY DEF Mishaps
<1>3. /\ mishaps.crash > 0 => mishaps.crash - 1 \in Nat
      /\ mishaps.reuse > 0 => mishaps.reuse - 1 \in Nat
      /\ mishaps.silence > 0 => mishaps.silence - 1 \in Nat
  BY <1>1
<1>4. QED
  BY <1>2, <1>3 DEF Mishaps

LEMMA ProcessKeeps ==
  ASSUME ProcInv, NEW p \in Pid, ProcessStep(p) \/ ProcCrash(p) \/ KeepAlive(p)
  PROVE  ProcInv'
<1>1. commands' = commands /\ loaded' = loaded /\ reused' = reused
  BY DEF ProcessStep, ProcCrash, KeepAlive, FindPrimary, FindNoPrimary, ClaimPidFile, Standby,
         Listen, BecomeReady, Drained, Closed
<1>2. Commands'
  BY <1>1 DEF ProcInv, Commands
<1>3. Mishaps'
  <2>1. \/ mishaps' = mishaps
        \/ mishaps.crash > 0 /\ mishaps' = [mishaps EXCEPT !.crash = @ - 1]
    BY DEF ProcessStep, ProcCrash, KeepAlive, FindPrimary, FindNoPrimary, ClaimPidFile, Standby,
           Listen, BecomeReady, Drained, Closed
  <2>2. QED
    BY <2>1, MishapOver DEF ProcInv
<1>4. Places'
  <2>1. PICK new \in Place : place' = [place EXCEPT ![p] = new] /\ (place[p] # "gone" \/ new = "gone")
    BY DEF ProcessStep, ProcCrash, KeepAlive, FindPrimary, FindNoPrimary, ClaimPidFile, Standby,
           Listen, BecomeReady, Drained, Closed, Unborn, Lives, Place
  <2>2. QED
    BY <1>1, <2>1, PlaceWritten DEF ProcInv
<1>5. Pids'
  <2>1. byLaunchd' \in {byLaunchd, byLaunchd \cup {p}}
    BY DEF ProcessStep, ProcCrash, KeepAlive, FindPrimary, FindNoPrimary, ClaimPidFile, Standby,
           Listen, BecomeReady, Drained, Closed
  <2>2. pidFile' \in {pidFile, NoPid, p}
    BY DEF ProcessStep, ProcCrash, KeepAlive, FindPrimary, FindNoPrimary, ClaimPidFile, Standby,
           Listen, BecomeReady, Drained, Closed
  <2>3. \/ watched' = watched
        \/ \E q \in {NoPid, pidFile} : watched' = [watched EXCEPT ![p] = q]
    BY DEF ProcessStep, ProcCrash, KeepAlive, FindPrimary, FindNoPrimary, ClaimPidFile, Standby,
           Listen, BecomeReady, Drained, Closed
  <2>4. QED
    BY <1>1, <2>1, <2>2, <2>3 DEF ProcInv, Pids
<1>6. QED
  BY <1>2, <1>3, <1>4, <1>5 DEF ProcInv

LEMMA ReuseKeeps ==
  ASSUME ProcInv, Reuse
  PROVE  ProcInv'
<1>1. Commands'
  BY DEF Reuse, ProcInv, Commands
<1>2. Mishaps'
  BY MishapOver DEF Reuse, ProcInv
<1>3. Places' /\ Pids'
  BY DEF Reuse, ProcInv, Places, Pids
<1>4. QED
  BY <1>1, <1>2, <1>3 DEF ProcInv

LEMMA BeginKeeps ==
  ASSUME ProcInv, NEW kind \in Kind, Begin(kind)
  PROVE  ProcInv'
<1>1. /\ Len(commands) \in Nat /\ DOMAIN commands = 1 .. Len(commands)
      /\ commands \in Seq(Command) /\ \A i \in DOMAIN commands : Waits(commands[i])
  BY CommandParts DEF ProcInv, Commands
<1> DEFINE first == IF kind \in {"stop", "restart"} THEN kind ELSE "start"
           c == [kind |-> kind, pid |-> NoPid, pc |-> first,
                 alone |-> \A i \in DOMAIN commands : commands[i].pc = "done"]
<1>2. first \in {"start", "stop", "restart"}
  OBVIOUS
<1> HIDE DEF first
<1>3. c \in Command /\ Waits(c)
  BY <1>2 DEF Command, Waits
<1>4. commands' = Append(commands, c) /\ Len(commands) < MaxCommands
  BY DEF Begin, first
<1> HIDE DEF c
<1>5. /\ commands' \in Seq(Command) /\ Len(commands') = Len(commands) + 1
      /\ DOMAIN commands' = 1 .. Len(commands) + 1
      /\ \A i \in 1 .. Len(commands) : commands'[i] = commands[i]
      /\ commands'[Len(commands) + 1] = c
  BY <1>1, <1>3, <1>4, AppendProperties, LenProperties
<1>6. Len(commands') <= MaxCommands
  <2>1. MaxCommands \in Nat
    BY ProcessesAssumption
  <2>2. QED
    BY <1>1, <1>4, <1>5, <2>1
<1>7. \A i \in DOMAIN commands' : Waits(commands'[i])
  <2>1. \A i \in DOMAIN commands' : i \in DOMAIN commands \/ i = Len(commands) + 1
    BY <1>1, <1>5
  <2>2. QED
    BY <1>1, <1>3, <1>5, <2>1
<1>8. Commands'
  BY <1>5, <1>6, <1>7 DEF Commands
<1>9. Places' /\ Pids' /\ Mishaps'
  BY DEF Begin, ProcInv, Places, Pids, Mishaps
<1>10. QED
  BY <1>8, <1>9 DEF ProcInv

LEMMA CommandKeeps ==
  ASSUME ProcInv, NEW i \in DOMAIN commands, CommandStep(i)
  PROVE  ProcInv'
<1>0. Commands /\ Pids /\ Places /\ Mishaps
  BY DEF ProcInv
<1>1. CASE LookForServer(i)
  <2>1. Commands'
    BY <1>0, <1>1, GoesOn DEF LookForServer
  <2>2. QED
    BY <1>0, <1>1, <2>1 DEF LookForServer, ProcInv, Places, Pids, Mishaps
<1>2. CASE ProbeServer(i)
  <2>1. Commands'
    BY <1>0, <1>2, GoesOn DEF ProbeServer
  <2>2. Mishaps'
    BY <1>0, <1>2, MishapOver DEF ProbeServer, Answers
  <2>3. Places' /\ Pids'
    BY <1>0, <1>2 DEF ProbeServer, Places, Pids
  <2>4. QED
    BY <2>1, <2>2, <2>3 DEF ProcInv
<1>3. CASE LoadService(i)
  <2>1. Commands'
    BY <1>0, <1>3, GoesOn DEF LoadService
  <2>2. QED
    BY <1>0, <1>3, <2>1 DEF LoadService, ProcInv, Places, Pids, Mishaps
<1>4. CASE ServiceAnswers(i)
  <2>1. Commands'
    BY <1>0, <1>4, GoesOn DEF ServiceAnswers
  <2>2. QED
    BY <1>0, <1>4, <2>1 DEF ServiceAnswers, ProcInv, Places, Pids, Mishaps
<1>5. CASE WatchChild(i)
  <2>1. Commands'
    BY <1>0, <1>5, GoesOn DEF WatchChild
  <2>2. QED
    BY <1>0, <1>5, <2>1 DEF WatchChild, ProcInv, Places, Pids, Mishaps
<1>6. CASE Restart(i)
  <2>1. Commands'
    BY <1>0, <1>6, GoesOn DEF Restart
  <2>2. QED
    BY <1>0, <1>6, <2>1 DEF Restart, ProcInv, Places, Pids, Mishaps
<1>7. CASE StartAgain(i)
  <2>1. Commands'
    BY <1>0, <1>7, GoesOn DEF StartAgain
  <2>2. QED
    BY <1>0, <1>7, <2>1 DEF StartAgain, ProcInv, Places, Pids, Mishaps
<1>8. CASE StopKnown(i)
  <2> DEFINE pid == getKnownPid
  <2>1. pid \in Pid \cup {NoPid}
    BY <1>0, KnownPid
  <2>2. /\ Unloaded \in [Pid -> Place]
        /\ \A p \in Pid : place[p] = "gone" => Unloaded[p] = "gone"
    BY <1>0, UnloadedPlaces DEF Places
  <2>3. Pids' /\ Mishaps'
    BY <1>0, <1>8 DEF StopKnown, Pids, Mishaps
  <2>4. CASE pid = NoPid
    <3>1. Commands'
      BY <1>0, <1>8, <2>4, StoppedOn DEF StopKnown
    <3>2. place' = Unloaded /\ reused' = reused
      BY <1>8, <2>4 DEF StopKnown
    <3>3. Places'
      BY <1>0, <2>2, <3>2 DEF Places
    <3>4. QED
      BY <2>3, <3>1, <3>3 DEF ProcInv
  <2>5. CASE pid # NoPid
    <3>1. pid \in Pid
      BY <2>1, <2>5
    <3>2. /\ commands' = [commands EXCEPT ![i].pc = "wait", ![i].pid = pid]
          /\ place' = [Unloaded EXCEPT ![pid] = IF @ = place[pid] THEN Terminated(pid) ELSE @]
          /\ reused' = reused \ {pid}
      BY <1>8, <2>5 DEF StopKnown
    <3>3. /\ Terminated(pid) \in Place /\ (place[pid] = "gone" => Terminated(pid) = "gone")
      BY <1>0, <3>1, TerminatedPlace DEF Places
    <3> HIDE DEF pid
    <3>4. Commands'
      BY <1>0, <3>1, <3>2, WaitsOn
    <3>5. Places'
      BY <1>0, <2>2, <3>1, <3>2, <3>3 DEF Places
    <3>6. QED
      BY <2>3, <3>4, <3>5 DEF ProcInv
  <2>6. QED
    BY <2>4, <2>5
<1>9. CASE StopEnds(i)
  <2>1. commands[i].pid \in Pid
    BY <1>0, <1>9 DEF StopEnds, Commands, Waits
  <2>2. Commands'
    BY <1>0, <1>9, StoppedOn DEF StopEnds
  <2>3. Places'
    BY <1>0, <1>9, <2>1 DEF StopEnds, Places, Place
  <2>4. Pids' /\ Mishaps'
    BY <1>0, <1>9 DEF StopEnds, Pids, Mishaps
  <2>5. QED
    BY <2>2, <2>3, <2>4 DEF ProcInv
<1>10. ASSUME NEW p \in Pid, Launch(i, p) \/ ServiceSilent(i, p) PROVE ProcInv'
  <2>1. /\ Unborn(p) /\ commands' = [commands EXCEPT ![i].pc = "watch", ![i].pid = p]
        /\ \/ place' = [place EXCEPT ![p] = "spawned"] /\ loaded' = loaded
           \/ place' = [Unloaded EXCEPT ![p] = "spawned"] /\ loaded' = FALSE
        /\ UNCHANGED <<byLaunchd, watched, pidFile, reused, mishaps>>
    BY <1>10 DEF Launch, ServiceSilent, SpawnMain
  <2>2. Commands'
    BY <1>0, <2>1, WaitsOn
  <2>3. /\ Unloaded \in [Pid -> Place]
        /\ \A q \in Pid : place[q] = "gone" => Unloaded[q] = "gone"
    BY <1>0, UnloadedPlaces DEF Places
  <2>4. Places'
    BY <1>0, <2>1, <2>3 DEF Places, Place, Unborn
  <2>5. Pids' /\ Mishaps'
    BY <1>0, <2>1 DEF Pids, Mishaps
  <2>6. QED
    BY <2>2, <2>4, <2>5 DEF ProcInv
<1>11. QED
  BY <1>1, <1>2, <1>3, <1>4, <1>5, <1>6, <1>7, <1>8, <1>9, <1>10 DEF CommandStep

\* Every process is at one place of its life, the PID file names a process or
\* is missing, and a command that waits has a process to wait for (main.ts,
\* lobs.ts).
THEOREM ProcTypeCorrect == ProcSpec => []ProcTypeOK
<1>1. ProcInit => ProcInv
  <2> SUFFICES ASSUME ProcInit PROVE ProcInv
    OBVIOUS
  <2>1. Mishaps
    <3>1. MaxProcCrashes \in Nat /\ MaxReuses \in Nat /\ MaxSilences \in Nat
      BY ProcessesAssumption
    <3>2. PICK c \in 0 .. MaxProcCrashes, r \in 0 .. MaxReuses, s \in 0 .. MaxSilences :
            mishaps = [crash |-> c, reuse |-> r, silence |-> s]
      BY DEF ProcInit
    <3>3. c \in Nat /\ r \in Nat /\ s \in Nat
      BY <3>1
    <3>4. QED
      BY <3>2, <3>3 DEF Mishaps
  <2>2. Commands
    <3>1. MaxCommands \in Nat
      BY ProcessesAssumption
    <3>2. commands = <<>>
      BY DEF ProcInit
    <3>3. QED
      BY <3>1, <3>2 DEF Commands
  <2>3. Places /\ Pids
    BY DEF ProcInit, Places, Pids, Place
  <2>4. QED
    BY <2>1, <2>2, <2>3 DEF ProcInv
<1>2. ProcInv /\ [ProcNext]_procVars => ProcInv'
  <2> SUFFICES ASSUME ProcInv, [ProcNext]_procVars PROVE ProcInv'
    OBVIOUS
  <2>1. CASE UNCHANGED procVars
    BY <2>1 DEF procVars, ProcInv, Commands, Places, Pids, Mishaps
  <2>2. CASE ProcNext
    BY <2>2, ProcessKeeps, CommandKeeps, BeginKeeps, ReuseKeeps DEF ProcNext
  <2>3. QED
    BY <2>1, <2>2
<1>3. ProcInv => ProcTypeOK
  <2> SUFFICES ASSUME ProcInv PROVE ProcTypeOK
    OBVIOUS
  <2>1. \A i \in DOMAIN commands : commands[i] \in Command
    BY CommandParts DEF ProcInv
  <2>2. QED
    BY <2>1 DEF ProcInv, Commands, Pids, Places, Mishaps, Place, Command, ProcTypeOK
<1>4. QED
  BY <1>1, <1>2, <1>3, PTL DEF ProcSpec

----------------------------------------------------------------------------
(* The modules side by side *)

\* Each part takes its own steps, whatever the others do.
LEMMA SideBySide ==
  /\ ServicesInit => /\ CronInit /\ LoopInit /\ IntelInit /\ ProcInit
                     /\ MeetingInit /\ VoiceInit /\ MemoryInit
  /\ [ServicesNext]_ServicesVars =>
       /\ [CronNext]_cronVars /\ [LoopNext]_loopVars /\ [IntelNext]_intelVars
       /\ [ProcNext]_procVars /\ [MeetingNext]_meetingVars /\ [VoiceNext]_voiceVars
       /\ [MemoryNext]_memoryVars
<1>1. ServicesInit => /\ CronInit /\ LoopInit /\ IntelInit /\ ProcInit
                      /\ MeetingInit /\ VoiceInit /\ MemoryInit
  BY Zenon DEF ServicesInit
<1>2. ASSUME [ServicesNext]_ServicesVars
      PROVE  /\ [CronNext]_cronVars /\ [LoopNext]_loopVars /\ [IntelNext]_intelVars
             /\ [ProcNext]_procVars /\ [MeetingNext]_meetingVars /\ [VoiceNext]_voiceVars
             /\ [MemoryNext]_memoryVars
  <2>1. CASE UNCHANGED ServicesVars
    BY <2>1, Zenon DEF ServicesVars
  <2>2. CASE ServicesNext
    BY <2>2, Zenon DEF ServicesNext
  <2>3. QED
    BY <1>2, <2>1, <2>2
<1>3. QED
  BY <1>1, <1>2

\* The composition implements each of its parts, so that what is proved of a
\* part holds of it.
LEMMA PartsImplemented ==
  ServicesSpec => /\ CronSpec /\ LoopSpec /\ IntelSpec /\ ProcSpec
                  /\ MeetingSpec /\ VoiceSpec /\ MemorySpec
<1>1. ServicesSpec => CronSpec /\ LoopSpec /\ IntelSpec
  BY SideBySide, PTL DEF ServicesSpec, CronSpec, LoopSpec, IntelSpec
<1>2. ServicesSpec => ProcSpec /\ MeetingSpec /\ VoiceSpec /\ MemorySpec
  BY SideBySide, PTL DEF ServicesSpec, ProcSpec, MeetingSpec, VoiceSpec, MemorySpec
<1>3. QED
  BY <1>1, <1>2

\* The counters, clocks, tables and places of the services keep the values that
\* their modules give them, with any number of jobs, runs, items, processes,
\* chunks, calls and memories.
THEOREM ServicesTypesKept == ServicesSpec => []ServicesTypeOK
<1>1. CronTypeOK /\ LoopTypeOK /\ IntelTypeOK /\ ProcTypeOK /\ MeetingTypeOK /\ VoiceTypeOK
        /\ MemoryTypeOK => ServicesTypeOK
  BY DEF ServicesTypeOK
<1>2. QED
  BY <1>1, PartsImplemented, CronTypeCorrect, LoopTypeCorrect, IntelTypeCorrect, ProcTypeCorrect,
     MeetingTypeCorrect, VoiceTypeCorrect, MemoryTypeCorrect, PTL
=============================================================================
