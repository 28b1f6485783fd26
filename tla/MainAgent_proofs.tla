-------------------------- MODULE MainAgent_proofs --------------------------
(* Theorems of MainAgent, for every value of its constants. *)
EXTENDS MainAgent, FiniteSetTheorems, TLAPS

-----------------------------------------------------------------------------
(* The runs of one channel *)

\* A channel without a run has not timed out, and a held one has a run.
Sound(k) == /\ k.stage = "none" => ~k.timedOut
            /\ k.held => k.stage # "none" /\ ~k.timedOut

LEMMA SupersededRun ==
  ASSUME NEW k \in Run
  PROVE  /\ Superseded(k) \in Run /\ Superseded(k).held = k.held
         /\ Sound(k) => Superseded(k).stage = "none" /\ ~Superseded(k).timedOut
<1>1. CASE k.stage = "none"
  BY <1>1 DEF Superseded, Sound
<1>2. CASE k.stage # "none" /\ k.timedOut
  <2>1. Superseded(k) = [k EXCEPT !.stage = "none", !.timedOut = FALSE,
                                  !.fired = k.fired + 1]
    BY <1>2 DEF Superseded
  <2>2. k.fired + 1 \in Nat
    BY DEF Run
  <2>3. Superseded(k) \in Run /\ Superseded(k).held = k.held
    BY <2>1, <2>2 DEF Run
  <2>4. Superseded(k).stage = "none" /\ Superseded(k).timedOut = FALSE
    BY <2>1 DEF Run
  <2>5. QED
    BY <2>3, <2>4
<1>3. CASE k.stage # "none" /\ ~k.timedOut
  <2>1. Superseded(k) = [k EXCEPT !.stage = "none", !.armed = k.armed + 1]
    BY <1>3 DEF Superseded
  <2>2. k.armed + 1 \in Nat
    BY DEF Run
  <2>3. Superseded(k) \in Run /\ Superseded(k).held = k.held
    BY <2>1, <2>2 DEF Run
  <2>4. Superseded(k).stage = "none" /\ Superseded(k).timedOut = k.timedOut
    BY <2>1 DEF Run
  <2>5. QED
    BY <1>3, <2>3, <2>4
<1>4. QED
  BY <1>1, <1>2, <1>3

LEMMA BegunRun ==
  ASSUME NEW k \in Run
  PROVE  /\ Begun(k) \in Run /\ Begun(k).held
         /\ Sound(k) => Sound(Begun(k))
<1> DEFINE s == Superseded(k)
<1>1. s \in Run /\ (Sound(k) => ~s.timedOut)
  BY SupersededRun
<1>2. Begun(k) = [s EXCEPT !.held = TRUE, !.stage = "typing"]
  BY DEF Begun
<1> HIDE DEF s
<1>3. QED
  BY <1>1, <1>2 DEF Run, Sound

LEMMA AbandonedRun ==
  ASSUME NEW k \in Run
  PROVE  /\ Abandoned(k) \in Run /\ ~Abandoned(k).held
         /\ Sound(k) => Sound(Abandoned(k))
<1> DEFINE s == Superseded(k)
<1>1. s \in Run /\ (Sound(k) => s.stage = "none" /\ ~s.timedOut)
  BY SupersededRun
<1>2. Abandoned(k) = [s EXCEPT !.held = FALSE]
  BY DEF Abandoned
<1> HIDE DEF s
<1>3. QED
  BY <1>1, <1>2 DEF Run, Sound

LEMMA EndedRun ==
  ASSUME NEW k \in Run
  PROVE  Ended(k) \in Run /\ ~Ended(k).held /\ Sound(Ended(k))
  BY DEF Ended, Run, Sound

\* The channels' runs are of their type, and sound.
ConvInv == conv \in [Channel -> Run] /\ \A c \in Channel : Sound(conv[c])

LEMMA OneRunChanges ==
  ASSUME ConvInv, NEW c \in Channel, NEW k \in Run, Sound(k),
         conv' = [conv EXCEPT ![c] = k]
  PROVE  ConvInv'
  BY DEF ConvInv

\* The actions that change the fields of one run in place
LEMMA FieldsChange ==
  ASSUME NEW k \in Run, Sound(k)
  PROVE  /\ k.stage # "none" =>
              /\ [k EXCEPT !.stage = "working"] \in Run
              /\ Sound([k EXCEPT !.stage = "working"])
              /\ [k EXCEPT !.timedOut = TRUE, !.held = FALSE] \in Run
              /\ Sound([k EXCEPT !.timedOut = TRUE, !.held = FALSE])
         /\ k.armed > 0 =>
              /\ [k EXCEPT !.armed = k.armed - 1] \in Run
              /\ Sound([k EXCEPT !.armed = k.armed - 1])
         /\ k.fired > 0 =>
              /\ [k EXCEPT !.fired = k.fired - 1] \in Run
              /\ Sound([k EXCEPT !.fired = k.fired - 1])
<1>1. ASSUME k.stage # "none"
      PROVE  /\ [k EXCEPT !.stage = "working"] \in Run
             /\ Sound([k EXCEPT !.stage = "working"])
  BY <1>1 DEF Run, Sound
<1>2. ASSUME k.stage # "none"
      PROVE  /\ [k EXCEPT !.timedOut = TRUE, !.held = FALSE] \in Run
             /\ Sound([k EXCEPT !.timedOut = TRUE, !.held = FALSE])
  BY <1>2 DEF Run, Sound
<1>3. ASSUME k.armed > 0
      PROVE  /\ [k EXCEPT !.armed = k.armed - 1] \in Run
             /\ Sound([k EXCEPT !.armed = k.armed - 1])
  <2>1. k.armed - 1 \in Nat
    BY <1>3 DEF Run
  <2>2. QED
    BY <2>1 DEF Run, Sound
<1>4. ASSUME k.fired > 0
      PROVE  /\ [k EXCEPT !.fired = k.fired - 1] \in Run
             /\ Sound([k EXCEPT !.fired = k.fired - 1])
  <2>1. k.fired - 1 \in Nat
    BY <1>4 DEF Run
  <2>2. QED
    BY <2>1 DEF Run, Sound
<1>5. QED
  BY <1>1, <1>2, <1>3, <1>4

\* The timer of a superseded run fires.
LEMMA TimerFires ==
  ASSUME NEW k \in Run, Sound(k), k.armed > 0
  PROVE  LET f == [k EXCEPT !.armed = k.armed - 1, !.fired = k.fired + 1, !.held = FALSE]
         IN  f \in Run /\ Sound(f)
<1>1. k.armed - 1 \in Nat /\ k.fired + 1 \in Nat
  BY DEF Run
<1>2. QED
  BY <1>1 DEF Run, Sound

LEMMA RunsBegin ==
  ASSUME NEW base, base \in [Channel -> Run], \A c \in Channel : Sound(base[c]),
         NEW D \in SUBSET Channel,
         conv' = [d \in Channel |-> IF d \in D THEN Begun(base[d]) ELSE base[d]]
  PROVE  ConvInv'
<1>1. \A d \in Channel : conv'[d] \in Run /\ Sound(conv'[d])
  BY BegunRun
<1>2. QED
  BY <1>1 DEF ConvInv

-----------------------------------------------------------------------------
(* The step of every action on the runs *)

LEMMA ConvInit == Init => ConvInv
  BY DEF Init, ConvInv, NoRun, Run, Sound

LEMMA ConvStep ==
  ASSUME ChannelAssumption, ConvInv, Next
  PROVE  ConvInv'
<1> USE DEF ChannelAssumption
<1>1. \A c \in Channel : conv[c] \in Run /\ Sound(conv[c])
  BY DEF ConvInv
<1>2. ASSUME NEW m \in Message, NEW s \in BOOLEAN, HandleMessage(m, s)
      PROVE  ConvInv'
  <2> DEFINE c == ChannelOf[m]
             k == IF s THEN Abandoned(conv[c]) ELSE conv[c]
  <2>1. c \in Channel /\ k \in Run /\ Sound(k)
    BY <1>1, AbandonedRun
  <2>2. Begun(k) \in Run /\ Sound(Begun(k))
    BY <2>1, BegunRun
  <2>3. conv' = [conv EXCEPT ![c] = k] \/ conv' = [conv EXCEPT ![c] = Begun(k)]
    BY <1>2 DEF HandleMessage
  <2> HIDE DEF c, k
  <2>4. QED
    BY <2>1, <2>2, <2>3, OneRunChanges
<1>3. ASSUME NEW m \in Message, HandleSystemEvent(m)
      PROVE  ConvInv'
  <2> DEFINE c == ChannelOf[m]
  <2>1. c \in Channel /\ Begun(conv[c]) \in Run /\ Sound(Begun(conv[c]))
    BY <1>1, BegunRun
  <2>2. conv' = conv \/ conv' = [conv EXCEPT ![c] = Begun(conv[c])]
    BY <1>3 DEF HandleSystemEvent
  <2> HIDE DEF c
  <2>3. CASE conv' = conv
    BY <2>3 DEF ConvInv
  <2>4. QED
    BY <2>1, <2>2, <2>3, OneRunChanges
<1>4. ASSUME NEW c \in Channel, Conversation(c)
      PROVE  ConvInv'
  <2>1. CASE ReadHistory(c)
    BY <1>1, <2>1, FieldsChange, OneRunChanges DEF ReadHistory
  <2>2. CASE InjectMessages(c) \/ NoteProgress(c)
    BY <2>2 DEF InjectMessages, NoteProgress, ConvInv
  <2>3. CASE Timeout(c)
    <3>1. conv' = [conv EXCEPT ![c] = [conv[c] EXCEPT !.timedOut = TRUE, !.held = FALSE]]
      BY <2>3 DEF Timeout, ConvInv
    <3>2. QED
      BY <1>1, <2>3, <3>1, FieldsChange, OneRunChanges DEF Timeout
  <2>4. CASE StaleTimeout(c)
    <3>1. conv' = [conv EXCEPT ![c] = [conv[c] EXCEPT !.armed = conv[c].armed - 1,
                                        !.fired = conv[c].fired + 1, !.held = FALSE]]
      BY <2>4 DEF StaleTimeout, ConvInv, Run
    <3>2. QED
      BY <1>1, <2>4, <3>1, TimerFires, OneRunChanges DEF StaleTimeout
  <2>5. CASE Finish(c)
    <3> DEFINE base == [conv EXCEPT ![c] = Ended(conv[c])]
    <3>1. base \in [Channel -> Run] /\ \A d \in Channel : Sound(base[d])
      BY <1>1, EndedRun DEF ConvInv
    <3>2. \/ conv' = [base EXCEPT ![c] = Begun(base[c])]
          \/ \E D \in Dispatches(base) :
               conv' = [d \in Channel |-> IF d \in D THEN Begun(base[d]) ELSE base[d]]
      BY <2>5 DEF Finish
    <3>3. Dispatches(base) \subseteq SUBSET Channel
      BY DEF Dispatches
    <3> HIDE DEF base
    <3>4. ASSUME conv' = [base EXCEPT ![c] = Begun(base[c])]
          PROVE  ConvInv'
      <4>1. conv' = [d \in Channel |-> IF d \in {c} THEN Begun(base[d]) ELSE base[d]]
        BY <3>1, <3>4
      <4>2. {c} \in SUBSET Channel
        OBVIOUS
      <4>3. QED
        BY <3>1, <4>1, <4>2, RunsBegin
    <3>5. QED
      BY <3>1, <3>2, <3>3, <3>4, RunsBegin
  <2>6. CASE StaleEnds(c)
    <3>1. \/ /\ conv[c].armed > 0
             /\ conv' = [conv EXCEPT ![c] = [conv[c] EXCEPT !.armed = conv[c].armed - 1]]
          \/ /\ conv[c].fired > 0
             /\ conv' = [conv EXCEPT ![c] = [conv[c] EXCEPT !.fired = conv[c].fired - 1]]
      BY <2>6 DEF StaleEnds, ConvInv, Run
    <3>2. QED
      BY <1>1, <3>1, FieldsChange, OneRunChanges
  <2>7. QED
    BY <1>4, <2>1, <2>2, <2>3, <2>4, <2>5, <2>6 DEF Conversation
<1>5. ASSUME NEW c \in Channel,
             RetryTimer(c) \/ ResumeChannel(c) \/ ResumeTimer(c)
      PROVE  ConvInv'
  <2>1. conv' = conv \/ conv' = [conv EXCEPT ![c] = Begun(conv[c])]
    BY <1>5 DEF RetryTimer, ResumeChannel, ResumeTimer
  <2>2. CASE conv' = conv
    BY <2>2 DEF ConvInv
  <2>3. QED
    BY <1>1, <2>1, <2>2, BegunRun, OneRunChanges
<1>6. ASSUME NEW c \in Channel, RecoverStale(c) \/ PauseChannel(c)
      PROVE  ConvInv'
  <2>1. conv' = [conv EXCEPT ![c] = Abandoned(conv[c])]
    BY <1>6 DEF RecoverStale, PauseChannel
  <2>2. QED
    BY <1>1, <2>1, AbandonedRun, OneRunChanges
<1>7. CASE RecoverQueued
  <2>1. Dispatches(conv) \subseteq SUBSET Channel
    BY DEF Dispatches
  <2>2. QED
    BY <1>1, <1>7, <2>1, RunsBegin DEF RecoverQueued, ConvInv
<1>8. CASE ResumeAfterRestart
  BY <1>8 DEF ResumeAfterRestart, ConvInv
<1>9. CASE \E graceful \in BOOLEAN : Restart(graceful)
  BY <1>9 DEF Restart, NoRun, ConvInv, Run, Sound
<1>10. QED
  BY <1>2, <1>3, <1>4, <1>5, <1>6, <1>7, <1>8, <1>9 DEF Next

\* A place in processingChannels belongs to the channel's current run, which is
\* neither over nor timed out, whatever the interleaving of recovery, pauses,
\* timeouts, retries, ends and restarts.
THEOREM SlotsHeld == Spec => []SlotHeldByRun
<1>1. Init => ConvInv
  BY ConvInit
<1>2. ConvInv /\ [Next]_vars => ConvInv'
  <2>1. ASSUME ConvInv, UNCHANGED vars
        PROVE  ConvInv'
    BY <2>1 DEF ConvInv, vars
  <2>2. QED
    BY <2>1, ConvStep, ChannelAssumption
<1>3. ConvInv => SlotHeldByRun
  BY DEF ConvInv, SlotHeldByRun, Processing, Sound
<1>4. QED
  BY <1>1, <1>2, <1>3, PTL DEF Spec

-----------------------------------------------------------------------------
(* Type correctness *)

Retry == [count : 0 .. RetryBudget, pending : BOOLEAN]

LEMMA TypeInit == ChannelAssumption /\ Init => TypeOK
<1> SUFFICES ASSUME ChannelAssumption, Init
             PROVE  TypeOK
  OBVIOUS
<1>1. conv \in [Channel -> Run]
  BY DEF Init, NoRun, Run
<1>2. retry \in [Channel -> [count : 0 .. RetryBudget, pending : BOOLEAN]]
  <2>1. NoRetry \in [count : 0 .. RetryBudget, pending : BOOLEAN]
    BY DEF NoRetry, ChannelAssumption
  <2>2. QED
    BY <2>1 DEF Init
<1>3. /\ timers \in [Channel -> Nat] /\ queue \in [Channel -> Seq(Message)]
      /\ durable \in [Message -> {"absent", "unprocessed", "processed"}]
      /\ blocks \in [Message -> Nat] /\ pauses \in [Channel -> Nat]
      /\ noted \in [Channel -> {"no", "yes", "quiet"}]
  BY DEF Init
<1>4. QED
  BY <1>1, <1>2, <1>3 DEF Init, TypeOK

LEMMA RetryType ==
  ASSUME ChannelAssumption
  PROVE  /\ NoRetry \in Retry
         /\ \A r \in Retry : /\ [r EXCEPT !.pending = FALSE] \in Retry
                             /\ [r EXCEPT !.count = 0] \in Retry
                             /\ \A q \in Outcomes(r) : q \in Retry
<1>1. NoRetry \in Retry
  BY DEF ChannelAssumption, NoRetry, Retry
<1>2. ASSUME NEW r \in Retry
      PROVE  [r EXCEPT !.count = 0] \in Retry /\ [r EXCEPT !.pending = FALSE] \in Retry
  <2>1. 0 \in 0 .. RetryBudget
    BY DEF ChannelAssumption
  <2>2. QED
    BY <2>1 DEF Retry
<1>3. ASSUME NEW r \in Retry, NEW t \in BOOLEAN
      PROVE  Caught(r, t) \in Retry
  <2>1. CASE t /\ r.count < RetryBudget
    <3>1. r.count + 1 \in 0 .. RetryBudget
      BY <2>1 DEF ChannelAssumption, Retry
    <3>2. QED
      BY <2>1, <3>1 DEF Caught, Retry
  <2>2. CASE ~(t /\ r.count < RetryBudget)
    BY <1>2, <2>2 DEF Caught
  <2>3. QED
    BY <2>1, <2>2
<1>4. QED
  BY <1>1, <1>2, <1>3 DEF Outcomes

\* The queues' operations keep the types of what they write.
LEMMA DrainType ==
  ASSUME TypeOK, NEW c \in Channel, Drain(c)
  PROVE  /\ queue' \in [Channel -> Seq(Message)]
         /\ durable' \in [Message -> {"absent", "unprocessed", "processed"}]
         /\ blocks' \in [Message -> Nat]
         /\ stored' = stored
<1>1. queue' \in [Channel -> Seq(Message)]
  BY DEF Drain, TypeOK
<1>2. durable' \in [Message -> {"absent", "unprocessed", "processed"}]
  BY DEF Drain, TypeOK, MarkProcessed
<1>3. blocks' \in [Message -> Nat]
  <2>1. CASE queue[c] = <<>>
    BY <2>1 DEF Drain, TypeOK
  <2>2. CASE queue[c] # <<>>
    <3>1. blocks' = [m \in Message |->
                       IF m \in Range(queue[c]) THEN blocks[m] + 1 ELSE blocks[m]]
      BY <2>2 DEF Drain
    <3>2. \A m \in Message : blocks[m] \in Nat /\ blocks[m] + 1 \in Nat
      BY DEF TypeOK
    <3>3. QED
      BY <3>1, <3>2
  <2>3. QED
    BY <2>1, <2>2
<1>4. QED
  BY <1>1, <1>2, <1>3 DEF Drain

LEMMA PromoteType ==
  ASSUME TypeOK, NEW D \in SUBSET Channel, \A c \in D : queue[c] # <<>>, Promote(D)
  PROVE  queue' \in [Channel -> Seq(Message)] /\ stored' \subseteq Message
<1>1. \A c \in D : Tail(queue[c]) \in Seq(Message) /\ Head(queue[c]) \in Message
  BY DEF TypeOK
<1>2. QED
  BY <1>1 DEF Promote, TypeOK

LEMMA DispatchType ==
  \A base : \A D \in Dispatches(base) :
    D \in SUBSET Channel /\ \A c \in D : queue[c] # <<>>
  BY DEF Dispatches

LEMMA SeqsType ==
  ASSUME ChannelAssumption, NEW S \in SUBSET Message
  PROVE  SetToSeqs(S) \subseteq Seq(Message)
<1>1. Cardinality(S) \in Nat
  BY FS_Subset, FS_CardinalityType DEF ChannelAssumption
<1>2. QED
  BY <1>1 DEF SetToSeqs

LEMMA Queued ==
  ASSUME TypeOK, NEW c \in Channel, NEW m \in Message
  PROVE  /\ queue \in [Channel -> Seq(Message)]
         /\ [queue EXCEPT ![c] = Append(queue[c], m)] \in [Channel -> Seq(Message)]
<1>1. Append(queue[c], m) \in Seq(Message)
  BY DEF TypeOK
<1>2. QED
  BY <1>1 DEF TypeOK

\* The session rows and the notes of progress are written together.
RowsOK == /\ session \in [Channel -> {"idle", "processing", "queued"}]
          /\ noted \in [Channel -> {"no", "yes", "quiet"}]

LEMMA RowsWritten ==
  ASSUME RowsOK
  PROVE  /\ UNCHANGED <<session, noted>> => RowsOK'
         /\ \A D \in SUBSET Channel : RowSays(D) => RowsOK'
         /\ \A c \in Channel, s \in {"idle", "processing", "queued"} :
              RowLeft(c, s) => RowsOK'
  BY DEF RowsOK, RowSays, RowLeft

LEMMA RowsStep ==
  ASSUME ChannelAssumption, RowsOK, Next
  PROVE  RowsOK'
<1>1. ASSUME NEW m \in Message, NEW s \in BOOLEAN, HandleMessage(m, s)
      PROVE  RowsOK'
  <2>1. ChannelOf[m] \in Channel /\ {ChannelOf[m]} \in SUBSET Channel
    BY DEF ChannelAssumption
  <2>2. \/ UNCHANGED <<session, noted>> \/ RowLeft(ChannelOf[m], "idle")
        \/ RowSays({ChannelOf[m]})
    BY <1>1 DEF HandleMessage
  <2>3. QED
    BY <2>1, <2>2, RowsWritten
<1>2. ASSUME NEW m \in Message, HandleSystemEvent(m)
      PROVE  RowsOK'
  <2>1. ChannelOf[m] \in Channel /\ {ChannelOf[m]} \in SUBSET Channel
    BY DEF ChannelAssumption
  <2>2. \/ UNCHANGED <<session, noted>> \/ RowSays({ChannelOf[m]})
        \/ /\ \E v \in {"yes", "quiet"} : noted' = [noted EXCEPT ![ChannelOf[m]] = v]
           /\ UNCHANGED session
    BY <1>2 DEF HandleSystemEvent
  <2>3. CASE /\ \E v \in {"yes", "quiet"} : noted' = [noted EXCEPT ![ChannelOf[m]] = v]
             /\ UNCHANGED session
    BY <2>3 DEF RowsOK
  <2>4. QED
    BY <2>1, <2>2, <2>3, RowsWritten
<1>3. ASSUME NEW c \in Channel, Conversation(c) /\ ~Finish(c)
      PROVE  RowsOK'
  <2>1. \/ UNCHANGED <<session, noted>> \/ RowLeft(c, "idle") \/ RowSays({c})
    BY <1>3 DEF Conversation, ReadHistory, InjectMessages, NoteProgress, Timeout,
                StaleTimeout, StaleEnds
  <2>2. QED
    BY <2>1, RowsWritten
<1>4. ASSUME NEW c \in Channel, Finish(c)
      PROVE  RowsOK'
  <2> DEFINE Idled(D, P) == [d \in Channel |->
                               CASE d \in D -> "processing"
                                 [] d = c /\ d \notin D /\ P -> "idle"
                                 [] OTHER -> session[d]]
             Unnoted(D) == [d \in Channel |->
                              CASE d \in D -> "yes"
                                [] d = c /\ d \notin D -> "no"
                                [] OTHER -> noted[d]]
  <2>1. PICK r \in Outcomes(retry[c]) :
          \/ RowSays({c})
          \/ \E D \in Dispatches([conv EXCEPT ![c] = Ended(@)]) :
               /\ session' = Idled(D, ~r.pending /\ ~conv[c].timedOut)
               /\ noted' = Unnoted(D)
    BY <1>4 DEF Finish
  <2>2. \A D, P : /\ Idled(D, P) \in [Channel -> {"idle", "processing", "queued"}]
                  /\ Unnoted(D) \in [Channel -> {"no", "yes", "quiet"}]
    BY DEF RowsOK
  <2> HIDE DEF Idled, Unnoted
  <2>3. QED
    BY <2>1, <2>2, RowsWritten DEF RowsOK
<1>5. ASSUME NEW c \in Channel,
             RetryTimer(c) \/ RecoverStale(c) \/ PauseChannel(c)
               \/ ResumeChannel(c) \/ ResumeTimer(c)
      PROVE  RowsOK'
  <2>1. \/ UNCHANGED <<session, noted>> \/ RowLeft(c, "idle") \/ RowLeft(c, "queued")
        \/ RowSays({c})
        \/ session' = [session EXCEPT ![c] = "queued"] /\ UNCHANGED noted
    BY <1>5 DEF RetryTimer, RecoverStale, PauseChannel, ResumeChannel, ResumeTimer
  <2>2. CASE session' = [session EXCEPT ![c] = "queued"] /\ UNCHANGED noted
    BY <2>2 DEF RowsOK
  <2>3. QED
    BY <2>1, <2>2, RowsWritten
<1>6. CASE RecoverQueued
  <2>1. \E D \in Dispatches(conv) : RowSays(D)
    BY <1>6 DEF RecoverQueued
  <2>2. QED
    BY <2>1, DispatchType, RowsWritten
<1>7. CASE ResumeAfterRestart
  BY <1>7 DEF ResumeAfterRestart, RowsOK
<1>8. CASE \E graceful \in BOOLEAN : Restart(graceful)
  BY <1>8 DEF Restart, RowsOK
<1>9. QED
  BY <1>1, <1>2, <1>3, <1>4, <1>5, <1>6, <1>7, <1>8 DEF Next

LEMMA TypeHandle ==
  ASSUME ChannelAssumption, TypeOK, ConvInv', RowsOK', NEW m \in Message,
         HandleSystemEvent(m) \/ \E s \in BOOLEAN : HandleMessage(m, s)
  PROVE  TypeOK'
<1>1. ChannelOf[m] \in Channel
  BY DEF ChannelAssumption
<1>2. CASE HandleSystemEvent(m)
  <2>1. queue' \in [Channel -> Seq(Message)]
    <3>1. \/ queue' = queue
          \/ queue' = [queue EXCEPT ![ChannelOf[m]] = Append(queue[ChannelOf[m]], m)]
      BY <1>2 DEF HandleSystemEvent
    <3>2. /\ queue \in [Channel -> Seq(Message)]
          /\ [queue EXCEPT ![ChannelOf[m]] = Append(queue[ChannelOf[m]], m)]
               \in [Channel -> Seq(Message)]
      BY <1>1, Queued
    <3>3. QED
      BY <3>1, <3>2
  <2>2. stored' \subseteq Message
    BY <1>2 DEF HandleSystemEvent, TypeOK
  <2>3. QED
    BY <1>2, <2>1, <2>2 DEF HandleSystemEvent, TypeOK, ConvInv, RowsOK
<1>3. ASSUME NEW s \in BOOLEAN, HandleMessage(m, s)
      PROVE  TypeOK'
  <2>1. queue' \in [Channel -> Seq(Message)]
    <3>1. \/ queue' = queue
          \/ queue' = [queue EXCEPT ![ChannelOf[m]] = Append(queue[ChannelOf[m]], m)]
      BY <1>3 DEF HandleMessage
    <3>2. /\ queue \in [Channel -> Seq(Message)]
          /\ [queue EXCEPT ![ChannelOf[m]] = Append(queue[ChannelOf[m]], m)]
               \in [Channel -> Seq(Message)]
      BY <1>1, Queued
    <3>3. QED
      BY <3>1, <3>2
  <2>2. stored' \subseteq Message
    BY <1>3 DEF HandleMessage, TypeOK
  <2>3. durable' \in [Message -> {"absent", "unprocessed", "processed"}]
    BY <1>3 DEF HandleMessage, TypeOK
  <2>4. retry' \in [Channel -> Retry]
    BY <1>1, <1>3, RetryType DEF HandleMessage, TypeOK, Retry
  <2>5. QED
    BY <1>3, <2>1, <2>2, <2>3, <2>4 DEF HandleMessage, TypeOK, ConvInv, Retry, RowsOK
<1>4. QED
  BY <1>2, <1>3

LEMMA TypeConversation ==
  ASSUME ChannelAssumption, TypeOK, ConvInv', RowsOK', NEW c \in Channel, Conversation(c)
  PROVE  TypeOK'
<1>1. CASE ReadHistory(c)
  BY <1>1, DrainType DEF ReadHistory, TypeOK, ConvInv, RowsOK
<1>2. CASE InjectMessages(c)
  BY <1>2, DrainType DEF InjectMessages, TypeOK, ConvInv, RowsOK
<1>3. CASE NoteProgress(c) \/ Timeout(c) \/ StaleTimeout(c)
  <2>1. /\ UNCHANGED <<retry, timers, queue, durable, stored, blocks, resuming>>
        /\ UNCHANGED <<booted, pauses, restarts>>
    BY <1>3 DEF NoteProgress, Timeout, StaleTimeout
  <2>2. QED
    BY <2>1 DEF TypeOK, ConvInv, RowsOK
<1>4. CASE StaleEnds(c)
  <2>1. retry[c] \in Retry
    BY DEF TypeOK, Retry
  <2>2. \E r \in Retry : retry' = [retry EXCEPT ![c] = r]
    BY <1>4, <2>1, RetryType DEF StaleEnds
  <2>3. retry' \in [Channel -> Retry]
    BY <2>2 DEF TypeOK, Retry
  <2>4. QED
    BY <1>4, <2>3 DEF StaleEnds, TypeOK, ConvInv, Retry, RowsOK
<1>5. CASE Finish(c)
  <2>1. retry[c] \in Retry
    BY DEF TypeOK, Retry
  <2> DEFINE base == [conv EXCEPT ![c] = Ended(conv[c])]
  <2>2. PICK r \in Outcomes(retry[c]) :
          LET drains == ~r.pending /\ ~conv[c].timedOut
          IN /\ retry' = [retry EXCEPT ![c] = [r EXCEPT !.pending = FALSE]]
             /\ timers' = IF r.pending THEN [timers EXCEPT ![c] = timers[c] + 1] ELSE timers
             /\ durable' = IF drains THEN MarkProcessed(durable, c) ELSE durable
             /\ \/ /\ drains /\ queue[c] # <<>>
                   /\ Promote({c})
                \/ \E D \in Dispatches(base) : Promote(D)
    BY <1>5 DEF Finish
  <2> HIDE DEF base
  <2>3. r \in Retry /\ [r EXCEPT !.pending = FALSE] \in Retry
    BY <2>1, RetryType
  <2>4. retry' \in [Channel -> Retry]
    BY <2>2, <2>3 DEF TypeOK, Retry
  <2>5. timers' \in [Channel -> Nat]
    <3>1. timers' = timers \/ timers' = [timers EXCEPT ![c] = timers[c] + 1]
      BY <2>2
    <3>2. timers \in [Channel -> Nat] /\ timers[c] + 1 \in Nat
      BY DEF TypeOK
    <3>3. QED
      BY <3>1, <3>2
  <2>6. durable' \in [Message -> {"absent", "unprocessed", "processed"}]
    BY <2>2 DEF TypeOK, MarkProcessed
  <2>7. queue' \in [Channel -> Seq(Message)] /\ stored' \subseteq Message
    <3>1. \/ Promote({c}) /\ queue[c] # <<>>
          \/ \E D \in Dispatches(base) : Promote(D)
      BY <2>2
    <3>2. QED
      BY <3>1, DispatchType, PromoteType
  <2>8. UNCHANGED <<blocks, resuming, booted, pauses, restarts>>
    BY <1>5 DEF Finish
  <2>9. QED
    BY <2>4, <2>5, <2>6, <2>7, <2>8 DEF TypeOK, ConvInv, Retry, RowsOK
<1>6. QED
  BY <1>1, <1>2, <1>3, <1>4, <1>5 DEF Conversation

LEMMA TypeTimers ==
  ASSUME ChannelAssumption, TypeOK, ConvInv', RowsOK', NEW c \in Channel,
         RetryTimer(c) \/ RecoverStale(c) \/ PauseChannel(c)
           \/ ResumeChannel(c) \/ ResumeTimer(c)
  PROVE  TypeOK'
<1>2. /\ session' \in [Channel -> {"idle", "processing", "queued"}]
      /\ noted' \in [Channel -> {"no", "yes", "quiet"}]
  BY DEF RowsOK
<1>3. CASE RetryTimer(c)
  <2>1. timers' = timers \/ timers' = [timers EXCEPT ![c] = timers[c] - 1]
    BY <1>3 DEF RetryTimer
  <2>2. timers \in [Channel -> Nat] /\ timers[c] - 1 \in Nat
    BY <1>3 DEF RetryTimer, TypeOK
  <2>3. timers' \in [Channel -> Nat]
    BY <2>1, <2>2
  <2>4. QED
    BY <1>2, <1>3, <2>3 DEF RetryTimer, TypeOK, ConvInv
<1>4. CASE RecoverStale(c) \/ PauseChannel(c)
  <2>1. retry' \in [Channel -> Retry]
    <3>1. retry' = [retry EXCEPT ![c] = NoRetry]
      BY <1>4 DEF RecoverStale, PauseChannel
    <3>2. QED
      BY <3>1, RetryType DEF TypeOK, Retry
  <2>2. pauses' \in [Channel -> Nat]
    <3>1. pauses' = pauses \/ pauses' = [pauses EXCEPT ![c] = pauses[c] + 1]
      BY <1>4 DEF RecoverStale, PauseChannel
    <3>2. pauses \in [Channel -> Nat] /\ pauses[c] + 1 \in Nat
      BY DEF TypeOK
    <3>3. QED
      BY <3>1, <3>2
  <2>3. UNCHANGED <<timers, queue, durable, stored, blocks, resuming, booted, restarts>>
    BY <1>4 DEF RecoverStale, PauseChannel
  <2>4. QED
    BY <1>2, <2>1, <2>2, <2>3 DEF TypeOK, ConvInv, Retry
<1>5. CASE ResumeChannel(c) \/ ResumeTimer(c)
  <2>1. resuming' \subseteq Channel
    BY <1>5 DEF ResumeChannel, ResumeTimer, TypeOK
  <2>2. /\ UNCHANGED <<retry, timers, queue, durable, stored, blocks>>
        /\ UNCHANGED <<booted, pauses, restarts>>
    BY <1>5 DEF ResumeChannel, ResumeTimer
  <2>3. QED
    BY <1>2, <2>1, <2>2 DEF TypeOK, ConvInv
<1>6. QED
  BY <1>3, <1>4, <1>5

LEMMA TypeProcess ==
  ASSUME ChannelAssumption, TypeOK, ConvInv', RowsOK',
         RecoverQueued \/ ResumeAfterRestart \/ \E graceful \in BOOLEAN : Restart(graceful)
  PROVE  TypeOK'
<1>1. CASE RecoverQueued
  <2>1. PICK D \in Dispatches(conv) : Promote(D)
    BY <1>1 DEF RecoverQueued
  <2>2. queue' \in [Channel -> Seq(Message)] /\ stored' \subseteq Message
    BY <2>1, DispatchType, PromoteType
  <2>3. QED
    BY <1>1, <2>2 DEF RecoverQueued, TypeOK, ConvInv, RowsOK
<1>2. CASE ResumeAfterRestart
  <2>1. durable' \in [Message -> {"absent", "unprocessed", "processed"}]
    BY <1>2 DEF ResumeAfterRestart, TypeOK
  <2>3. resuming' \subseteq Channel
    BY <1>2 DEF ResumeAfterRestart, TypeOK
  <2>4. queue' \in [Channel -> Seq(Message)]
    <3>1. \A c \in Channel : \/ queue'[c] = queue[c]
                            \/ \E S \in SUBSET Message : queue'[c] \in SetToSeqs(S)
      BY <1>2 DEF ResumeAfterRestart
    <3>2. \A c \in Channel : queue'[c] \in Seq(Message)
      BY <3>1, SeqsType DEF TypeOK
    <3>3. queue' = [c \in Channel |-> queue'[c]]
      BY <1>2 DEF ResumeAfterRestart
    <3>4. QED
      BY <3>2, <3>3
  <2>5. QED
    BY <1>2, <2>1, <2>3, <2>4 DEF ResumeAfterRestart, TypeOK, ConvInv, RowsOK
<1>3. ASSUME NEW graceful \in BOOLEAN, Restart(graceful)
      PROVE  TypeOK'
  <2>1. durable' \in [Message -> {"absent", "unprocessed", "processed"}]
    BY <1>3 DEF Restart, TypeOK
  <2>3. retry' \in [Channel -> Retry]
    BY <1>3, RetryType DEF Restart
  <2>4. queue' \in [Channel -> Seq(Message)] /\ timers' \in [Channel -> Nat]
    BY <1>3 DEF Restart
  <2>5. restarts' \in Nat
    BY <1>3 DEF Restart, TypeOK
  <2>6. QED
    BY <1>3, <2>1, <2>3, <2>4, <2>5 DEF Restart, TypeOK, ConvInv, Retry, RowsOK
<1>4. QED
  BY <1>1, <1>2, <1>3

LEMMA TypeStep ==
  ASSUME ChannelAssumption, TypeOK, ConvInv, Next
  PROVE  TypeOK' /\ ConvInv'
<1>1. ConvInv'
  BY ConvStep
<1>2. RowsOK'
  BY RowsStep DEF TypeOK, RowsOK
<1>3. QED
  BY <1>1, <1>2, TypeHandle, TypeConversation, TypeTimers, TypeProcess DEF Next

\* Every variable keeps its type: no count of retries goes over its budget.
THEOREM TypeCorrect == Spec => []TypeOK
<1> DEFINE TypeInv == TypeOK /\ ConvInv
<1>1. Init => TypeInv
  BY TypeInit, ConvInit, ChannelAssumption
<1>2. TypeInv /\ [Next]_vars => TypeInv'
  <2>1. ASSUME TypeInv, UNCHANGED vars
        PROVE  TypeInv'
    BY <2>1 DEF TypeOK, ConvInv, vars
  <2>2. ASSUME TypeInv, Next
        PROVE  TypeInv'
    BY <2>2, TypeStep, ChannelAssumption
  <2>3. QED
    BY <2>1, <2>2
<1>3. TypeInv => TypeOK
  OBVIOUS
<1> HIDE DEF TypeInv
<1>4. QED
  BY <1>1, <1>2, <1>3, PTL DEF Spec

-----------------------------------------------------------------------------
(* Interrupted conversations are found *)

\* A channel that is held has noted its progress since, and its row says so unless
\* the run is quiet.
Noted == \A c \in Channel : conv[c].held =>
           noted[c] # "no" /\ (session[c] = "processing" \/ noted[c] = "quiet")

\* Before resumeAfterRestart nothing runs and nothing waits.
Dormant ==
  ~Early /\ ~booted =>
    /\ \A c \in Channel : conv[c] = NoRun /\ timers[c] = 0 /\ queue[c] = <<>>
    /\ resuming = {}

FoundInv == TypeOK /\ ConvInv /\ Dormant /\ Noted

LEMMA DormantOnlyBoots ==
  ASSUME ChannelAssumption, Dormant, ~Early, ~booted, Next
  PROVE  ResumeAfterRestart \/ \E graceful \in BOOLEAN : Restart(graceful)
<1>1. /\ \A c \in Channel : conv[c] = NoRun /\ timers[c] = 0 /\ queue[c] = <<>>
      /\ resuming = {}
  BY DEF Dormant
<1>2. \A c \in Channel : /\ ~conv[c].held /\ conv[c].stage = "none"
                        /\ conv[c].armed = 0 /\ conv[c].fired = 0 /\ Stale(c) = 0
  BY <1>1 DEF NoRun, Stale
<1>3. ~Open
  BY DEF Open
<1>4. \A m \in Message : /\ ~HandleSystemEvent(m)
                        /\ \A s \in BOOLEAN : ~HandleMessage(m, s)
  BY <1>3 DEF HandleSystemEvent, HandleMessage
<1>5. \A c \in Channel : ~Conversation(c)
  BY <1>1, <1>2 DEF Conversation, ReadHistory, InjectMessages, NoteProgress, Timeout,
                    StaleTimeout, Finish, StaleEnds
<1>6. \A c \in Channel : /\ ~RetryTimer(c) /\ ~RecoverStale(c) /\ ~PauseChannel(c)
                        /\ ~ResumeChannel(c) /\ ~ResumeTimer(c)
  BY <1>1, <1>2, <1>3 DEF RetryTimer, RecoverStale, PauseChannel, ResumeChannel, ResumeTimer
<1>7. ~RecoverQueued
  <2>1. \A D \in Dispatches(conv) : D = {}
    BY <1>1 DEF Dispatches
  <2>2. QED
    BY <2>1 DEF RecoverQueued
<1>8. QED
  BY <1>4, <1>5, <1>6, <1>7 DEF Next

LEMMA DormantStep ==
  ASSUME ChannelAssumption, Dormant, Next
  PROVE  Dormant'
<1> SUFFICES ASSUME ~Early, ~booted'
             PROVE  /\ \A c \in Channel : conv'[c] = NoRun /\ timers'[c] = 0 /\ queue'[c] = <<>>
                    /\ resuming' = {}
  BY DEF Dormant
<1>1. CASE \E graceful \in BOOLEAN : Restart(graceful)
  BY <1>1 DEF Restart
<1>2. CASE ~\E graceful \in BOOLEAN : Restart(graceful)
  <2>1. booted' = TRUE \/ booted' = booted
    <3>1. ASSUME NEW m \in Message,
                 HandleSystemEvent(m) \/ \E s \in BOOLEAN : HandleMessage(m, s)
          PROVE  booted' = booted
      BY <3>1 DEF HandleSystemEvent, HandleMessage
    <3>2. ASSUME NEW c \in Channel, Conversation(c)
          PROVE  booted' = booted
      BY <3>2 DEF Conversation, ReadHistory, InjectMessages, NoteProgress, Timeout,
                  StaleTimeout, Finish, StaleEnds
    <3>3. ASSUME NEW c \in Channel,
                 RetryTimer(c) \/ RecoverStale(c) \/ PauseChannel(c)
                   \/ ResumeChannel(c) \/ ResumeTimer(c)
          PROVE  booted' = booted
      BY <3>3 DEF RetryTimer, RecoverStale, PauseChannel, ResumeChannel, ResumeTimer
    <3>4. CASE RecoverQueued
      BY <3>4 DEF RecoverQueued
    <3>5. CASE ResumeAfterRestart
      BY <3>5 DEF ResumeAfterRestart
    <3>6. QED
      BY <1>2, <3>1, <3>2, <3>3, <3>4, <3>5 DEF Next
  <2>2. CASE booted' = TRUE
    BY <2>2
  <2>3. CASE booted' = booted
    <3>1. ResumeAfterRestart
      BY <1>2, <2>3, DormantOnlyBoots
    <3>2. QED
      BY <3>1 DEF ResumeAfterRestart
  <2>4. QED
    BY <2>1, <2>2, <2>3
<1>3. QED
  BY <1>1, <1>2

\* What a step must do to the channels it gives a place to
Recorded ==
  \A d \in Channel :
    conv'[d].held =>
      \/ session'[d] = "processing" /\ noted'[d] = "yes"
      \/ noted'[d] = "quiet"
      \/ noted'[d] = "yes" /\ session'[d] = session[d] /\ session[d] = "processing"
      \/ conv[d].held /\ session'[d] = session[d] /\ noted'[d] = noted[d]

LEMMA RecordedStep ==
  ASSUME ChannelAssumption, FoundInv, Next
  PROVE  Recorded
<1>1. /\ conv \in [Channel -> Run] /\ \A c \in Channel : Sound(conv[c])
      /\ session \in [Channel -> {"idle", "processing", "queued"}]
      /\ noted \in [Channel -> {"no", "yes", "quiet"}]
  BY DEF FoundInv, TypeOK, ConvInv
<1>2. ASSUME NEW m \in Message, NEW s \in BOOLEAN, HandleMessage(m, s)
      PROVE  Recorded
  <2> DEFINE c == ChannelOf[m]
             k == IF s THEN Abandoned(conv[c]) ELSE conv[c]
  <2>1. c \in Channel /\ (s => ~k.held)
    BY <1>1, AbandonedRun DEF ChannelAssumption
  <2>2. \/ /\ conv' = [conv EXCEPT ![c] = k]
           /\ IF s THEN RowLeft(c, "idle") ELSE UNCHANGED <<session, noted>>
        \/ /\ conv' = [conv EXCEPT ![c] = Begun(k)]
           /\ RowSays({c})
    BY <1>2 DEF HandleMessage
  <2>3. ~s => k = conv[c]
    OBVIOUS
  <2> HIDE DEF c, k
  <2>4. QED
    BY <1>1, <2>1, <2>2, <2>3 DEF Recorded, RowSays, RowLeft
<1>3. ASSUME NEW m \in Message, HandleSystemEvent(m)
      PROVE  Recorded
  <2>1. ChannelOf[m] \in Channel
    BY DEF ChannelAssumption
  <2> DEFINE c == ChannelOf[m]
  <2>2. \/ conv' = conv /\ session' = session /\ noted' = noted
        \/ /\ conv' = [conv EXCEPT ![c] = Begun(conv[c])]
           /\ \/ RowSays({c})
              \/ /\ session' = session
                 /\ noted' = [noted EXCEPT ![c] =
                                IF session[c] = "processing" THEN "yes" ELSE "quiet"]
    BY <1>3 DEF HandleSystemEvent
  <2> HIDE DEF c
  <2>3. QED
    BY <1>1, <2>1, <2>2 DEF Recorded, RowSays, c
<1>4. ASSUME NEW c \in Channel, ReadHistory(c) \/ InjectMessages(c) \/ StaleEnds(c)
      PROVE  Recorded
  <2>1. session' = session /\ noted' = noted
    BY <1>4 DEF ReadHistory, InjectMessages, StaleEnds
  <2>2. \A d \in Channel : conv'[d].held => conv[d].held
    <3>1. conv' = conv \/ \E k \in Run : /\ k.held = conv[c].held
                                         /\ conv' = [conv EXCEPT ![c] = k]
      <4>1. CASE InjectMessages(c)
        BY <4>1 DEF InjectMessages
      <4>2. CASE ReadHistory(c)
        <5>1. [conv[c] EXCEPT !.stage = "working"] \in Run
          BY <1>1 DEF Run
        <5>2. [conv[c] EXCEPT !.stage = "working"].held = conv[c].held
          BY <1>1 DEF Run
        <5>3. QED
          BY <4>2, <5>1, <5>2 DEF ReadHistory
      <4>3. CASE StaleEnds(c)
        <5> DEFINE a == [conv[c] EXCEPT !.armed = conv[c].armed - 1]
                   f == [conv[c] EXCEPT !.fired = conv[c].fired - 1]
        <5>1. \/ conv[c].armed > 0 /\ conv' = [conv EXCEPT ![c] = a]
              \/ conv[c].fired > 0 /\ conv' = [conv EXCEPT ![c] = f]
          BY <1>1, <4>3 DEF StaleEnds, Run
        <5>2. a.held = conv[c].held /\ f.held = conv[c].held
          BY <1>1 DEF Run
        <5>3. /\ conv[c].armed > 0 => a \in Run
              /\ conv[c].fired > 0 => f \in Run
          BY <1>1, FieldsChange
        <5> HIDE DEF a, f
        <5>4. QED
          BY <5>1, <5>2, <5>3
      <4>4. QED
        BY <1>4, <4>1, <4>2, <4>3
    <3>2. QED
      BY <1>1, <3>1
  <2>3. QED
    BY <2>1, <2>2 DEF Recorded
<1>5. ASSUME NEW c \in Channel, NoteProgress(c)
      PROVE  Recorded
  BY <1>1, <1>5 DEF NoteProgress, Recorded, RowSays
<1>6. ASSUME NEW c \in Channel, Timeout(c) \/ StaleTimeout(c)
      PROVE  Recorded
  <2>1. RowLeft(c, "idle")
    BY <1>6 DEF Timeout, StaleTimeout
  <2>2. ~conv'[c].held /\ \A d \in Channel \ {c} : conv'[d] = conv[d]
    BY <1>1, <1>6 DEF Timeout, StaleTimeout, Run
  <2>3. QED
    BY <1>1, <2>1, <2>2 DEF Recorded, RowLeft
<1>7. ASSUME NEW c \in Channel, Finish(c)
      PROVE  Recorded
  <2> DEFINE base == [conv EXCEPT ![c] = Ended(conv[c])]
             Idled(D, P) == [d \in Channel |->
                               CASE d \in D -> "processing"
                                 [] d = c /\ d \notin D /\ P -> "idle"
                                 [] OTHER -> session[d]]
             Unnoted(D) == [d \in Channel |->
                              CASE d \in D -> "yes"
                                [] d = c /\ d \notin D -> "no"
                                [] OTHER -> noted[d]]
  <2>1. /\ base \in [Channel -> Run] /\ ~base[c].held
        /\ \A d \in Channel \ {c} : base[d] = conv[d]
    BY <1>1, EndedRun
  <2>2. \/ /\ conv' = [base EXCEPT ![c] = Begun(base[c])]
           /\ RowSays({c})
        \/ \E D \in Dispatches(base), P \in BOOLEAN :
             /\ conv' = [d \in Channel |-> IF d \in D THEN Begun(base[d]) ELSE base[d]]
             /\ session' = Idled(D, P) /\ noted' = Unnoted(D)
    <3>1. PICK r \in Outcomes(retry[c]) :
            \/ /\ conv' = [base EXCEPT ![c] = Begun(base[c])]
               /\ RowSays({c})
            \/ \E D \in Dispatches(base) :
                 /\ conv' = [d \in Channel |-> IF d \in D THEN Begun(base[d]) ELSE base[d]]
                 /\ session' = Idled(D, ~r.pending /\ ~conv[c].timedOut)
                 /\ noted' = Unnoted(D)
      BY <1>7 DEF Finish
    <3>2. (~r.pending /\ ~conv[c].timedOut) \in BOOLEAN
      OBVIOUS
    <3> HIDE DEF Idled, Unnoted, base
    <3>3. QED
      BY <3>1, <3>2
  <2> HIDE DEF base
  <2>3. QED
    BY <1>1, <2>1, <2>2 DEF Recorded, RowSays
<1>8. ASSUME NEW c \in Channel, RetryTimer(c)
      PROVE  Recorded
  BY <1>1, <1>8 DEF RetryTimer, Recorded, RowSays
<1>9. ASSUME NEW c \in Channel, ResumeChannel(c) \/ ResumeTimer(c)
      PROVE  Recorded
  BY <1>1, <1>9 DEF ResumeChannel, ResumeTimer, Recorded, RowSays
<1>10. ASSUME NEW c \in Channel, RecoverStale(c) \/ PauseChannel(c)
      PROVE  Recorded
  <2>1. conv' = [conv EXCEPT ![c] = Abandoned(conv[c])]
    BY <1>10 DEF RecoverStale, PauseChannel
  <2>2. \A d \in Channel \ {c} : session'[d] = session[d] /\ noted'[d] = noted[d]
    BY <1>1, <1>10 DEF RecoverStale, PauseChannel, RowLeft
  <2>3. QED
    BY <1>1, <2>1, <2>2, AbandonedRun DEF Recorded
<1>11. CASE RecoverQueued
  BY <1>1, <1>11 DEF RecoverQueued, Recorded, RowSays
<1>12. CASE ResumeAfterRestart
  <2>1. PICK old \in SUBSET {c \in Channel : session[c] = "processing" /\ noted[c] = "no"},
             found \in SUBSET Channel :
          /\ \A d \in Channel : session[d] = "processing" => d \in found \/ d \in old
          /\ session' = [c \in Channel |->
                           CASE c \in found -> "queued"
                             [] c \in old \/ found = {} -> "idle"
                             [] OTHER -> session[c]]
          /\ noted' = [c \in Channel |->
                         IF c \in found /\ conv[c].held THEN "quiet" ELSE noted[c]]
          /\ conv' = conv
    <3> DEFINE rows(c) == {m \in Message : ChannelOf[m] = c /\ durable[m] = "unprocessed"}
               found(old) ==
                 {c \in Channel : session[c] = "processing" \/ rows(c) # {}} \ old
    <3>1. PICK old \in SUBSET {c \in Channel : session[c] = "processing" /\ noted[c] = "no"} :
            /\ session' = [c \in Channel |->
                             CASE c \in found(old) -> "queued"
                               [] c \in old \/ found(old) = {} -> "idle"
                               [] OTHER -> session[c]]
            /\ noted' = [c \in Channel |->
                           IF c \in found(old) /\ conv[c].held THEN "quiet" ELSE noted[c]]
      BY <1>12 DEF ResumeAfterRestart
    <3>2. /\ found(old) \in SUBSET Channel
          /\ \A d \in Channel : session[d] = "processing" => d \in found(old) \/ d \in old
      OBVIOUS
    <3>3. conv' = conv
      BY <1>12 DEF ResumeAfterRestart
    <3> HIDE DEF found
    <3>4. QED
      BY <3>1, <3>2, <3>3
  <2>2. ASSUME NEW d \in Channel, conv'[d].held
        PROVE  noted'[d] = "quiet"
    <3>1. noted[d] # "no" /\ (session[d] = "processing" \/ noted[d] = "quiet")
      BY <2>1, <2>2 DEF FoundInv, Noted
    <3>2. QED
      BY <2>1, <2>2, <3>1
  <2>3. QED
    BY <2>2 DEF Recorded
<1>13. ASSUME NEW graceful \in BOOLEAN, Restart(graceful)
      PROVE  Recorded
  BY <1>13 DEF Restart, NoRun, Recorded
<1>14. QED
  BY <1>2, <1>3, <1>4, <1>5, <1>6, <1>7, <1>8, <1>9, <1>10, <1>11, <1>12, <1>13
     DEF Next, Conversation

LEMMA FoundAlways == Spec => []FoundInv
<1>1. Init => FoundInv
  <2>1. Init => Dormant /\ Noted
    BY DEF Init, Dormant, Noted, NoRun
  <2>2. QED
    BY <2>1, TypeInit, ConvInit, ChannelAssumption DEF FoundInv
<1>2. FoundInv /\ [Next]_vars => FoundInv'
  <2>1. ASSUME FoundInv, UNCHANGED vars
        PROVE  FoundInv'
    BY <2>1 DEF FoundInv, TypeOK, ConvInv, Dormant, Noted, vars
  <2>2. ASSUME FoundInv, Next
        PROVE  FoundInv'
    <3>1. TypeOK' /\ ConvInv'
      BY <2>2, TypeStep, ChannelAssumption DEF FoundInv
    <3>2. Dormant'
      BY <2>2, DormantStep, ChannelAssumption DEF FoundInv
    <3>3. Noted'
      BY <2>2, RecordedStep, ChannelAssumption DEF FoundInv, Noted, Recorded
    <3>4. QED
      BY <3>1, <3>2, <3>3 DEF FoundInv
  <2>3. QED
    BY <2>1, <2>2
<1>3. QED
  BY <1>1, <1>2, PTL DEF Spec

\* At every point of a conversation its session row says "processing", whether or
\* not the transports open early: a crash there leaves a row by which
\* resumeAfterRestart takes the channel up again.  The two quiet runs are excepted.
THEOREM InterruptedFound == Spec => []InterruptedIsFound
<1>1. FoundInv => InterruptedIsFound
  BY DEF FoundInv, Noted, InterruptedIsFound, Processing
<1>2. QED
  BY <1>1, FoundAlways, PTL

-----------------------------------------------------------------------------
(* The limit on conversations *)

InLimit == \/ Cardinality(Processing') <= MaxConcurrent
           \/ Cardinality(Processing') <= Cardinality(Processing)

LEMMA ProcessingFinite ==
  ASSUME ChannelAssumption
  PROVE  /\ IsFiniteSet(Processing) /\ Cardinality(Processing) \in Nat
         /\ IsFiniteSet(Processing') /\ Cardinality(Processing') \in Nat
<1>1. Processing \in SUBSET Channel /\ Processing' \in SUBSET Channel
  BY DEF Processing
<1>2. QED
  BY <1>1, FS_Subset, FS_CardinalityType DEF ChannelAssumption

LEMMA FewerInLimit ==
  ASSUME ChannelAssumption, Processing' \subseteq Processing
  PROVE  InLimit
<1>1. IsFiniteSet(Processing) /\ Processing' \in SUBSET Processing
  BY ProcessingFinite
<1>2. Cardinality(Processing') <= Cardinality(Processing)
  BY <1>1, FS_Subset
<1>3. QED
  BY <1>2 DEF InLimit

LEMMA OneMoreInLimit ==
  ASSUME ChannelAssumption, NEW S \in SUBSET Channel, Cardinality(S) < MaxConcurrent,
         NEW c \in Channel, Processing' \subseteq S \cup {c}
  PROVE  InLimit
<1>1. IsFiniteSet(S) /\ Cardinality(S) \in Nat
  BY FS_Subset, FS_CardinalityType DEF ChannelAssumption
<1>2. /\ IsFiniteSet(S \cup {c}) /\ Cardinality(S \cup {c}) \in Nat
      /\ Cardinality(S \cup {c}) <= Cardinality(S) + 1
  <2>1. /\ IsFiniteSet(S \cup {c})
        /\ Cardinality(S \cup {c}) =
             IF c \in S THEN Cardinality(S) ELSE Cardinality(S) + 1
    BY <1>1, FS_AddElement
  <2>2. Cardinality(S \cup {c}) \in Nat
    BY <2>1, FS_CardinalityType
  <2>3. QED
    BY <1>1, <2>1, <2>2
<1>3. Cardinality(Processing') <= Cardinality(S \cup {c})
  BY <1>2, FS_Subset
<1>4. QED
  BY <1>1, <1>2, <1>3, ProcessingFinite DEF ChannelAssumption, InLimit

\* The dispatch loop fills the free places and no more.
LEMMA DispatchInLimit ==
  ASSUME ChannelAssumption, NEW base, base \in [Channel -> Run],
         \A d \in Channel : base[d].held => conv[d].held,
         NEW D \in Dispatches(base),
         conv' = [d \in Channel |-> IF d \in D THEN Begun(base[d]) ELSE base[d]]
  PROVE  InLimit
<1> DEFINE H == {d \in Channel : base[d].held}
           W == {d \in Channel : queue[d] # <<>> /\ ~base[d].held}
           free == IF Cardinality(H) < MaxConcurrent
                     THEN MaxConcurrent - Cardinality(H) ELSE 0
<1>1. /\ D \in SUBSET W
      /\ Cardinality(D) = IF Cardinality(W) < free THEN Cardinality(W) ELSE free
  BY DEF Dispatches
<1>2. /\ IsFiniteSet(H) /\ Cardinality(H) \in Nat
      /\ IsFiniteSet(W) /\ Cardinality(W) \in Nat
  <2>1. H \in SUBSET Channel /\ W \in SUBSET Channel
    OBVIOUS
  <2>2. QED
    BY <2>1, FS_Subset, FS_CardinalityType DEF ChannelAssumption
<1>3. IsFiniteSet(D) /\ Cardinality(D) \in Nat
  BY <1>1, <1>2, FS_Subset, FS_CardinalityType
<1>4. Processing' \subseteq H \cup D
  BY DEF Processing
<1>5. H \subseteq Processing
  BY DEF Processing
<1> HIDE DEF H, W
<1>6. CASE Cardinality(H) < MaxConcurrent
  <2>1. Cardinality(D) <= MaxConcurrent - Cardinality(H)
    BY <1>1, <1>2, <1>3, <1>6 DEF ChannelAssumption
  <2>2. /\ IsFiniteSet(H \cup D)
        /\ Cardinality(H \cup D) = Cardinality(H) + Cardinality(D) - Cardinality(H \cap D)
    BY <1>2, <1>3, FS_Union
  <2>3. Cardinality(H \cap D) \in Nat
    BY <1>2, FS_Intersection, FS_CardinalityType
  <2>4. Cardinality(Processing') <= Cardinality(H \cup D)
    BY <1>4, <2>2, FS_Subset
  <2>5. QED
    BY <1>2, <1>3, <2>1, <2>2, <2>3, <2>4, ProcessingFinite DEF ChannelAssumption, InLimit
<1>7. CASE ~(Cardinality(H) < MaxConcurrent)
  <2>1. Cardinality(D) = 0
    BY <1>1, <1>2, <1>7
  <2>2. D = {}
    BY <1>3, <2>1, FS_EmptySet
  <2>3. QED
    BY <1>4, <1>5, <2>2, FewerInLimit
<1>8. QED
  BY <1>6, <1>7

LEMMA LimitStep ==
  ASSUME ChannelAssumption, TypeOK, ConvInv, Next, resuming' = resuming,
         \A c \in Channel : conv[c].stage = "none" \/ conv[c].held \/ conv[c].timedOut
  PROVE  InLimit
<1>1. /\ conv \in [Channel -> Run] /\ \A c \in Channel : Sound(conv[c])
      /\ MaxConcurrent \in Nat
  BY DEF ConvInv, ChannelAssumption
<1>2. ASSUME NEW c \in Channel, NEW k \in Run, k.held => conv[c].held,
             conv' = [conv EXCEPT ![c] = k]
      PROVE  InLimit
  <2>1. Processing' \subseteq Processing
    BY <1>1, <1>2 DEF Processing
  <2>2. QED
    BY <2>1, FewerInLimit
<1>3. ASSUME conv' = conv
      PROVE  InLimit
  BY <1>3, FewerInLimit DEF Processing
<1>4. ASSUME NEW c \in Channel, NEW k, conv' = [conv EXCEPT ![c] = k],
             Cardinality(Processing) < MaxConcurrent
      PROVE  InLimit
  <2>1. Processing \in SUBSET Channel /\ Processing' \subseteq Processing \cup {c}
    BY <1>1, <1>4 DEF Processing
  <2>2. QED
    BY <1>4, <2>1, OneMoreInLimit
<1>5. ASSUME NEW m \in Message, NEW s \in BOOLEAN, HandleMessage(m, s)
      PROVE  InLimit
  <2> DEFINE c == ChannelOf[m]
             k == IF s THEN Abandoned(conv[c]) ELSE conv[c]
  <2>1. c \in Channel /\ k \in Run /\ (k.held => conv[c].held)
    BY <1>1, AbandonedRun DEF ChannelAssumption
  <2>2. \/ conv' = [conv EXCEPT ![c] = k]
        \/ /\ ~(Cardinality(Processing \ {c}) >= MaxConcurrent)
           /\ conv' = [conv EXCEPT ![c] = Begun(k)]
    BY <1>5 DEF HandleMessage
  <2> HIDE DEF c, k
  <2>3. CASE conv' = [conv EXCEPT ![c] = k]
    BY <1>2, <2>1, <2>3
  <2>4. CASE /\ ~(Cardinality(Processing \ {c}) >= MaxConcurrent)
             /\ conv' = [conv EXCEPT ![c] = Begun(k)]
    <3>1. /\ Processing \ {c} \in SUBSET Channel
          /\ Processing' \subseteq (Processing \ {c}) \cup {c}
      BY <1>1, <2>1, <2>4 DEF Processing
    <3>2. Cardinality(Processing \ {c}) \in Nat
      BY <3>1, FS_Subset, FS_CardinalityType DEF ChannelAssumption
    <3>3. Cardinality(Processing \ {c}) < MaxConcurrent
      BY <1>1, <2>4, <3>2
    <3>4. QED
      BY <2>1, <3>1, <3>3, OneMoreInLimit
  <2>5. QED
    BY <2>2, <2>3, <2>4
<1>6. ASSUME NEW m \in Message, HandleSystemEvent(m)
      PROVE  InLimit
  <2>1. ChannelOf[m] \in Channel
    BY DEF ChannelAssumption
  <2>2. \/ conv' = conv
        \/ /\ ~(Cardinality(Processing) >= MaxConcurrent)
           /\ conv' = [conv EXCEPT ![ChannelOf[m]] = Begun(conv[ChannelOf[m]])]
    BY <1>6 DEF HandleSystemEvent
  <2>3. QED
    BY <1>1, <1>3, <1>4, <2>1, <2>2, ProcessingFinite
<1>7. ASSUME NEW c \in Channel, InjectMessages(c) \/ NoteProgress(c)
      PROVE  InLimit
  BY <1>3, <1>7 DEF InjectMessages, NoteProgress
<1>8. ASSUME NEW c \in Channel,
             ReadHistory(c) \/ Timeout(c) \/ StaleTimeout(c) \/ StaleEnds(c)
      PROVE  InLimit
  <2>1. \A d \in Channel : conv'[d].held => conv[d].held
    BY <1>1, <1>8 DEF ReadHistory, Timeout, StaleTimeout, StaleEnds, Run
  <2>2. QED
    BY <2>1, FewerInLimit DEF Processing
<1>9. ASSUME NEW c \in Channel, Finish(c)
      PROVE  InLimit
  <2> DEFINE base == [conv EXCEPT ![c] = Ended(conv[c])]
  <2>1. /\ base \in [Channel -> Run]
        /\ \A d \in Channel : base[d].held => conv[d].held
    BY <1>1, EndedRun
  <2>2. \/ /\ ~conv[c].timedOut
           /\ conv' = [base EXCEPT ![c] = Begun(base[c])]
        \/ \E D \in Dispatches(base) :
             conv' = [d \in Channel |-> IF d \in D THEN Begun(base[d]) ELSE base[d]]
    BY <1>9 DEF Finish
  <2>3. conv[c].stage = "working"
    BY <1>9 DEF Finish
  <2> HIDE DEF base
  <2>4. CASE ~conv[c].timedOut /\ conv' = [base EXCEPT ![c] = Begun(base[c])]
    <3>1. conv[c].held
      BY <2>3, <2>4
    <3>2. Processing' \subseteq Processing
      BY <2>1, <2>4, <3>1 DEF Processing
    <3>3. QED
      BY <3>2, FewerInLimit
  <2>5. QED
    BY <2>1, <2>2, <2>4, DispatchInLimit
<1>10. ASSUME NEW c \in Channel, RetryTimer(c) \/ ResumeChannel(c)
      PROVE  InLimit
  <2>1. \/ conv' = conv
        \/ /\ Cardinality(Processing) < MaxConcurrent
           /\ conv' = [conv EXCEPT ![c] = Begun(conv[c])]
    BY <1>10 DEF RetryTimer, ResumeChannel
  <2>2. QED
    BY <1>3, <1>4, <2>1
<1>11. ASSUME NEW c \in Channel, RecoverStale(c) \/ PauseChannel(c)
      PROVE  InLimit
  <2>1. conv' = [conv EXCEPT ![c] = Abandoned(conv[c])]
    BY <1>11 DEF RecoverStale, PauseChannel
  <2>2. QED
    BY <1>1, <1>2, <2>1, AbandonedRun
<1>12. \A c \in Channel : ~ResumeTimer(c)
  BY DEF ResumeTimer
<1>13. CASE RecoverQueued
  BY <1>1, <1>13, DispatchInLimit DEF RecoverQueued
<1>14. CASE ResumeAfterRestart
  BY <1>3, <1>14 DEF ResumeAfterRestart
<1>15. ASSUME NEW graceful \in BOOLEAN, Restart(graceful)
      PROVE  InLimit
  BY <1>15, FewerInLimit DEF Restart, Processing, NoRun
<1>16. QED
  BY <1>5, <1>6, <1>7, <1>8, <1>9, <1>10, <1>11, <1>12, <1>13, <1>14, <1>15
     DEF Next, Conversation

\* No step takes the agent over MAX_CONCURRENT_CHANNELS but the timers of
\* resumeAfterRestart and a run that lost its place to a superseded one's timer.
THEOREM LimitKept == Spec => WithinCapacity
<1> DEFINE TypeInv == TypeOK /\ ConvInv
<1>1. Init => TypeInv
  BY TypeInit, ConvInit, ChannelAssumption
<1>2. TypeInv /\ [Next]_vars => TypeInv'
  <2>1. ASSUME TypeInv, UNCHANGED vars
        PROVE  TypeInv'
    BY <2>1 DEF TypeOK, ConvInv, vars
  <2>2. ASSUME TypeInv, Next
        PROVE  TypeInv'
    BY <2>2, TypeStep, ChannelAssumption
  <2>3. QED
    BY <2>1, <2>2
<1>3. TypeInv /\ [Next]_vars =>
        [/\ resuming' = resuming
         /\ \A c \in Channel : conv[c].stage = "none" \/ conv[c].held \/ conv[c].timedOut
         => \/ Cardinality(Processing') <= MaxConcurrent
            \/ Cardinality(Processing') <= Cardinality(Processing)]_vars
  BY LimitStep, ChannelAssumption DEF InLimit
<1> HIDE DEF TypeInv
<1>4. QED
  BY <1>1, <1>2, <1>3, PTL DEF Spec, WithinCapacity

-----------------------------------------------------------------------------
(* Every message is in one place *)

Distinct(s) == \A i, j \in DOMAIN s : s[i] = s[j] => i = j

\* A queue has the messages of its channel, each once; a message is in one of
\* its three places, once; and no row is left of a message that is in none.
Placed ==
  /\ \A c \in Channel : Distinct(queue[c]) /\ \A m \in Range(queue[c]) : ChannelOf[m] = c
  /\ \A m \in Message :
       /\ InQueue(m) => m \notin stored /\ blocks[m] = 0
       /\ m \in stored => blocks[m] = 0
       /\ blocks[m] <= 1
       /\ durable[m] # "absent" => m \in stored \/ blocks[m] > 0 \/ InQueue(m)

\* Before resumeAfterRestart the first process has no rows to load.
NoRows == ~booted => \A m \in Message : durable[m] = "absent"

HeldInv == ~Early /\ restarts = 0 => Placed /\ NoRows

LEMMA AppendDistinct ==
  ASSUME NEW s \in Seq(Message), NEW m \in Message, Distinct(s), m \notin Range(s)
  PROVE  Distinct(Append(s, m)) /\ Range(Append(s, m)) = Range(s) \cup {m}
<1> DEFINE t == Append(s, m)
<1>1. /\ Len(s) \in Nat /\ DOMAIN s = 1 .. Len(s) /\ DOMAIN t = 1 .. Len(s) + 1
      /\ \A i \in 1 .. Len(s) : t[i] = s[i]
      /\ t[Len(s) + 1] = m
  OBVIOUS
<1>2. \A i \in 1 .. Len(s) : s[i] \in Range(s) /\ s[i] # m
  BY <1>1 DEF Range
<1> HIDE DEF t
<1>3. Distinct(t)
  BY <1>1, <1>2 DEF Distinct
<1>4. Range(t) = Range(s) \cup {m}
  BY <1>1 DEF Range
<1>5. QED
  BY <1>3, <1>4 DEF t

LEMMA TailDistinct ==
  ASSUME NEW s \in Seq(Message), Distinct(s), s # <<>>
  PROVE  /\ Distinct(Tail(s)) /\ Range(Tail(s)) = Range(s) \ {Head(s)}
         /\ Head(s) \in Range(s) /\ Tail(s) \in Seq(Message)
<1> DEFINE t == Tail(s)
<1>1. /\ Len(s) \in Nat \ {0} /\ DOMAIN s = 1 .. Len(s) /\ DOMAIN t = 1 .. Len(s) - 1
      /\ \A i \in 1 .. Len(s) - 1 : t[i] = s[i + 1]
      /\ Head(s) = s[1] /\ t \in Seq(Message)
  OBVIOUS
<1> HIDE DEF t
<1>2. Distinct(t)
  <2>1. SUFFICES ASSUME NEW i \in 1 .. Len(s) - 1, NEW j \in 1 .. Len(s) - 1, t[i] = t[j]
                 PROVE  i = j
    BY <1>1 DEF Distinct
  <2>2. s[i + 1] = s[j + 1] /\ i + 1 \in DOMAIN s /\ j + 1 \in DOMAIN s
    BY <1>1, <2>1
  <2>3. i + 1 = j + 1
    BY <2>2 DEF Distinct
  <2>4. QED
    BY <2>3
<1>3. Range(t) = Range(s) \ {Head(s)}
  <2>1. ASSUME NEW m \in Range(t) PROVE m \in Range(s) \ {Head(s)}
    <3>1. PICK i \in 1 .. Len(s) - 1 : m = s[i + 1]
      BY <1>1 DEF Range
    <3>2. i + 1 \in DOMAIN s /\ 1 \in DOMAIN s /\ i + 1 # 1
      BY <1>1
    <3>3. QED
      BY <1>1, <3>1, <3>2 DEF Range, Distinct
  <2>2. ASSUME NEW m \in Range(s) \ {Head(s)} PROVE m \in Range(t)
    <3>1. PICK i \in 1 .. Len(s) : m = s[i]
      BY <1>1 DEF Range
    <3>2. i # 1 /\ i - 1 \in 1 .. Len(s) - 1 /\ t[i - 1] = s[i]
      BY <1>1, <2>2, <3>1
    <3>3. QED
      BY <1>1, <3>1, <3>2 DEF Range
  <2>3. QED
    BY <2>1, <2>2
<1>4. Head(s) \in Range(s)
  BY <1>1 DEF Range
<1>5. QED
  BY <1>1, <1>2, <1>3, <1>4 DEF t

\* handleMessage and handleSystemEvent: a message that was nowhere is queued.
LEMMA PlacedQueued ==
  ASSUME ChannelAssumption, TypeOK, Placed, NEW m \in Message, ~Arrived(m),
         queue' = [queue EXCEPT ![ChannelOf[m]] = Append(queue[ChannelOf[m]], m)],
         durable' = durable \/ durable' = [durable EXCEPT ![m] = "unprocessed"],
         UNCHANGED <<stored, blocks>>
  PROVE  Placed'
<1> DEFINE c == ChannelOf[m]
<1>1. c \in Channel /\ queue[c] \in Seq(Message) /\ queue \in [Channel -> Seq(Message)]
  BY DEF ChannelAssumption, TypeOK
<1>2. m \notin stored /\ ~(blocks[m] > 0) /\ m \notin Range(queue[c]) /\ blocks[m] \in Nat
  BY DEF Arrived, InQueue, TypeOK
<1>3. Distinct(queue'[c]) /\ Range(queue'[c]) = Range(queue[c]) \cup {m}
  BY <1>1, <1>2, AppendDistinct DEF Placed
<1>4. \A d \in Channel : d # c => queue'[d] = queue[d]
  BY <1>1
<1>5. \A d \in Channel : Distinct(queue'[d]) /\ \A n \in Range(queue'[d]) : ChannelOf[n] = d
  BY <1>3, <1>4 DEF Placed
<1>6. \A n \in Message : InQueue(n)' <=> InQueue(n) \/ n = m
  BY <1>1, <1>3, <1>4 DEF InQueue, ChannelAssumption
<1>7. \A n \in Message : durable'[n] # "absent" => durable[n] # "absent" \/ n = m
  BY DEF TypeOK
<1>8. QED
  BY <1>2, <1>5, <1>6, <1>7 DEF Placed

\* A message that was nowhere begins a conversation.
LEMMA PlacedStored ==
  ASSUME TypeOK, Placed, NEW m \in Message, ~Arrived(m),
         stored' = stored \cup {m}, UNCHANGED <<queue, durable, blocks>>
  PROVE  Placed'
<1>1. ~(blocks[m] > 0) /\ ~InQueue(m) /\ blocks[m] \in Nat
  BY DEF Arrived, TypeOK
<1>2. \A n \in Message : InQueue(n)' <=> InQueue(n)
  BY DEF InQueue
<1>3. QED
  BY <1>1, <1>2 DEF Placed

LEMMA MarkKeeps ==
  ASSUME TypeOK, NEW c, NEW n \in Message
  PROVE  MarkProcessed(durable, c)[n] # "absent" => durable[n] # "absent"
  BY DEF MarkProcessed, TypeOK

\* All messages of a queue become one row.
LEMMA PlacedDrained ==
  ASSUME ChannelAssumption, TypeOK, Placed, NEW c \in Channel, Drain(c)
  PROVE  Placed'
<1>1. queue' = [queue EXCEPT ![c] = <<>>] /\ stored' = stored /\ queue \in [Channel -> Seq(Message)]
  BY DEF Drain, TypeOK
<1>2. CASE queue[c] = <<>>
  <2>1. queue' = queue /\ UNCHANGED <<durable, blocks>>
    BY <1>1, <1>2 DEF Drain
  <2>2. QED
    BY <1>1, <2>1 DEF Placed, InQueue
<1>3. CASE queue[c] # <<>>
  <2>1. /\ blocks' = [m \in Message |->
                        IF m \in Range(queue[c]) THEN blocks[m] + 1 ELSE blocks[m]]
        /\ durable' = MarkProcessed(durable, c)
    BY <1>3 DEF Drain
  <2>2. queue'[c] = <<>> /\ Range(queue'[c]) = {} /\ \A d \in Channel : d # c => queue'[d] = queue[d]
    BY <1>1 DEF Range
  <2>3. \A d \in Channel : Distinct(queue'[d]) /\ \A m \in Range(queue'[d]) : ChannelOf[m] = d
    BY <2>2 DEF Placed, Distinct
  <2>4. \A m \in Message : InQueue(m)' <=> InQueue(m) /\ m \notin Range(queue[c])
    BY <2>2 DEF InQueue, Placed, ChannelAssumption
  <2>5. \A m \in Message : m \in Range(queue[c]) => InQueue(m)
    BY DEF InQueue, Placed
  <2>6. \A m \in Message : blocks[m] \in Nat
    BY DEF TypeOK
  <2>7. ASSUME NEW m \in Message
        PROVE  /\ InQueue(m)' => m \notin stored' /\ blocks'[m] = 0
               /\ m \in stored' => blocks'[m] = 0
               /\ blocks'[m] <= 1
               /\ durable'[m] # "absent" => m \in stored' \/ blocks'[m] > 0 \/ InQueue(m)'
    <3>1. CASE m \in Range(queue[c])
      <4>1. m \notin stored /\ blocks'[m] = 1 /\ ~InQueue(m)'
        BY <2>1, <2>4, <2>5, <3>1 DEF Placed
      <4>2. QED
        BY <1>1, <4>1
    <3>2. CASE m \notin Range(queue[c])
      <4>1. blocks'[m] = blocks[m] /\ (InQueue(m)' <=> InQueue(m))
        BY <2>1, <2>4, <3>2
      <4>2. durable'[m] # "absent" => durable[m] # "absent"
        BY <2>1, MarkKeeps
      <4>3. QED
        BY <1>1, <4>1, <4>2 DEF Placed
    <3>3. QED
      BY <3>1, <3>2
  <2>8. QED
    BY <2>3, <2>7 DEF Placed
<1>4. QED
  BY <1>2, <1>3

\* The first messages of some queues begin conversations.
LEMMA PlacedPromoted ==
  ASSUME ChannelAssumption, TypeOK, Placed, NEW D \in SUBSET Channel, \A c \in D : queue[c] # <<>>,
         Promote(D), durable' = durable \/ \E c \in Channel : durable' = MarkProcessed(durable, c),
         UNCHANGED blocks
  PROVE  Placed'
<1>1. \A c \in Channel : queue'[c] = IF c \in D THEN Tail(queue[c]) ELSE queue[c]
  BY DEF Promote
<1>2. stored' = stored \cup {Head(queue[c]) : c \in D}
  BY DEF Promote
<1>3. \A c \in Channel : queue[c] \in Seq(Message) /\ Distinct(queue[c])
  BY DEF TypeOK, Placed
<1>4. \A c \in D : /\ Distinct(queue'[c]) /\ Range(queue'[c]) = Range(queue[c]) \ {Head(queue[c])}
                   /\ Head(queue[c]) \in Range(queue[c])
  BY <1>1, <1>3, TailDistinct
<1>5. \A c \in Channel \ D : queue'[c] = queue[c]
  BY <1>1
<1>6. \A c \in Channel : Distinct(queue'[c]) /\ \A m \in Range(queue'[c]) : ChannelOf[m] = c
  BY <1>4, <1>5 DEF Placed
<1>7. ASSUME NEW m \in Message
      PROVE  /\ InQueue(m)' => m \notin stored' /\ blocks'[m] = 0
             /\ m \in stored' => blocks'[m] = 0
             /\ blocks'[m] <= 1
             /\ durable'[m] # "absent" => m \in stored' \/ blocks'[m] > 0 \/ InQueue(m)'
  <2>1. ChannelOf[m] \in Channel
    BY DEF ChannelAssumption
  <2>2. durable'[m] # "absent" => durable[m] # "absent"
    BY MarkKeeps
  <2>3. CASE \E c \in D : m = Head(queue[c])
    <3>1. PICK c \in D : m = Head(queue[c])
      BY <2>3
    <3>2. m \in Range(queue[c]) /\ ChannelOf[m] = c
      BY <1>4, <3>1 DEF Placed
    <3>3. InQueue(m) /\ ~InQueue(m)'
      BY <1>4, <3>1, <3>2 DEF InQueue
    <3>4. m \in stored' /\ blocks'[m] = 0
      BY <1>2, <3>1, <3>3 DEF Placed
    <3>5. QED
      BY <3>3, <3>4
  <2>4. CASE ~\E c \in D : m = Head(queue[c])
    <3>1. m \in stored' <=> m \in stored
      BY <1>2, <2>4
    <3>2. InQueue(m)' <=> InQueue(m)
      BY <1>4, <1>5, <2>1, <2>4 DEF InQueue
    <3>3. QED
      BY <2>2, <3>1, <3>2 DEF Placed
  <2>5. QED
    BY <2>3, <2>4
<1>8. QED
  BY <1>6, <1>7 DEF Placed

\* What a handler of a message, a drain or a dispatch does to the places.
LEMMA PlacedSame ==
  ASSUME Placed, UNCHANGED <<queue, stored, blocks, durable>> PROVE Placed'
  BY DEF Placed, InQueue

LEMMA PlacedMessages ==
  ASSUME ChannelAssumption, TypeOK, Placed, NEW m \in Message,
         HandleSystemEvent(m) \/ \E s \in BOOLEAN : HandleMessage(m, s)
  PROVE  Placed'
<1>1. CASE HandleSystemEvent(m)
  <2>1. \/ queue' = [queue EXCEPT ![ChannelOf[m]] = Append(queue[ChannelOf[m]], m)]
           /\ stored' = stored
        \/ queue' = queue /\ stored' = stored \cup {m}
    BY <1>1 DEF HandleSystemEvent
  <2>2. ~Arrived(m) /\ durable' = durable /\ blocks' = blocks
    BY <1>1 DEF HandleSystemEvent
  <2>3. QED
    BY <2>1, <2>2, PlacedQueued, PlacedStored
<1>2. ASSUME NEW s \in BOOLEAN, HandleMessage(m, s) PROVE Placed'
  <2>1. \/ /\ queue' = [queue EXCEPT ![ChannelOf[m]] = Append(queue[ChannelOf[m]], m)]
           /\ stored' = stored /\ durable' = [durable EXCEPT ![m] = "unprocessed"]
        \/ queue' = queue /\ stored' = stored \cup {m} /\ durable' = durable
    BY <1>2 DEF HandleMessage
  <2>2. ~Arrived(m) /\ blocks' = blocks
    BY <1>2 DEF HandleMessage
  <2>3. QED
    BY <2>1, <2>2, PlacedQueued, PlacedStored
<1>3. QED
  BY <1>1, <1>2

LEMMA PlacedConversation ==
  ASSUME ChannelAssumption, TypeOK, Placed, NEW c \in Channel, Conversation(c)
  PROVE  Placed'
<1>1. CASE ReadHistory(c) \/ InjectMessages(c)
  BY <1>1, PlacedDrained DEF ReadHistory, InjectMessages
<1>2. CASE NoteProgress(c) \/ Timeout(c) \/ StaleTimeout(c) \/ StaleEnds(c)
  BY <1>2, PlacedSame DEF NoteProgress, Timeout, StaleTimeout, StaleEnds
<1>3. CASE Finish(c)
  <2>1. blocks' = blocks /\ (durable' = durable \/ durable' = MarkProcessed(durable, c))
    BY <1>3 DEF Finish
  <2>2. \/ queue[c] # <<>> /\ Promote({c})
        \/ \E r \in Outcomes(retry[c]) :
             \E D \in Dispatches([conv EXCEPT ![c] = Ended(@)]) : Promote(D)
    BY <1>3 DEF Finish
  <2>3. CASE queue[c] # <<>> /\ Promote({c})
    BY <2>1, <2>3, PlacedPromoted
  <2>4. CASE \E r \in Outcomes(retry[c]) :
               \E D \in Dispatches([conv EXCEPT ![c] = Ended(@)]) : Promote(D)
    BY <2>1, <2>4, DispatchType, PlacedPromoted
  <2>5. QED
    BY <2>2, <2>3, <2>4
<1>4. QED
  BY <1>1, <1>2, <1>3 DEF Conversation

\* Without rows there is nothing to load.
LEMMA PlacedBooted ==
  ASSUME Placed, \A m \in Message : durable[m] = "absent", TypeOK, ResumeAfterRestart
  PROVE  Placed'
<1>1. PICK old \in SUBSET {c \in Channel : session[c] = "processing" /\ noted[c] = "no"},
          expired \in SUBSET {m \in Message : durable[m] = "unprocessed"} :
        LET rows(c) == {m \in Message : ChannelOf[m] = c /\ durable[m] = "unprocessed"}
            found == {c \in Channel : session[c] = "processing" \/ rows(c) # {}} \ old
            load(c) == IF c \in found THEN rows(c) \ expired ELSE {}
        IN /\ durable' = [m \in Message |->
                            IF m \in expired /\ ChannelOf[m] \in found
                              THEN "processed" ELSE durable[m]]
           /\ \E q \in [Channel -> UNION {SetToSeqs(load(c)) : c \in Channel}] :
                /\ \A c \in Channel : q[c] \in SetToSeqs(load(c))
                /\ queue' = [c \in Channel |-> IF load(c) = {} THEN queue[c] ELSE q[c]]
           /\ resuming' = IF Cardinality(Processing) < MaxConcurrent THEN found ELSE {}
           /\ session' = [c \in Channel |->
                            CASE c \in found -> "queued"
                              [] c \in old \/ found = {} -> "idle"
                              [] OTHER -> session[c]]
           /\ noted' = [c \in Channel |->
                          IF c \in found /\ conv[c].held THEN "quiet" ELSE noted[c]]
  BY Zenon DEF ResumeAfterRestart
<1> DEFINE rows(c) == {m \in Message : ChannelOf[m] = c /\ durable[m] = "unprocessed"}
           found == {c \in Channel : session[c] = "processing" \/ rows(c) # {}} \ old
           load(c) == IF c \in found THEN rows(c) \ expired ELSE {}
<1>2. expired = {} /\ \A c \in Channel : rows(c) = {}
  OBVIOUS
<1>3. \A c \in Channel : load(c) = {}
  BY <1>2
<1>4. durable' = durable
  <2> HIDE DEF found
  <2>1. durable' = [m \in Message |-> IF m \in expired /\ ChannelOf[m] \in found
                                        THEN "processed" ELSE durable[m]]
    BY <1>1 DEF found
  <2>2. QED
    BY <1>2, <2>1 DEF TypeOK
<1>5. queue' = queue
  <2>1. PICK q \in [Channel -> UNION {SetToSeqs(load(c)) : c \in Channel}] :
          queue' = [c \in Channel |-> IF load(c) = {} THEN queue[c] ELSE q[c]]
    BY <1>1
  <2> HIDE DEF load
  <2>2. QED
    BY <1>3, <2>1 DEF TypeOK
<1>6. UNCHANGED <<stored, blocks>>
  BY DEF ResumeAfterRestart
<1>7. QED
  BY <1>4, <1>5, <1>6, PlacedSame

LEMMA HeldStep ==
  ASSUME ChannelAssumption, FoundInv, HeldInv, Next
  PROVE  HeldInv'
<1> SUFFICES ASSUME ~Early, restarts' = 0 PROVE Placed' /\ NoRows'
  BY DEF HeldInv
<1>0. TypeOK /\ Dormant
  BY DEF FoundInv
<1>1. ASSUME NEW graceful \in BOOLEAN PROVE ~Restart(graceful)
  BY <1>0 DEF Restart, TypeOK
<1>2. ASSUME NEW m \in Message, HandleSystemEvent(m) \/ \E s \in BOOLEAN : HandleMessage(m, s)
      PROVE  restarts = 0 /\ booted' = booted
  BY <1>2 DEF HandleSystemEvent, HandleMessage
<1>3. ASSUME NEW c \in Channel, Conversation(c)
      PROVE  restarts = 0 /\ booted' = booted
  BY <1>3 DEF Conversation, ReadHistory, InjectMessages, NoteProgress, Timeout,
              StaleTimeout, Finish, StaleEnds
<1>4. ASSUME NEW c \in Channel,
             RetryTimer(c) \/ RecoverStale(c) \/ PauseChannel(c) \/ ResumeChannel(c) \/ ResumeTimer(c)
      PROVE  restarts = 0 /\ booted' = booted /\ UNCHANGED <<queue, stored, blocks, durable>>
  BY <1>4 DEF RetryTimer, RecoverStale, PauseChannel, ResumeChannel, ResumeTimer
<1>5. RecoverQueued => restarts = 0 /\ booted' = booted
  BY DEF RecoverQueued
<1>6. ResumeAfterRestart => restarts = 0 /\ booted' /\ ~booted
  BY DEF ResumeAfterRestart
<1>7. restarts = 0
  BY <1>1, <1>2, <1>3, <1>4, <1>5, <1>6 DEF Next
<1>8. Placed /\ NoRows
  BY <1>7 DEF HeldInv
<1>9. NoRows'
  <2>1. CASE booted
    <3>1. booted'
      BY <1>1, <1>2, <1>3, <1>4, <1>5, <1>6, <2>1 DEF Next
    <3>2. QED
      BY <3>1 DEF NoRows
  <2>2. CASE ~booted
    <3>1. ResumeAfterRestart
      BY <1>0, <1>1, <2>2, DormantOnlyBoots
    <3>2. QED
      BY <3>1 DEF NoRows, ResumeAfterRestart
  <2>3. QED
    BY <2>1, <2>2
<1>10. Placed'
  <2>1. CASE \E m \in Message : HandleSystemEvent(m) \/ \E s \in BOOLEAN : HandleMessage(m, s)
    BY <1>0, <1>8, <2>1, PlacedMessages
  <2>2. CASE \E c \in Channel : Conversation(c)
    BY <1>0, <1>8, <2>2, PlacedConversation
  <2>3. ASSUME NEW c \in Channel,
               RetryTimer(c) \/ RecoverStale(c) \/ PauseChannel(c) \/ ResumeChannel(c)
                 \/ ResumeTimer(c)
        PROVE  Placed'
    BY <1>4, <1>8, <2>3, PlacedSame
  <2>4. CASE RecoverQueued
    BY <1>0, <1>8, <2>4, DispatchType, PlacedPromoted DEF RecoverQueued
  <2>5. CASE ResumeAfterRestart
    BY <1>0, <1>6, <1>8, <2>5, PlacedBooted DEF NoRows
  <2>6. QED
    BY <1>1, <2>1, <2>2, <2>3, <2>4, <2>5 DEF Next
<1>11. QED
  BY <1>9, <1>10

LEMMA PlacedOnce ==
  ASSUME ChannelAssumption, TypeOK, Placed, NEW m \in Message
  PROVE  LET places == {i \in DOMAIN queue[ChannelOf[m]] : queue[ChannelOf[m]][i] = m}
         IN Cardinality(places) + (IF m \in stored THEN 1 ELSE 0) + blocks[m] <= 1
<1> DEFINE places == {i \in DOMAIN queue[ChannelOf[m]] : queue[ChannelOf[m]][i] = m}
<1>1. blocks[m] \in Nat /\ ChannelOf[m] \in Channel
  BY DEF TypeOK, ChannelAssumption
<1>2. CASE InQueue(m)
  <2>1. PICK i \in DOMAIN queue[ChannelOf[m]] : queue[ChannelOf[m]][i] = m
    BY <1>2 DEF InQueue, Range
  <2>2. places = {i}
    BY <1>1, <2>1 DEF Placed, Distinct
  <2>3. Cardinality(places) = 1 /\ m \notin stored /\ blocks[m] = 0
    BY <1>2, <2>2, FS_Singleton DEF Placed
  <2> HIDE DEF places
  <2>4. QED
    BY <2>3 DEF places
<1>3. CASE ~InQueue(m)
  <2>1. places = {}
    BY <1>3 DEF InQueue, Range
  <2>2. Cardinality(places) = 0
    BY <2>1, FS_EmptySet
  <2>3. /\ m \in stored => blocks[m] = 0
        /\ blocks[m] <= 1
    BY DEF Placed
  <2> HIDE DEF places
  <2>4. QED
    BY <1>1, <2>2, <2>3 DEF places
<1>4. QED
  BY <1>2, <1>3

\* Until the first restart every accepted message is in one place, once,
\* whatever superseded runs drain, retry, end or time out beside the current
\* one (handleMessage, drainQueue, promoteQueuedMessage).
THEOREM NothingLostOrDoubled == Spec => []HeldExactlyOnce
<1>1. Init => HeldInv
  BY DEF Init, HeldInv, Placed, NoRows, InQueue, Distinct, Range
<1>2. FoundInv /\ HeldInv /\ [Next]_vars => HeldInv'
  <2>1. ASSUME HeldInv, UNCHANGED vars PROVE HeldInv'
    BY <2>1 DEF HeldInv, Placed, NoRows, InQueue, vars
  <2>2. QED
    BY <2>1, HeldStep, ChannelAssumption
<1>3. FoundInv /\ HeldInv => HeldExactlyOnce
  <2> SUFFICES ASSUME TypeOK, Placed, NEW m \in Message
               PROVE  /\ Arrived(m) <=> m \in stored \/ blocks[m] > 0 \/ InQueue(m)
                      /\ Cardinality({i \in DOMAIN queue[ChannelOf[m]] :
                                        queue[ChannelOf[m]][i] = m})
                           + (IF m \in stored THEN 1 ELSE 0) + blocks[m] <= 1
    BY DEF FoundInv, HeldInv, HeldExactlyOnce
  <2>1. Arrived(m) <=> m \in stored \/ blocks[m] > 0 \/ InQueue(m)
    BY DEF Arrived, Placed
  <2>2. QED
    BY <2>1, PlacedOnce, ChannelAssumption
<1>4. QED
  BY <1>1, <1>2, <1>3, FoundAlways, PTL DEF Spec
=============================================================================
