------------------------------ MODULE MainAgent ------------------------------
(***************************************************************************)
(* The chat side of the main agent (services/main-agent.ts): messages of    *)
(* channels, at most MaxConcurrent conversations, one per channel, a queue  *)
(* per channel in memory and a durable one in SQLite.                       *)
(*                                                                         *)
(* processConversation is a coroutine.  Its run id is checked only when an  *)
(* LLM response arrives and when it ends, so a superseded run goes on       *)
(* beside the current one until then: it still takes queued messages and    *)
(* its 30 minute timer still fires.  All clocks are nondeterministic.       *)
(***************************************************************************)
EXTENDS Naturals, Sequences, SequencesExt, FiniteSets, FiniteSetsExt

CONSTANTS
  Channel, Message, ChannelOf,
  System,          \* messages of handleSystemEvent, the others are of users
  MaxConcurrent,   \* MAX_CONCURRENT_CHANNELS, 10
  RetryBudget,     \* conversation retries, 2
  Pausable,        \* channels of vim sessions
  Early,           \* transports are open before resumeAfterRestart, 3 s after start
  MaxPauses,       \* bound: pauses of a channel
  MaxStale,        \* bound: superseded runs of a channel that still await
  MaxRestarts      \* bound: restarts of the process

ASSUME ChannelAssumption ==
  /\ IsFiniteSet(Channel) /\ IsFiniteSet(Message)
  /\ ChannelOf \in [Message -> Channel]
  /\ System \subseteq Message /\ Pausable \subseteq Channel
  /\ MaxConcurrent \in Nat \ {0} /\ RetryBudget \in Nat /\ Early \in BOOLEAN
  /\ MaxPauses \in Nat /\ MaxStale \in Nat /\ MaxRestarts \in Nat

VARIABLES
  conv,        \* processingChannels and the coroutines of a channel
  retry,       \* conversationRetryCount and pendingRetryDelay
  timers,      \* retry timers that have not fired
  queue,       \* channelQueues
  durable,     \* rows of message_queue
  stored,      \* messages with a row of their own in main_agent_messages
  blocks,      \* in how many rows of queued messages a message is
  session,     \* channel_sessions.status
  noted,       \* channelLastSessionHeartbeatAt: no entry, or one; "quiet": one,
               \* while the session row does not say that the channel is processed
  resuming,    \* channels with a resume timer (resumeAfterRestart)
  booted,      \* resumeAfterRestart has run
  pauses, restarts

vars == <<conv, retry, timers, queue, durable, stored, blocks, session, noted,
          resuming, booted, pauses, restarts>>

Run == [held : BOOLEAN,                        \* in processingChannels
        stage : {"none", "typing", "working"}, \* of the current run
        timedOut : BOOLEAN,                    \* its conversationTimedOut
        armed : Nat, fired : Nat]              \* superseded runs, by timer

TypeOK ==
  /\ conv \in [Channel -> Run]
  /\ retry \in [Channel -> [count : 0 .. RetryBudget, pending : BOOLEAN]]
  /\ timers \in [Channel -> Nat]
  /\ queue \in [Channel -> Seq(Message)]
  /\ durable \in [Message -> {"absent", "unprocessed", "processed"}]
  /\ stored \subseteq Message
  /\ blocks \in [Message -> Nat]
  /\ session \in [Channel -> {"idle", "processing", "queued"}]
  /\ noted \in [Channel -> {"no", "yes", "quiet"}]
  /\ resuming \subseteq Channel
  /\ booted \in BOOLEAN
  /\ pauses \in [Channel -> Nat]
  /\ restarts \in Nat

NoRun == [held |-> FALSE, stage |-> "none", timedOut |-> FALSE, armed |-> 0, fired |-> 0]
NoRetry == [count |-> 0, pending |-> FALSE]

Init ==
  /\ conv = [c \in Channel |-> NoRun]
  /\ retry = [c \in Channel |-> NoRetry]
  /\ timers = [c \in Channel |-> 0]
  /\ queue = [c \in Channel |-> <<>>]
  /\ durable = [m \in Message |-> "absent"]
  /\ stored = {}
  /\ blocks = [m \in Message |-> 0]
  /\ session = [c \in Channel |-> "idle"]
  /\ noted = [c \in Channel |-> "no"]
  /\ resuming = {}
  /\ booted = FALSE
  /\ pauses = [c \in Channel |-> 0]
  /\ restarts = 0

----------------------------------------------------------------------------
(* The runs of a channel *)

Processing == {c \in Channel : conv[c].held}
Stale(c) == conv[c].armed + conv[c].fired
InQueue(m) == m \in Range(queue[ChannelOf[m]])
Arrived(m) == m \in stored \/ blocks[m] > 0 \/ durable[m] # "absent" \/ InQueue(m)

\* The current run, if any, is current no more: channelRunIds goes up.
Superseded(k) ==
  CASE k.stage = "none" -> k
    [] k.stage # "none" /\ k.timedOut ->
         [k EXCEPT !.stage = "none", !.timedOut = FALSE, !.fired = @ + 1]
    [] OTHER -> [k EXCEPT !.stage = "none", !.armed = @ + 1]

\* processConversation up to its first await
Begun(k) == [Superseded(k) EXCEPT !.held = TRUE, !.stage = "typing"]

\* recoverStaleChannel, pauseChannel: the channel is released.
Abandoned(k) == [Superseded(k) EXCEPT !.held = FALSE]

\* mutant: the channel is not released.
EndedHolding(k) == [k EXCEPT !.stage = "none", !.timedOut = FALSE]

\* The finally block of the current run
Ended(k) == [k EXCEPT !.held = FALSE, !.stage = "none", !.timedOut = FALSE]

\* A run begins or notes its progress: the session row is written, and when.
RowSays(D) ==
  /\ session' = [d \in Channel |-> IF d \in D THEN "processing" ELSE session[d]]
  /\ noted' = [d \in Channel |-> IF d \in D THEN "yes" ELSE noted[d]]

\* A run is over or given up: its entry is deleted and the row written.
RowLeft(c, status) ==
  /\ session' = [session EXCEPT ![c] = status]
  /\ noted' = [noted EXCEPT ![c] = "no"]

\* The transports (Discord, vim, HTTP) hand messages in.
Open == booted \/ Early

Room(c) == conv[c].stage = "none" \/ Stale(c) < MaxStale

----------------------------------------------------------------------------
(* Queues *)

\* markQueueProcessed
MarkProcessed(rows, c) ==
  [m \in Message |->
     IF ChannelOf[m] = c /\ rows[m] = "unprocessed" THEN "processed" ELSE rows[m]]

\* drainQueue, getInjectedMessages: all messages become one row of history.
Drain(c) ==
  /\ queue' = [queue EXCEPT ![c] = <<>>]
  /\ IF queue[c] = <<>> THEN UNCHANGED <<durable, blocks>>
     ELSE /\ blocks' = [m \in Message |->
                          IF m \in Range(queue[c]) THEN blocks[m] + 1 ELSE blocks[m]]
          /\ durable' = MarkProcessed(durable, c)
  /\ UNCHANGED stored

\* mutant: the message stays in the queue.
PromoteWithoutShift(D) ==
  /\ stored' = stored \cup {Head(queue[c]) : c \in D}
  /\ UNCHANGED queue

\* The first messages of the channels D are taken and promoted, each to a row
\* with its own id (INSERT OR IGNORE).
Promote(D) ==
  /\ queue' = [c \in Channel |-> IF c \in D THEN Tail(queue[c]) ELSE queue[c]]
  /\ stored' = stored \cup {Head(queue[c]) : c \in D}

----------------------------------------------------------------------------
(* Messages *)

\* handleMessage; a user's message may find its channel stalled and recover it.
HandleMessage(m, stalled) ==
  LET c == ChannelOf[m]
      k == IF stalled THEN Abandoned(conv[c]) ELSE conv[c]
      busy == k.held \/ Cardinality(Processing \ {c}) >= MaxConcurrent
  IN /\ ~Arrived(m) /\ m \notin System /\ Open
     /\ stalled => conv[c].held
     /\ stalled \/ ~busy => Room(c)
     /\ retry' = IF stalled THEN [retry EXCEPT ![c] = NoRetry] ELSE retry
     /\ \/ /\ busy
           /\ conv' = [conv EXCEPT ![c] = k]
           /\ durable' = [durable EXCEPT ![m] = "unprocessed"]
           /\ queue' = [queue EXCEPT ![c] = Append(@, m)]
           /\ IF stalled THEN RowLeft(c, "idle") ELSE UNCHANGED <<session, noted>>
           /\ UNCHANGED stored
        \/ /\ ~busy
           /\ conv' = [conv EXCEPT ![c] = Begun(k)]
           /\ stored' = stored \cup {m}
           /\ RowSays({c})
           /\ UNCHANGED <<durable, queue>>
     /\ UNCHANGED <<timers, blocks, resuming, booted, pauses, restarts>>

\* handleSystemEvent: queued in memory only, and it writes no row of its own.  The
\* one that processConversation notes is left out within 15 s of the last.
HandleSystemEvent(m) ==
  LET c == ChannelOf[m]
      busy == conv[c].held \/ Cardinality(Processing) >= MaxConcurrent
  IN /\ ~Arrived(m) /\ m \in System /\ Open
     /\ \/ /\ busy
           /\ queue' = [queue EXCEPT ![c] = Append(@, m)]
           /\ UNCHANGED <<conv, stored, session, noted>>
        \/ /\ ~busy /\ Room(c)
           /\ conv' = [conv EXCEPT ![c] = Begun(conv[c])]
           /\ stored' = stored \cup {m}
           /\ \/ RowSays({c})
              \/ /\ noted[c] # "no"
                 /\ noted' = [noted EXCEPT ![c] =
                                IF session[c] = "processing" THEN "yes" ELSE "quiet"]
                 /\ UNCHANGED session
           /\ UNCHANGED queue
     /\ UNCHANGED <<retry, timers, durable, blocks, resuming, booted, pauses, restarts>>

----------------------------------------------------------------------------
(* processConversation *)

\* The typing hook returns: history is read and the queue drained.
ReadHistory(c) ==
  /\ conv[c].stage = "typing"
  /\ conv' = [conv EXCEPT ![c].stage = "working"]
  /\ Drain(c)
  /\ UNCHANGED <<retry, timers, session, noted, resuming, booted, pauses, restarts>>

\* Between two turns of the agent loop, by the current run or a superseded one,
\* which also drains when it only now comes back from the typing hook.
InjectMessages(c) ==
  /\ queue[c] # <<>>
  /\ conv[c].stage = "working" \/ Stale(c) > 0
  /\ Drain(c)
  /\ UNCHANGED <<conv, retry, timers, session, noted, resuming, booted, pauses,
                 restarts>>

\* noteChannelProgress, throttled by a clock: any run of the channel
NoteProgress(c) ==
  /\ conv[c].stage # "none" \/ Stale(c) > 0
  /\ RowSays({c})
  /\ UNCHANGED <<conv, retry, timers, queue, durable, stored, blocks, resuming,
                 booted, pauses, restarts>>

\* The conversation timeout of the current run ...
Timeout(c) ==
  /\ conv[c].stage # "none" /\ ~conv[c].timedOut
  /\ conv' = [conv EXCEPT ![c].timedOut = TRUE, ![c].held = FALSE]
  /\ RowLeft(c, "idle")
  /\ UNCHANGED <<retry, timers, queue, durable, stored, blocks, resuming, booted,
                 pauses, restarts>>

\* ... and of a superseded one: it releases the channel of the current run.
StaleTimeout(c) ==
  /\ conv[c].armed > 0
  /\ conv' = [conv EXCEPT ![c].armed = @ - 1, ![c].fired = @ + 1, ![c].held = FALSE]
  /\ RowLeft(c, "idle")
  /\ UNCHANGED <<retry, timers, queue, durable, stored, blocks, resuming, booted,
                 pauses, restarts>>

\* mutant: the budget is not looked at.
CaughtEndlessly(r, transient) ==
  IF transient THEN [count |-> r.count + 1, pending |-> TRUE] ELSE [r EXCEPT !.count = 0]

\* The catch block on the retry state of a channel
Caught(r, transient) ==
  IF transient /\ r.count < RetryBudget
  THEN [count |-> r.count + 1, pending |-> TRUE]
  ELSE [r EXCEPT !.count = 0]

Outcomes(r) == {[r EXCEPT !.count = 0], Caught(r, TRUE), Caught(r, FALSE)}

\* mutants: the loop does not stop at the limit, or stops one short of it.
DispatchesAll(base) == {{d \in Channel : queue[d] # <<>> /\ ~base[d].held}}
DispatchesOneShort(base) ==
  LET held == {d \in Channel : base[d].held}
      waiting == {d \in Channel : queue[d] # <<>> /\ ~base[d].held}
  IN {D \in SUBSET waiting : Cardinality(D) + Cardinality(held) + 1 <= MaxConcurrent
                              \/ D = {}}

\* Cross-channel dispatch: as many waiting channels as there is capacity for.
Dispatches(base) ==
  LET held == {d \in Channel : base[d].held}
      waiting == {d \in Channel : queue[d] # <<>> /\ ~base[d].held}
      free == IF Cardinality(held) < MaxConcurrent
                THEN MaxConcurrent - Cardinality(held) ELSE 0
  IN {D \in SUBSET waiting :
        Cardinality(D) = IF Cardinality(waiting) < free THEN Cardinality(waiting) ELSE free}

\* The current run ends: a pending retry gets a timer, the channel's next
\* queued message is taken, or other channels are dispatched.
Finish(c) ==
  /\ conv[c].stage = "working"
  /\ UNCHANGED <<blocks, resuming, booted, pauses, restarts>>
  /\ \E r \in Outcomes(retry[c]) :
       LET base == [conv EXCEPT ![c] = Ended(@)]
           drains == ~r.pending /\ ~conv[c].timedOut
       IN /\ retry' = [retry EXCEPT ![c] = [r EXCEPT !.pending = FALSE]]
          /\ timers' = IF r.pending THEN [timers EXCEPT ![c] = @ + 1] ELSE timers
          /\ durable' = IF drains THEN MarkProcessed(durable, c) ELSE durable
          /\ \/ /\ drains /\ queue[c] # <<>>
                /\ Promote({c})
                /\ conv' = [base EXCEPT ![c] = Begun(@)]
                /\ RowSays({c})
             \/ /\ ~drains \/ queue[c] = <<>>
                /\ \E D \in Dispatches(base) :
                     /\ \A d \in D \ {c} : Room(d)
                     /\ Promote(D)
                     /\ conv' = [d \in Channel |->
                                   IF d \in D THEN Begun(base[d]) ELSE base[d]]
                     /\ session' = [d \in Channel |->
                                      CASE d \in D -> "processing"
                                        [] d = c /\ d \notin D /\ drains -> "idle"
                                        [] OTHER -> session[d]]
                     /\ noted' = [d \in Channel |->
                                    CASE d \in D -> "yes"
                                      [] d = c /\ d \notin D -> "no"
                                      [] OTHER -> noted[d]]

\* A superseded run ends: its catch block still writes the retry state.
StaleEnds(c) ==
  /\ \/ conv[c].armed > 0 /\ conv' = [conv EXCEPT ![c].armed = @ - 1]
     \/ conv[c].fired > 0 /\ conv' = [conv EXCEPT ![c].fired = @ - 1]
  /\ \E r \in Outcomes(retry[c]) \cup {retry[c]} : retry' = [retry EXCEPT ![c] = r]
  /\ UNCHANGED <<timers, queue, durable, stored, blocks, session, noted, resuming,
                 booted, pauses, restarts>>

----------------------------------------------------------------------------
(* Timers *)

\* mutant: capacity is looked at before the channel.
RetryTimerCapacityFirst(c) ==
  /\ timers[c] > 0
  /\ \/ /\ Cardinality(Processing) >= MaxConcurrent
        /\ session' = [session EXCEPT ![c] = "queued"]
        /\ UNCHANGED <<conv, timers, noted>>
     \/ /\ ~conv[c].held /\ Cardinality(Processing) < MaxConcurrent /\ Room(c)
        /\ timers' = [timers EXCEPT ![c] = @ - 1]
        /\ RowSays({c})
        /\ conv' = [conv EXCEPT ![c] = Begun(@)]
  /\ UNCHANGED <<retry, queue, durable, stored, blocks, resuming, booted, pauses, restarts>>

\* scheduleConversationRetry
RetryTimer(c) ==
  /\ timers[c] > 0
  /\ \/ /\ conv[c].held
        /\ timers' = [timers EXCEPT ![c] = @ - 1]
        /\ UNCHANGED <<conv, session, noted>>
     \/ /\ ~conv[c].held /\ Cardinality(Processing) >= MaxConcurrent
        /\ session' = [session EXCEPT ![c] = "queued"]
        /\ UNCHANGED <<conv, timers, noted>>
     \/ /\ ~conv[c].held /\ Cardinality(Processing) < MaxConcurrent /\ Room(c)
        /\ timers' = [timers EXCEPT ![c] = @ - 1]
        /\ RowSays({c})
        /\ conv' = [conv EXCEPT ![c] = Begun(@)]
  /\ UNCHANGED <<retry, queue, durable, stored, blocks, resuming, booted, pauses, restarts>>

\* recoverStaleProcessingChannels
RecoverStale(c) ==
  /\ conv[c].held /\ Room(c)
  /\ conv' = [conv EXCEPT ![c] = Abandoned(@)]
  /\ retry' = [retry EXCEPT ![c] = NoRetry]
  /\ RowLeft(c, "idle")
  /\ UNCHANGED <<timers, queue, durable, stored, blocks, resuming, booted, pauses, restarts>>

\* recoverQueuedChannels
RecoverQueued ==
  \E D \in Dispatches(conv) :
    /\ D # {} /\ \A d \in D : Room(d)
    /\ Promote(D)
    /\ conv' = [d \in Channel |-> IF d \in D THEN Begun(conv[d]) ELSE conv[d]]
    /\ RowSays(D)
    /\ UNCHANGED <<retry, timers, durable, blocks, resuming, booted, pauses, restarts>>

PauseChannel(c) ==
  /\ Open /\ c \in Pausable /\ pauses[c] < MaxPauses /\ Room(c)
  /\ conv' = [conv EXCEPT ![c] = Abandoned(@)]
  /\ retry' = [retry EXCEPT ![c] = NoRetry]
  /\ RowLeft(c, "queued")
  /\ pauses' = [pauses EXCEPT ![c] = @ + 1]
  /\ UNCHANGED <<timers, queue, durable, stored, blocks, resuming, booted, restarts>>

\* resumeChannel; at capacity, or if the status is another, it does nothing.
ResumeChannel(c) ==
  /\ Open /\ c \in Pausable /\ ~conv[c].held /\ session[c] = "queued"
  /\ Cardinality(Processing) < MaxConcurrent /\ Room(c)
  /\ conv' = [conv EXCEPT ![c] = Begun(@)]
  /\ RowSays({c})
  /\ UNCHANGED <<retry, timers, queue, durable, stored, blocks, resuming, booted,
                 pauses, restarts>>

----------------------------------------------------------------------------
(* Restarts *)

\* A crash, or a shutdown that persists the queues and the running sessions
\* first (prepareForShutdown).
Restart(graceful) ==
  /\ restarts < MaxRestarts
  /\ restarts' = restarts + 1
  /\ durable' = [m \in Message |->
                   IF graceful /\ durable[m] = "absent" /\ InQueue(m)
                     THEN "unprocessed" ELSE durable[m]]
  /\ session' = [c \in Channel |->
                   IF graceful /\ conv[c].held THEN "processing" ELSE session[c]]
  /\ noted' = [c \in Channel |-> "no"]
  /\ conv' = [c \in Channel |-> NoRun]
  /\ retry' = [c \in Channel |-> NoRetry]
  /\ timers' = [c \in Channel |-> 0]
  /\ queue' = [c \in Channel |-> <<>>]
  /\ resuming' = {} /\ booted' = FALSE
  /\ UNCHANGED <<stored, blocks, pauses>>

\* resumeAfterRestart, 3 s after the start: of the channels with a session in
\* progress or unprocessed rows those in old are more than 30 minutes stale, which
\* no row noted since the start is; rows in expired are more than 2 minutes old.
ResumeAfterRestart ==
  /\ ~booted /\ booted' = TRUE
  /\ \E old \in SUBSET {c \in Channel : session[c] = "processing" /\ noted[c] = "no"},
        expired \in SUBSET {m \in Message : durable[m] = "unprocessed"} :
       LET rows(c) == {m \in Message : ChannelOf[m] = c /\ durable[m] = "unprocessed"}
           found == {c \in Channel : session[c] = "processing" \/ rows(c) # {}} \ old
           load(c) == IF c \in found THEN rows(c) \ expired ELSE {}
       IN /\ durable' = [m \in Message |->
                           IF m \in expired /\ ChannelOf[m] \in found
                             THEN "processed" ELSE durable[m]]
          /\ \E q \in [Channel -> UNION {SetToSeqs(load(c)) : c \in Channel}] :
               /\ \A c \in Channel : q[c] \in SetToSeqs(load(c))
               /\ queue' = [c \in Channel |-> IF load(c) = {} THEN queue[c] ELSE q[c]]
          /\ resuming' = IF Cardinality(Processing) < MaxConcurrent THEN found ELSE {}
          /\ session' = [c \in Channel |->
                           CASE c \in found -> "queued"
                             [] c \in old \/ found = {} -> "idle"
                             [] OTHER -> session[c]]
          /\ noted' = [c \in Channel |->
                         IF c \in found /\ conv[c].held THEN "quiet" ELSE noted[c]]
  /\ UNCHANGED <<conv, retry, timers, stored, blocks, pauses, restarts>>

\* The resume timer of a channel, whatever runs by then
ResumeTimer(c) ==
  /\ c \in resuming /\ Room(c)
  /\ resuming' = resuming \ {c}
  /\ conv' = [conv EXCEPT ![c] = Begun(@)]
  /\ RowSays({c})
  /\ UNCHANGED <<retry, timers, queue, durable, stored, blocks, booted, pauses, restarts>>

----------------------------------------------------------------------------
Conversation(c) ==
  \/ ReadHistory(c) \/ InjectMessages(c) \/ NoteProgress(c)
  \/ Timeout(c) \/ StaleTimeout(c) \/ Finish(c) \/ StaleEnds(c)

Next ==
  \/ \E m \in Message : HandleSystemEvent(m) \/ \E s \in BOOLEAN : HandleMessage(m, s)
  \/ \E c \in Channel :
       \/ Conversation(c) \/ RetryTimer(c) \/ RecoverStale(c)
       \/ PauseChannel(c) \/ ResumeChannel(c) \/ ResumeTimer(c)
  \/ RecoverQueued
  \/ ResumeAfterRestart \/ \E graceful \in BOOLEAN : Restart(graceful)

Spec == Init /\ [][Next]_vars

\* Hooks and LLM calls have timeouts, so a run reads history and ends; the
\* recovery timer fires every 5 s.
FairSpec ==
  /\ Spec
  /\ WF_vars(RecoverQueued)
  /\ \A c \in Channel :
       WF_vars(ReadHistory(c)) /\ WF_vars(Finish(c)) /\ WF_vars(StaleEnds(c))

----------------------------------------------------------------------------
(* Properties *)

\* A place in processingChannels belongs to a run that will give it back: no
\* interleaving of recovery, pause, timeout, retry and end leaks one.
SlotHeldByRun == \A c \in Processing : conv[c].stage # "none" /\ ~conv[c].timedOut

\* However runs end, time out, stall and are dispatched, no step takes the agent
\* over its limit.  Two things that do are left out: the timers of
\* resumeAfterRestart, which do not look, and a run whose place was given away by
\* the timer of a superseded run, which takes its next message all the same.
WithinCapacity ==
  [][/\ resuming' = resuming
     /\ \A c \in Channel : conv[c].stage = "none" \/ conv[c].held \/ conv[c].timedOut
     => \/ Cardinality(Processing') <= MaxConcurrent
        \/ Cardinality(Processing') <= Cardinality(Processing)]_vars

\* While a conversation runs its session row says so, which is what lets
\* resumeAfterRestart find it after a crash at this point.  Two runs are quiet until
\* they next note their progress: one that a system event begins within 15 s of a
\* note of an earlier run, and one begun before resumeAfterRestart queues it.
InterruptedIsFound ==
  \A c \in Processing : session[c] = "processing" \/ noted[c] = "quiet"

\* Until the first restart an accepted message is in one place, once: waiting in
\* the queue, a row of history of its own, or part of one row of queued messages.
HeldExactlyOnce ==
  ~Early /\ restarts = 0 =>
    \A m \in Message :
      /\ Arrived(m) <=> m \in stored \/ blocks[m] > 0 \/ InQueue(m)
      /\ Cardinality({i \in DOMAIN queue[ChannelOf[m]] : queue[ChannelOf[m]][i] = m})
           + (IF m \in stored THEN 1 ELSE 0) + blocks[m] <= 1

\* A queue that has messages is emptied, whatever stalls, fails or is paused.
QueueDrains == \A c \in Channel : queue[c] # <<>> ~> queue[c] = <<>>

\* handleMessage: "Persist to DB queue (survives restarts)".  A user's message
\* that waits in memory still has the row a restart would load it from.
WaitingSurvivesRestart ==
  \A m \in Message \ System : InQueue(m) => durable[m] = "unprocessed"
=============================================================================
