-------------------------------- MODULE Voice --------------------------------
(***************************************************************************)
(* Voice in one guild, in realtime mode: joins and leaves of VoiceManager   *)
(* (services/voice/manager.ts), each with a RealtimeVoiceSession            *)
(* (realtime-session.ts) that connects to OpenAI and reconnects once, and a *)
(* queue of deferred actions (deferred-action-queue.ts).                    *)
(*                                                                         *)
(* A join gives its name to the session it builds.                          *)
(***************************************************************************)
EXTENDS Integers, FiniteSets

CONSTANTS
  Join,        \* calls of join
  NoJoin,
  MaxDrops,    \* bound: connections that drop, to Discord or to OpenAI
  MaxActions   \* bound: deferred actions that a session captures

ASSUME VoiceAssumption ==
  IsFiniteSet(Join) /\ NoJoin \notin Join /\ MaxDrops \in Nat /\ MaxActions \in Nat

VARIABLES
  call,       \* where each join is
  stored,     \* sessions.get(guildId)
  line,       \* the guild's Discord connection: a number, and how it is
  lineOf,     \* the connection of each join
  waiting,    \* connections whose Disconnected listener waits 5 s
  rt,         \* the realtime session of each join
  transports, \* its open transports to OpenAI
  actions,    \* its deferred actions
  drops,
  raced       \* joins overlapped, a drop outlived its session, or a session
              \* was closed while it connected

voiceVars == <<call, stored, line, lineOf, waiting, rt, transports, actions, drops, raced>>

Line == 0 .. Cardinality(Join)

VoiceTypeOK ==
  /\ call \in [Join -> {"none", "joining", "building", "done", "failed"}]
  /\ stored \in Join \cup {NoJoin}
  /\ line \in [id : Line, is : {"none", "live", "dropped"}]
  /\ lineOf \in [Join -> Line] /\ waiting \subseteq Line
  /\ rt \in [Join -> [is : {"none", "instructing", "connecting", "up", "pausing"},
                      closing : BOOLEAN, reconnecting : BOOLEAN]]
  /\ transports \in [Join -> Nat]
  /\ actions \in [Join -> [captured : 0 .. MaxActions, queued : 0 .. MaxActions]]
  /\ drops \in 0 .. MaxDrops /\ raced \in BOOLEAN

VoiceInit ==
  /\ call = [j \in Join |-> "none"] /\ stored = NoJoin
  /\ line = [id |-> 0, is |-> "none"] /\ lineOf = [j \in Join |-> 0] /\ waiting = {}
  /\ rt = [j \in Join |-> [is |-> "none", closing |-> FALSE, reconnecting |-> FALSE]]
  /\ transports = [j \in Join |-> 0]
  /\ actions = [j \in Join |-> [captured |-> 0, queued |-> 0]]
  /\ drops = 0 /\ raced = FALSE

----------------------------------------------------------------------------
(* Ends of sessions *)

\* cleanup closes the transport that the session knows.
Cleaned(j, open) == [open EXCEPT ![j] = 0]

\* close: what awaits its instructions goes on, what connects fails.
SessionClosed(j, sessions) ==
  [sessions EXCEPT ![j].closing = TRUE,
                   ![j].is = IF @ \in {"up", "connecting"} THEN "none" ELSE @]

\* processDeferredActions: every action goes to the analysis or becomes a task.
QueueDrained(j, queues) == [queues EXCEPT ![j].queued = 0]

\* The guild's connection when the stored session has destroyed its own
LineLeft ==
  IF stored # NoJoin /\ lineOf[stored] = line.id THEN [line EXCEPT !.is = "none"] ELSE line

\* destroySession of what is stored: close, drain, destroy the connection.
Destroy ==
  /\ stored # NoJoin
  /\ rt' = SessionClosed(stored, rt)
  /\ transports' = IF rt[stored].is = "instructing" THEN transports ELSE Cleaned(stored, transports)
  /\ actions' = QueueDrained(stored, actions)
  /\ stored' = NoJoin

\* The session that is destroyed is about to connect anew.
ClosedTooEarly == rt[stored].is \in {"instructing", "connecting"}

----------------------------------------------------------------------------
(* join and leave *)

Joining == {j \in Join : call[j] \in {"joining", "building"}}

\* The session of another channel is left; a connection of the guild that is
\* there is used again.
join(j) ==
  /\ call[j] = "none"
  /\ IF stored = NoJoin THEN UNCHANGED <<stored, rt, transports, actions>> ELSE Destroy
  /\ line' = [id |-> IF LineLeft.is = "none" THEN line.id + 1 ELSE line.id, is |-> "live"]
  /\ lineOf' = [lineOf EXCEPT ![j] = line'.id]
  /\ call' = [call EXCEPT ![j] = "joining"]
  /\ raced' = (raced \/ Joining # {} \/ (stored # NoJoin /\ ClosedTooEarly))
  /\ UNCHANGED <<waiting, drops>>

\* "Already connected to this channel."
joinSame(j) ==
  /\ call[j] = "none" /\ stored # NoJoin
  /\ call' = [call EXCEPT ![j] = "failed"]
  /\ UNCHANGED <<stored, line, lineOf, waiting, rt, transports, actions, drops, raced>>

\* The connection is ready: the session is built, and begins to connect.
LineReady(j) ==
  /\ call[j] = "joining" /\ line = [id |-> lineOf[j], is |-> "live"]
  /\ call' = [call EXCEPT ![j] = "building"]
  /\ rt' = [rt EXCEPT ![j].is = "instructing"]
  /\ UNCHANGED <<stored, line, lineOf, waiting, transports, actions, drops, raced>>

\* It is not within 10 s: the join fails and leaves the connection there.
LineFails(j) ==
  /\ call[j] = "joining"
  /\ call' = [call EXCEPT ![j] = "failed"]
  /\ UNCHANGED <<stored, line, lineOf, waiting, rt, transports, actions, drops, raced>>

\* leave, by a command or alone for two minutes
leave ==
  /\ Destroy /\ line' = LineLeft
  /\ raced' = (raced \/ ClosedTooEarly)
  /\ UNCHANGED <<call, lineOf, waiting, drops>>

----------------------------------------------------------------------------
(* Realtime sessions *)

\* connect has its instructions and opens a transport, closing or not.
OpenTransport(j) ==
  /\ rt[j].is = "instructing"
  /\ rt' = [rt EXCEPT ![j].is = "connecting"]
  /\ transports' = [transports EXCEPT ![j] = @ + 1]
  /\ UNCHANGED <<call, stored, line, lineOf, waiting, actions, drops, raced>>

\* Connected: the first time the join stores the session, over another one.
Connected(j) ==
  /\ rt[j].is = "connecting"
  /\ rt' = [rt EXCEPT ![j].is = "up", ![j].reconnecting = FALSE]
  /\ IF call[j] = "building" THEN stored' = j /\ call' = [call EXCEPT ![j] = "done"]
     ELSE UNCHANGED <<stored, call>>
  /\ UNCHANGED <<line, lineOf, waiting, transports, actions, drops, raced>>

\* connect fails and cleans up; a join fails with it.
ConnectFails(j) ==
  /\ rt[j].is = "connecting"
  /\ rt' = [rt EXCEPT ![j].is = "none", ![j].reconnecting = FALSE]
  /\ transports' = Cleaned(j, transports)
  /\ call' = [call EXCEPT ![j] = IF @ = "building" THEN "failed" ELSE @]
  /\ UNCHANGED <<stored, line, lineOf, waiting, actions, drops, raced>>

\* handleDisconnect, which reconnects after 2 s
handleDisconnect(j) ==
  /\ rt[j].is = "up" /\ ~rt[j].closing /\ ~rt[j].reconnecting
  /\ drops < MaxDrops /\ drops' = drops + 1
  /\ rt' = [rt EXCEPT ![j].is = "pausing", ![j].reconnecting = TRUE]
  /\ transports' = Cleaned(j, transports)
  /\ UNCHANGED <<call, stored, line, lineOf, waiting, actions, raced>>

\* mutant: closing is not looked at after the pause.
ReconnectAnyway(j) ==
  /\ rt[j].is = "pausing"
  /\ rt' = [rt EXCEPT ![j].is = "instructing"]
  /\ UNCHANGED <<call, stored, line, lineOf, waiting, transports, actions, drops, raced>>

Reconnect(j) ==
  /\ rt[j].is = "pausing"
  /\ rt' = [rt EXCEPT ![j].is = IF rt[j].closing THEN "none" ELSE "instructing"]
  /\ UNCHANGED <<call, stored, line, lineOf, waiting, transports, actions, drops, raced>>

\* A tool of a session that is up captures an action.
defer(j) ==
  /\ rt[j].is = "up" /\ actions[j].captured < MaxActions
  /\ actions' = [actions EXCEPT ![j] = [captured |-> @.captured + 1, queued |-> @.queued + 1]]
  /\ UNCHANGED <<call, stored, line, lineOf, waiting, rt, transports, drops, raced>>

----------------------------------------------------------------------------
(* The connection to Discord *)

\* Disconnected, with a listener once a session is stored
LineDrops ==
  /\ line.is = "live" /\ stored # NoJoin /\ lineOf[stored] = line.id
  /\ drops < MaxDrops /\ drops' = drops + 1
  /\ line' = [line EXCEPT !.is = "dropped"]
  /\ waiting' = waiting \cup {line.id}
  /\ UNCHANGED <<call, stored, lineOf, rt, transports, actions, raced>>

\* Within 5 s it is signalling or connecting again
LineRecovers ==
  /\ line.is = "dropped"
  /\ line' = [line EXCEPT !.is = "live"] /\ waiting' = waiting \ {line.id}
  /\ UNCHANGED <<call, stored, lineOf, rt, transports, actions, drops, raced>>

\* or the session of the guild is destroyed, whichever that is by now.
DropTimesOut(n) ==
  /\ n \in waiting /\ waiting' = waiting \ {n}
  /\ IF stored = NoJoin THEN UNCHANGED <<stored, rt, transports, actions>> ELSE Destroy
  /\ line' = LineLeft
  /\ raced' = (raced \/ (stored # NoJoin /\ (lineOf[stored] # n \/ ClosedTooEarly)))
  /\ UNCHANGED <<call, lineOf, drops>>

VoiceNext ==
  \/ \E j \in Join :
       \/ join(j) \/ joinSame(j) \/ LineReady(j) \/ LineFails(j)
       \/ OpenTransport(j) \/ Connected(j) \/ ConnectFails(j) \/ handleDisconnect(j)
       \/ Reconnect(j) \/ defer(j)
  \/ leave \/ LineDrops \/ LineRecovers \/ \E n \in Line : DropTimesOut(n)

VoiceSpec == VoiceInit /\ [][VoiceNext]_voiceVars

----------------------------------------------------------------------------
(* Properties *)

\* Unless joins overlapped or a session was closed while it connected, only the
\* session of the guild, or the one that a join builds, is connected to OpenAI,
\* and once: moves, drops, pauses and failures orphan none; and no session that
\* is gone has left an action in its queue (join, leave, handleDisconnect).
NothingOrphaned ==
  \A j \in Join :
    /\ transports[j] <= 1
    /\ ~raced /\ stored # j /\ call[j] # "building" => transports[j] = 0 /\ actions[j].queued = 0
=============================================================================
