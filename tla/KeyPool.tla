------------------------------- MODULE KeyPool -------------------------------
(***************************************************************************)
(* The API keys of one provider (services/key-pool.ts) and the clients that *)
(* call it (AnthropicClient and ResilientLLMClient in runner/providers.ts): *)
(* sticky assignment of sessions to keys, failures that put a key into an   *)
(* escalating cooldown, recovery by a timer or on demand, and the retries   *)
(* of a call over keys and fallback models.                                 *)
(*                                                                         *)
(* Time is a countdown per key and a count per waiting client, moved by     *)
(* Tick; the sleeps between attempts take any time.  Which of the healthy   *)
(* keys a session gets (round robin, requests in flight, position) and how  *)
(* many server errors in a row it takes to put a key down are left open.    *)
(***************************************************************************)
EXTENDS Integers, Sequences, FiniteSets, Functions

CONSTANTS
  Key, NoKey,
  Session,
  Config,         \* contents keys.json may have: sequences of keys
  MaxRetries,     \* attempts for each model, 3
  Models,         \* the primary model and its fallbacks, all of this provider
  RateLimit,      \* RATE_LIMIT_COOLDOWN_FLOOR_MS, 15 minutes
  Quarantine,     \* ANTHROPIC_GLOBAL_5XX_QUARANTINE_MS, 10 minutes
  Short,          \* cooldown after a timeout, 15 or 30 seconds
  MaxCooldown,    \* MAX_COOLDOWN_MS, 30 minutes
  Doublings,      \* escalation: 2^min(failures - 1, 8)
  Recent,         \* a recovery this long ago was none, 5 minutes
  MaxWait,        \* ALL_KEYS_MAX_WAIT_MS, 20 minutes
  MaxReloads, MaxRestarts  \* bounds

ASSUME KeyAssumption ==
  /\ NoKey \notin Key /\ IsFiniteSet(Key)
  /\ Config # {} /\ Config \subseteq Seq(Key)
  /\ \A c \in Config : Len(c) > 0 /\ IsInjective(c)

ASSUME TimeAssumption ==
  /\ {RateLimit, Quarantine, Short, MaxCooldown, Recent, MaxWait} \subseteq Nat \ {0}
  /\ {RateLimit, Quarantine, Short} \subseteq 1 .. MaxCooldown
  /\ {MaxRetries, Models} \subseteq Nat \ {0}
  /\ Doublings \in 0 .. 8 /\ {MaxReloads, MaxRestarts} \subseteq Nat

VARIABLES
  pool,      \* the loaded configuration
  health,    \* by key, not by its place in the pool
  assigned,  \* the sticky key of a session
  client,    \* the ResilientLLMClient of a session and its call
  waited,    \* time since allKeysWaitStart, or -1
  reloads, restarts

vars == <<pool, health, assigned, client, waited, reloads, restarts>>

Stage == {"none", "built", "ready", "trying", "requesting"}
Health == [ok : BOOLEAN, type : {"none", "auth", "cooldown"},
           left : 0 .. MaxCooldown, fails : 0 .. Doublings + 1, since : 0 .. Recent]
Client == [stage : Stage, at : Nat, attempt : 0 .. MaxRetries, model : 1 .. Models]

TypeOK ==
  /\ pool \in Config
  /\ health \in [Key -> Health]
  /\ assigned \in [Session -> Key \cup {NoKey}]
  /\ client \in [Session -> Client]
  /\ waited \in [Session -> -1 .. MaxWait]
  /\ reloads \in 0 .. MaxReloads /\ restarts \in 0 .. MaxRestarts

----------------------------------------------------------------------------
Fresh == [ok |-> TRUE, type |-> "none", left |-> 0, fails |-> 0, since |-> Recent]
NoClient == [stage |-> "none", at |-> 0, attempt |-> 0, model |-> 1]

Smaller(a, b) == IF a < b THEN a ELSE b

InPool == Range(pool)
Place(k) == CHOOSE i \in DOMAIN pool : pool[i] = k
isHealthy(h) == {k \in InPool : h[k].ok}
\* Cooldown over, and not yet seen by the recovery loop.
Expired(h) == {k \in Key : ~h[k].ok /\ h[k].type # "auth" /\ h[k].left = 0}

Init ==
  /\ pool \in Config
  /\ health = [k \in Key |-> Fresh]
  /\ assigned = [s \in Session |-> NoKey]
  /\ client = [s \in Session |-> NoClient]
  /\ waited = [s \in Session |-> -1]
  /\ reloads = 0 /\ restarts = 0

----------------------------------------------------------------------------
(* Choice of a key *)

\* Mutant: a session keeps its key for want of a better one.
getKeySelectionHammering(s) ==
  LET up == isHealthy(health)
      first == IF assigned[s] \in InPool THEN {assigned[s]}
               ELSE IF up # {} THEN up ELSE InPool
  IN {[key |-> f, sticky |-> f] : f \in first}

\* getKeySelection: what it may return, and what it leaves behind.  A key that
\* is down is never handed out again to have it tried.
getKeySelection(s) ==
  LET up == isHealthy(health)
      over == Expired(health) \cap InPool
      first == IF assigned[s] \in InPool THEN {assigned[s]}
               ELSE IF up # {} THEN up ELSE InPool
      of(f) == IF f \in up THEN {[key |-> f, sticky |-> f]}
               ELSE IF up \cup over # {}
                 THEN {[key |-> k, sticky |-> k] : k \in IF up # {} THEN up ELSE over}
               ELSE {[key |-> NoKey, sticky |-> f]}
  IN IF Len(pool) > 1 THEN UNION {of(f) : f \in first}
     ELSE {[key |-> IF up = {} THEN NoKey ELSE pool[1], sticky |-> assigned[s]]}

\* Rate limits and other failures recover alike; what a healthy key had failed
\* of is not asked again.
Recovered(h) == [h EXCEPT !.ok = TRUE, !.type = "none", !.left = 0, !.since = 0]

\* rotateSession: another healthy key, or the one that recovers first.
rotateSession(s, h) ==
  LET others == InPool \ {assigned[s]}
      up == others \cap isHealthy(h)
      down == {k \in others : h[k].type # "auth"}
      soonest == {k \in down : \A j \in down : h[k].left <= h[j].left}
  IN IF Len(pool) = 1 THEN {assigned[s]}
     ELSE IF up # {} THEN up
     ELSE IF soonest # {} THEN soonest ELSE {assigned[s]}

----------------------------------------------------------------------------
(* Failure and success of a key *)

\* Mutant: each failure starts the cooldown of its own kind.
MarkedFailedAnew(h, type, base) ==
  LET again == h.since < Recent \/ ~h.ok
      fails == IF again THEN Smaller(h.fails + 1, Doublings + 1) ELSE 1
  IN [ok |-> FALSE, type |-> type, fails |-> fails, since |-> h.since,
      left |-> IF type = "auth" THEN 0 ELSE Smaller(base * 2 ^ (fails - 1), MaxCooldown)]

\* markFailed: the cooldown doubles with each failure in a row, a recovery
\* just before counting as none, and is never shortened.
MarkedFailed(h, type, base) ==
  LET again == h.since < Recent \/ ~h.ok
      fails == IF again THEN Smaller(h.fails + 1, Doublings + 1) ELSE 1
      cooldown == Smaller(base * 2 ^ (fails - 1), MaxCooldown)
  IN [ok |-> FALSE, type |-> type, fails |-> fails, since |-> h.since,
      left |-> IF type = "auth" THEN 0
               ELSE IF ~h.ok /\ h.left > cooldown THEN h.left ELSE cooldown]

\* The place a client holds is looked up again, in the pool as it is now.
Blamed(s) == {pool[i] : i \in {client[s].at} \cap DOMAIN pool}

markFailed(s, type, base) ==
  [k \in Key |-> IF k \in Blamed(s) THEN MarkedFailed(health[k], type, base) ELSE health[k]]

markHealthy(s) ==
  [k \in Key |-> IF k \in Blamed(s) /\ ~health[k].ok THEN Recovered(health[k]) ELSE health[k]]

FailAndRotate(s, type, base) ==
  /\ health' = markFailed(s, type, base)
  /\ \E k \in rotateSession(s, health') : assigned' = [assigned EXCEPT ![s] = k]

----------------------------------------------------------------------------
(* A client and its calls *)

\* The key is looked up and, if its cooldown was over, recovered.
TakeKey(s, sel) ==
  /\ assigned' = [assigned EXCEPT ![s] = sel.sticky]
  /\ health' = [k \in Key |-> IF k = sel.key /\ k \in Expired(health) THEN Recovered(health[k])
                              ELSE health[k]]

\* createResilientClient: the client of the first attempt is made with it.
createResilientClient(s) ==
  /\ client[s].stage = "none"
  /\ \E sel \in getKeySelection(s) :
       /\ TakeKey(s, sel)
       /\ client' = [client EXCEPT ![s] =
            IF sel.key = NoKey THEN NoClient
            ELSE [NoClient EXCEPT !.stage = "built", !.at = Place(sel.key)]]
  /\ waited' = [waited EXCEPT ![s] = -1]
  /\ UNCHANGED <<pool, reloads, restarts>>

\* createMessage: the first attempt of the first call takes the ready client.
createMessage(s) ==
  /\ client[s].stage \in {"built", "ready"}
  /\ client' = [client EXCEPT
       ![s].stage = IF client[s].stage = "built" THEN "requesting" ELSE "trying",
       ![s].attempt = IF client[s].stage = "built" THEN 1 ELSE 0]
  /\ UNCHANGED <<pool, health, assigned, waited, reloads, restarts>>

\* The caller is done with its client.
Discard(s) ==
  /\ client[s].stage = "ready"
  /\ client' = [client EXCEPT ![s] = NoClient]
  /\ waited' = [waited EXCEPT ![s] = -1]
  /\ UNCHANGED <<pool, health, assigned, reloads, restarts>>

Ended(s) == [client EXCEPT ![s] = [NoClient EXCEPT !.stage = "ready"]]
\* Mutant: one model too many.
NextModelOnceMore(s) ==
  IF client[s].model > Models THEN Ended(s)
  ELSE [client EXCEPT ![s] = [NoClient EXCEPT !.stage = "trying", !.model = client[s].model + 1]]

\* The first fallback model; an error of a fallback is thrown, also if there
\* are more of them.
NextModel(s) ==
  IF client[s].model > 1 \/ Models = 1 THEN Ended(s)
  ELSE [client EXCEPT ![s] = [NoClient EXCEPT !.stage = "trying", !.model = client[s].model + 1]]

Again(s) == [client EXCEPT ![s].stage = "trying", ![s].at = 0]

\* A retry if one is left and the provider has not said not to.
RetryOr(s, other) ==
  \/ client[s].attempt < MaxRetries /\ client' = Again(s)
  \/ client' = other

\* An attempt with a new client, for which a key is looked up again.
Attempt(s) ==
  /\ client[s].stage = "trying"
  /\ \E sel \in getKeySelection(s) :
       /\ sel.key # NoKey
       /\ TakeKey(s, sel)
       /\ client' = [client EXCEPT ![s].stage = "requesting", ![s].at = Place(sel.key),
                                   ![s].attempt = @ + 1]
  /\ UNCHANGED <<pool, waited, reloads, restarts>>

\* Mutant: every look for a key starts the wait again.
WaitForKeysAnew(s) ==
  /\ client[s].stage = "trying"
  /\ \E sel \in getKeySelection(s) :
       sel.key = NoKey /\ assigned' = [assigned EXCEPT ![s] = sel.sticky]
  /\ waited' = [waited EXCEPT ![s] = 0]
  /\ UNCHANGED <<pool, health, client, reloads, restarts>>

\* No key: the attempt does not count and is made again, until the client has
\* waited for MaxWait since allKeysWaitStart.  That is cleared only then, not
\* when a key is found.
WaitForKeys(s) ==
  /\ client[s].stage = "trying"
  /\ \E sel \in getKeySelection(s) :
       sel.key = NoKey /\ assigned' = [assigned EXCEPT ![s] = sel.sticky]
  /\ IF waited[s] < MaxWait
       THEN waited' = [waited EXCEPT ![s] = IF @ = -1 THEN 0 ELSE @] /\ UNCHANGED client
       ELSE waited' = [waited EXCEPT ![s] = -1] /\ client' = NextModel(s)
  /\ UNCHANGED <<pool, health, reloads, restarts>>

Succeed(s) ==
  /\ client[s].stage = "requesting"
  /\ health' = markHealthy(s) /\ client' = Ended(s)
  /\ UNCHANGED <<pool, assigned, waited, reloads, restarts>>

\* Timeouts are always retried.
TimeOut(s) ==
  /\ client[s].stage = "requesting"
  /\ FailAndRotate(s, "cooldown", Short)
  /\ client' = IF client[s].attempt < MaxRetries THEN Again(s) ELSE NextModel(s)
  /\ UNCHANGED <<pool, waited, reloads, restarts>>

\* 401 or 403: no fallback model is tried.
AuthFails(s) ==
  /\ client[s].stage = "requesting"
  /\ FailAndRotate(s, "auth", Short)
  /\ client' = IF client[s].attempt < MaxRetries THEN Again(s) ELSE Ended(s)
  /\ UNCHANGED <<pool, waited, reloads, restarts>>

\* 429: tried again with the same key, or after a long retry-after or the last
\* attempt the key is put down.  No fallback model is tried.
RateLimited(s) ==
  /\ client[s].stage = "requesting"
  /\ \/ client[s].attempt < MaxRetries /\ client' = Again(s) /\ UNCHANGED <<health, assigned>>
     \/ FailAndRotate(s, "cooldown", RateLimit) /\ RetryOr(s, Ended(s))
  /\ UNCHANGED <<pool, waited, reloads, restarts>>

\* 529
Overloaded(s) ==
  /\ client[s].stage = "requesting"
  /\ FailAndRotate(s, "cooldown", RateLimit)
  /\ client' = IF client[s].attempt < MaxRetries THEN Again(s) ELSE NextModel(s)
  /\ UNCHANGED <<pool, waited, reloads, restarts>>

\* 5xx: from the third on a key it is put down, from the second in a session
\* the session is moved.
ServerError(s) ==
  /\ client[s].stage = "requesting"
  /\ health' \in {health, markFailed(s, "cooldown", Quarantine)}
  /\ \E k \in {assigned[s]} \cup rotateSession(s, health') :
       assigned' = [assigned EXCEPT ![s] = k]
  /\ RetryOr(s, NextModel(s))
  /\ UNCHANGED <<pool, waited, reloads, restarts>>

OtherError(s) ==
  /\ client[s].stage = "requesting"
  /\ client' = NextModel(s)
  /\ UNCHANGED <<pool, health, assigned, waited, reloads, restarts>>

----------------------------------------------------------------------------
(* Time, configuration and restart *)

\* The failures of a key that is up are forgotten with its recovery.
Aged(h) ==
  LET since == Smaller(h.since + 1, Recent)
  IN [h EXCEPT !.left = IF @ = 0 THEN 0 ELSE @ - 1, !.since = since,
               !.fails = IF h.ok /\ since = Recent THEN 0 ELSE @]

Tick ==
  /\ health' = [k \in Key |-> Aged(health[k])]
  /\ waited' = [s \in Session |->
       IF waited[s] = -1 THEN -1 ELSE Smaller(waited[s] + 1, MaxWait)]
  /\ UNCHANGED <<pool, assigned, client, reloads, restarts>>

\* Every minute.  A key whose authentication failed stays down.
recoverKeys ==
  /\ Expired(health) # {}
  /\ health' = [k \in Key |-> IF k \in Expired(health) THEN Recovered(health[k]) ELSE health[k]]
  /\ UNCHANGED <<pool, assigned, client, waited, reloads, restarts>>

\* refreshConfigIfChanged: places move, what is known of the keys stays.
refreshConfigIfChanged ==
  /\ reloads < MaxReloads
  /\ reloads' = reloads + 1
  /\ pool' \in Config \ {pool}
  /\ UNCHANGED <<health, assigned, client, waited, restarts>>

\* loadHealthState: an expired cooldown counts as a recovery.  An entry older
\* than an hour, which only one without a cooldown can be, is dropped, and so
\* is one that was not yet written.
Restart ==
  /\ restarts < MaxRestarts
  /\ restarts' = restarts + 1
  /\ \E lost \in SUBSET Key :
       health' = [k \in Key |->
         IF k \in lost THEN Fresh
         ELSE IF k \in Expired(health) THEN Recovered(health[k]) ELSE health[k]]
  /\ pool' \in Config
  /\ assigned' = [s \in Session |-> NoKey]
  /\ client' = [s \in Session |-> NoClient]
  /\ waited' = [s \in Session |-> -1]
  /\ UNCHANGED reloads

----------------------------------------------------------------------------
Answer(s) ==
  \/ Succeed(s) \/ TimeOut(s) \/ AuthFails(s) \/ RateLimited(s) \/ Overloaded(s)
  \/ ServerError(s) \/ OtherError(s)

CallStep(s) == Attempt(s) \/ WaitForKeys(s) \/ Answer(s)

Next ==
  \/ \E s \in Session :
       createResilientClient(s) \/ createMessage(s) \/ Discard(s) \/ CallStep(s)
  \/ Tick \/ recoverKeys \/ refreshConfigIfChanged \/ Restart

Spec == Init /\ [][Next]_vars

\* Every request is answered or times out, every sleep ends, time passes and
\* the recovery loop runs.
Fairness ==
  /\ \A s \in Session : WF_vars(CallStep(s))
  /\ WF_vars(Tick) /\ WF_vars(recoverKeys)

FairSpec == Spec /\ Fairness

----------------------------------------------------------------------------
(* Properties *)

\* A call returns or throws, also while every key is down: the attempts that
\* do not count are made for a limited time (ResilientLLMClient.createMessage).
CallEnds ==
  \A s \in Session : client[s].stage \in {"trying", "requesting"}
                       ~> client[s].stage \notin {"trying", "requesting"}

\* A key in cooldown comes back, whatever failures of requests that were still
\* in flight extend it: once it is down nobody is handed it (getKeySelection,
\* markFailed, recoverKeys).
KeyComesBack ==
  \A k \in Key : ~health[k].ok /\ health[k].type # "auth"
                   ~> health[k].ok \/ health[k].type = "auth"

\* No failure shortens a cooldown: "only extend, never reset backwards"
\* (markFailed).
CooldownKept ==
  [][\/ Tick
     \/ \A k \in Key :
          LET h == health[k]  new == health'[k]
          IN ~h.ok /\ ~new.ok /\ new.type # "auth" => new.left >= h.left]_vars
=============================================================================
