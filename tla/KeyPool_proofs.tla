--------------------------- MODULE KeyPool_proofs ---------------------------
(***************************************************************************)
(* Theorems about the key pool: the types of its state, and that no failure *)
(* shortens a cooldown.                                                     *)
(***************************************************************************)
EXTENDS KeyPool, TLAPS

----------------------------------------------------------------------------
(* Health of a key *)

\* The provers know powers of numbers only, so that the factors of the
\* escalation are taken one by one.
LEMMA Escalation == \A n \in 0 .. 8 : 2 ^ n \in Nat
<1>1. 2 ^ 0 \in Nat /\ 2 ^ 1 \in Nat /\ 2 ^ 2 \in Nat
  OBVIOUS
<1>2. 2 ^ 3 \in Nat /\ 2 ^ 4 \in Nat /\ 2 ^ 5 \in Nat
  OBVIOUS
<1>3. 2 ^ 6 \in Nat /\ 2 ^ 7 \in Nat /\ 2 ^ 8 \in Nat
  OBVIOUS
<1>4. ASSUME NEW n \in 0 .. 8 PROVE 2 ^ n \in Nat
  <2>1. n \in {0, 1, 2} \/ n \in {3, 4, 5} \/ n \in {6, 7, 8}
    BY <1>4
  <2>2. CASE n \in {0, 1, 2}
    BY <1>1, <2>2, Zenon
  <2>3. CASE n \in {3, 4, 5}
    BY <1>2, <2>3, Zenon
  <2>4. CASE n \in {6, 7, 8}
    BY <1>3, <2>4, Zenon
  <2>5. QED
    BY <2>1, <2>2, <2>3, <2>4
<1>5. QED
  BY <1>4

LEMMA FreshType == Fresh \in Health
  BY TimeAssumption DEF TimeAssumption, Fresh, Health

LEMMA RecoveredType == ASSUME NEW h \in Health PROVE Recovered(h) \in Health
<1>1. 0 \in 0 .. MaxCooldown /\ 0 \in 0 .. Recent
  BY TimeAssumption DEF TimeAssumption
<1>2. QED
  BY <1>1 DEF Recovered, Health

\* The cooldown that markFailed computes, and the failures it counts.
LEMMA MarkedFailedType ==
  ASSUME NEW h \in Health, NEW type \in {"auth", "cooldown"}, NEW base \in 1 .. MaxCooldown
  PROVE  MarkedFailed(h, type, base) \in Health
<1> DEFINE again == h.since < Recent \/ ~h.ok
           fails == IF again THEN Smaller(h.fails + 1, Doublings + 1) ELSE 1
           cooldown == Smaller(base * 2 ^ (fails - 1), MaxCooldown)
           left == IF type = "auth" THEN 0
                   ELSE IF ~h.ok /\ h.left > cooldown THEN h.left ELSE cooldown
<1>1. MaxCooldown \in Nat \ {0} /\ Recent \in Nat \ {0} /\ Doublings \in 0 .. 8
  BY TimeAssumption DEF TimeAssumption
<1>2. /\ h.left \in 0 .. MaxCooldown /\ h.fails \in 0 .. Doublings + 1 /\ h.since \in 0 .. Recent
  BY DEF Health
<1>3. fails \in 1 .. Doublings + 1
  BY <1>1, <1>2 DEF Smaller
<1>4. 2 ^ (fails - 1) \in Nat
  <2>1. fails - 1 \in 0 .. 8
    BY <1>1, <1>3
  <2>2. QED
    BY <2>1, Escalation
<1>5. base * 2 ^ (fails - 1) \in Nat
  <2>1. base \in Nat
    BY <1>1
  <2> HIDE DEF fails
  <2>2. QED
    BY <1>4, <2>1
<1>6. cooldown \in 0 .. MaxCooldown
  <2> DEFINE b == base * 2 ^ (fails - 1)
  <2>1. b \in Nat
    BY <1>5
  <2> HIDE DEF b
  <2>2. Smaller(b, MaxCooldown) \in 0 .. MaxCooldown
    BY <1>1, <2>1 DEF Smaller
  <2>3. QED
    BY <2>2 DEF b
<1> HIDE DEF cooldown
<1>7. left \in 0 .. MaxCooldown
  BY <1>1, <1>2, <1>6
<1>8. MarkedFailed(h, type, base)
        = [ok |-> FALSE, type |-> type, fails |-> fails, since |-> h.since, left |-> left]
  BY DEF MarkedFailed, cooldown
<1> HIDE DEF left, fails
<1>9. QED
  BY <1>2, <1>3, <1>7, <1>8 DEF Health

LEMMA AgedType == ASSUME NEW h \in Health PROVE Aged(h) \in Health
<1> DEFINE since == Smaller(h.since + 1, Recent)
           left == IF h.left = 0 THEN 0 ELSE h.left - 1
           fails == IF h.ok /\ since = Recent THEN 0 ELSE h.fails
<1>1. MaxCooldown \in Nat \ {0} /\ Recent \in Nat \ {0} /\ Doublings \in 0 .. 8
  BY TimeAssumption DEF TimeAssumption
<1>2. /\ h.left \in 0 .. MaxCooldown /\ h.fails \in 0 .. Doublings + 1 /\ h.since \in 0 .. Recent
  BY DEF Health
<1>3. since \in 0 .. Recent
  BY <1>1, <1>2 DEF Smaller
<1>4. left \in 0 .. MaxCooldown
  BY <1>1, <1>2
<1> HIDE DEF since
<1>5. fails \in 0 .. Doublings + 1
  BY <1>1, <1>2
<1>6. Aged(h) = [h EXCEPT !.left = left, !.since = since, !.fails = fails]
  BY DEF Aged, since, Health
<1> HIDE DEF left, fails
<1>7. QED
  BY <1>3, <1>4, <1>5, <1>6 DEF Health

----------------------------------------------------------------------------
(* Choice of a key *)

LEMMA PoolType ==
  ASSUME pool \in Config
  PROVE  /\ InPool \subseteq Key
         /\ Len(pool) > 0 => pool[1] \in InPool
         /\ \A k \in InPool : Place(k) \in Nat /\ Place(k) \in DOMAIN pool /\ pool[Place(k)] = k
<1>1. pool \in Seq(Key)
  BY KeyAssumption DEF KeyAssumption
<1>2. InPool = {pool[i] : i \in 1 .. Len(pool)} /\ DOMAIN pool = 1 .. Len(pool) /\ Len(pool) \in Nat
  BY <1>1 DEF InPool, Range
<1>3. ASSUME NEW k \in InPool
      PROVE  Place(k) \in Nat /\ Place(k) \in DOMAIN pool /\ pool[Place(k)] = k
  <2>1. \E i \in DOMAIN pool : pool[i] = k
    BY <1>2
  <2>2. Place(k) \in DOMAIN pool /\ pool[Place(k)] = k
    BY <2>1 DEF Place
  <2>3. QED
    BY <1>2, <2>2
<1>4. QED
  BY <1>1, <1>2, <1>3

\* A selection has a key of the pool or none, and a session sticks to a key.
LEMMA SelectionType ==
  ASSUME TypeOK, NEW s \in Session, NEW sel \in getKeySelection(s)
  PROVE  /\ sel.key \in InPool \cup {NoKey}
         /\ sel.sticky \in Key \cup {NoKey}
<1>1. pool \in Config /\ assigned[s] \in Key \cup {NoKey}
  BY DEF TypeOK
<1>2. InPool \subseteq Key /\ Len(pool) \in Nat /\ Len(pool) > 0 /\ pool[1] \in InPool
  BY <1>1, PoolType, KeyAssumption DEF KeyAssumption
<1>3. isHealthy(health) \subseteq InPool
  BY DEF isHealthy
<1> DEFINE up == isHealthy(health)
           over == Expired(health) \cap InPool
           first == IF assigned[s] \in InPool THEN {assigned[s]}
                    ELSE IF up # {} THEN up ELSE InPool
           of(f) == IF f \in up THEN {[key |-> f, sticky |-> f]}
                    ELSE IF up \cup over # {}
                      THEN {[key |-> k, sticky |-> k] : k \in IF up # {} THEN up ELSE over}
                    ELSE {[key |-> NoKey, sticky |-> f]}
<1>4. CASE Len(pool) > 1
  <2>1. PICK f \in first : sel \in of(f)
    BY <1>4 DEF getKeySelection
  <2>2. f \in InPool
    BY <1>3, <2>1
  <2>3. CASE f \in up
    BY <1>2, <2>1, <2>2, <2>3
  <2>4. CASE f \notin up /\ up \cup over # {}
    BY <1>2, <1>3, <2>1, <2>4
  <2>5. CASE f \notin up /\ up \cup over = {}
    BY <1>2, <2>1, <2>2, <2>5
  <2>6. QED
    BY <2>3, <2>4, <2>5
<1>5. CASE ~(Len(pool) > 1)
  <2>1. sel = [key |-> IF up = {} THEN NoKey ELSE pool[1], sticky |-> assigned[s]]
    BY <1>5 DEF getKeySelection
  <2>2. QED
    BY <1>1, <1>2, <2>1
<1>6. QED
  BY <1>4, <1>5

LEMMA RotationType ==
  ASSUME TypeOK, NEW s \in Session, NEW h, NEW k \in rotateSession(s, h)
  PROVE  k \in Key \cup {NoKey}
  BY PoolType DEF TypeOK, rotateSession, isHealthy

----------------------------------------------------------------------------
(* Steps *)

LEMMA TakeKeyType ==
  ASSUME TypeOK, NEW s \in Session, NEW sel \in getKeySelection(s), TakeKey(s, sel)
  PROVE  health' \in [Key -> Health] /\ assigned' \in [Session -> Key \cup {NoKey}]
  BY SelectionType, RecoveredType DEF TypeOK, TakeKey

LEMMA markFailedType ==
  ASSUME TypeOK, NEW s \in Session, NEW type \in {"auth", "cooldown"}, NEW base \in 1 .. MaxCooldown
  PROVE  markFailed(s, type, base) \in [Key -> Health]
  BY MarkedFailedType DEF TypeOK, markFailed

LEMMA FailAndRotateType ==
  ASSUME TypeOK, NEW s \in Session, NEW type \in {"auth", "cooldown"},
         NEW base \in 1 .. MaxCooldown, FailAndRotate(s, type, base)
  PROVE  health' \in [Key -> Health] /\ assigned' \in [Session -> Key \cup {NoKey}]
<1>1. health' \in [Key -> Health]
  BY markFailedType DEF FailAndRotate
<1>2. PICK k \in rotateSession(s, health') : assigned' = [assigned EXCEPT ![s] = k]
  BY DEF FailAndRotate
<1>3. k \in Key \cup {NoKey}
  BY <1>2, RotationType
<1>4. QED
  BY <1>1, <1>2, <1>3 DEF TypeOK

----------------------------------------------------------------------------
(* The type invariant *)

\* A client that tries has an attempt left: the next one is counted only when
\* it is made.
AttemptLeft == \A s \in Session : client[s].stage = "trying" => client[s].attempt < MaxRetries

IInv == TypeOK /\ AttemptLeft

\* What a client may become
Fits(x) == x \in Client /\ (x.stage = "trying" => x.attempt < MaxRetries)

LEMMA BoundsType ==
  /\ MaxRetries \in Nat \ {0} /\ Models \in Nat \ {0} /\ MaxWait \in Nat \ {0}
  /\ MaxReloads \in Nat /\ MaxRestarts \in Nat
  /\ Short \in 1 .. MaxCooldown /\ RateLimit \in 1 .. MaxCooldown /\ Quarantine \in 1 .. MaxCooldown
  BY TimeAssumption DEF TimeAssumption

LEMMA NoClientFits ==
  /\ NoClient \in Client /\ Fits(NoClient)
  /\ \A at \in Nat : Fits([NoClient EXCEPT !.stage = "built", !.at = at])
  /\ Fits([NoClient EXCEPT !.stage = "ready"])
  /\ \A m \in 1 .. Models : Fits([NoClient EXCEPT !.stage = "trying", !.model = m])
<1>1. 1 \in 1 .. Models /\ 0 \in 0 .. MaxRetries /\ 0 < MaxRetries /\ 0 \in Nat
  BY BoundsType
<1>2. QED
  BY <1>1 DEF NoClient, Client, Fits, Stage

\* The client of one session becomes something that fits.
LEMMA OneClient ==
  ASSUME IInv, NEW s \in Session, NEW x, Fits(x), client' = [client EXCEPT ![s] = x]
  PROVE  client' \in [Session -> Client] /\ AttemptLeft'
  BY DEF IInv, TypeOK, AttemptLeft, Fits

LEMMA EndedFits ==
  ASSUME IInv, NEW s \in Session, client' = Ended(s)
  PROVE  client' \in [Session -> Client] /\ AttemptLeft'
  BY NoClientFits, OneClient DEF Ended

LEMMA NextModelFits ==
  ASSUME IInv, NEW s \in Session, client' = NextModel(s)
  PROVE  client' \in [Session -> Client] /\ AttemptLeft'
<1>1. client[s].model \in 1 .. Models /\ Models \in Nat
  BY BoundsType DEF IInv, TypeOK, Client
<1>2. CASE client[s].model > 1 \/ Models = 1
  BY <1>2, EndedFits DEF NextModel
<1>3. CASE ~(client[s].model > 1 \/ Models = 1)
  <2>1. client[s].model + 1 \in 1 .. Models
    BY <1>1, <1>3
  <2>2. client' = [client EXCEPT ![s] =
                     [NoClient EXCEPT !.stage = "trying", !.model = client[s].model + 1]]
    BY <1>3 DEF NextModel
  <2>3. QED
    BY <2>1, <2>2, NoClientFits, OneClient
<1>4. QED
  BY <1>2, <1>3

LEMMA AgainFits ==
  ASSUME IInv, NEW s \in Session, client' = Again(s), client[s].attempt < MaxRetries
  PROVE  client' \in [Session -> Client] /\ AttemptLeft'
<1> DEFINE x == [client[s] EXCEPT !.stage = "trying", !.at = 0]
<1>1. client[s] \in Client
  BY DEF IInv, TypeOK
<1>2. Fits(x)
  BY <1>1 DEF Client, Fits, Stage
<1>3. client' = [client EXCEPT ![s] = x]
  BY DEF Again, IInv, TypeOK
<1> HIDE DEF x
<1>4. QED
  BY <1>2, <1>3, OneClient

\* How a request ends leaves clients that fit.
LEMMA AnswerClient ==
  ASSUME IInv, NEW s \in Session, Answer(s)
  PROVE  client' \in [Session -> Client] /\ AttemptLeft'
<1>1. \/ client' = Ended(s) \/ client' = NextModel(s)
      \/ client' = Again(s) /\ client[s].attempt < MaxRetries
  BY DEF Answer, Succeed, TimeOut, AuthFails, RateLimited, Overloaded, ServerError, OtherError,
         RetryOr
<1>2. QED
  BY <1>1, EndedFits, NextModelFits, AgainFits

LEMMA AnswerHealth ==
  ASSUME IInv, NEW s \in Session, Answer(s)
  PROVE  health' \in [Key -> Health] /\ assigned' \in [Session -> Key \cup {NoKey}]
<1>0. TypeOK
  BY DEF IInv
<1>1. CASE Succeed(s)
  BY <1>0, <1>1, RecoveredType DEF Succeed, markHealthy, TypeOK
<1>2. CASE TimeOut(s)
  BY <1>0, <1>2, FailAndRotateType, BoundsType DEF TimeOut
<1>3. CASE AuthFails(s)
  BY <1>0, <1>3, FailAndRotateType, BoundsType DEF AuthFails
<1>4. CASE RateLimited(s)
  <2>1. CASE UNCHANGED <<health, assigned>>
    BY <1>0, <2>1 DEF TypeOK
  <2>2. CASE FailAndRotate(s, "cooldown", RateLimit)
    BY <1>0, <2>2, FailAndRotateType, BoundsType
  <2>3. QED
    BY <1>4, <2>1, <2>2 DEF RateLimited
<1>5. CASE Overloaded(s)
  BY <1>0, <1>5, FailAndRotateType, BoundsType DEF Overloaded
<1>6. CASE ServerError(s)
  <2>1. health' \in [Key -> Health]
    BY <1>0, <1>6, markFailedType, BoundsType DEF ServerError, TypeOK
  <2>2. PICK k \in {assigned[s]} \cup rotateSession(s, health') :
          assigned' = [assigned EXCEPT ![s] = k]
    BY <1>6 DEF ServerError
  <2>3. k \in Key \cup {NoKey}
    BY <1>0, <2>2, RotationType DEF TypeOK
  <2>4. QED
    BY <1>0, <2>1, <2>2, <2>3 DEF TypeOK
<1>7. CASE OtherError(s)
  BY <1>0, <1>7 DEF OtherError, TypeOK
<1>8. QED
  BY <1>1, <1>2, <1>3, <1>4, <1>5, <1>6, <1>7 DEF Answer

LEMMA KeyPoolInit == Init => IInv
<1> SUFFICES ASSUME Init PROVE IInv
  OBVIOUS
<1>1. MaxWait \in Nat /\ 0 \in 0 .. MaxReloads /\ 0 \in 0 .. MaxRestarts
  BY BoundsType
<1>2. TypeOK
  <2>1. -1 \in -1 .. MaxWait
    BY <1>1
  <2>2. health \in [Key -> Health] /\ client \in [Session -> Client]
    BY FreshType, NoClientFits DEF Init
  <2>3. waited \in [Session -> -1 .. MaxWait] /\ assigned \in [Session -> Key \cup {NoKey}]
    BY <2>1 DEF Init
  <2>4. QED
    BY <1>1, <2>2, <2>3 DEF Init, TypeOK
<1>3. AttemptLeft
  BY DEF Init, AttemptLeft, NoClient
<1>4. QED
  BY <1>2, <1>3 DEF IInv

LEMMA KeyPoolStep == IInv /\ [Next]_vars => IInv'
<1> SUFFICES ASSUME IInv, [Next]_vars PROVE IInv'
  OBVIOUS
<1>0. TypeOK /\ AttemptLeft
  BY DEF IInv
<1>1. ASSUME NEW s \in Session, createResilientClient(s) PROVE IInv'
  <2>1. PICK sel \in getKeySelection(s) :
          /\ TakeKey(s, sel)
          /\ client' = [client EXCEPT ![s] =
               IF sel.key = NoKey THEN NoClient
               ELSE [NoClient EXCEPT !.stage = "built", !.at = Place(sel.key)]]
    BY <1>1 DEF createResilientClient
  <2>2. sel.key # NoKey => Place(sel.key) \in Nat
    BY <1>0, <2>1, SelectionType, PoolType DEF TypeOK
  <2>3. client' \in [Session -> Client] /\ AttemptLeft'
    <3>1. CASE sel.key = NoKey
      BY <2>1, <3>1, NoClientFits, OneClient
    <3>2. CASE sel.key # NoKey
      BY <2>1, <2>2, <3>2, NoClientFits, OneClient
    <3>3. QED
      BY <3>1, <3>2
  <2>4. health' \in [Key -> Health] /\ assigned' \in [Session -> Key \cup {NoKey}]
    BY <1>0, <2>1, TakeKeyType
  <2>5. waited' \in [Session -> -1 .. MaxWait]
    BY <1>0, <1>1, BoundsType DEF createResilientClient, TypeOK
  <2>6. QED
    BY <1>0, <1>1, <2>3, <2>4, <2>5 DEF createResilientClient, IInv, TypeOK
<1>2. ASSUME NEW s \in Session, createMessage(s) PROVE IInv'
  <2> DEFINE x == [client[s] EXCEPT
                     !.stage = IF client[s].stage = "built" THEN "requesting" ELSE "trying",
                     !.attempt = IF client[s].stage = "built" THEN 1 ELSE 0]
  <2>1. client[s] \in Client /\ 1 \in 0 .. MaxRetries /\ 0 \in 0 .. MaxRetries /\ 0 < MaxRetries
    BY <1>0, BoundsType DEF TypeOK
  <2>2. Fits(x)
    BY <2>1 DEF Client, Fits, Stage
  <2>3. client' = [client EXCEPT ![s] = x]
    BY <1>0, <1>2 DEF createMessage, TypeOK
  <2> HIDE DEF x
  <2>4. client' \in [Session -> Client] /\ AttemptLeft'
    BY <2>2, <2>3, OneClient
  <2>5. QED
    BY <1>0, <1>2, <2>4 DEF createMessage, IInv, TypeOK
<1>3. ASSUME NEW s \in Session, Discard(s) PROVE IInv'
  <2>1. client' \in [Session -> Client] /\ AttemptLeft'
    BY <1>3, NoClientFits, OneClient DEF Discard
  <2>2. waited' \in [Session -> -1 .. MaxWait]
    BY <1>0, <1>3, BoundsType DEF Discard, TypeOK
  <2>3. QED
    BY <1>0, <1>3, <2>1, <2>2 DEF Discard, IInv, TypeOK
<1>4. ASSUME NEW s \in Session, Attempt(s) PROVE IInv'
  <2>1. PICK sel \in getKeySelection(s) :
          /\ sel.key # NoKey
          /\ TakeKey(s, sel)
          /\ client' = [client EXCEPT ![s].stage = "requesting", ![s].at = Place(sel.key),
                                      ![s].attempt = @ + 1]
    BY <1>4 DEF Attempt
  <2>2. Place(sel.key) \in Nat
    BY <1>0, <2>1, SelectionType, PoolType DEF TypeOK
  <2>3. client[s] \in Client /\ client[s].attempt < MaxRetries
    BY <1>0, <1>4 DEF Attempt, TypeOK, AttemptLeft
  <2>4. client[s].attempt + 1 \in 0 .. MaxRetries
    BY <2>3, BoundsType DEF Client
  <2> DEFINE n == client[s].attempt + 1
             x == [client[s] EXCEPT !.stage = "requesting", !.at = Place(sel.key), !.attempt = n]
  <2>5. client' = [client EXCEPT ![s] = x]
    BY <1>0, <2>1, <2>3 DEF TypeOK
  <2> HIDE DEF n
  <2>6. Fits(x)
    BY <2>2, <2>3, <2>4 DEF Client, Fits, Stage, n
  <2> HIDE DEF x
  <2>7. client' \in [Session -> Client] /\ AttemptLeft'
    BY <2>5, <2>6, OneClient
  <2>8. health' \in [Key -> Health] /\ assigned' \in [Session -> Key \cup {NoKey}]
    BY <1>0, <2>1, TakeKeyType
  <2>9. QED
    BY <1>0, <1>4, <2>7, <2>8 DEF Attempt, IInv, TypeOK
<1>5. ASSUME NEW s \in Session, WaitForKeys(s) PROVE IInv'
  <2>1. PICK sel \in getKeySelection(s) : assigned' = [assigned EXCEPT ![s] = sel.sticky]
    BY <1>5 DEF WaitForKeys
  <2>2. assigned' \in [Session -> Key \cup {NoKey}]
    BY <1>0, <2>1, SelectionType DEF TypeOK
  <2>3. waited' \in [Session -> -1 .. MaxWait]
    <3>1. waited[s] \in -1 .. MaxWait /\ 0 \in -1 .. MaxWait /\ -1 \in -1 .. MaxWait
      BY <1>0, BoundsType DEF TypeOK
    <3>2. QED
      BY <1>0, <1>5, <3>1 DEF WaitForKeys, TypeOK
  <2>4. client' \in [Session -> Client] /\ AttemptLeft'
    <3>1. CASE UNCHANGED client
      BY <1>0, <3>1 DEF TypeOK, AttemptLeft
    <3>2. CASE client' = NextModel(s)
      BY <3>2, NextModelFits
    <3>3. QED
      BY <1>5, <3>1, <3>2 DEF WaitForKeys
  <2>5. QED
    BY <1>0, <1>5, <2>2, <2>3, <2>4 DEF WaitForKeys, IInv, TypeOK
<1>6. ASSUME NEW s \in Session, Answer(s) PROVE IInv'
  <2>1. UNCHANGED <<pool, waited, reloads, restarts>>
    BY <1>6 DEF Answer, Succeed, TimeOut, AuthFails, RateLimited, Overloaded, ServerError,
                OtherError
  <2>2. QED
    BY <1>0, <1>6, <2>1, AnswerClient, AnswerHealth DEF IInv, TypeOK
<1>7. CASE Tick
  <2>1. health' \in [Key -> Health]
    BY <1>0, <1>7, AgedType DEF Tick, TypeOK
  <2>2. waited' \in [Session -> -1 .. MaxWait]
    BY <1>0, <1>7, BoundsType DEF Tick, TypeOK, Smaller
  <2>3. QED
    BY <1>0, <1>7, <2>1, <2>2 DEF Tick, IInv, TypeOK, AttemptLeft
<1>8. CASE recoverKeys
  BY <1>0, <1>8, RecoveredType DEF recoverKeys, IInv, TypeOK, AttemptLeft
<1>9. CASE refreshConfigIfChanged
  <2>1. reloads' \in 0 .. MaxReloads
    BY <1>0, <1>9, BoundsType DEF refreshConfigIfChanged, TypeOK
  <2>2. QED
    BY <1>0, <1>9, <2>1 DEF refreshConfigIfChanged, IInv, TypeOK, AttemptLeft
<1>10. CASE Restart
  <2>1. restarts' \in 0 .. MaxRestarts
    BY <1>0, <1>10, BoundsType DEF Restart, TypeOK
  <2>2. health' \in [Key -> Health]
    BY <1>0, <1>10, FreshType, RecoveredType DEF Restart, TypeOK
  <2>3. client' \in [Session -> Client] /\ AttemptLeft'
    BY <1>10, NoClientFits DEF Restart, AttemptLeft, NoClient
  <2>4. waited' \in [Session -> -1 .. MaxWait]
    BY <1>10, BoundsType DEF Restart
  <2>5. QED
    BY <1>0, <1>10, <2>1, <2>2, <2>3, <2>4 DEF Restart, IInv, TypeOK
<1>11. CASE UNCHANGED vars
  BY <1>0, <1>11 DEF vars, IInv, TypeOK, AttemptLeft
<1>12. QED
  BY <1>1, <1>2, <1>3, <1>4, <1>5, <1>6, <1>7, <1>8, <1>9, <1>10, <1>11 DEF Next, CallStep

\* Over failures, retries, waits, reloads and restarts every key has a health
\* and every session a key, or none, and a client whose attempts, models and
\* wait are within their bounds (key-pool.ts, ResilientLLMClient).
THEOREM TypeCorrect == Spec => []TypeOK
<1>1. IInv => TypeOK
  BY DEF IInv
<1>2. QED
  BY <1>1, KeyPoolInit, KeyPoolStep, PTL DEF Spec

----------------------------------------------------------------------------
(* Cooldowns *)

\* No step shortens the cooldown of k, other than by time.
Kept(k) ==
  ~health[k].ok /\ ~health'[k].ok /\ health'[k].type # "auth" => health'[k].left >= health[k].left

LEMMA SameHealthKept ==
  ASSUME TypeOK, NEW k \in Key, health'[k] = health[k] \/ health'[k].ok
  PROVE  Kept(k)
  BY DEF TypeOK, Health, Kept

\* "only extend, never reset backwards"
LEMMA MarkedFailedExtends ==
  ASSUME NEW h \in Health, NEW type \in {"auth", "cooldown"}, NEW base \in 1 .. MaxCooldown,
         ~h.ok, MarkedFailed(h, type, base).type # "auth"
  PROVE  MarkedFailed(h, type, base).left >= h.left
<1> DEFINE again == h.since < Recent \/ ~h.ok
           fails == IF again THEN Smaller(h.fails + 1, Doublings + 1) ELSE 1
           cooldown == Smaller(base * 2 ^ (fails - 1), MaxCooldown)
<1>1. MarkedFailed(h, type, base)
        = [ok |-> FALSE, type |-> type, fails |-> fails, since |-> h.since,
           left |-> IF type = "auth" THEN 0
                    ELSE IF ~h.ok /\ h.left > cooldown THEN h.left ELSE cooldown]
  BY DEF MarkedFailed
<1> HIDE DEF fails, cooldown
<1>2. type # "auth"
  BY <1>1
<1>3. MarkedFailed(h, type, base).left = IF h.left > cooldown THEN h.left ELSE cooldown
  BY <1>1, <1>2
<1>4. h.left \in Int /\ MarkedFailed(h, type, base).left \in Int
  BY MarkedFailedType, TimeAssumption DEF Health, TimeAssumption
<1>5. CASE h.left > cooldown
  BY <1>3, <1>4, <1>5
<1>6. CASE ~(h.left > cooldown)
  BY <1>3, <1>4, <1>6
<1>7. QED
  BY <1>5, <1>6

LEMMA markFailedKept ==
  ASSUME TypeOK, NEW s \in Session, NEW type \in {"auth", "cooldown"},
         NEW base \in 1 .. MaxCooldown, health' = markFailed(s, type, base), NEW k \in Key
  PROVE  Kept(k)
<1>1. health[k] \in Health
  BY DEF TypeOK
<1>2. CASE k \in Blamed(s)
  <2>1. health'[k] = MarkedFailed(health[k], type, base)
    BY <1>2 DEF markFailed
  <2>2. QED
    BY <1>1, <2>1, MarkedFailedExtends DEF Kept
<1>3. CASE k \notin Blamed(s)
  BY <1>3, SameHealthKept DEF markFailed
<1>4. QED
  BY <1>2, <1>3

LEMMA RecoveredOk == ASSUME NEW h \in Health PROVE Recovered(h).ok
  BY DEF Recovered, Health

LEMMA KeptStep ==
  ASSUME TypeOK, [Next]_vars, ~Tick, NEW k \in Key
  PROVE  Kept(k)
<1>0. health[k] \in Health
  BY DEF TypeOK
<1>1. CASE health' = health
  BY <1>1, SameHealthKept
<1>2. ASSUME NEW s \in Session, NEW sel, TakeKey(s, sel) PROVE Kept(k)
  <2>1. health'[k] = health[k] \/ health'[k] = Recovered(health[k])
    BY <1>2 DEF TakeKey
  <2>2. QED
    BY <1>0, <2>1, RecoveredOk, SameHealthKept
<1>3. ASSUME NEW s \in Session, Answer(s) PROVE Kept(k)
  <2>1. CASE Succeed(s)
    <3>1. health'[k] = health[k] \/ health'[k] = Recovered(health[k])
      BY <2>1 DEF Succeed, markHealthy
    <3>2. QED
      BY <1>0, <3>1, RecoveredOk, SameHealthKept
  <2>2. CASE TimeOut(s)
    BY <2>2, markFailedKept, BoundsType DEF TimeOut, FailAndRotate
  <2>3. CASE AuthFails(s)
    BY <2>3, markFailedKept, BoundsType DEF AuthFails, FailAndRotate
  <2>4. CASE RateLimited(s)
    BY <1>1, <2>4, markFailedKept, BoundsType DEF RateLimited, FailAndRotate
  <2>5. CASE Overloaded(s)
    BY <2>5, markFailedKept, BoundsType DEF Overloaded, FailAndRotate
  <2>6. CASE ServerError(s)
    <3>1. health' = health \/ health' = markFailed(s, "cooldown", Quarantine)
      BY <2>6 DEF ServerError
    <3>2. QED
      BY <1>1, <3>1, markFailedKept, BoundsType
  <2>7. CASE OtherError(s)
    BY <1>1, <2>7 DEF OtherError
  <2>8. QED
    BY <1>3, <2>1, <2>2, <2>3, <2>4, <2>5, <2>6, <2>7 DEF Answer
<1>4. CASE recoverKeys
  <2>1. health'[k] = health[k] \/ health'[k] = Recovered(health[k])
    BY <1>4 DEF recoverKeys
  <2>2. QED
    BY <1>0, <2>1, RecoveredOk, SameHealthKept
<1>5. CASE Restart
  <2>1. health'[k] = health[k] \/ health'[k] = Recovered(health[k]) \/ health'[k] = Fresh
    BY <1>5 DEF Restart
  <2>2. QED
    BY <1>0, <2>1, RecoveredOk, SameHealthKept DEF Fresh
<1>6. ASSUME NEW s \in Session,
             createResilientClient(s) \/ createMessage(s) \/ Discard(s) \/ CallStep(s)
      PROVE  Kept(k)
  BY <1>1, <1>2, <1>3, <1>6 DEF createResilientClient, createMessage, Discard, CallStep,
     Attempt, WaitForKeys
<1>7. QED
  BY <1>1, <1>4, <1>5, <1>6 DEF Next, refreshConfigIfChanged, vars

\* No failure shortens a cooldown, whatever kinds of failures follow each other,
\* of requests that were in flight before a recovery, a reload or a restart of
\* the process, too (markFailed).
THEOREM CooldownsKept == Spec => CooldownKept
<1>1. TypeOK /\ [Next]_vars
        => [\/ Tick
            \/ \A k \in Key :
                 LET h == health[k]  new == health'[k]
                 IN ~h.ok /\ ~new.ok /\ new.type # "auth" => new.left >= h.left]_vars
  BY KeptStep DEF Kept
<1>2. QED
  BY <1>1, TypeCorrect, PTL DEF Spec, CooldownKept
=============================================================================
