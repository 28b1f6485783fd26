----------------------------- MODULE Cron_proofs -----------------------------
(***************************************************************************)
(* Theorems about the scheduler: the types of its state, and that a job is  *)
(* fired once for a minute it is due in.                                    *)
(***************************************************************************)
EXTENDS Cron, FunctionTheorems, WellFoundedInduction, TLAPS

----------------------------------------------------------------------------
(* Least and greatest members *)

LEMMA LeastNumber ==
  ASSUME NEW T, T \subseteq Nat, T # {}
  PROVE  \E x \in T : \A y \in T : x <= y
<1>1. \E x \in T : \A y \in T : ~(<<y, x>> \in OpToRel(<, Nat))
  BY NatLessThanWellFounded, WFMin
<1>2. PICK x \in T : \A y \in T : ~(y < x)
  BY <1>1 DEF OpToRel
<1>3. \A y \in T : x <= y
  BY <1>2
<1>4. QED
  BY <1>3

LEMMA MinIsMember ==
  ASSUME NEW T, T \subseteq Nat, T # {}
  PROVE  Min(T) \in T /\ \A y \in T : Min(T) <= y
<1>1. PICK x \in T : \A y \in T : x <= y
  BY LeastNumber
<1>2. QED
  BY <1>1 DEF Min

LEMMA MaxIsMember ==
  ASSUME NEW T, NEW b \in Nat, T \subseteq -1 .. b, T # {}
  PROVE  Max(T) \in T /\ \A y \in T : Max(T) >= y
<1> DEFINE U == {b - x : x \in T}
<1>1. U \subseteq Nat /\ U # {}
  <2>1. ASSUME NEW x \in T PROVE b - x \in Nat
    <3>1. x \in -1 .. b
      OBVIOUS
    <3>2. QED
      BY <3>1
  <2>2. QED
    BY <2>1
<1>2. PICK u \in U : \A v \in U : u <= v
  BY <1>1, LeastNumber
<1>3. PICK x \in T : u = b - x
  BY <1>2
<1>4. \A y \in T : x >= y
  <2>1. SUFFICES ASSUME NEW y \in T PROVE x >= y
    OBVIOUS
  <2>2. b - x <= b - y
    BY <1>2, <1>3
  <2>3. QED
    BY <2>2
<1>5. QED
  BY <1>3, <1>4 DEF Max

----------------------------------------------------------------------------
(* Sequences of jobs *)

Distinct(s) == \A i, j \in DOMAIN s : s[i] = s[j] => i = j

\* A recursive function along the order is what its definition says, by the
\* least number it would not be defined up to.
LEMMA KeptExists ==
  ASSUME NEW S, JobOrder \in Seq(Job)
  PROVE  \E f : f = [n \in 0 .. Len(JobOrder) |->
                       IF n = 0 THEN <<>>
                       ELSE f[n - 1] \o IF JobOrder[n] \in S THEN <<JobOrder[n]>> ELSE <<>>]
<1> DEFINE L == Len(JobOrder)
           next(s, n) == s \o IF JobOrder[n] \in S THEN <<JobOrder[n]>> ELSE <<>>
           Upto(f, k) == f = [n \in 0 .. k |-> IF n = 0 THEN <<>> ELSE next(f[n - 1], n)]
           Bad == {k \in Nat : ~\E f : Upto(f, k)}
<1>1. Bad = {}
  <2> SUFFICES ASSUME Bad # {} PROVE FALSE
    OBVIOUS
  <2> HIDE DEF next
  <2>1. PICK k \in Bad : \A y \in Bad : k <= y
    BY LeastNumber
  <2>2. k \in Nat /\ ~\E f : Upto(f, k)
    BY <2>1
  <2>3. k # 0
    <3>1. Upto([n \in 0 .. 0 |-> <<>>], 0)
      OBVIOUS
    <3>2. QED
      BY <2>2, <3>1
  <2>4. k - 1 \in Nat /\ k - 1 \notin Bad
    BY <2>1, <2>2, <2>3
  <2>5. PICK g : Upto(g, k - 1)
    BY <2>4
  <2> DEFINE f == [n \in 0 .. k |-> IF n = k THEN next(g[k - 1], k) ELSE g[n]]
  <2>6. ASSUME NEW n \in 0 .. k
        PROVE  f[n] = IF n = 0 THEN <<>> ELSE next(f[n - 1], n)
    <3>1. CASE n = k
      <4>1. k - 1 \in 0 .. k /\ k - 1 # k
        BY <2>2, <2>4
      <4>2. f[k - 1] = g[k - 1] /\ f[n] = next(g[k - 1], k)
        BY <3>1, <4>1
      <4>3. QED
        BY <2>3, <3>1, <4>2
    <3>2. CASE n # k
      <4>1. n \in 0 .. k - 1 /\ f[n] = g[n]
        BY <2>2, <3>2
      <4>2. g[n] = IF n = 0 THEN <<>> ELSE next(g[n - 1], n)
        BY <2>5, <4>1
      <4>3. n # 0 => n - 1 \in 0 .. k /\ n - 1 # k
        BY <2>2
      <4>4. n # 0 => f[n - 1] = g[n - 1]
        BY <4>3
      <4>5. QED
        BY <4>1, <4>2, <4>4
    <3>3. QED
      BY <3>1, <3>2
  <2>7. Upto(f, k)
    <3> DEFINE h == [n \in 0 .. k |-> IF n = 0 THEN <<>> ELSE next(f[n - 1], n)]
    <3>1. DOMAIN f = 0 .. k /\ DOMAIN h = 0 .. k
      OBVIOUS
    <3>2. \A n \in 0 .. k : f[n] = h[n]
      BY <2>6
    <3>3. f = [n \in 0 .. k |-> f[n]] /\ h = [n \in 0 .. k |-> h[n]]
      BY <3>1
    <3> HIDE DEF f
    <3>4. f = h
      BY <3>2, <3>3
    <3>5. QED
      BY <3>4
  <2>8. QED
    BY <2>2, <2>7
<1>2. L \in Nat
  OBVIOUS
<1>3. \E f : Upto(f, L)
  BY <1>1, <1>2
<1>4. QED
  BY <1>3

\* InOrder has jobs of the set, each once.
LEMMA InOrderType ==
  ASSUME NEW S
  PROVE  /\ InOrder(S) \in Seq(Job) /\ Range(InOrder(S)) \subseteq S
         /\ Distinct(InOrder(S))
<1>0. /\ JobOrder \in Seq(Job) /\ Len(JobOrder) \in Nat /\ DOMAIN JobOrder = 1 .. Len(JobOrder)
      /\ \A i \in 1 .. Len(JobOrder) : JobOrder[i] \in Job
      /\ Distinct(JobOrder)
  BY CronAssumption DEF CronAssumption, IsInjective, Distinct
<1> DEFINE L == Len(JobOrder)
           Eq(f) == f = [n \in 0 .. L |->
                           IF n = 0 THEN <<>>
                           ELSE f[n - 1] \o IF JobOrder[n] \in S THEN <<JobOrder[n]>> ELSE <<>>]
           kept == CHOOSE f : Eq(f)
<1>1. InOrder(S) = kept[L]
  BY DEF InOrder
<1>2. Eq(kept)
  <2>1. \E f : Eq(f)
    BY <1>0, KeptExists
  <2>2. QED
    BY <2>1, Zenon
<1> HIDE DEF kept
<1>3. kept[0] = <<>>
  BY <1>0, <1>2
<1>4. ASSUME NEW n \in 1 .. L
      PROVE  kept[n] = kept[n - 1] \o IF JobOrder[n] \in S THEN <<JobOrder[n]>> ELSE <<>>
  <2> DEFINE new == kept[n - 1] \o IF JobOrder[n] \in S THEN <<JobOrder[n]>> ELSE <<>>
  <2>1. n \in 0 .. L /\ n # 0
    BY <1>0
  <2>2. kept[n] = IF n = 0 THEN <<>> ELSE new
    BY <1>2, <2>1
  <2> HIDE DEF new
  <2>3. kept[n] = new
    BY <2>1, <2>2
  <2>4. QED
    BY <2>3 DEF new
<1> DEFINE Good(n) == /\ kept[n] \in Seq(Job) /\ Distinct(kept[n])
                      /\ \A i \in DOMAIN kept[n] :
                           /\ kept[n][i] \in S
                           /\ \E h \in 1 .. n : kept[n][i] = JobOrder[h]
           Bad == {n \in 0 .. L : ~Good(n)}
<1>5. Bad = {}
  <2> SUFFICES ASSUME Bad # {} PROVE FALSE
    OBVIOUS
  <2>a. Bad \subseteq Nat
    BY <1>0
  <2>1. PICK n \in Bad : \A y \in Bad : n <= y
    BY <2>a, LeastNumber
  <2>2. n \in 0 .. L /\ ~Good(n)
    BY <2>1
  <2>3. n # 0
    <3>1. Good(0)
      BY <1>3 DEF Distinct
    <3>2. QED
      BY <2>2, <3>1
  <2>4. n \in 1 .. L /\ n - 1 \in 0 .. L /\ n - 1 \notin Bad
    BY <1>0, <2>1, <2>2, <2>3
  <2>5. Good(n - 1)
    BY <2>4
  <2> DEFINE s == kept[n - 1]
  <2>6. /\ s \in Seq(Job) /\ Distinct(s) /\ Len(s) \in Nat /\ DOMAIN s = 1 .. Len(s)
        /\ \A i \in DOMAIN s : s[i] \in S /\ \E h \in 1 .. n - 1 : s[i] = JobOrder[h]
    BY <2>5
  <2>7. kept[n] = s \o IF JobOrder[n] \in S THEN <<JobOrder[n]>> ELSE <<>>
    BY <1>4, <2>4
  <2> HIDE DEF s
  <2>8. CASE JobOrder[n] \notin S
    <3>1. kept[n] = s
      BY <2>6, <2>7, <2>8
    <3>2. \A h \in 1 .. n - 1 : h \in 1 .. n
      BY <2>4
    <3>3. Good(n)
      BY <2>6, <3>1, <3>2
    <3>4. QED
      BY <2>2, <3>3
  <2>9. CASE JobOrder[n] \in S
    <3> DEFINE t == s \o <<JobOrder[n]>>
    <3>1. kept[n] = t
      BY <2>7, <2>9
    <3>2. /\ JobOrder[n] \in Job
          /\ t \in Seq(Job) /\ DOMAIN t = 1 .. Len(s) + 1
          /\ \A i \in 1 .. Len(s) : t[i] = s[i]
          /\ t[Len(s) + 1] = JobOrder[n]
      BY <1>0, <2>4, <2>6
    <3> HIDE DEF t
    <3>3. \A i \in 1 .. Len(s) : t[i] # JobOrder[n]
      <4>1. SUFFICES ASSUME NEW i \in 1 .. Len(s), s[i] = JobOrder[n] PROVE FALSE
        BY <3>2
      <4>2. PICK h \in 1 .. n - 1 : s[i] = JobOrder[h]
        BY <2>6
      <4>3. h \in DOMAIN JobOrder /\ n \in DOMAIN JobOrder /\ h # n
        BY <1>0, <2>4
      <4>4. QED
        BY <1>0, <4>1, <4>2, <4>3 DEF Distinct
    <3>4. Distinct(t)
      <4>1. SUFFICES ASSUME NEW i \in 1 .. Len(s) + 1, NEW j \in 1 .. Len(s) + 1, t[i] = t[j]
                     PROVE  i = j
        BY <3>2 DEF Distinct
      <4>2. CASE i \in 1 .. Len(s) /\ j \in 1 .. Len(s)
        BY <2>6, <3>2, <4>1, <4>2 DEF Distinct
      <4>3. CASE i = Len(s) + 1 /\ j \in 1 .. Len(s)
        BY <3>2, <3>3, <4>1, <4>3
      <4>4. CASE j = Len(s) + 1 /\ i \in 1 .. Len(s)
        BY <3>2, <3>3, <4>1, <4>4
      <4>5. (i \in 1 .. Len(s) \/ i = Len(s) + 1) /\ (j \in 1 .. Len(s) \/ j = Len(s) + 1)
        BY <2>6
      <4>6. QED
        BY <4>2, <4>3, <4>4, <4>5
    <3>5. ASSUME NEW i \in 1 .. Len(s) + 1
          PROVE  t[i] \in S /\ \E h \in 1 .. n : t[i] = JobOrder[h]
      <4>1. CASE i \in 1 .. Len(s)
        <5>1. \A h \in 1 .. n - 1 : h \in 1 .. n
          BY <2>4
        <5>2. QED
          BY <2>6, <3>2, <4>1, <5>1
      <4>2. CASE i = Len(s) + 1
        <5>1. n \in 1 .. n
          BY <2>4
        <5>2. QED
          BY <2>9, <3>2, <4>2, <5>1
      <4>3. QED
        BY <2>6, <4>1, <4>2
    <3>6. Good(n)
      BY <3>1, <3>2, <3>4, <3>5
    <3>7. QED
      BY <2>2, <3>6
  <2>10. QED
    BY <2>8, <2>9
<1>6. Good(L)
  BY <1>0, <1>5
<1>7. QED
  BY <1>1, <1>6 DEF Range

----------------------------------------------------------------------------
(* What a loop goes on with *)

LEMMA FromType ==
  ASSUME NEW S, NEW todo \in Seq(S), NEW due
  PROVE  LET rest == From(todo, due)
         IN /\ rest \in Seq(S) /\ Range(rest) \subseteq Range(todo)
            /\ rest # <<>> => Head(rest) \in due /\ Head(rest) \in Range(rest)
            /\ Distinct(todo) => Distinct(rest)
<1> DEFINE rest == From(todo, due)
           at == {i \in DOMAIN todo : todo[i] \in due}
<1>1. Len(todo) \in Nat /\ DOMAIN todo = 1 .. Len(todo)
  OBVIOUS
<1>2. CASE at = {}
  <2>1. rest = <<>>
    BY <1>2 DEF From
  <2>2. QED
    BY <2>1 DEF Range, Distinct
<1>3. CASE at # {}
  <2>1. at \subseteq Nat
    BY <1>1
  <2> DEFINE k == Min(at)
  <2>2. k \in at
    BY <1>3, <2>1, MinIsMember
  <2>3. rest = SubSeq(todo, k, Len(todo))
    BY <1>3 DEF From
  <2>4. k \in 1 .. Len(todo) /\ todo[k] \in due
    BY <1>1, <2>2
  <2> HIDE DEF k, rest
  <2>5. /\ rest \in Seq(S) /\ Len(rest) = Len(todo) - k + 1 /\ DOMAIN rest = 1 .. Len(todo) - k + 1
        /\ \A i \in 1 .. Len(todo) - k + 1 : rest[i] = todo[k + i - 1]
    BY <1>1, <2>3, <2>4
  <2>6. ASSUME NEW i \in DOMAIN rest
        PROVE  rest[i] = todo[k + i - 1] /\ k + i - 1 \in DOMAIN todo
    BY <1>1, <2>4, <2>5
  <2>7. Range(rest) \subseteq Range(todo)
    BY <2>6 DEF Range
  <2>8. Head(rest) = rest[1] /\ 1 \in DOMAIN rest /\ rest[1] = todo[k]
    BY <1>1, <2>4, <2>5
  <2>9. Head(rest) \in due /\ Head(rest) \in Range(rest)
    BY <2>4, <2>8 DEF Range
  <2>10. Distinct(todo) => Distinct(rest)
    <3>1. SUFFICES ASSUME Distinct(todo), NEW i \in DOMAIN rest, NEW j \in DOMAIN rest,
                          rest[i] = rest[j]
                   PROVE  i = j
      BY DEF Distinct
    <3>2. k + i - 1 = k + j - 1
      BY <2>6, <3>1 DEF Distinct
    <3>3. QED
      BY <2>4, <2>5, <3>2
  <2>11. QED
    BY <2>5, <2>7, <2>9, <2>10 DEF rest
<1>4. QED
  BY <1>2, <1>3

LEMMA TailType ==
  ASSUME NEW S, NEW todo \in Seq(S), todo # <<>>
  PROVE  /\ Tail(todo) \in Seq(S) /\ Range(Tail(todo)) \subseteq Range(todo)
         /\ Head(todo) \in S /\ Head(todo) \in Range(todo)
         /\ Distinct(todo) => Distinct(Tail(todo)) /\ Head(todo) \notin Range(Tail(todo))
<1> DEFINE t == Tail(todo)
<1>1. /\ Len(todo) \in Nat \ {0} /\ DOMAIN todo = 1 .. Len(todo) /\ DOMAIN t = 1 .. Len(todo) - 1
      /\ \A i \in 1 .. Len(todo) - 1 : t[i] = todo[i + 1]
      /\ Head(todo) = todo[1] /\ t \in Seq(S) /\ todo[1] \in S
  OBVIOUS
<1> HIDE DEF t
<1>2. \A i \in DOMAIN t : t[i] = todo[i + 1] /\ i + 1 \in DOMAIN todo /\ i + 1 # 1 /\ i \in Int
  BY <1>1
<1>3. 1 \in DOMAIN todo
  BY <1>1
<1>4. ASSUME Distinct(todo) PROVE Distinct(t) /\ Head(todo) \notin Range(t)
  <2>1. Distinct(t)
    <3>1. SUFFICES ASSUME NEW i \in DOMAIN t, NEW j \in DOMAIN t, t[i] = t[j] PROVE i = j
      BY DEF Distinct
    <3>2. i + 1 = j + 1
      BY <1>2, <1>4, <3>1 DEF Distinct
    <3>3. QED
      BY <1>2, <3>2
  <2>2. Head(todo) \notin Range(t)
    BY <1>1, <1>2, <1>3, <1>4 DEF Distinct, Range
  <2>3. QED
    BY <2>1, <2>2
<1>5. QED
  BY <1>1, <1>2, <1>3, <1>4 DEF Range, t

----------------------------------------------------------------------------
(* Which jobs are due *)

LEMMA Kinds ==
  /\ LastMinute \in Nat /\ AgentJob \subseteq Job /\ SystemJob \subseteq Job
  /\ \A j \in SystemJob : j \notin AgentJob /\ LastMinute \notin Matches[j]
  /\ \A j \in CronJob : j \notin AtJob /\ j \notin EveryJob
  /\ \A j \in AtJob : j \notin EveryJob /\ At[j] \in Minute
  /\ \A j \in SystemJob \cup CronJob : Matches[j] \subseteq Minute
  BY CronAssumption DEF CronAssumption, AgentJob, Job

LEMMA LastMatch ==
  ASSUME NEW j \in SystemJob \cup CronJob, NEW now \in Minute
  PROVE  LET m == findLastCronMatch(j, now) IN m \in -1 .. LastMinute /\ m <= now
<1> DEFINE T == {m \in Matches[j] : now - CatchUpWindow < m /\ m <= now} \cup {-1}
<1>1. T \subseteq -1 .. LastMinute /\ T # {} /\ LastMinute \in Nat
  BY Kinds DEF Minute
<1>2. Max(T) \in T
  <2> HIDE DEF T
  <2>1. QED
    BY <1>1, MaxIsMember
<1>3. \A m \in T : m <= now
  BY DEF Minute
<1>4. QED
  BY <1>1, <1>2, <1>3 DEF findLastCronMatch

----------------------------------------------------------------------------
(* Marks and counts *)

\* Is j to be run only once for minute m, in a scheduler started st times?
Once(j, m, st) == IF j \in AgentJob THEN again[j] < m ELSE st = 1

\* The marks and counts of a scheduler that has been started st times and
\* whose timer fired last in tk: what was counted is marked, and was once,
\* unless it was forgotten.
Tallied(marks, counts, st, tk) ==
  /\ marks \in [Job -> -1 .. LastMinute] /\ counts \in [Job -> [Minute -> Nat]]
  /\ \A j \in Job : marks[j] <= minute
  /\ \A j \in Job, m \in Minute : counts[j][m] > 0 => m <= minute
  /\ \A j \in Job, m \in Minute :
       counts[j][m] > 0 /\ Once(j, m, st) => marks[j] >= m /\ counts[j][m] <= 1
  /\ \A j \in SystemJob \cup CronJob, m \in Minute : counts[j][m] > 0 => m <= tk

LEMMA FiringWrites ==
  ASSUME NEW marks \in [Job -> -1 .. LastMinute], NEW l, NEW new, new.todo \in Seq(Job),
         minute \in Minute
  PROVE  /\ Firing(l, new, marks) \in [Job -> -1 .. LastMinute]
         /\ new.todo = <<>> => Firing(l, new, marks) = marks
         /\ new.todo # <<>> =>
              /\ Firing(l, new, marks)[Head(new.todo)] = minute
              /\ \A j \in Job : j # Head(new.todo) => Firing(l, new, marks)[j] = marks[j]
<1>1. CASE new.todo = <<>>
  BY <1>1 DEF Firing
<1>2. CASE new.todo # <<>>
  <2>1. Head(new.todo) \in Job /\ minute \in -1 .. LastMinute
    BY <1>2, TailType, Kinds DEF Minute
  <2>2. Firing(l, new, marks) = [marks EXCEPT ![Head(new.todo)] = minute]
    BY <1>2 DEF Firing
  <2>3. QED
    BY <1>2, <2>1, <2>2
<1>3. QED
  BY <1>1, <1>2

LEMMA CountedWrites ==
  ASSUME NEW counts \in [Job -> [Minute -> Nat]], NEW l, NEW new, new.todo \in Seq(Job)
  PROVE  /\ Counted(l, new, counts) \in [Job -> [Minute -> Nat]]
         /\ new.todo = <<>> => Counted(l, new, counts) = counts
         /\ new.todo # <<>> =>
              /\ \A j \in Job : j # Head(new.todo) => Counted(l, new, counts)[j] = counts[j]
              /\ \A m \in Minute :
                   \/ Counted(l, new, counts)[Head(new.todo)][m] = counts[Head(new.todo)][m]
                   \/ /\ m \in Occasion(l, Head(new.todo), new.now)
                      /\ Counted(l, new, counts)[Head(new.todo)][m]
                           = counts[Head(new.todo)][m] + 1
<1>1. CASE new.todo = <<>>
  BY <1>1 DEF Counted
<1>2. CASE new.todo # <<>>
  <2> DEFINE j == Head(new.todo)
             row == [m \in Minute |-> IF m \in Occasion(l, j, new.now) /\ ~Drops(j)
                                      THEN counts[j][m] + 1 ELSE counts[j][m]]
  <2>1. j \in Job
    BY <1>2, TailType
  <2>2. counts[j] \in [Minute -> Nat]
    BY <2>1
  <2>3. \A m \in Minute : counts[j][m] \in Nat /\ counts[j][m] + 1 \in Nat
    BY <2>2
  <2>4. row \in [Minute -> Nat]
    BY <2>3
  <2>5. Counted(l, new, counts) = [counts EXCEPT ![j] = row]
    BY <1>2 DEF Counted
  <2>6. \A m \in Minute : \/ row[m] = counts[j][m]
                          \/ m \in Occasion(l, j, new.now) /\ row[m] = counts[j][m] + 1
    OBVIOUS
  <2> HIDE DEF j, row
  <2>7. /\ Counted(l, new, counts) \in [Job -> [Minute -> Nat]]
        /\ Counted(l, new, counts)[j] = row
        /\ \A i \in Job : i # j => Counted(l, new, counts)[i] = counts[i]
    BY <2>1, <2>4, <2>5
  <2>8. QED
    BY <1>2, <2>6, <2>7 DEF j
<1>3. QED
  BY <1>1, <1>2

\* A job is marked and counted for an occasion that is not over, and that, if
\* it is to count once, was not counted.
LEMMA FiringTallies ==
  ASSUME NEW marks, NEW counts, NEW st, NEW tk \in Minute, Tallied(marks, counts, st, tk),
         NEW l, NEW new, new.todo \in Seq(Job), minute \in Minute,
         new.todo # <<>> =>
           \A m \in Occasion(l, Head(new.todo), new.now) \cap Minute :
             /\ m <= minute
             /\ Head(new.todo) \in SystemJob \cup CronJob => m <= tk
             /\ Once(Head(new.todo), m, st) => counts[Head(new.todo)][m] = 0
  PROVE  Tallied(Firing(l, new, marks), Counted(l, new, counts), st, tk)
<1>1. marks \in [Job -> -1 .. LastMinute] /\ counts \in [Job -> [Minute -> Nat]]
  BY DEF Tallied
<1> DEFINE newMarks == Firing(l, new, marks)
           newCounts == Counted(l, new, counts)
<1>2. newMarks \in [Job -> -1 .. LastMinute] /\ newCounts \in [Job -> [Minute -> Nat]]
  BY <1>1, FiringWrites, CountedWrites
<1>3. CASE new.todo = <<>>
  BY <1>1, <1>3, FiringWrites, CountedWrites
<1>4. CASE new.todo # <<>>
  <2> DEFINE h == Head(new.todo)
  <2>1. /\ newMarks[h] = minute
        /\ \A j \in Job : j # h => newMarks[j] = marks[j] /\ newCounts[j] = counts[j]
        /\ \A m \in Minute :
             \/ newCounts[h][m] = counts[h][m]
             \/ m \in Occasion(l, h, new.now) /\ newCounts[h][m] = counts[h][m] + 1
    <3>1. /\ newMarks[h] = minute
          /\ \A j \in Job : j # h => newMarks[j] = marks[j]
      BY <1>1, <1>4, FiringWrites
    <3>2. /\ \A j \in Job : j # h => newCounts[j] = counts[j]
          /\ \A m \in Minute :
               \/ newCounts[h][m] = counts[h][m]
               \/ m \in Occasion(l, h, new.now) /\ newCounts[h][m] = counts[h][m] + 1
      BY <1>1, <1>4, CountedWrites
    <3> HIDE DEF newMarks, newCounts, h
    <3>3. QED
      BY <3>1, <3>2
  <2>2. h \in Job
    BY <1>4, TailType
  <2>3. \A m \in Occasion(l, h, new.now) \cap Minute :
             /\ m <= minute
             /\ h \in SystemJob \cup CronJob => m <= tk
             /\ Once(h, m, st) => counts[h][m] = 0
    BY <1>4
  <2> HIDE DEF newMarks, newCounts, h
  <2>4. ASSUME NEW j \in Job, NEW m \in Minute, newCounts[j][m] > 0, Once(j, m, st)
        PROVE  newMarks[j] >= m /\ newCounts[j][m] <= 1
    <3>1. CASE j # h
      BY <2>1, <2>4, <3>1 DEF Tallied
    <3>2. CASE j = h /\ m \in Occasion(l, h, new.now) /\ newCounts[h][m] = counts[h][m] + 1
      <4>1. newCounts[j][m] = 1
        BY <2>3, <2>4, <3>2
      <4>2. newMarks[j] >= m
        BY <2>1, <2>3, <3>2 DEF Minute
      <4>3. QED
        BY <4>1, <4>2
    <3>3. CASE j = h /\ newCounts[h][m] = counts[h][m]
      <4>1. newCounts[j][m] = counts[j][m]
        BY <3>3
      <4>2. marks[j] >= m /\ counts[j][m] <= 1
        BY <2>4, <4>1 DEF Tallied
      <4>3. marks[j] \in -1 .. LastMinute
        BY <1>1
      <4>4. QED
        <5>1. marks[j] <= minute
          BY DEF Tallied
        <5>2. QED
          BY <2>1, <3>3, <4>1, <4>2, <4>3, <5>1 DEF Minute
    <3>4. QED
      BY <2>1, <3>1, <3>2, <3>3
  <2>5. ASSUME NEW j \in SystemJob \cup CronJob, NEW m \in Minute, newCounts[j][m] > 0
        PROVE  m <= tk
    <3>1. j \in Job
      BY Kinds DEF AgentJob, Job
    <3>2. counts[j][m] > 0 \/ (j = h /\ m \in Occasion(l, h, new.now))
      BY <2>1, <2>5, <3>1
    <3>3. QED
      BY <2>3, <3>2 DEF Tallied
  <2>6. \A j \in Job : newMarks[j] <= minute
    BY <2>1 DEF Tallied, Minute
  <2>7. ASSUME NEW j \in Job, NEW m \in Minute, newCounts[j][m] > 0 PROVE m <= minute
    <3>1. counts[j][m] > 0 \/ (j = h /\ m \in Occasion(l, h, new.now))
      BY <2>1, <2>7
    <3>2. QED
      BY <2>3, <3>1 DEF Tallied
  <2>8. QED
    BY <1>2, <2>4, <2>5, <2>6, <2>7 DEF newMarks, newCounts, Tallied
<1>5. QED
  BY <1>3, <1>4

----------------------------------------------------------------------------
(* Replaced entries *)

Replacement == [tick : Entry, agents : Entry]

LEMMA ReadType ==
  ASSUME NEW c, NEW j \in Job, NEW l \in {"tick", "agents"}, DOMAIN c \subseteq AgentJob,
         \A i \in DOMAIN c : c[i] \in Replacement,
         lastFired \in [Job -> -1 .. LastMinute], enabled \in [Job -> BOOLEAN]
  PROVE  Read(c, l, j) \in Entry /\ (j \notin DOMAIN c => Read(c, l, j).fired = lastFired[j])
<1>1. CASE j \in DOMAIN c
  <2>1. c[j].tick \in Entry /\ c[j].agents \in Entry
    BY <1>1 DEF Replacement
  <2>2. QED
    BY <1>1, <2>1 DEF Read
<1>2. CASE j \notin DOMAIN c
  <2>1. Read(c, l, j) = [fired |-> lastFired[j], on |-> enabled[j]]
    BY <1>2 DEF Read
  <2>2. QED
    BY <1>2, <2>1 DEF Entry
<1>3. QED
  BY <1>1, <1>2

LEMMA CopyWrites ==
  ASSUME NEW c, DOMAIN c \subseteq AgentJob, \A i \in DOMAIN c : c[i] \in Replacement,
         NEW l, NEW new, new.todo \in Seq(Job), minute \in Minute,
         l \in {"tick", "agents"} \/ (new.todo # <<>> => Head(new.todo) \notin AgentJob)
  PROVE  LET d == CopyFired(l, new, c)
         IN /\ DOMAIN d = DOMAIN c
            /\ \A i \in DOMAIN c :
                 /\ d[i] \in Replacement
                 /\ l # "tick" \/ new.todo = <<>> \/ i # Head(new.todo) => d[i].tick = c[i].tick
                 /\ l = "tick" /\ new.todo # <<>> /\ i = Head(new.todo)
                      => d[i].tick.fired = minute
<1> DEFINE h == Head(new.todo)
           d == CopyFired(l, new, c)
<1>1. CASE new.todo = <<>> \/ h \notin DOMAIN c
  <2>1. d = c
    BY <1>1 DEF CopyFired
  <2>2. QED
    BY <1>1, <2>1
<1>2. CASE ~(new.todo = <<>> \/ h \notin DOMAIN c)
  <2>1. new.todo # <<>> /\ h \in DOMAIN c /\ l \in {"tick", "agents"}
    BY <1>2
  <2>2. d = [c EXCEPT ![h][l].fired = minute]
    BY <1>2 DEF CopyFired
  <2>3. c[h] \in Replacement /\ minute \in -1 .. LastMinute
    BY <2>1, Kinds DEF Minute
  <2> HIDE DEF h, d
  <2>4. CASE l = "tick"
    <3> DEFINE r == [c[h] EXCEPT !.tick.fired = minute]
    <3>1. d = [c EXCEPT ![h] = r]
      BY <2>1, <2>2, <2>4
    <3>2. r \in Replacement /\ r.tick.fired = minute
      BY <2>3 DEF Replacement, Entry
    <3> HIDE DEF r
    <3>3. QED
      BY <2>1, <2>4, <3>1, <3>2 DEF h, d
  <2>5. CASE l = "agents"
    <3> DEFINE r == [c[h] EXCEPT !.agents.fired = minute]
    <3>1. d = [c EXCEPT ![h] = r]
      BY <2>1, <2>2, <2>5
    <3>2. r \in Replacement /\ r.tick = c[h].tick
      BY <2>3 DEF Replacement, Entry
    <3> HIDE DEF r
    <3>3. QED
      BY <2>1, <2>5, <3>1, <3>2 DEF h, d
  <2>6. QED
    BY <2>1, <2>4, <2>5
<1>3. QED
  BY <1>1, <1>2

LEMMA DroppingType ==
  ASSUME NEW drops, drops \subseteq Job, NEW new, new.todo \in Seq(Job)
  PROVE  Dropping(new, drops) \subseteq Job
<1>1. CASE new.todo = <<>>
  BY <1>1 DEF Dropping
<1>2. CASE new.todo # <<>>
  <2>1. Head(new.todo) \in Job
    BY <1>2, TailType
  <2>2. QED
    BY <1>2, <2>1 DEF Dropping
<1>3. QED
  BY <1>1, <1>2

----------------------------------------------------------------------------
(* The inductive invariant *)

Clocked ==
  /\ minute \in Minute /\ ticked \in Minute /\ ticked <= minute
  /\ starts \in 0 .. MaxStarts /\ running \in BOOLEAN
  /\ present \in [Job -> {"new", "kept", "removed"}]
  /\ enabled \in [Job -> BOOLEAN]
  /\ handler \in BOOLEAN /\ dropped \subseteq Job
  /\ again \in [AgentJob -> -1 .. LastMinute]
  /\ changes \in 0 .. MaxChanges

\* The jobs a tick may still come to
Ahead ==
  LET todo == loop["tick"].todo
  IN IF todo = <<>> THEN {}
     ELSE (Range(Tail(todo)) \cup IF Head(todo) \in SystemJob THEN AgentJob ELSE {})
            \cap (SystemJob \cup CronJob)

\* A tick goes through jobs of one kind, each once; it is later than the loops
\* that catch up; and what it may still come to was not fired for its minute,
\* unless the clock has stopped.
Ticking ==
  /\ loop \in [Loop -> [todo : Seq(Job), now : Minute]]
  /\ \A l \in Loop : loop[l].now <= ticked
  /\ Range(loop["system"].todo) \subseteq SystemJob
  /\ Distinct(loop["tick"].todo)
  /\ Range(loop["tick"].todo) \subseteq SystemJob \/ Range(loop["tick"].todo) \subseteq AgentJob
  /\ loop["tick"].todo # <<>> =>
       \A l \in {"agents", "system"} :
         loop[l].now < loop["tick"].now \/ loop["tick"].now = LastMinute
  /\ \A j \in Ahead : fires[j][loop["tick"].now] > 0 => loop["tick"].now = LastMinute

\* An entry was replaced after both loops that still read it took their now,
\* and the one that a tick reads of an at job is marked when it was fired since.
Replaced ==
  /\ DOMAIN copies \subseteq AgentJob
  /\ \A j \in DOMAIN copies :
       /\ copies[j] \in Replacement
       /\ loop["agents"].now <= again[j]
       /\ loop["tick"].todo # <<>> /\ Range(loop["tick"].todo) \subseteq AgentJob
            => loop["tick"].now <= again[j]
       /\ j \in AtJob => \A m \in Minute :
            fires[j][m] > 0 /\ again[j] < m => copies[j].tick.fired >= m

\* A process that is down has no loops, and nothing is fired before the first.
Resting ==
  /\ ~running => copies = NoCopies /\ \A l \in Loop : loop[l] = Idle
  /\ starts = 0 => ~running /\ \A j \in Job, m \in Minute : fires[j][m] = 0

CronInv ==
  /\ Clocked /\ Tallied(lastFired, fires, starts, ticked) /\ Ticking /\ Replaced /\ Resting

LEMMA LaterTick ==
  ASSUME Clocked, NEW tk \in Minute, ticked <= tk, NEW st, Tallied(lastFired, fires, st, ticked)
  PROVE  Tallied(lastFired, fires, st, tk)
<1>1. ASSUME NEW j \in SystemJob \cup CronJob, NEW m \in Minute, fires[j][m] > 0 PROVE m <= tk
  <2>1. m <= ticked
    BY <1>1 DEF Tallied
  <2>2. QED
    BY <2>1 DEF Clocked, Minute
<1>2. QED
  BY <1>1 DEF Tallied

\* A tick goes on, in its minute, with a rest that it did not fire yet.
LEMMA TickOnStep ==
  ASSUME CronInv, NEW rest \in Seq(Job), NEW now \in Minute, NEW sys \in BOOLEAN,
         Distinct(rest),
         IF sys THEN Range(rest) \subseteq SystemJob ELSE Range(rest) \subseteq AgentJob,
         now <= minute, ticked' \in Minute, ticked <= ticked', now <= ticked',
         \A j \in (Range(rest) \cup IF sys THEN AgentJob ELSE {}) \cap (SystemJob \cup CronJob) :
           fires[j][now] > 0 => now = LastMinute,
         \A l \in {"agents", "system"} : loop[l].now < now \/ now = LastMinute,
         ~sys => \A j \in DOMAIN copies : now <= again[j],
         TickOn(rest, now, sys), UNCHANGED <<minute, starts, again>>
  PROVE  Tallied(lastFired, fires, starts, ticked)' /\ Ticking' /\ Replaced' /\ dropped' \subseteq Job
<1>0. /\ Clocked /\ Ticking /\ Replaced /\ Tallied(lastFired, fires, starts, ticked)
      /\ loop \in [Loop -> [todo : Seq(Job), now : Minute]]
  BY DEF CronInv, Ticking
<1>1. PICK early \in SUBSET EveryJob :
        \E systems \in {IF sys THEN From(rest, TickDue(copies, now, early)) ELSE <<>>} :
          LET load == sys /\ systems = <<>>
              c == IF load THEN NoCopies ELSE copies
              agents == From(IF load THEN InOrder(Rows) ELSE rest, TickDue(c, now, early))
          IN \E new \in {[todo |-> IF systems # <<>> THEN systems ELSE agents, now |-> now]} :
               /\ loop' = [IF load THEN Loaded(loop) ELSE loop EXCEPT !["tick"] = new]
               /\ lastFired' = Firing("tick", new, lastFired)
               /\ copies' = CopyFired("tick", new, c)
               /\ dropped' = Dropping(new, dropped)
               /\ fires' = Counted("tick", new, fires)
  BY DEF TickOn
<1> DEFINE systems == IF sys THEN From(rest, TickDue(copies, now, early)) ELSE <<>>
           load == sys /\ systems = <<>>
           c == IF load THEN NoCopies ELSE copies
           due == IF systems # <<>> THEN TickDue(copies, now, early) ELSE TickDue(c, now, early)
           agents == From(IF load THEN InOrder(Rows) ELSE rest, TickDue(c, now, early))
           todo == IF systems # <<>> THEN systems ELSE agents
           new == [todo |-> todo, now |-> now]
<1>2. /\ loop' = [IF load THEN Loaded(loop) ELSE loop EXCEPT !["tick"] = new]
      /\ lastFired' = Firing("tick", new, lastFired)
      /\ copies' = CopyFired("tick", new, c)
      /\ dropped' = Dropping(new, dropped)
      /\ fires' = Counted("tick", new, fires)
  BY <1>1
\* The new todo: jobs of one kind, each once, the first of them due
<1>3. /\ todo \in Seq(Job) /\ Distinct(todo)
      /\ todo # <<>> => Head(todo) \in due
      /\ \/ sys /\ Range(todo) \subseteq Range(rest) /\ Range(todo) \subseteq SystemJob
         \/ sys /\ Range(todo) \subseteq AgentJob
         \/ ~sys /\ Range(todo) \subseteq Range(rest) /\ Range(todo) \subseteq AgentJob
  <2>1. InOrder(Rows) \in Seq(Job) /\ Distinct(InOrder(Rows)) /\ Range(InOrder(Rows)) \subseteq AgentJob
    BY InOrderType DEF Rows
  <2>2. CASE systems # <<>>
    <3>1. sys /\ todo = From(rest, due)
      BY <2>2
    <3> HIDE DEF todo, due
    <3>2. QED
      BY <2>2, <3>1, FromType
  <2>3. CASE systems = <<>> /\ sys
    <3>1. todo = From(InOrder(Rows), due)
      BY <2>3
    <3> HIDE DEF todo, due
    <3>2. QED
      BY <2>1, <2>3, <3>1, FromType
  <2>4. CASE ~sys
    <3>1. todo = From(rest, due)
      BY <2>4
    <3> HIDE DEF todo, due
    <3>2. QED
      BY <2>4, <3>1, FromType
  <2>5. QED
    BY <2>2, <2>3, <2>4
<1>4. ASSUME NEW j, j \in Range(todo) \/ (sys /\ j \in AgentJob),
             j \in SystemJob \cup CronJob, fires[j][now] > 0
      PROVE  now = LastMinute
  BY <1>3, <1>4
<1>5. \A l \in Loop : /\ l # "tick" => loop'[l].now = loop[l].now /\ loop'[l].todo \in Seq(Job)
                      /\ loop' \in [Loop -> [todo : Seq(Job), now : Minute]]
                      /\ loop'["tick"] = new /\ loop'["system"] = loop["system"]
  <2> DEFINE before == IF load THEN Loaded(loop) ELSE loop
  <2>1. /\ before \in [Loop -> [todo : Seq(Job), now : Minute]]
        /\ \A l \in Loop : before[l].now = loop[l].now
        /\ before["system"] = loop["system"]
    <3>1. CASE ~load
      BY <1>0, <3>1
    <3>2. CASE load
      <4> DEFINE old == loop["agents"].todo
                 list == IF old = <<>> THEN old ELSE <<Head(old)>> \o InOrder(Rows)
      <4>1. old \in Seq(Job) /\ loop["agents"] \in [todo : Seq(Job), now : Minute]
        BY <1>0 DEF Loop
      <4>2. list \in Seq(Job)
        BY <4>1, InOrderType, TailType
      <4>3. before = [loop EXCEPT !["agents"].todo = list]
        BY <3>2 DEF Loaded
      <4> HIDE DEF list, before, old
      <4>4. QED
        BY <1>0, <4>1, <4>2, <4>3 DEF Loop
    <3>3. QED
      BY <3>1, <3>2
  <2>2. loop' = [before EXCEPT !["tick"] = new]
    BY <1>2
  <2>3. new \in [todo : Seq(Job), now : Minute]
    BY <1>3
  <2> HIDE DEF before, new
  <2>4. QED
    BY <2>1, <2>2, <2>3 DEF Loop
<1>6. new.todo = todo /\ new.now = now /\ now \in 0 .. LastMinute
  BY DEF Minute
\* The entries it reads, and which of them are due
<1>a. /\ DOMAIN c \subseteq DOMAIN copies /\ \A j \in DOMAIN c : c[j] = copies[j]
      /\ systems = <<>> => \A j \in DOMAIN c : now <= again[j]
      /\ systems = <<>> => Range(todo) \subseteq AgentJob
      /\ systems # <<>> => todo = systems /\ Range(todo) \subseteq SystemJob
  <2>1. DOMAIN NoCopies = {}
    BY DEF NoCopies
  <2>2. systems # <<>> => sys /\ todo = systems
    OBVIOUS
  <2>3. systems # <<>> => Range(todo) \subseteq SystemJob
    <3>1. Range(From(rest, TickDue(copies, now, early))) \subseteq Range(rest)
      BY FromType
    <3>2. QED
      BY <2>2, <3>1
  <2>4. systems = <<>> => \A j \in DOMAIN c : now <= again[j]
    BY <2>1
  <2>5. systems = <<>> => Range(todo) \subseteq AgentJob
    <3>1. CASE systems = <<>> /\ sys
      <4>1. todo = From(InOrder(Rows), TickDue(c, now, early))
        BY <3>1
      <4>2. InOrder(Rows) \in Seq(Job) /\ Range(InOrder(Rows)) \subseteq AgentJob
        BY InOrderType DEF Rows
      <4> HIDE DEF todo, c
      <4>3. QED
        BY <4>1, <4>2, FromType
    <3>2. CASE ~sys
      BY <1>3, <3>2
    <3>3. QED
      BY <3>1, <3>2
  <2>6. DOMAIN c \subseteq DOMAIN copies /\ \A j \in DOMAIN c : c[j] = copies[j]
    BY <2>1
  <2> HIDE DEF todo, systems, c
  <2>7. QED
    BY <2>2, <2>3, <2>4, <2>5, <2>6
<1>b. ASSUME NEW h \in Range(todo), h \in due
      PROVE  /\ h \in SystemJob /\ h \notin CronJob \cup AtJob \cup EveryJob => now \in Matches[h]
             /\ \/ h \notin DOMAIN c /\ Read(c, "tick", h).fired = lastFired[h]
                \/ h \in DOMAIN c /\ h \in AgentJob /\ now <= again[h]
                      /\ Read(c, "tick", h).fired = copies[h].tick.fired
             /\ h \in CronJob /\ h \notin SystemJob \cup AtJob \cup EveryJob
                  => Read(c, "tick", h).fired # now
             /\ h \in AtJob /\ h \notin SystemJob \cup CronJob \cup EveryJob
                  => minute >= At[h] /\ Read(c, "tick", h).fired = -1
  <2>1. h \notin DOMAIN c => Read(c, "tick", h).fired = lastFired[h]
    BY DEF Read
  <2>2. h \in DOMAIN c => Read(c, "tick", h).fired = copies[h].tick.fired
    <3> HIDE DEF c
    <3>1. QED
      BY <1>a DEF Read
  <2>3. h \in DOMAIN c => h \in AgentJob
    BY <1>0, <1>a DEF Replaced
  <2>4. CASE systems # <<>>
    <3>1. h \in SystemJob /\ h \in TickDue(copies, now, early)
      BY <1>a, <1>b, <2>4
    <3>2. h \notin AgentJob
      BY <3>1, Kinds
    <3>3. h \notin CronJob \cup AtJob \cup EveryJob
      BY <3>2 DEF AgentJob
    <3>4. now \in Matches[h]
      BY <3>1, <3>3 DEF TickDue
    <3> HIDE DEF c
    <3>5. QED
      BY <2>1, <2>3, <3>2, <3>3, <3>4
  <2>5. CASE systems = <<>>
    <3>1. h \in TickDue(c, now, early)
      BY <1>b, <2>5
    <3>2. \A j \in DOMAIN c : now <= again[j]
      BY <1>a, <2>5
    <3> HIDE DEF c, systems, due, todo
    <3>3. h \in AgentJob
      BY <1>a, <2>5
    <3>4. h \notin SystemJob
      BY <3>3, Kinds
    <3>5. h \in CronJob /\ h \notin SystemJob \cup AtJob \cup EveryJob => Read(c, "tick", h).fired # now
      BY <3>1 DEF TickDue
    <3>6. h \in AtJob /\ h \notin SystemJob \cup CronJob \cup EveryJob
                  => minute >= At[h] /\ Read(c, "tick", h).fired = -1
      BY <3>1 DEF TickDue
    <3>7. \/ h \notin DOMAIN c /\ Read(c, "tick", h).fired = lastFired[h]
          \/ h \in DOMAIN c /\ h \in AgentJob /\ now <= again[h]
                /\ Read(c, "tick", h).fired = copies[h].tick.fired
      <4>1. CASE h \in DOMAIN c
        BY <2>2, <3>2, <3>3, <4>1
      <4>2. CASE h \notin DOMAIN c
        BY <2>1, <4>2
      <4>3. QED
        BY <4>1, <4>2
    <3>8. QED
      BY <3>4, <3>5, <3>6, <3>7
  <2>6. QED
    BY <2>4, <2>5
<1> HIDE DEF todo, new, due, c
\* What the first of them is fired for
<1>7. ASSUME todo # <<>>, NEW m \in Occasion("tick", Head(todo), now) \cap Minute
      PROVE  /\ m <= minute
             /\ Head(todo) \in SystemJob \cup CronJob => m <= ticked' /\ m = now
             /\ Once(Head(todo), m, starts) => fires[Head(todo)][m] = 0
  <2> DEFINE h == Head(todo)
             seen == Read(c, "tick", h).fired
  <2>1. h \in Job /\ h \in Range(todo) /\ h \in due
    BY <1>3, <1>7, TailType
  <2>2. /\ lastFired \in [Job -> -1 .. LastMinute] /\ fires \in [Job -> [Minute -> Nat]]
        /\ lastFired[h] <= minute
        /\ fires[h][m] > 0 /\ Once(h, m, starts) => lastFired[h] >= m
    BY <1>0, <2>1 DEF Tallied
  <2>a. /\ h \in SystemJob /\ h \notin CronJob \cup AtJob \cup EveryJob => now \in Matches[h]
        /\ \/ h \notin DOMAIN c /\ seen = lastFired[h]
           \/ h \in DOMAIN copies /\ h \in AgentJob /\ now <= again[h] /\ seen = copies[h].tick.fired
        /\ h \in CronJob /\ h \notin SystemJob \cup AtJob \cup EveryJob => seen # now
        /\ h \in AtJob /\ h \notin SystemJob \cup CronJob \cup EveryJob
             => minute >= At[h] /\ seen = -1
    BY <1>a, <1>b, <2>1
  <2>3. fires[h][m] \in Nat /\ lastFired[h] \in -1 .. LastMinute /\ minute \in 0 .. LastMinute
        /\ m \in 0 .. LastMinute
    BY <1>0, <2>1, <2>2 DEF Clocked, Minute
  <2>b. h \in AgentJob => again[h] \in -1 .. LastMinute
    BY <1>0 DEF Clocked
  <2> HIDE DEF h, seen
  <2>4. CASE h \in SystemJob \cup CronJob
    <3>1. h \notin AtJob /\ h \notin EveryJob
      BY <2>4, Kinds DEF AgentJob
    <3>2. m = now
      BY <1>7, <3>1 DEF Occasion, h
    <3>3. fires[h][now] > 0 => now = LastMinute
      BY <1>4, <2>1, <2>4
    <3>4. CASE h \in SystemJob
      <4>1. now \in Matches[h]
        BY <2>a, <3>1, <3>4, Kinds DEF AgentJob
      <4>2. now # LastMinute
        BY <3>4, <4>1, Kinds
      <4>3. QED
        BY <2>3, <3>2, <3>3, <4>2 DEF h
    <3>5. CASE h \notin SystemJob
      <4>1. h \in CronJob /\ h \in AgentJob
        BY <2>4, <3>5 DEF AgentJob
      <4>2. seen # now
        BY <2>a, <3>1, <3>5, <4>1
      <4>3. ASSUME Once(h, m, starts) PROVE ~(fires[h][m] > 0)
        <5>1. again[h] < m
          BY <4>1, <4>3 DEF Once
        <5>2. seen = lastFired[h]
          BY <1>6, <2>a, <2>b, <2>3, <3>2, <4>1, <5>1
        <5>3. QED
          BY <1>6, <2>2, <2>3, <3>2, <3>3, <4>2, <4>3, <5>2
      <4>4. QED
        BY <2>3, <3>2, <4>3 DEF h
    <3>6. QED
      BY <3>4, <3>5
  <2>5. CASE h \in AtJob
    <3>1. h \in AgentJob /\ h \notin SystemJob \cup CronJob /\ h \notin EveryJob
      BY <2>5, Kinds DEF AgentJob
    <3>2. m = At[h]
      BY <1>7, <2>5 DEF Occasion, h
    <3>3. minute >= At[h] /\ seen = -1
      BY <2>5, <2>a, <3>1
    <3>4. ASSUME Once(h, m, starts), fires[h][m] > 0 PROVE FALSE
      <4>1. again[h] < m
        BY <3>1, <3>4 DEF Once
      <4>2. lastFired[h] >= m
        BY <2>2, <3>4
      <4>3. CASE seen = lastFired[h]
        BY <2>3, <3>3, <4>2, <4>3
      <4>4. CASE h \in DOMAIN copies /\ seen = copies[h].tick.fired
        <5>1. copies[h].tick.fired >= m
          BY <1>0, <2>5, <3>4, <4>1, <4>4 DEF Replaced
        <5>2. QED
          BY <2>3, <3>3, <4>4, <5>1
      <4>5. QED
        BY <2>a, <4>3, <4>4
    <3>5. QED
      BY <2>3, <3>1, <3>2, <3>3, <3>4 DEF h
  <2>6. CASE h \in EveryJob
    <3>1. h \notin AtJob
      BY <2>6, Kinds
    <3>2. QED
      BY <1>7, <2>6, <3>1 DEF Occasion, h
  <2>7. QED
    BY <2>1, <2>4, <2>5, <2>6 DEF Job, AgentJob
<1>8. Tallied(Firing("tick", new, lastFired), Counted("tick", new, fires), starts, ticked')
  <2>1. Tallied(lastFired, fires, starts, ticked')
    BY <1>0, LaterTick
  <2>2. minute \in Minute
    BY <1>0 DEF Clocked
  <2>3. QED
    BY <1>3, <1>6, <1>7, <2>1, <2>2, FiringTallies
<1>9. Tallied(lastFired, fires, starts, ticked)'
  BY <1>2, <1>8 DEF Tallied, Once
<1>10. Ticking'
  <2>1. \A l \in Loop : loop'[l].now <= ticked'
    <3>1. SUFFICES ASSUME NEW l \in Loop PROVE loop'[l].now <= ticked'
      OBVIOUS
    <3>2. loop[l].now \in Minute /\ loop[l].now <= ticked /\ ticked \in Minute
      BY <1>0 DEF Ticking, Clocked
    <3>3. CASE l = "tick"
      BY <1>5, <1>6, <3>3
    <3>4. CASE l # "tick"
      BY <1>5, <3>2, <3>4 DEF Minute
    <3>5. QED
      BY <3>3, <3>4
  <2>2. loop'["tick"].todo = todo /\ loop'["tick"].now = now
    BY <1>5, <1>6 DEF Loop
  <2>3. \A l \in {"agents", "system"} : loop'[l].now < now \/ now = LastMinute
    BY <1>5 DEF Loop
  <2>4. \A j \in Ahead' : fires'[j][now] > 0 => now = LastMinute
    <3>1. SUFFICES ASSUME NEW j \in Ahead', fires'[j][now] > 0 PROVE now = LastMinute
      OBVIOUS
    <3>2. todo # <<>>
      BY <2>2, <3>1 DEF Ahead
    <3>3. /\ j \in SystemJob \cup CronJob
          /\ j \in Range(Tail(todo)) \/ (Head(todo) \in SystemJob /\ j \in AgentJob)
      BY <2>2, <3>1, <3>2 DEF Ahead
    <3>4. /\ Range(Tail(todo)) \subseteq Range(todo) /\ Head(todo) \notin Range(Tail(todo))
          /\ Head(todo) \in Range(todo)
      BY <1>3, <3>2, TailType
    <3>5. j # Head(todo)
      BY <3>3, <3>4, Kinds
    <3>6. j \in Range(todo) \/ (sys /\ j \in AgentJob)
      BY <1>3, <3>3, <3>4, Kinds
    <3>7. j \in Job
      BY <3>3, Kinds DEF AgentJob, Job
    <3>8. fires'[j] = fires[j]
      <4>1. fires \in [Job -> [Minute -> Nat]]
        BY <1>0 DEF Tallied
      <4>2. fires' = Counted("tick", new, fires)
        BY <1>2
      <4>3. \A i \in Job : i # Head(new.todo) => Counted("tick", new, fires)[i] = fires[i]
        BY <1>3, <1>6, <3>2, <4>1, CountedWrites
      <4>4. QED
        BY <1>6, <3>5, <3>7, <4>2, <4>3
    <3>9. QED
      BY <1>4, <3>1, <3>3, <3>6, <3>8
  <2>5. loop' \in [Loop -> [todo : Seq(Job), now : Minute]]
    BY <1>5 DEF Loop
  <2>6. Range(loop'["system"].todo) \subseteq SystemJob
    BY <1>0, <1>5 DEF Ticking, Loop
  <2>7. QED
    BY <1>3, <2>1, <2>2, <2>3, <2>4, <2>5, <2>6 DEF Ticking
<1>11. Replaced'
  <2>1. \A i \in DOMAIN c : c[i] \in Replacement /\ i \in AgentJob /\ i \in DOMAIN copies
    BY <1>0, <1>a DEF Replaced
  <2>2. /\ DOMAIN copies' = DOMAIN c
        /\ \A i \in DOMAIN c :
             /\ copies'[i] \in Replacement
             /\ todo = <<>> \/ i # Head(todo) => copies'[i].tick = copies[i].tick
             /\ todo # <<>> /\ i = Head(todo) => copies'[i].tick.fired = minute
    <3> DEFINE d == CopyFired("tick", new, c)
    <3>1. minute \in Minute
      BY <1>0 DEF Clocked
    <3>2. DOMAIN c \subseteq AgentJob /\ \A i \in DOMAIN c : c[i] \in Replacement
      BY <2>1
    <3>3. new.todo \in Seq(Job)
      BY <1>3, <1>6
    <3>4. /\ DOMAIN d = DOMAIN c
          /\ \A i \in DOMAIN c :
               /\ d[i] \in Replacement
               /\ new.todo = <<>> \/ i # Head(new.todo) => d[i].tick = c[i].tick
               /\ new.todo # <<>> /\ i = Head(new.todo) => d[i].tick.fired = minute
      BY <3>1, <3>2, <3>3, CopyWrites
    <3> HIDE DEF d
    <3>5. copies' = d
      BY <1>2 DEF d
    <3>6. QED
      BY <1>6, <1>a, <3>4, <3>5
  <2>3. ASSUME NEW i \in DOMAIN c
        PROVE  /\ loop'["agents"].now <= again'[i]
               /\ loop'["tick"].todo # <<>> /\ Range(loop'["tick"].todo) \subseteq AgentJob
                    => loop'["tick"].now <= again'[i]
    <3>1. loop'["agents"].now <= again'[i]
      BY <1>0, <1>5, <2>1 DEF Replaced, Loop
    <3>2. loop'["tick"].todo = todo /\ loop'["tick"].now = now
      BY <1>5, <1>6 DEF Loop
    <3>3. ASSUME todo # <<>>, Range(todo) \subseteq AgentJob PROVE now <= again[i]
      <4>1. Head(todo) \in AgentJob
        BY <1>3, <3>3, TailType
      <4>2. Head(todo) \notin SystemJob /\ Head(todo) \in Range(todo)
        BY <1>3, <3>3, <4>1, TailType, Kinds
      <4>3. systems = <<>>
        BY <1>a, <4>2
      <4>4. QED
        BY <1>a, <4>3
    <3>4. QED
      BY <3>1, <3>2, <3>3
  <2>4. ASSUME NEW i \in DOMAIN c, i \in AtJob, NEW m \in Minute, fires'[i][m] > 0, again'[i] < m
        PROVE  copies'[i].tick.fired >= m
    <3>1. i \in Job /\ m <= minute
      <4>1. i \in Job
        BY <2>4, Kinds DEF AgentJob
      <4>2. QED
        BY <1>9, <2>4, <4>1 DEF Tallied
    <3>2. CASE todo # <<>> /\ i = Head(todo)
      BY <1>0, <2>2, <3>1, <3>2 DEF Clocked, Minute
    <3>3. CASE todo = <<>> \/ i # Head(todo)
      <4>1. fires'[i] = fires[i]
        <5>1. fires \in [Job -> [Minute -> Nat]] /\ fires' = Counted("tick", new, fires)
          BY <1>0, <1>2 DEF Tallied
        <5>2. /\ todo = <<>> => Counted("tick", new, fires) = fires
              /\ todo # <<>> => \A j \in Job : j # Head(todo)
                   => Counted("tick", new, fires)[j] = fires[j]
          BY <1>3, <1>6, <5>1, CountedWrites
        <5>3. QED
          BY <3>1, <3>3, <5>1, <5>2
      <4>2. copies[i].tick.fired >= m
        BY <1>0, <2>1, <2>4, <4>1 DEF Replaced
      <4>3. QED
        BY <2>2, <3>3, <4>2
    <3>4. QED
      BY <3>2, <3>3
  <2>5. QED
    BY <2>1, <2>2, <2>3, <2>4 DEF Replaced
<1>12. dropped' \subseteq Job
  BY <1>0, <1>2, <1>3, <1>6, DroppingType DEF Clocked
<1>13. QED
  BY <1>9, <1>10, <1>11, <1>12

LEMMA InvParts ==
  ASSUME CronInv
  PROVE  /\ Clocked /\ Ticking /\ Replaced /\ Resting
         /\ Tallied(lastFired, fires, starts, ticked)
         /\ enabled \in [Job -> BOOLEAN] /\ again \in [AgentJob -> -1 .. LastMinute]
         /\ dropped \subseteq Job
         /\ minute \in 0 .. LastMinute /\ ticked \in 0 .. LastMinute /\ ticked <= minute
         /\ loop \in [Loop -> [todo : Seq(Job), now : Minute]]
         /\ lastFired \in [Job -> -1 .. LastMinute] /\ fires \in [Job -> [Minute -> Nat]]
         /\ \A l \in Loop : loop[l].now \in 0 .. LastMinute /\ loop[l].now <= ticked
         /\ \A l \in Loop : loop[l].todo \in Seq(Job) /\ (loop[l].todo # <<>> => running)
         /\ running => starts # 0
<1>1. /\ Clocked /\ Ticking /\ Replaced /\ Resting /\ Tallied(lastFired, fires, starts, ticked)
      /\ loop \in [Loop -> [todo : Seq(Job), now : Minute]]
  BY DEF CronInv, Ticking
<1>2. \A l \in Loop : loop[l].todo # <<>> => running
  BY <1>1 DEF Resting, Idle
<1>3. /\ \A l \in Loop : loop[l].now \in 0 .. LastMinute /\ loop[l].now <= ticked
      /\ \A l \in Loop : loop[l].todo \in Seq(Job)
  BY <1>1 DEF Ticking, Minute
<1>4. QED
  BY <1>1, <1>2, <1>3 DEF Clocked, Tallied, Resting, Minute

LEMMA TickStep == ASSUME CronInv, tick PROVE CronInv'
<1>1. /\ running /\ (ticked # minute \/ minute = LastMinute) /\ ticked' = minute
      /\ UNCHANGED <<minute, starts, running, present, enabled, handler, again, changes>>
  BY DEF tick
<1>2. ASSUME dropped' \subseteq Job PROVE Clocked'
  BY <1>1, <1>2, InvParts DEF Clocked
<1>3. Resting'
  BY <1>1, InvParts DEF Resting
<1>4. CASE loop["tick"].todo # <<>>
  <2>1. UNCHANGED <<loop, lastFired, copies, dropped, fires>>
    BY <1>4 DEF tick
  <2>2. Tallied(lastFired, fires, starts, minute)
    BY InvParts, LaterTick DEF Minute
  <2>3. Tallied(lastFired, fires, starts, ticked)'
    BY <1>1, <2>1, <2>2 DEF Tallied, Once
  <2>4. \A l \in Loop : loop[l].now <= minute
    BY InvParts
  <2>5. Ticking'
    BY <1>1, <2>1, <2>4, InvParts DEF Ticking, Ahead
  <2>6. Replaced'
    BY <1>1, <2>1, InvParts DEF Replaced
  <2>7. QED
    BY <1>2, <1>3, <2>1, <2>3, <2>5, <2>6, InvParts DEF CronInv
<1>5. CASE loop["tick"].todo = <<>>
  <2>1. TickOn(InOrder(SystemJob), minute, TRUE)
    BY <1>5 DEF tick
  <2>2. /\ InOrder(SystemJob) \in Seq(Job) /\ Distinct(InOrder(SystemJob))
        /\ Range(InOrder(SystemJob)) \subseteq SystemJob
    BY InOrderType, Kinds
  <2>3. ASSUME NEW j \in SystemJob \cup CronJob, fires[j][minute] > 0 PROVE minute = LastMinute
    <3>1. minute <= ticked
      BY <2>3, InvParts DEF Tallied, Minute
    <3>2. QED
      BY <1>1, <3>1, InvParts
  <2>4. \A l \in {"agents", "system"} : loop[l].now < minute \/ minute = LastMinute
    <3>1. SUFFICES ASSUME NEW l \in {"agents", "system"}, minute # LastMinute
                   PROVE  loop[l].now < minute
      OBVIOUS
    <3>2. loop[l].now \in 0 .. LastMinute /\ loop[l].now <= ticked
      BY InvParts DEF Loop
    <3>3. QED
      BY <1>1, <3>1, <3>2, InvParts
  <2>5. /\ minute \in Minute /\ minute <= minute /\ ticked' \in Minute /\ ticked <= ticked'
        /\ minute <= ticked'
    BY <1>1, InvParts DEF Minute
  <2>6. /\ Tallied(lastFired, fires, starts, ticked)' /\ Ticking' /\ Replaced'
        /\ dropped' \subseteq Job
    <3> DEFINE rest == InOrder(SystemJob)
    <3>1. \A j \in (Range(rest) \cup IF TRUE THEN AgentJob ELSE {}) \cap (SystemJob \cup CronJob) :
           fires[j][minute] > 0 => minute = LastMinute
      BY <2>3
    <3>2. TickOn(rest, minute, TRUE) /\ UNCHANGED <<minute, starts, again>>
      BY <1>1, <2>1
    <3> HIDE DEF rest
    <3>3. rest \in Seq(Job) /\ Distinct(rest) /\ Range(rest) \subseteq SystemJob
      BY <2>2 DEF rest
    <3>4. IF TRUE THEN Range(rest) \subseteq SystemJob ELSE Range(rest) \subseteq AgentJob
      BY <3>3
    <3>5. TRUE \in BOOLEAN
      OBVIOUS
    <3>6. QED
      BY <2>4, <2>5, <3>1, <3>2, <3>3, <3>4, <3>5, TickOnStep
  <2>7. QED
    BY <1>2, <1>3, <2>6 DEF CronInv
<1>6. QED
  BY <1>4, <1>5

LEMMA TickGoesOnStep == ASSUME CronInv, TickGoesOn PROVE CronInv'
<1> DEFINE todo == loop["tick"].todo
           now == loop["tick"].now
           h == Head(todo)
<1>1. /\ todo # <<>> /\ enabled' = [enabled EXCEPT ![h] = @ /\ h \notin AtJob]
      /\ TickOn(Tail(todo), now, h \in SystemJob)
      /\ UNCHANGED <<minute, ticked, starts, running, present, handler, again, changes>>
  BY DEF TickGoesOn
<1>2. todo \in Seq(Job) /\ now \in Minute /\ now <= ticked /\ running
  BY <1>1, InvParts DEF Loop, Minute
<1>3. enabled' \in [Job -> BOOLEAN]
  BY <1>1, InvParts DEF Clocked
<1>4. ASSUME dropped' \subseteq Job PROVE Clocked'
  BY <1>1, <1>3, <1>4, InvParts DEF Clocked
<1>5. Resting'
  BY <1>1, <1>2, InvParts DEF Resting
<1>6. /\ Distinct(todo) /\ (Range(todo) \subseteq SystemJob \/ Range(todo) \subseteq AgentJob)
      /\ \A l \in {"agents", "system"} : loop[l].now < now \/ now = LastMinute
      /\ \A j \in (Range(Tail(todo)) \cup IF h \in SystemJob THEN AgentJob ELSE {})
                    \cap (SystemJob \cup CronJob) :
           fires[j][now] > 0 => now = LastMinute
  BY <1>1, InvParts DEF Ticking, Ahead
<1>7. /\ now <= minute /\ ticked' \in Minute /\ ticked <= ticked' /\ now <= ticked'
  <2> HIDE DEF now
  <2>1. /\ ticked' = ticked /\ now \in Int /\ minute \in Int /\ ticked \in Int /\ ticked \in Minute
        /\ now <= ticked /\ ticked <= minute
    BY <1>1, <1>2, InvParts DEF Minute
  <2>2. QED
    BY <2>1
<1> DEFINE rest == Tail(todo)
           sys == h \in SystemJob
<1>8. rest \in Seq(Job) /\ Distinct(rest) /\ Range(rest) \subseteq Range(todo) /\ h \in Range(todo)
  BY <1>1, <1>2, <1>6, TailType
<1>9. IF sys THEN Range(rest) \subseteq SystemJob ELSE Range(rest) \subseteq AgentJob
  BY <1>6, <1>8, Kinds
<1>10. TickOn(rest, now, sys) /\ UNCHANGED <<minute, starts, again>> /\ sys \in BOOLEAN
  BY <1>1
<1>11. \A j \in (Range(rest) \cup IF sys THEN AgentJob ELSE {}) \cap (SystemJob \cup CronJob) :
           fires[j][now] > 0 => now = LastMinute
  BY <1>6
<1>12. ~sys => \A j \in DOMAIN copies : now <= again[j]
  <2>1. ~sys => Range(todo) \subseteq AgentJob
    BY <1>6, <1>8
  <2>2. QED
    BY <1>1, <2>1, InvParts DEF Replaced
<1> HIDE DEF rest, sys, now, todo, h
<1>13. /\ Tallied(lastFired, fires, starts, ticked)' /\ Ticking' /\ Replaced'
       /\ dropped' \subseteq Job
  BY <1>2, <1>6, <1>7, <1>8, <1>9, <1>10, <1>11, <1>12, TickOnStep
<1>14. QED
  BY <1>4, <1>5, <1>13 DEF CronInv

\* What a catch-up loop found missed is marked earlier than the minute it is
\* counted for.
LEMMA CatchUpTallies ==
  ASSUME NEW marks, NEW counts, NEW st, NEW tk \in Minute, Tallied(marks, counts, st, tk),
         minute \in Minute, NEW l, l # "tick", NEW new, new.todo \in Seq(Job),
         new.now \in Minute, new.now <= tk, tk <= minute,
         new.todo # <<>> =>
           /\ Head(new.todo) \in SystemJob \cup CronJob
           /\ \/ findLastCronMatch(Head(new.todo), new.now) > marks[Head(new.todo)]
              \/ /\ Head(new.todo) \in AgentJob /\ new.now <= again[Head(new.todo)]
                 /\ again[Head(new.todo)] \in Int
  PROVE  Tallied(Firing(l, new, marks), Counted(l, new, counts), st, tk)
<1>1. ASSUME new.todo # <<>>, NEW m \in Occasion(l, Head(new.todo), new.now) \cap Minute
      PROVE  /\ m <= minute
             /\ Head(new.todo) \in SystemJob \cup CronJob => m <= tk
             /\ Once(Head(new.todo), m, st) => counts[Head(new.todo)][m] = 0
  <2> DEFINE h == Head(new.todo)
  <2>1. h \in SystemJob \cup CronJob /\ h \in Job
    BY <1>1, Kinds DEF AgentJob
  <2>2. m = findLastCronMatch(h, new.now)
    BY <1>1 DEF Occasion
  <2>3. /\ m <= new.now
        /\ m > marks[h] \/ (h \in AgentJob /\ new.now <= again[h] /\ again[h] \in Int)
    <3>1. m <= new.now
      BY <2>1, <2>2, LastMatch
    <3>2. m > marks[h] \/ (h \in AgentJob /\ new.now <= again[h] /\ again[h] \in Int)
      BY <1>1, <2>2
    <3>3. QED
      BY <3>1, <3>2
  <2>4. /\ marks[h] \in -1 .. LastMinute /\ counts[h][m] \in Nat
        /\ counts[h][m] > 0 /\ Once(h, m, st) => marks[h] >= m
    BY <2>1 DEF Tallied
  <2> HIDE DEF h
  <2>5. m \in Int /\ minute \in Int /\ tk \in Int /\ new.now \in Int
    BY DEF Minute
  <2>6. m <= tk /\ m <= minute
    BY <2>3, <2>5
  <2>7. Once(h, m, st) => ~(marks[h] >= m)
    BY <2>3, <2>4, <2>5 DEF Once
  <2>8. QED
    BY <2>4, <2>6, <2>7 DEF h
<1>2. QED
  BY <1>1, FiringTallies

LEMMA TodoWrite ==
  ASSUME NEW S, NEW T, NEW r \in [todo : S, now : T], NEW t \in S
  PROVE  LET new == [r EXCEPT !.todo = t]
         IN new.todo = t /\ new.now = r.now /\ new \in [todo : S, now : T]
  OBVIOUS

LEMMA CatchUpStep == ASSUME CronInv, NEW l \in Loop, CatchUpGoesOn(l) PROVE CronInv'
<1> DEFINE now == loop[l].now
           rest == From(Tail(loop[l].todo), Missed(now))
           new == [loop[l] EXCEPT !.todo = rest]
<1>1. /\ l # "tick" /\ loop[l].todo # <<>>
      /\ loop' = [loop EXCEPT ![l] = new]
      /\ lastFired' = Firing(l, new, lastFired)
      /\ copies' = CopyFired(l, new, copies)
      /\ dropped' = Dropping(new, dropped)
      /\ fires' = Counted(l, new, fires)
      /\ UNCHANGED <<minute, ticked, starts, running, present, enabled, handler, again, changes>>
  BY DEF CatchUpGoesOn
<1>2. /\ loop[l] \in [todo : Seq(Job), now : Minute] /\ running /\ now \in Minute
      /\ now <= ticked /\ ticked <= minute /\ ticked \in Minute /\ minute \in Minute
  BY <1>1, InvParts DEF Minute
<1>3. /\ rest \in Seq(Job)
      /\ rest # <<>> => Head(rest) \in Missed(now) /\ Head(rest) \in Range(rest)
      /\ Range(rest) \subseteq Range(loop[l].todo)
  <2>1. Tail(loop[l].todo) \in Seq(Job) /\ Range(Tail(loop[l].todo)) \subseteq Range(loop[l].todo)
    BY <1>1, <1>2, TailType
  <2>2. QED
    BY <2>1, FromType
<1> HIDE DEF rest
<1>4. new.todo = rest /\ new.now = now /\ new \in [todo : Seq(Job), now : Minute]
  BY <1>2, <1>3, TodoWrite
<1> HIDE DEF new, now
<1>a. l \in {"agents", "system"} /\ (l = "system" => Range(rest) \subseteq SystemJob)
  BY <1>1, <1>3, InvParts DEF Loop, Ticking
<1>5. rest # <<>> =>
        /\ Head(rest) \in SystemJob \cup CronJob
        /\ \/ findLastCronMatch(Head(rest), now) > lastFired[Head(rest)]
           \/ /\ Head(rest) \in AgentJob /\ now <= again[Head(rest)]
              /\ again[Head(rest)] \in Int
  <2>1. SUFFICES ASSUME rest # <<>>
                 PROVE  /\ Head(rest) \in SystemJob \cup CronJob
                        /\ \/ findLastCronMatch(Head(rest), now) > lastFired[Head(rest)]
                           \/ /\ Head(rest) \in AgentJob /\ now <= again[Head(rest)]
                              /\ again[Head(rest)] \in Int
    OBVIOUS
  <2> DEFINE h == Head(rest)
  <2>2. /\ h \in SystemJob \cup CronJob
        /\ findLastCronMatch(h, now) > Read(copies, "agents", h).fired
    BY <1>3, <2>1 DEF Missed
  <2> HIDE DEF h
  <2>3. CASE h \notin DOMAIN copies
    BY <2>2, <2>3 DEF Read, h
  <2>4. CASE h \in DOMAIN copies
    <3>1. h \in AgentJob /\ loop["agents"].now <= again[h]
      BY <2>4, InvParts DEF Replaced
    <3>2. h \notin SystemJob
      BY <3>1, Kinds
    <3>3. l = "agents"
      BY <1>3, <1>a, <2>1, <3>2 DEF h
    <3>4. again[h] \in Int
      BY <3>1, InvParts
    <3>5. QED
      BY <2>2, <3>1, <3>3, <3>4 DEF h, now
  <2>5. QED
    BY <2>3, <2>4
<1>6. Tallied(Firing(l, new, lastFired), Counted(l, new, fires), starts, ticked)
  BY <1>1, <1>2, <1>3, <1>4, <1>5, InvParts, CatchUpTallies
<1>7. Tallied(lastFired, fires, starts, ticked)'
  BY <1>1, <1>6 DEF Tallied, Once
<1>8. Clocked' /\ Resting'
  <2>1. dropped' \subseteq Job
    BY <1>1, <1>3, <1>4, InvParts, DroppingType
  <2>2. QED
    BY <1>1, <1>2, <2>1, InvParts DEF Clocked, Resting
<1>9. /\ loop' \in [Loop -> [todo : Seq(Job), now : Minute]]
      /\ loop'["system"].todo = IF l = "system" THEN rest ELSE loop["system"].todo
      /\ loop'["tick"] = loop["tick"] /\ \A k \in Loop : loop'[k].now = loop[k].now
  BY <1>1, <1>2, <1>4, InvParts DEF now, Loop
<1>10. \A j \in Ahead : fires'[j][loop["tick"].now] > 0 => loop["tick"].now = LastMinute
  <2> DEFINE tnow == loop["tick"].now
  <2>1. SUFFICES ASSUME NEW j \in Ahead, fires'[j][tnow] > 0, tnow # LastMinute PROVE FALSE
    OBVIOUS
  <2>2. loop["tick"].todo # <<>> /\ j \in SystemJob \cup CronJob /\ j \in Job
    BY <2>1, Kinds DEF Ahead, AgentJob
  <2>3. tnow \in Minute /\ now < tnow
    BY <1>1, <2>1, <2>2, InvParts DEF Ticking, Loop, Minute, now
  <2>4. fires[j][tnow] \in Nat /\ ~(fires[j][tnow] > 0)
    BY <2>1, <2>2, <2>3, InvParts DEF Ticking
  <2>5. rest # <<>> /\ j = Head(rest) /\ tnow \in Occasion(l, j, now)
    <3> HIDE DEF tnow
    <3>1. fires'[j] # fires[j]
      BY <2>1, <2>4
    <3>2. rest # <<>> /\ j = Head(rest)
      <4>1. fires \in [Job -> [Minute -> Nat]] /\ new.todo \in Seq(Job)
        BY <1>3, <1>4, InvParts
      <4>2. /\ new.todo = <<>> => Counted(l, new, fires) = fires
            /\ new.todo # <<>> =>
                 \A i \in Job : i # Head(new.todo) => Counted(l, new, fires)[i] = fires[i]
        BY <4>1, CountedWrites
      <4>3. QED
        BY <1>1, <1>4, <2>2, <3>1, <4>2
    <3>3. fires'[j][tnow] = fires[j][tnow] \/ tnow \in Occasion(l, j, now)
      <4>1. fires \in [Job -> [Minute -> Nat]] /\ new.todo \in Seq(Job) /\ new.todo # <<>>
        BY <1>3, <1>4, <3>2, InvParts
      <4>2. \A m \in Minute :
              Counted(l, new, fires)[j][m] = fires[j][m] \/ m \in Occasion(l, j, new.now)
        <5> DEFINE h == Head(new.todo)
        <5>1. \A m \in Minute : \/ Counted(l, new, fires)[h][m] = fires[h][m]
                                \/ m \in Occasion(l, h, new.now)
          BY <4>1, CountedWrites
        <5>2. h = j
          BY <1>4, <3>2
        <5> HIDE DEF h
        <5>3. QED
          BY <5>1, <5>2
      <4>3. QED
        BY <1>1, <1>4, <2>3, <4>2
    <3>4. QED
      BY <2>1, <2>4, <3>2, <3>3
  <2>6. tnow = findLastCronMatch(j, now)
    BY <1>1, <2>5 DEF Occasion
  <2>7. tnow <= now
    BY <1>2, <2>2, <2>6, LastMatch
  <2>8. QED
    BY <1>2, <2>3, <2>7 DEF Minute
<1>11. Ticking'
  <2>1. Ahead' = Ahead
    BY <1>9 DEF Ahead
  <2>2. Range(loop'["system"].todo) \subseteq SystemJob
    BY <1>9, <1>a, InvParts DEF Ticking
  <2>3. QED
    BY <1>1, <1>9, <1>10, <2>1, <2>2, InvParts DEF Ticking, Loop
<1>12. Replaced'
  <2>1. /\ DOMAIN copies \subseteq AgentJob
        /\ \A i \in DOMAIN copies : copies[i] \in Replacement
    BY InvParts DEF Replaced
  <2>2. l \in {"tick", "agents"} \/ (new.todo # <<>> => Head(new.todo) \notin AgentJob)
    BY <1>3, <1>4, <1>a, Kinds
  <2>3. /\ DOMAIN copies' = DOMAIN copies
        /\ \A i \in DOMAIN copies : /\ copies'[i] \in Replacement
                                    /\ copies'[i].tick = copies[i].tick
    BY <1>1, <1>2, <1>3, <1>4, <2>1, <2>2, CopyWrites
  <2>4. ASSUME NEW i \in AtJob PROVE fires'[i] = fires[i]
    <3>1. i \in Job /\ i \notin SystemJob \cup CronJob
      BY Kinds DEF AgentJob
    <3>2. rest # <<>> => i # Head(rest)
      BY <1>5, <3>1
    <3>3. QED
      BY <1>1, <1>3, <1>4, <3>1, <3>2, InvParts, CountedWrites
  <2>5. loop'["agents"].now = loop["agents"].now /\ loop'["tick"] = loop["tick"] /\ again' = again
    BY <1>1, <1>9 DEF Loop
  <2>6. QED
    BY <2>1, <2>3, <2>4, <2>5, InvParts DEF Replaced
<1>13. QED
  BY <1>7, <1>8, <1>11, <1>12 DEF CronInv

\* Steps that leave the tick and the counts alone
LEMMA QuietStep ==
  ASSUME CronInv, minute' \in Minute, minute <= minute', UNCHANGED <<ticked, starts, running, fires>>,
         present' \in [Job -> {"new", "kept", "removed"}], enabled' \in [Job -> BOOLEAN],
         changes' \in 0 .. MaxChanges,
         lastFired' \in [Job -> -1 .. LastMinute],
         \A j \in Job : lastFired'[j] = lastFired[j] \/ lastFired'[j] = minute,
         loop' \in [Loop -> [todo : Seq(Job), now : Minute]],
         loop'["tick"] = loop["tick"], loop'["system"] = loop["system"],
         \A l \in Loop : loop'[l].now = loop[l].now,
         handler' \in BOOLEAN, dropped' \subseteq Job,
         again' \in [AgentJob -> -1 .. LastMinute],
         \A j \in AgentJob : again'[j] = again[j] \/ again'[j] = minute,
         DOMAIN copies' \subseteq AgentJob,
         \A j \in DOMAIN copies' :
           /\ copies'[j] \in Replacement
           /\ \/ j \in DOMAIN copies /\ copies'[j].tick = copies[j].tick
              \/ again'[j] = minute,
         ~running => UNCHANGED <<loop, copies>>
  PROVE  CronInv'
<1>1. Clocked'
  <2>1. ticked <= minute'
    BY InvParts DEF Minute
  <2>2. QED
    BY <2>1, InvParts DEF Clocked
<1>2. Tallied(lastFired, fires, starts, ticked)'
  <2>1. \A j \in Job : lastFired[j] <= minute /\ lastFired[j] \in -1 .. LastMinute
    BY InvParts DEF Tallied
  <2>2. \A j \in Job : lastFired'[j] >= lastFired[j] /\ lastFired'[j] \in -1 .. LastMinute
                         /\ lastFired'[j] <= minute'
    <3>1. minute \in 0 .. LastMinute /\ minute' \in 0 .. LastMinute /\ LastMinute \in Nat
      BY InvParts, Kinds DEF Minute
    <3>2. SUFFICES ASSUME NEW j \in Job
                   PROVE  lastFired'[j] >= lastFired[j] /\ lastFired'[j] \in -1 .. LastMinute
                            /\ lastFired'[j] <= minute'
      OBVIOUS
    <3>3. lastFired[j] <= minute /\ lastFired[j] \in -1 .. LastMinute
      BY <2>1
    <3>4. CASE lastFired'[j] = lastFired[j]
      BY <3>1, <3>3, <3>4
    <3>5. CASE lastFired'[j] = minute
      BY <3>1, <3>3, <3>5
    <3>6. QED
      BY <3>4, <3>5
  <2>a. \A j \in Job, m \in Minute : fires[j][m] > 0 => m <= minute
    BY InvParts DEF Tallied
  <2>b. ASSUME NEW j \in Job, NEW m \in Minute, fires[j][m] > 0, Once(j, m, starts)'
        PROVE  Once(j, m, starts)
    <3>1. CASE j \in AgentJob
      <4>1. again'[j] < m /\ m <= minute /\ m \in 0 .. LastMinute
        BY <2>a, <2>b, <3>1 DEF Once, Minute
      <4>2. again'[j] # minute
        BY <4>1, InvParts
      <4>3. QED
        BY <3>1, <4>1, <4>2 DEF Once
    <3>2. CASE j \notin AgentJob
      BY <2>b, <3>2 DEF Once
    <3>3. QED
      BY <3>1, <3>2
  <2>3. ASSUME NEW j \in Job, NEW m \in Minute, fires[j][m] > 0, Once(j, m, starts)'
        PROVE  lastFired'[j] >= m /\ fires[j][m] <= 1
    <3>1. lastFired[j] >= m /\ fires[j][m] <= 1
      BY <2>3, <2>b, InvParts DEF Tallied
    <3>2. QED
      BY <2>1, <2>2, <3>1 DEF Minute
  <2>4. \A j \in SystemJob \cup CronJob, m \in Minute : fires[j][m] > 0 => m <= ticked
    BY InvParts DEF Tallied
  <2>5. fires \in [Job -> [Minute -> Nat]]
    BY InvParts
  <2>6. ASSUME NEW j \in Job, NEW m \in Minute, fires[j][m] > 0
        PROVE  m <= minute'
    <3>1. minute \in Int /\ minute' \in Int /\ m \in Int
      BY InvParts DEF Minute
    <3>2. minute <= minute'
      OBVIOUS
    <3>3. m <= minute
      BY <2>a, <2>6
    <3>4. QED
      BY <3>1, <3>2, <3>3
  <2>7. QED
    BY <2>2, <2>3, <2>4, <2>5, <2>6 DEF Tallied
<1>3. Ahead' = Ahead
  BY DEF Ahead
<1>4. Ticking'
  <2>1. \A l \in Loop : loop'[l].now <= ticked'
    BY InvParts
  <2>2. /\ Distinct(loop'["tick"].todo)
        /\ Range(loop'["tick"].todo) \subseteq SystemJob \/ Range(loop'["tick"].todo) \subseteq AgentJob
        /\ loop'["tick"].todo # <<>> =>
             \A l \in {"agents", "system"} :
               loop'[l].now < loop'["tick"].now \/ loop'["tick"].now = LastMinute
    BY InvParts DEF Ticking, Loop
  <2>3. \A j \in Ahead' : fires'[j][loop'["tick"].now] > 0 => loop'["tick"].now = LastMinute
    BY <1>3, InvParts DEF Ticking
  <2>4. Range(loop'["system"].todo) \subseteq SystemJob
    BY InvParts DEF Ticking
  <2>5. QED
    BY <2>1, <2>2, <2>3, <2>4 DEF Ticking
<1>5. Resting'
  BY InvParts DEF Resting
<1>6. Replaced'
  <2>1. SUFFICES ASSUME NEW j \in DOMAIN copies'
                 PROVE  /\ loop'["agents"].now <= again'[j]
                        /\ loop'["tick"].todo # <<>> /\ Range(loop'["tick"].todo) \subseteq AgentJob
                             => loop'["tick"].now <= again'[j]
                        /\ j \in AtJob => \A m \in Minute :
                             fires'[j][m] > 0 /\ again'[j] < m => copies'[j].tick.fired >= m
    BY DEF Replaced
  <2>2. j \in AgentJob /\ j \in Job
    BY <2>1, Kinds
  <2>3. /\ loop["agents"].now \in 0 .. LastMinute /\ loop["agents"].now <= ticked
        /\ loop["tick"].now \in 0 .. LastMinute /\ loop["tick"].now <= ticked
        /\ loop'["agents"].now = loop["agents"].now
    BY InvParts DEF Loop
  <2>4. CASE again'[j] = minute
    <3>1. /\ loop["agents"].now <= minute /\ loop["tick"].now <= minute
      BY <2>3, InvParts
    <3>2. \A m \in Minute : fires[j][m] > 0 => ~(minute < m)
      BY <2>2, InvParts DEF Tallied, Minute
    <3>3. QED
      BY <2>3, <2>4, <3>1, <3>2
  <2>5. CASE again'[j] # minute
    <3>1. again'[j] = again[j] /\ j \in DOMAIN copies /\ copies'[j].tick = copies[j].tick
      BY <2>2, <2>5
    <3>2. QED
      BY <2>3, <3>1, InvParts DEF Replaced
  <2>6. QED
    BY <2>4, <2>5
<1>7. QED
  BY <1>1, <1>2, <1>4, <1>5, <1>6 DEF CronInv

LEMMA ChangeStep ==
  ASSUME CronInv, NEW j \in Job,
         (j \in AgentJob /\ (addAgentJob(j) \/ removeAgentJob(j))) \/ toggleJob(j) \/ triggerJob(j)
  PROVE  CronInv'
<1>1. /\ Clocked /\ lastFired \in [Job -> -1 .. LastMinute] /\ minute \in -1 .. LastMinute
      /\ loop \in [Loop -> [todo : Seq(Job), now : Minute]]
  BY InvParts
<1>2. /\ running /\ changes < MaxChanges /\ changes' = changes + 1
      /\ UNCHANGED <<minute, ticked, starts, running, fires>>
  BY DEF addAgentJob, removeAgentJob, toggleJob, triggerJob, Change
<1>3. changes' \in 0 .. MaxChanges /\ minute' \in Minute /\ minute <= minute'
  BY <1>1, <1>2, CronAssumption DEF Clocked, Minute, CronAssumption
<1>a. /\ enabled \in [Job -> BOOLEAN] /\ again \in [AgentJob -> -1 .. LastMinute]
      /\ dropped \subseteq Job /\ handler \in BOOLEAN /\ DOMAIN copies \subseteq AgentJob
      /\ \A i \in DOMAIN copies : copies[i] \in Replacement
      /\ present \in [Job -> {"new", "kept", "removed"}]
  BY InvParts DEF Replaced, Clocked
<1> DEFINE one == [todo |-> <<j>>]
<1>b. one.todo \in Seq(Job) /\ one.todo # <<>> /\ Head(one.todo) = j
  OBVIOUS
<1>4. present' \in [Job -> {"new", "kept", "removed"}] /\ enabled' \in [Job -> BOOLEAN]
  <2>1. CASE addAgentJob(j)
    <3>1. enabled' = enabled /\ (present' = present \/ present' = [present EXCEPT ![j] = "kept"])
      BY <2>1 DEF addAgentJob
    <3>2. QED
      BY <1>a, <3>1
  <2>2. CASE removeAgentJob(j)
    BY <1>1, <2>2 DEF removeAgentJob, Clocked
  <2>3. CASE toggleJob(j)
    BY <1>1, <2>3 DEF toggleJob, Clocked
  <2>4. CASE triggerJob(j)
    BY <1>1, <2>4 DEF triggerJob, Clocked
  <2>5. QED
    BY <2>1, <2>2, <2>3, <2>4
<1>5. /\ lastFired' \in [Job -> -1 .. LastMinute]
      /\ \A i \in Job : lastFired'[i] = lastFired[i] \/ lastFired'[i] = minute
  <2>1. CASE triggerJob(j)
    <3>1. lastFired' = Firing("agents", one, lastFired)
      BY <2>1 DEF triggerJob
    <3>2. minute \in Minute
      BY <1>1 DEF Clocked
    <3> HIDE DEF one
    <3>3. /\ Firing("agents", one, lastFired) \in [Job -> -1 .. LastMinute]
          /\ Firing("agents", one, lastFired)[j] = minute
          /\ \A i \in Job : i # j => Firing("agents", one, lastFired)[i] = lastFired[i]
      BY <1>1, <1>b, <3>2, FiringWrites
    <3>4. QED
      BY <3>1, <3>3
  <2>2. CASE UNCHANGED lastFired
    BY <1>1, <2>2
  <2>3. QED
    BY <2>1, <2>2 DEF addAgentJob, removeAgentJob, toggleJob
<1>6. /\ loop' \in [Loop -> [todo : Seq(Job), now : Minute]]
      /\ loop'["tick"] = loop["tick"] /\ loop'["system"] = loop["system"]
      /\ \A l \in Loop : loop'[l].now = loop[l].now
  <2>1. CASE addAgentJob(j) /\ loop' # loop
    <3> DEFINE old == loop["agents"].todo
               list == IF old = <<>> THEN old ELSE Append(old, j)
    <3>1. old \in Seq(Job) /\ loop["agents"] \in [todo : Seq(Job), now : Minute]
      BY <1>1 DEF Loop
    <3>2. loop' = [loop EXCEPT !["agents"].todo = list]
      BY <2>1, Zenon DEF addAgentJob
    <3> HIDE DEF old
    <3>3. list \in Seq(Job)
      BY <3>1
    <3> HIDE DEF list
    <3>4. QED
      BY <1>1, <3>1, <3>2, <3>3 DEF Loop
  <2>2. CASE UNCHANGED loop
    BY <1>1, <2>2
  <2>3. QED
    BY <2>1, <2>2 DEF removeAgentJob, toggleJob, triggerJob
<1>7. running' \in BOOLEAN /\ handler' \in BOOLEAN
  BY <1>1, <1>2, <1>a DEF Clocked, addAgentJob, removeAgentJob, toggleJob, triggerJob
<1>8. dropped' \subseteq Job
  <2>1. CASE triggerJob(j)
    <3>1. dropped' = Dropping(one, dropped)
      BY <2>1 DEF triggerJob
    <3> HIDE DEF one
    <3>2. QED
      BY <1>a, <1>b, <3>1, DroppingType
  <2>2. CASE UNCHANGED dropped
    BY <1>a, <2>2
  <2>3. QED
    BY <2>1, <2>2 DEF addAgentJob, removeAgentJob, toggleJob
<1>9. /\ again' \in [AgentJob -> -1 .. LastMinute]
      /\ \A i \in AgentJob : again'[i] = again[i] \/ again'[i] = minute
      /\ DOMAIN copies' \subseteq AgentJob
      /\ \A i \in DOMAIN copies' :
           /\ copies'[i] \in Replacement
           /\ \/ i \in DOMAIN copies /\ copies'[i].tick = copies[i].tick
              \/ again'[i] = minute
  <2>1. CASE UNCHANGED <<copies, again>>
    BY <1>a, <2>1
  <2>2. CASE j \in AgentJob /\ addAgentJob(j) /\ ~UNCHANGED <<copies, again>>
    <3>1. /\ again' = [again EXCEPT ![j] = minute]
          /\ \E on \in BOOLEAN :
               copies' = [i \in DOMAIN copies \cup {j} |->
                 IF i # j THEN copies[i]
                 ELSE [tick |-> Read(copies, "tick", j), agents |-> [fired |-> -1, on |-> on]]]
      BY <2>2 DEF addAgentJob
    <3>2. PICK on \in BOOLEAN :
               copies' = [i \in DOMAIN copies \cup {j} |->
                 IF i # j THEN copies[i]
                 ELSE [tick |-> Read(copies, "tick", j), agents |-> [fired |-> -1, on |-> on]]]
      BY <3>1
    <3> DEFINE new == [tick |-> Read(copies, "tick", j), agents |-> [fired |-> -1, on |-> on]]
    <3>3. new \in Replacement
      <4>1. Read(copies, "tick", j) \in Entry
        BY <1>1, <1>a, ReadType
      <4>2. -1 \in -1 .. LastMinute
        BY Kinds
      <4>3. QED
        BY <4>1, <4>2 DEF Replacement, Entry
    <3> HIDE DEF new
    <3>4. copies' = [i \in DOMAIN copies \cup {j} |-> IF i # j THEN copies[i] ELSE new]
      BY <3>2 DEF new
    <3>5. /\ again' \in [AgentJob -> -1 .. LastMinute] /\ again'[j] = minute
          /\ \A i \in AgentJob : again'[i] = again[i] \/ again'[i] = minute
      BY <1>1, <1>a, <2>2, <3>1
    <3>6. QED
      BY <1>a, <2>2, <3>3, <3>4, <3>5
  <2>3. CASE toggleJob(j)
    <3>1. /\ again' = again
          /\ copies' = [i \in DOMAIN copies |->
               IF i = j THEN [copies[i] EXCEPT !.agents.on = ~enabled[j]] ELSE copies[i]]
      BY <2>3 DEF toggleJob
    <3>2. ASSUME NEW i \in DOMAIN copies
          PROVE  copies'[i] \in Replacement /\ copies'[i].tick = copies[i].tick
      <4>1. CASE i # j
        BY <1>a, <3>1, <4>1
      <4>2. CASE i = j
        <5>1. copies'[i] = [copies[i] EXCEPT !.agents.on = ~enabled[j]]
          BY <3>1, <4>2
        <5>2. copies[i] \in Replacement /\ (~enabled[j]) \in BOOLEAN
          BY <1>a
        <5> DEFINE off == ~enabled[j]
        <5>3. off \in BOOLEAN /\ copies'[i] = [copies[i] EXCEPT !.agents.on = off]
          BY <5>1, <5>2
        <5> HIDE DEF off
        <5>4. QED
          BY <5>2, <5>3 DEF Replacement, Entry
      <4>3. QED
        BY <4>1, <4>2
    <3>3. DOMAIN copies' = DOMAIN copies
      BY <3>1
    <3>4. QED
      BY <1>a, <3>1, <3>2, <3>3
  <2>4. CASE triggerJob(j)
    <3>1. again' = again /\ copies' = CopyFired("agents", one, copies)
      BY <2>4 DEF triggerJob
    <3> HIDE DEF one
    <3>2. minute \in Minute
      BY <1>1 DEF Clocked
    <3>3. /\ DOMAIN copies' = DOMAIN copies
          /\ \A i \in DOMAIN copies : /\ copies'[i] \in Replacement
                                      /\ copies'[i].tick = copies[i].tick
      BY <1>a, <1>b, <3>1, <3>2, CopyWrites
    <3>4. QED
      BY <1>a, <3>1, <3>3
  <2>5. QED
    BY <2>1, <2>2, <2>3, <2>4 DEF removeAgentJob
<1> HIDE DEF one
<1>10. QED
  BY <1>1, <1>2, <1>3, <1>4, <1>5, <1>6, <1>7, <1>8, <1>9, QuietStep

LEMMA HandlerStep == ASSUME CronInv, setEventHandler PROVE CronInv'
<1>1. /\ running /\ handler' = TRUE
      /\ UNCHANGED <<minute, ticked, starts, running, present, enabled, lastFired, dropped,
                     copies, again, loop, fires, changes>>
  BY DEF setEventHandler, rowVars
<1>2. Clocked' /\ Tallied(lastFired, fires, starts, ticked)'
  BY <1>1, InvParts DEF Clocked, Tallied, Once
<1>3. Ticking' /\ Replaced' /\ Resting'
  BY <1>1, InvParts DEF Ticking, Ahead, Replaced, Resting
<1>4. QED
  BY <1>2, <1>3 DEF CronInv

LEMMA PassMinuteStep == ASSUME CronInv, PassMinute PROVE CronInv'
<1>1. /\ minute < LastMinute /\ minute' = minute + 1
      /\ UNCHANGED <<ticked, starts, running, present, enabled, lastFired, dropped, handler,
                     copies, again, loop, fires, changes>>
  BY DEF PassMinute, rowVars
<1>2. minute' \in Minute /\ minute <= minute'
  BY <1>1, InvParts, Kinds DEF Minute
<1>3. /\ Clocked /\ DOMAIN copies \subseteq AgentJob
      /\ \A j \in DOMAIN copies : copies[j] \in Replacement
  BY InvParts DEF Replaced
<1>4. QED
  BY <1>1, <1>2, <1>3, InvParts, QuietStep DEF Clocked

LEMMA CrashStep == ASSUME CronInv, crash PROVE CronInv'
<1>1. /\ running /\ running' = FALSE /\ loop' = [l \in Loop |-> Idle]
      /\ handler' = FALSE /\ copies' = NoCopies
      /\ UNCHANGED <<minute, ticked, starts, present, enabled, lastFired, dropped, again, fires,
                     changes>>
  BY DEF crash, rowVars
<1>2. Clocked' /\ Tallied(lastFired, fires, starts, ticked)'
  BY <1>1, InvParts DEF Clocked, Tallied, Once
<1>3. Resting'
  BY <1>1, InvParts DEF Resting
<1>4. \A l \in Loop : loop'[l].todo = <<>> /\ loop'[l].now = 0
  BY <1>1 DEF Idle
<1>5. loop' \in [Loop -> [todo : Seq(Job), now : Minute]]
  BY <1>1, Kinds DEF Idle, Minute
<1>6. Ahead' = {}
  BY <1>4 DEF Ahead, Loop
<1>7. Range(loop'["tick"].todo) = {} /\ Distinct(loop'["tick"].todo) /\ loop'["tick"].todo = <<>>
  BY <1>4 DEF Range, Distinct, Loop
<1>8. \A l \in Loop : loop'[l].now <= ticked'
  BY <1>1, <1>4, InvParts
<1>9. Ticking'
  <2>1. Range(loop'["system"].todo) \subseteq SystemJob
    BY <1>4 DEF Range, Loop
  <2>2. QED
    BY <1>5, <1>6, <1>7, <1>8, <2>1 DEF Ticking
<1>10. Replaced'
  BY <1>1 DEF Replaced, NoCopies
<1>11. QED
  BY <1>2, <1>3, <1>9, <1>10 DEF CronInv

LEMMA StartStep == ASSUME CronInv, start PROVE CronInv'
<1> DEFINE forgot == [j \in Job |-> IF j \in SystemJob THEN -1 ELSE lastFired[j]]
           missed == {j \in SystemJob \cup CronJob :
                        /\ present[j] = "kept" /\ (j \in SystemJob \/ enabled[j])
                        /\ findLastCronMatch(j, minute) > forgot[j]}
           agents == [todo |-> From(InOrder(Rows), missed), now |-> minute]
           system == [todo |-> From(InOrder(SystemJob), missed), now |-> minute]
           marked == Firing("agents", agents, forgot)
           counted == Counted("agents", agents, fires)
<1>1. /\ ~running /\ starts < MaxStarts
      /\ running' = TRUE /\ starts' = starts + 1 /\ ticked' = minute
      /\ enabled' = [j \in Job |-> j \in SystemJob \/ enabled[j]]
      /\ UNCHANGED <<minute, present, handler, copies, again, changes>>
  BY DEF start
<1>2. /\ loop' = [loop EXCEPT !["agents"] = agents, !["system"] = system]
      /\ lastFired' = Firing("system", system, marked)
      /\ dropped' = Dropping(system, Dropping(agents, dropped))
      /\ fires' = Counted("system", system, counted)
  BY DEF start
<1>3. ASSUME dropped' \subseteq Job PROVE Clocked'
  <2>1. starts' \in 0 .. MaxStarts
    BY <1>1, InvParts, CronAssumption DEF Clocked, CronAssumption
  <2>2. enabled' \in [Job -> BOOLEAN]
    BY <1>1, InvParts DEF Clocked
  <2>3. QED
    BY <1>1, <1>3, <2>1, <2>2, InvParts DEF Clocked
<1>4. /\ agents.now = minute /\ system.now = minute /\ minute \in Minute
      /\ agents.todo = From(InOrder(Rows), missed)
      /\ system.todo = From(InOrder(SystemJob), missed)
  BY InvParts DEF Minute
<1>5. /\ agents.todo \in Seq(Job) /\ system.todo \in Seq(Job)
      /\ agents.todo # <<>> => Head(agents.todo) \in missed \cap AgentJob
      /\ system.todo # <<>> => Head(system.todo) \in missed \cap SystemJob
      /\ Range(system.todo) \subseteq SystemJob
  <2>1. /\ InOrder(Rows) \in Seq(Job) /\ Range(InOrder(Rows)) \subseteq AgentJob
        /\ InOrder(SystemJob) \in Seq(Job) /\ Range(InOrder(SystemJob)) \subseteq SystemJob
    BY InOrderType, Kinds DEF Rows
  <2> HIDE DEF agents, system, missed
  <2>2. QED
    BY <1>4, <2>1, FromType
<1>6. \A j \in missed : /\ j \in SystemJob \cup CronJob
                        /\ findLastCronMatch(j, minute) > forgot[j]
  OBVIOUS
\* The marks that are left still cover the counts of the next run.
<1>7. Tallied(forgot, fires, starts', minute)
  <2>1. /\ lastFired \in [Job -> -1 .. LastMinute] /\ fires \in [Job -> [Minute -> Nat]]
        /\ minute \in 0 .. LastMinute /\ LastMinute \in Nat
    BY InvParts, Kinds
  <2>2. forgot \in [Job -> -1 .. LastMinute]
    BY <2>1
  <2>3. \A j \in Job : forgot[j] <= minute
    BY <2>1, InvParts DEF Tallied
  <2>4. ASSUME NEW j \in Job, NEW m \in Minute, fires[j][m] > 0, Once(j, m, starts')
        PROVE  forgot[j] >= m /\ fires[j][m] <= 1
    <3>1. starts' # 1
      <4>1. SUFFICES ASSUME starts' = 1 PROVE FALSE
        OBVIOUS
      <4>2. starts = 0
        BY <1>1, <4>1, InvParts DEF Clocked
      <4>3. fires[j][m] = 0
        BY <4>2, InvParts DEF Resting
      <4>4. QED
        BY <2>4, <4>3
    <3>2. j \in AgentJob /\ j \notin SystemJob
      BY <2>4, <3>1, Kinds DEF Once
    <3>3. Once(j, m, starts)
      BY <2>4, <3>2 DEF Once
    <3>4. QED
      BY <2>4, <3>2, <3>3, InvParts DEF Tallied
  <2>5. \A j \in SystemJob \cup CronJob, m \in Minute : fires[j][m] > 0 => m <= minute
    <3>1. SUFFICES ASSUME NEW j \in SystemJob \cup CronJob, NEW m \in Minute, fires[j][m] > 0
                   PROVE  m <= minute
      OBVIOUS
    <3>2. m <= ticked /\ ticked \in 0 .. LastMinute /\ ticked <= minute
      BY <3>1, InvParts DEF Tallied
    <3>3. QED
      BY <2>1, <3>2 DEF Minute
  <2>6. \A j \in Job, m \in Minute : fires[j][m] > 0 => m <= minute
    BY InvParts DEF Tallied
  <2> HIDE DEF forgot
  <2>7. QED
    BY <2>1, <2>2, <2>3, <2>4, <2>5, <2>6 DEF Tallied
<1>8. forgot \in [Job -> -1 .. LastMinute]
  BY <1>7 DEF Tallied
<1> HIDE DEF agents, system, missed, forgot
<1>9. minute <= minute
  BY InvParts
<1>10. Tallied(marked, counted, starts', minute)
  BY <1>4, <1>5, <1>6, <1>7, <1>9, CatchUpTallies
<1>11. system.todo # <<>> => marked[Head(system.todo)] = forgot[Head(system.todo)]
  <2>1. SUFFICES ASSUME system.todo # <<>>
                 PROVE  marked[Head(system.todo)] = forgot[Head(system.todo)]
    OBVIOUS
  <2>2. Head(system.todo) \in Job /\ Head(system.todo) \notin AgentJob
    BY <1>5, <2>1, Kinds
  <2>3. CASE agents.todo = <<>>
    BY <1>4, <1>5, <1>8, <2>3, FiringWrites
  <2>4. CASE agents.todo # <<>>
    <3>1. Head(system.todo) # Head(agents.todo)
      BY <1>5, <2>2, <2>4
    <3>2. QED
      BY <1>4, <1>5, <1>8, <2>2, <2>4, <3>1, FiringWrites
  <2>5. QED
    BY <2>3, <2>4
<1> HIDE DEF marked, counted
<1>12. Tallied(Firing("system", system, marked), Counted("system", system, counted), starts', minute)
  BY <1>4, <1>5, <1>6, <1>9, <1>10, <1>11, CatchUpTallies
<1>13. Tallied(lastFired, fires, starts, ticked)'
  BY <1>1, <1>2, <1>12 DEF Tallied, Once
<1>14. Resting'
  BY <1>1, InvParts DEF Resting, Clocked
<1>15. /\ loop["tick"].todo = <<>> /\ loop["tick"].now = 0
  BY <1>1, InvParts DEF Resting, Idle, Loop
<1>16. /\ loop' \in [Loop -> [todo : Seq(Job), now : Minute]]
       /\ loop'["tick"] = loop["tick"] /\ loop'["agents"] = agents /\ loop'["system"] = system
  <2>1. agents \in [todo : Seq(Job), now : Minute] /\ system \in [todo : Seq(Job), now : Minute]
    BY <1>4, <1>5 DEF agents, system
  <2>2. QED
    BY <1>2, <2>1, InvParts DEF Loop
<1>17. \A l \in Loop : loop'[l].now <= ticked'
  BY <1>1, <1>4, <1>15, <1>16, InvParts DEF Loop
<1>18. Ahead' = {}
  BY <1>15, <1>16 DEF Ahead
<1>19. /\ Range(loop'["tick"].todo) = {} /\ Distinct(loop'["tick"].todo)
       /\ loop'["tick"].todo = <<>>
  BY <1>15, <1>16 DEF Range, Distinct
<1>20. Ticking'
  BY <1>5, <1>16, <1>17, <1>18, <1>19 DEF Ticking
<1>21. dropped' \subseteq Job
  BY <1>2, <1>5, InvParts, DroppingType
<1>22. Replaced'
  <2>1. copies' = NoCopies
    BY <1>1, InvParts DEF Resting
  <2>2. QED
    BY <2>1 DEF Replaced, NoCopies
<1>23. QED
  BY <1>3, <1>13, <1>14, <1>20, <1>21, <1>22 DEF CronInv

LEMMA StutterStep == ASSUME CronInv, UNCHANGED cronVars PROVE CronInv'
  BY DEF CronInv, Clocked, Tallied, Once, Ticking, Ahead, Replaced, Resting, cronVars, rowVars

LEMMA InvInit == ASSUME CronInit PROVE CronInv
<1>1. /\ minute = 0 /\ ticked = 0 /\ starts = 0 /\ running = FALSE /\ changes = 0
      /\ enabled = [j \in Job |-> TRUE] /\ lastFired = [j \in Job |-> -1]
      /\ present = [j \in Job |-> IF j \in Added THEN "new" ELSE "kept"]
      /\ loop = [l \in Loop |-> Idle]
      /\ fires = [j \in Job |-> [m \in Minute |-> 0]]
      /\ handler = FALSE /\ copies = NoCopies /\ dropped = {}
      /\ again = [j \in AgentJob |-> -1]
  BY DEF CronInit
<1>2. 0 \in Minute /\ 0 \in 0 .. MaxStarts /\ 0 \in 0 .. MaxChanges /\ -1 \in -1 .. LastMinute
  <2>1. LastMinute \in Nat /\ MaxStarts \in Nat /\ MaxChanges \in Nat
    BY CronAssumption DEF CronAssumption
  <2>2. QED
    BY <2>1 DEF Minute
<1>3. Clocked
  <2>1. present \in [Job -> {"new", "kept", "removed"}] /\ enabled \in [Job -> BOOLEAN]
    BY <1>1
  <2>2. minute \in Minute /\ ticked \in Minute /\ ticked <= minute
    BY <1>1, <1>2
  <2>3. starts \in 0 .. MaxStarts /\ changes \in 0 .. MaxChanges /\ running \in BOOLEAN
    BY <1>1, <1>2
  <2>4. again \in [AgentJob -> -1 .. LastMinute] /\ handler \in BOOLEAN /\ dropped \subseteq Job
    BY <1>1, <1>2
  <2>5. QED
    BY <2>1, <2>2, <2>3, <2>4 DEF Clocked
<1>4. \A j \in Job, m \in Minute : fires[j][m] = 0 /\ lastFired[j] = -1
  BY <1>1
<1>5. Tallied(lastFired, fires, starts, ticked)
  <2>1. lastFired \in [Job -> -1 .. LastMinute] /\ fires \in [Job -> [Minute -> Nat]]
    BY <1>1, <1>2
  <2>2. \A j \in Job : lastFired[j] <= minute
    BY <1>1
  <2>3. \A j \in Job, m \in Minute : ~(fires[j][m] > 0)
    BY <1>4
  <2>4. \A j \in SystemJob \cup CronJob : j \in Job
    BY Kinds DEF AgentJob
  <2>5. QED
    BY <2>1, <2>2, <2>3, <2>4 DEF Tallied
<1>6. Resting
  BY <1>1, <1>4 DEF Resting
<1>7. \A l \in Loop : loop[l].todo = <<>> /\ loop[l].now = 0
  BY <1>1 DEF Idle
<1>8. loop \in [Loop -> [todo : Seq(Job), now : Minute]]
  BY <1>1, <1>2 DEF Idle
<1>9. Ahead = {}
  BY <1>7 DEF Ahead, Loop
<1>10. Range(loop["tick"].todo) = {} /\ Distinct(loop["tick"].todo) /\ loop["tick"].todo = <<>>
  BY <1>7 DEF Range, Distinct, Loop
<1>11. Ticking
  <2>1. Range(loop["system"].todo) \subseteq SystemJob
    BY <1>7 DEF Range, Loop
  <2>2. QED
    BY <1>1, <1>7, <1>8, <1>9, <1>10, <2>1 DEF Ticking
<1>12. Replaced
  BY <1>1 DEF Replaced, NoCopies
<1>13. QED
  BY <1>3, <1>5, <1>6, <1>11, <1>12 DEF CronInv

LEMMA InvNext == ASSUME CronInv, [CronNext]_cronVars PROVE CronInv'
<1>1. AgentJob \subseteq Job
  BY Kinds
<1>2. QED
  BY <1>1, TickStep, TickGoesOnStep, CatchUpStep, ChangeStep, StartStep, CrashStep,
     HandlerStep, PassMinuteStep, StutterStep
     DEF CronNext

LEMMA InvHolds == CronSpec => []CronInv
<1>1. CronInit => CronInv
  BY InvInit
<1>2. CronInv /\ [CronNext]_cronVars => CronInv'
  BY InvNext
<1>3. QED
  BY <1>1, <1>2, PTL DEF CronSpec

----------------------------------------------------------------------------
(* Theorems *)

\* The scheduler's state has its type in every state: a mark is never later
\* than the clock allows and a loop goes through known jobs only (cron.ts).
THEOREM CronTypeCorrect == CronSpec => []CronTypeOK
<1>1. CronInv => CronTypeOK
  BY InvParts DEF Clocked, Replaced, Replacement, CronTypeOK
<1>2. QED
  BY <1>1, InvHolds, PTL

\* A job is run once for a minute it is due in, and an at job once, whatever
\* crashes, catches up, is late or is triggered by hand in between, unless it was
\* added under its name in that minute or later (_tickInner, catchUpMissedJobs,
\* catchUpMissedSystemJobs, addAgentJob).
THEOREM FiredOnce == CronSpec => []FiresOnce
<1>1. CronInv => FiresOnce
  <2>1. SUFFICES ASSUME CronInv, NEW j \in Job, NEW m \in Minute, Once(j, m, starts)
                 PROVE  fires[j][m] <= 1
    BY DEF FiresOnce, Once
  <2>2. fires[j][m] \in Nat
    BY <2>1, InvParts
  <2>3. fires[j][m] > 0 => fires[j][m] <= 1
    BY <2>1, InvParts DEF Tallied
  <2>4. QED
    BY <2>2, <2>3
<1>2. QED
  BY <1>1, InvHolds, PTL
=============================================================================
