---------------------------- MODULE Memory_proofs ----------------------------
(* The tables of Memory.tla: whoever is superseded was replaced, or lost a   *)
(* conflict that is still on record to a member that the rules prefer, or    *)
(* lost it by hand.                                                          *)
EXTENDS Memory, FiniteSetTheorems, SequenceTheorems, WellFoundedInduction, TLAPS

Row == [type : MemoryType, auth : 0 .. 3, scope : STRING, conf : Confidence,
        status : {"active", "stale", "archived", "superseded", "contested"}, by : Nat]
Conflict == [a : Nat, b : Nat, how : {"open", "auto", "hand"}]
Snapshots == UNION {[D -> Confidence] : D \in SUBSET Nat}
Reflection == [at : {"none", "extract", "embed", "classify", "store"}, clusters : Int,
               left : Int, known : Snapshots, match : Nat, made : SUBSET Nat,
               as : {"none", "update", "contradiction", "novel"}]

\* A memory is replaced by another one of the table.
Good(table) ==
  /\ table \in Seq(Row)
  /\ \A i \in DOMAIN table : table[i].by <= Len(table) /\ table[i].by # i

Joined(table, open) ==
  /\ open \in Seq(Conflict)
  /\ \A k \in DOMAIN open : open[k].a \in DOMAIN table /\ open[k].b \in DOMAIN table

\* A conflict of i that was settled by hand, or in which the rules prefer the other
Beaten(table, open, i) ==
  \E k \in DOMAIN open :
    /\ i \in {open[k].a, open[k].b}
    /\ open[k].how = "hand" \/ \E j \in {open[k].a, open[k].b} : Beats(table, j, i)

Explained(table, open) ==
  \A i \in DOMAIN table :
    table[i].status = "superseded" => table[i].by # 0 \/ Beaten(table, open, i)

Sound(table, open) == Good(table) /\ Joined(table, open) /\ Explained(table, open)

\* What a run of reflections knows of a table of n memories: its matches are
\* in what it loaded, and what it stored last is younger than its match.
Going(r, n) ==
  /\ r.match <= n
  /\ \A i \in DOMAIN r.known \cup r.made : i \in 1 .. n
  /\ r.at = "classify" => r.match \in DOMAIN r.known
  /\ r.at = "store" /\ r.as # "novel" => r.match # 0
  /\ r.at = "store" => \E i \in r.made : r.match < i /\ \A j \in r.made : j <= i

Merge(m, n) == m.group \subseteq 1 .. n

MemoryInv ==
  /\ Sound(memories, conflicts)
  /\ clusters \in [Session -> Int]
  /\ reflection \in [Session -> Reflection]
  /\ \A s \in Session : Going(reflection[s], Len(memories))
  /\ merging \in [Consolidator -> [group : SUBSET Nat, conf : Confidence]]
  /\ \A k \in Consolidator : Merge(merging[k], Len(memories))
  /\ byHand \in Int

----------------------------------------------------------------------------
(* The tables *)

LEMMA LeastIndex ==
  ASSUME NEW T, T \subseteq Nat, T # {}
  PROVE  \E x \in T : \A y \in T : x <= y
<1>1. \E x \in T : \A y \in T : ~(<<y, x>> \in OpToRel(<, Nat))
  BY NatLessThanWellFounded, WFMin
<1>2. PICK x \in T : \A y \in T : ~(y < x)
  BY <1>1 DEF OpToRel
<1>3. \A y \in T : x <= y
  BY <1>2
<1>4. QED
  BY <1>3

\* A step that adds to the tables and keeps what decides a conflict keeps them
\* sound if it explains whom it supersedes.
LEMMA SoundKept ==
  ASSUME NEW t, NEW o, NEW t2, NEW o2, Sound(t, o), Good(t2), Joined(t2, o2),
         Len(t) <= Len(t2), Len(o) <= Len(o2),
         \A i \in DOMAIN t : /\ t2[i].auth = t[i].auth /\ t2[i].scope = t[i].scope
                             /\ t[i].by = 0 \/ t2[i].by # 0,
         \A k \in DOMAIN o : /\ o2[k].a = o[k].a /\ o2[k].b = o[k].b
                             /\ o[k].how # "hand" \/ o2[k].how = "hand",
         \A i \in DOMAIN t2 :
           \/ t2[i].status # "superseded" \/ t2[i].by # 0 \/ Beaten(t2, o2, i)
           \/ i \in DOMAIN t /\ t[i].status = "superseded"
  PROVE  Sound(t2, o2)
<1>1. /\ DOMAIN t = 1 .. Len(t) /\ DOMAIN t2 = 1 .. Len(t2) /\ Len(t) \in Nat /\ Len(t2) \in Nat
      /\ DOMAIN o = 1 .. Len(o) /\ DOMAIN o2 = 1 .. Len(o2) /\ Len(o) \in Nat /\ Len(o2) \in Nat
  BY LenProperties DEF Sound, Good, Joined
<1>2. DOMAIN o \subseteq DOMAIN o2
  BY <1>1
<1>3. \A k \in DOMAIN o : o[k].a \in DOMAIN t /\ o[k].b \in DOMAIN t
  BY DEF Sound, Joined
<1>4. ASSUME NEW i \in DOMAIN t, Beaten(t, o, i) PROVE Beaten(t2, o2, i)
  <2>1. PICK k \in DOMAIN o : /\ i \in {o[k].a, o[k].b}
                              /\ \/ o[k].how = "hand"
                                 \/ \E j \in {o[k].a, o[k].b} : Beats(t, j, i)
    BY <1>4 DEF Beaten
  <2>2. k \in DOMAIN o2 /\ o2[k].a = o[k].a /\ o2[k].b = o[k].b
    BY <1>2
  <2>3. CASE o[k].how = "hand"
    BY <2>1, <2>2, <2>3 DEF Beaten
  <2>4. CASE \E j \in {o[k].a, o[k].b} : Beats(t, j, i)
    <3>1. PICK j \in {o[k].a, o[k].b} : Beats(t, j, i)
      BY <2>4
    <3>2. Beats(t2, j, i)
      BY <1>3, <3>1 DEF Beats
    <3>3. QED
      BY <2>1, <2>2, <3>2 DEF Beaten
  <2>5. QED
    BY <2>1, <2>3, <2>4
<1>5. ASSUME NEW i \in DOMAIN t2, t2[i].status = "superseded"
      PROVE  t2[i].by # 0 \/ Beaten(t2, o2, i)
  <2>1. CASE i \in DOMAIN t /\ t[i].status = "superseded"
    BY <1>4, <2>1 DEF Sound, Explained
  <2>2. QED
    BY <1>5, <2>1
<1>6. QED
  BY <1>5 DEF Sound, Explained

\* A table that is written row by row
LEMMA TableWritten ==
  ASSUME NEW S, NEW t \in Seq(S), NEW t2 \in [DOMAIN t -> S]
  PROVE  t2 \in Seq(S) /\ Len(t2) = Len(t) /\ DOMAIN t2 = DOMAIN t
<1>1. Len(t) \in Nat /\ DOMAIN t = 1 .. Len(t)
  BY LenProperties
<1>2. t2 \in [1 .. Len(t) -> S]
  BY <1>1
<1>3. t2 \in Seq(S)
  BY <1>1, <1>2, SeqDef
<1>4. QED
  BY <1>1, <1>2, <1>3, LenProperties

LEMMA RowsWritten ==
  ASSUME NEW t, NEW o, NEW t2, NEW o2, Sound(t, o),
         t2 \in [DOMAIN t -> Row], o2 \in [DOMAIN o -> Conflict],
         \A i \in DOMAIN t :
           /\ t2[i].auth = t[i].auth /\ t2[i].scope = t[i].scope
           /\ t2[i].by = t[i].by \/ (t2[i].by \in 1 .. Len(t) /\ t2[i].by # i)
           /\ \/ t2[i].status # "superseded" \/ t2[i].by # 0 \/ Beaten(t2, o2, i)
              \/ t[i].status = "superseded",
         \A k \in DOMAIN o : /\ o2[k].a = o[k].a /\ o2[k].b = o[k].b
                             /\ o[k].how # "hand" \/ o2[k].how = "hand"
  PROVE  Sound(t2, o2) /\ Len(t2) = Len(t) /\ Len(o2) = Len(o)
<1>1. t \in Seq(Row) /\ o \in Seq(Conflict) /\ Len(t) \in Nat /\ Len(o) \in Nat
  BY LenProperties DEF Sound, Good, Joined
<1>2. t2 \in Seq(Row) /\ Len(t2) = Len(t) /\ DOMAIN t2 = DOMAIN t
  BY <1>1, TableWritten
<1>3. o2 \in Seq(Conflict) /\ Len(o2) = Len(o) /\ DOMAIN o2 = DOMAIN o
  BY <1>1, TableWritten
<1>4. Good(t2)
  <2>1. ASSUME NEW i \in DOMAIN t PROVE t2[i].by <= Len(t) /\ t2[i].by # i
    <3>1. t[i].by <= Len(t) /\ t[i].by # i
      BY DEF Sound, Good
    <3>2. t2[i].by = t[i].by \/ (t2[i].by \in 1 .. Len(t) /\ t2[i].by # i)
      OBVIOUS
    <3>3. QED
      BY <1>1, <3>1, <3>2
  <2>2. QED
    BY <1>2, <2>1 DEF Good
<1>5. Joined(t2, o2)
  BY <1>2, <1>3 DEF Sound, Joined
<1>6. \A i \in DOMAIN t : t[i].by = 0 \/ t2[i].by # 0
  <2>1. SUFFICES ASSUME NEW i \in DOMAIN t PROVE t[i].by = 0 \/ t2[i].by # 0
    OBVIOUS
  <2>2. t2[i].by = t[i].by \/ t2[i].by \in 1 .. Len(t)
    OBVIOUS
  <2>3. QED
    BY <1>1, <2>2
<1>7. Len(t) <= Len(t2) /\ Len(o) <= Len(o2)
  <2>1. \A m \in Nat : \A n : n = m => m <= n
    OBVIOUS
  <2>2. QED
    BY <1>1, <1>2, <1>3, <2>1, Zenon
<1>8. Sound(t2, o2)
  BY <1>2, <1>4, <1>5, <1>6, <1>7, SoundKept
<1>9. QED
  BY <1>2, <1>3, <1>8

LEMMA RowAdded ==
  ASSUME NEW t, NEW o, Sound(t, o), NEW row \in Row, row.by = 0, row.status = "active"
  PROVE  Sound(Append(t, row), o) /\ Len(Append(t, row)) = Len(t) + 1
<1> DEFINE t2 == Append(t, row)
<1>1. t \in Seq(Row) /\ Len(t) \in Nat /\ DOMAIN t = 1 .. Len(t)
  BY LenProperties DEF Sound, Good
<1>2. /\ t2 \in Seq(Row) /\ Len(t2) = Len(t) + 1 /\ DOMAIN t2 = 1 .. Len(t) + 1
      /\ \A i \in 1 .. Len(t) : t2[i] = t[i]
      /\ t2[Len(t) + 1] = row
  BY <1>1, AppendProperties, LenProperties
<1> HIDE DEF t2
<1>3. \A i \in DOMAIN t2 : i \in DOMAIN t \/ i = Len(t) + 1
  BY <1>1, <1>2
<1>4. Good(t2)
  <2>1. ASSUME NEW i \in DOMAIN t2 PROVE t2[i].by <= Len(t2) /\ t2[i].by # i
    <3>1. CASE i \in DOMAIN t
      <4>1. t[i].by <= Len(t) /\ t[i].by # i /\ t[i].by \in Nat
        <5>1. t[i] \in Row
          BY <1>1, <3>1, ElementOfSeq
        <5>2. QED
          BY <3>1, <5>1 DEF Sound, Good, Row
      <4>2. t2[i].by = t[i].by
        BY <1>1, <1>2, <3>1
      <4>3. QED
        BY <1>1, <1>2, <4>1, <4>2
    <3>2. CASE i = Len(t) + 1
      BY <1>1, <1>2, <3>2
    <3>3. QED
      BY <1>3, <3>1, <3>2
  <2>2. QED
    BY <1>2, <2>1 DEF Good
<1>5. Joined(t2, o)
  <2>1. DOMAIN t \subseteq DOMAIN t2
    BY <1>1, <1>2
  <2>2. QED
    BY <2>1 DEF Sound, Joined
<1>6. Len(t) <= Len(t2)
  BY <1>1, <1>2
<1>7. Len(o) <= Len(o)
  BY LenProperties DEF Sound, Joined
<1>8. \A i \in DOMAIN t : t2[i] = t[i]
  BY <1>1, <1>2
<1>9. \A i \in DOMAIN t2 : t2[i].status # "superseded" \/ (i \in DOMAIN t /\ t[i].status = "superseded")
  <2>1. t2[Len(t) + 1].status # "superseded"
    BY <1>2
  <2>2. QED
    BY <1>3, <1>8, <2>1
<1>10. Sound(t2, o)
  BY <1>4, <1>5, <1>6, <1>7, <1>8, <1>9, SoundKept
<1>11. QED
  BY <1>2, <1>10 DEF t2

LEMMA ConflictsAdded ==
  ASSUME NEW t, NEW o, NEW o2, Sound(t, o), o2 \in Seq(Conflict), Len(o) <= Len(o2),
         \A k \in DOMAIN o : o2[k] = o[k],
         \A k \in DOMAIN o2 : o2[k].a \in DOMAIN t /\ o2[k].b \in DOMAIN t
  PROVE  Sound(t, o2)
<1>1. Len(t) <= Len(t)
  BY LenProperties DEF Sound, Good
<1>2. Good(t) /\ Joined(t, o2)
  BY DEF Sound, Joined
<1>3. \A i \in DOMAIN t : t[i].status # "superseded" \/ t[i].status = "superseded"
  OBVIOUS
<1>4. QED
  BY <1>1, <1>2, <1>3, SoundKept

\* The conflicts that are found at once, in any order
LEMMA SeqOfSet ==
  ASSUME NEW S, NEW T, T \subseteq S, IsFiniteSet(T)
  PROVE  SetToSeq(T) \in Seq(S)
<1> DEFINE n == Cardinality(T)
<1>1. n \in Nat /\ ExistsBijection(1 .. n, T)
  BY FS_CardinalityType
<1>2. PICK f \in [1 .. n -> T] : \A i, j \in 1 .. n : f[i] = f[j] => i = j
  BY <1>1, Zenon DEF ExistsBijection, Bijection, Injection, IsInjective
<1>3. IsInjective(f)
  BY <1>2 DEF IsInjective
<1>4. SetToSeq(T) \in [1 .. n -> T]
  BY <1>3, Zenon DEF SetToSeq
<1> HIDE DEF n
<1>5. SetToSeq(T) \in [1 .. n -> S]
  BY <1>4
<1>6. QED
  BY <1>1, <1>5, SeqDef

LEMMA ComparedSound ==
  ASSUME NEW t, NEW o, Sound(t, o), NEW pairs,
         pairs \subseteq (DOMAIN t) \X (DOMAIN t)
  PROVE  Sound(t, Compared(o, pairs))
<1>1. t \in Seq(Row) /\ Len(t) \in Nat /\ DOMAIN t = 1 .. Len(t)
  BY LenProperties DEF Sound, Good
<1>2. o \in Seq(Conflict) /\ Len(o) \in Nat /\ DOMAIN o = 1 .. Len(o)
  BY LenProperties DEF Sound, Joined
<1>3. IsFiniteSet(pairs)
  <2>1. IsFiniteSet(DOMAIN t)
    <3>1. 1 \in Int /\ Len(t) \in Int
      BY <1>1
    <3>2. IsFiniteSet(1 .. Len(t))
      BY <3>1, FS_Interval, Zenon
    <3>3. QED
      BY <1>1, <3>2
  <2>2. IsFiniteSet((DOMAIN t) \X (DOMAIN t))
    <3>1. \A S, T : IsFiniteSet(S) /\ IsFiniteSet(T) => IsFiniteSet(S \X T)
      BY FS_Product
    <3>2. QED
      BY <2>1, <3>1, Zenon
  <2>3. QED
    BY <2>2, FS_Subset
<1> DEFINE Before(m, d) == \E k \in DOMAIN o :
             \/ o[k].a = m /\ o[k].b = d
             \/ o[k].a = d /\ o[k].b = m /\ o[k].how = "open"
           asked == {q \in pairs : ~Before(q[1], q[2])}
           Found(p) == [a |-> p[1], b |-> p[2], how |-> "open"]
           T == {Found(p) : p \in asked}
           New == {c \in Conflict : c.a \in DOMAIN t /\ c.b \in DOMAIN t}
<1>4. Compared(o, pairs) = o \o SetToSeq(T)
  BY DEF Compared
<1>5. IsFiniteSet(T)
  <2>1. IsFiniteSet(asked)
    BY <1>3, FS_Subset
  <2> HIDE DEF asked, Found
  <2> DEFINE f == [p \in asked |-> Found(p)]
  <2>2. f \in Surjection(asked, T)
    BY DEF Surjection
  <2>3. QED
    BY <2>1, <2>2, FS_Surjection, Zenon
<1>6. T \subseteq New
  <2> SUFFICES ASSUME NEW p \in asked PROVE Found(p) \in New
    OBVIOUS
  <2>1. p \in (DOMAIN t) \X (DOMAIN t)
    OBVIOUS
  <2>2. p[1] \in DOMAIN t /\ p[2] \in DOMAIN t /\ DOMAIN t \subseteq Nat
    <3>1. \A A, B : \A x \in A \X B : x[1] \in A /\ x[2] \in B
      OBVIOUS
    <3>2. p[1] \in DOMAIN t /\ p[2] \in DOMAIN t
      BY <2>1, <3>1, Zenon
    <3>3. DOMAIN t \subseteq Nat
      BY <1>1
    <3>4. QED
      BY <3>2, <3>3
  <2>3. QED
    BY <2>2 DEF Conflict
<1> HIDE DEF T
<1>7. SetToSeq(T) \in Seq(New)
  BY <1>5, <1>6, SeqOfSet
<1> DEFINE q == SetToSeq(T)
           o2 == o \o q
<1>8. Len(q) \in Nat /\ DOMAIN q = 1 .. Len(q) /\ \A i \in 1 .. Len(q) : q[i] \in New
  BY <1>7, LenProperties, ElementOfSeq
<1>9. q \in Seq(Conflict)
  <2>1. q \in [1 .. Len(q) -> Conflict]
    BY <1>7, <1>8, LenProperties
  <2>2. QED
    BY <1>8, <2>1, SeqDef
<1> HIDE DEF q
<1>10. /\ o2 \in Seq(Conflict) /\ Len(o2) = Len(o) + Len(q)
       /\ \A i \in 1 .. Len(o) + Len(q) : o2[i] = IF i <= Len(o) THEN o[i] ELSE q[i - Len(o)]
  BY <1>2, <1>9, ConcatProperties
<1>11. DOMAIN o2 = 1 .. Len(o) + Len(q)
  BY <1>10, LenProperties
<1> HIDE DEF o2, New
<1>12. \A k \in DOMAIN o : o2[k] = o[k]
  BY <1>2, <1>8, <1>10
<1>13. ASSUME NEW k \in DOMAIN o2 PROVE o2[k].a \in DOMAIN t /\ o2[k].b \in DOMAIN t
  <2>1. CASE k <= Len(o)
    <3>1. k \in DOMAIN o /\ o2[k] = o[k]
      BY <1>2, <1>8, <1>10, <1>11, <2>1
    <3>2. QED
      BY <3>1 DEF Sound, Joined
  <2>2. CASE ~(k <= Len(o))
    <3>1. k - Len(o) \in 1 .. Len(q)
      BY <1>2, <1>8, <1>11, <2>2
    <3>2. o2[k] = q[k - Len(o)]
      BY <1>10, <1>11, <2>2
    <3>3. o2[k] \in New
      BY <1>8, <3>1, <3>2
    <3>4. QED
      BY <3>3 DEF New
  <2>3. QED
    BY <2>1, <2>2
<1>14. Len(o) <= Len(o2)
  BY <1>2, <1>8, <1>10
<1>15. Sound(t, o2)
  BY <1>10, <1>12, <1>13, <1>14, ConflictsAdded
<1>16. QED
  BY <1>4, <1>15 DEF o2, q

\* A conflict that is settled supersedes only whom the rules do not prefer.
LEMMA SettledSound ==
  ASSUME NEW db, Sound(db.table, db.open), NEW k \in DOMAIN db.open, db.open[k].how = "open",
         NEW losers, NEW status \in {"contested", "superseded"},
         losers \subseteq {db.open[k].a, db.open[k].b},
         status = "contested" \/
           \A i \in losers : \E j \in {db.open[k].a, db.open[k].b} : Beats(db.table, j, i)
  PROVE  /\ Sound(Settled(db, k, losers, status).table, Settled(db, k, losers, status).open)
         /\ Len(Settled(db, k, losers, status).table) = Len(db.table)
         /\ Len(Settled(db, k, losers, status).open) = Len(db.open)
<1> DEFINE t == db.table
           o == db.open
           t2 == [i \in DOMAIN t |->
                    IF i \in losers THEN [t[i] EXCEPT !.status = status] ELSE t[i]]
           o2 == [o EXCEPT ![k].how = "auto"]
<1>1. Settled(db, k, losers, status).table = t2 /\ Settled(db, k, losers, status).open = o2
  BY DEF Settled
<1>2. /\ t \in Seq(Row) /\ o \in Seq(Conflict)
      /\ \A i \in DOMAIN t : t[i] \in Row
      /\ \A n \in DOMAIN o : o[n] \in Conflict /\ o[n].a \in DOMAIN t /\ o[n].b \in DOMAIN t
  BY LenProperties, ElementOfSeq DEF Sound, Good, Joined
<1>3. ASSUME NEW n \in DOMAIN o
      PROVE  /\ o2[n] \in Conflict /\ o2[n].a = o[n].a /\ o2[n].b = o[n].b
             /\ o[n].how # "hand" \/ o2[n].how = "hand"
  BY <1>2 DEF Conflict
<1>4. ASSUME NEW i \in DOMAIN t
      PROVE  /\ t2[i] \in Row /\ t2[i].auth = t[i].auth /\ t2[i].scope = t[i].scope
             /\ t2[i].by = t[i].by
             /\ i \notin losers => t2[i].status = t[i].status
             /\ i \in losers => t2[i].status = status
  BY <1>2 DEF Row
<1>5. t2 \in [DOMAIN t -> Row] /\ o2 \in [DOMAIN o -> Conflict]
  BY <1>2, <1>3, <1>4
<1>6. k \in DOMAIN o2
  OBVIOUS
<1> HIDE DEF t2, o2
<1>7. ASSUME NEW i \in DOMAIN t
      PROVE  \/ t2[i].status # "superseded" \/ t2[i].by # 0 \/ Beaten(t2, o2, i)
             \/ t[i].status = "superseded"
  <2>1. CASE i \in losers /\ status = "superseded"
    <3>1. PICK j \in {o[k].a, o[k].b} : Beats(t, j, i)
      BY <2>1
    <3>2. j \in DOMAIN t
      BY <1>2
    <3>3. Beats(t2, j, i)
      BY <1>4, <3>1, <3>2 DEF Beats
    <3>4. i \in {o[k].a, o[k].b}
      BY <2>1
    <3>5. o2[k].a = o[k].a /\ o2[k].b = o[k].b
      BY <1>3
    <3>6. Beaten(t2, o2, i)
      BY <1>6, <3>1, <3>3, <3>4, <3>5 DEF Beaten
    <3>7. QED
      BY <3>6
  <2>2. CASE i \in losers /\ status # "superseded"
    BY <1>4, <2>2
  <2>3. CASE i \notin losers
    BY <1>4, <2>3
  <2>4. QED
    BY <2>1, <2>2, <2>3
<1>8. Sound(t2, o2) /\ Len(t2) = Len(t) /\ Len(o2) = Len(o)
  <2>1. Sound(t, o)
    OBVIOUS
  <2> HIDE DEF t, o
  <2>2. \A i \in DOMAIN t :
           /\ t2[i].auth = t[i].auth /\ t2[i].scope = t[i].scope
           /\ t2[i].by = t[i].by \/ (t2[i].by \in 1 .. Len(t) /\ t2[i].by # i)
           /\ \/ t2[i].status # "superseded" \/ t2[i].by # 0 \/ Beaten(t2, o2, i)
              \/ t[i].status = "superseded"
    BY <1>4, <1>7
  <2>3. \A n \in DOMAIN o : /\ o2[n].a = o[n].a /\ o2[n].b = o[n].b
                            /\ o[n].how # "hand" \/ o2[n].how = "hand"
    BY <1>3
  <2>4. QED
    BY <1>5, <2>1, <2>2, <2>3, RowsWritten
<1>9. QED
  BY <1>1, <1>8

LEMMA JudgedSound ==
  ASSUME NEW db, Sound(db.table, db.open), NEW k \in DOMAIN db.open
  PROVE  /\ Sound(Judged(db, k).table, Judged(db, k).open)
         /\ Len(Judged(db, k).table) = Len(db.table)
         /\ Len(Judged(db, k).open) = Len(db.open)
<1> DEFINE c == db.open[k]
<1>1. \/ Judged(db, k) = db
      \/ /\ c.how = "open" /\ Beats(db.table, c.a, c.b)
         /\ Judged(db, k) = Settled(db, k, {c.b}, "superseded")
      \/ /\ c.how = "open" /\ Beats(db.table, c.b, c.a)
         /\ Judged(db, k) = Settled(db, k, {c.a}, "superseded")
      \/ /\ c.how = "open"
         /\ Judged(db, k) = Settled(db, k, {c.a, c.b}, "contested")
  BY DEF Judged
<1>2. CASE Judged(db, k) = db
  BY <1>2
<1>3. CASE /\ c.how = "open" /\ Beats(db.table, c.a, c.b)
           /\ Judged(db, k) = Settled(db, k, {c.b}, "superseded")
  <2>1. {c.b} \subseteq {db.open[k].a, db.open[k].b}
    OBVIOUS
  <2>2. \A i \in {c.b} : \E j \in {db.open[k].a, db.open[k].b} : Beats(db.table, j, i)
    BY <1>3
  <2>3. QED
    BY <1>3, <2>1, <2>2, SettledSound
<1>4. CASE /\ c.how = "open" /\ Beats(db.table, c.b, c.a)
           /\ Judged(db, k) = Settled(db, k, {c.a}, "superseded")
  <2>1. {c.a} \subseteq {db.open[k].a, db.open[k].b}
    OBVIOUS
  <2>2. \A i \in {c.a} : \E j \in {db.open[k].a, db.open[k].b} : Beats(db.table, j, i)
    BY <1>4
  <2>3. QED
    BY <1>4, <2>1, <2>2, SettledSound
<1>5. CASE c.how = "open" /\ Judged(db, k) = Settled(db, k, {c.a, c.b}, "contested")
  BY <1>5, SettledSound
<1>6. QED
  BY <1>1, <1>2, <1>3, <1>4, <1>5

\* autoResolveConflicts is what its definition says, by the least number of
\* conflicts it would not be defined for.
Judging(f, t, o) ==
  f = [k \in 0 .. Len(o) |->
         IF k = 0 THEN [table |-> t, open |-> o] ELSE Judged(f[k - 1], k)]

LEMMA JudgedExists ==
  ASSUME NEW t, NEW o, Len(o) \in Nat
  PROVE  \E f : Judging(f, t, o)
<1> DEFINE none == [table |-> t, open |-> o]
           Upto(f, m) == f = [k \in 0 .. m |-> IF k = 0 THEN none ELSE Judged(f[k - 1], k)]
           Bad == {m \in Nat : ~\E f : Upto(f, m)}
<1>1. Bad = {}
  <2> SUFFICES ASSUME Bad # {} PROVE FALSE
    OBVIOUS
  <2> HIDE DEF none
  <2>1. PICK m \in Bad : \A y \in Bad : m <= y
    BY LeastIndex
  <2>2. m \in Nat /\ ~\E f : Upto(f, m)
    BY <2>1
  <2>3. m # 0
    <3>1. Upto([k \in 0 .. 0 |-> none], 0)
      OBVIOUS
    <3>2. QED
      BY <2>2, <3>1
  <2>4. m - 1 \in Nat /\ m - 1 \notin Bad
    <3>1. m - 1 \in Nat /\ ~(m <= m - 1)
      BY <2>2, <2>3
    <3> HIDE DEF Bad
    <3>2. QED
      BY <2>1, <3>1
  <2>5. PICK g : Upto(g, m - 1)
    BY <2>4
  <2> DEFINE f == [k \in 0 .. m |-> IF k = m THEN Judged(g[m - 1], m) ELSE g[k]]
  <2>6. ASSUME NEW k \in 0 .. m
        PROVE  f[k] = IF k = 0 THEN none ELSE Judged(f[k - 1], k)
    <3>1. CASE k = m
      <4>1. m - 1 \in 0 .. m /\ m - 1 # m
        BY <2>2, <2>4
      <4>2. f[m - 1] = g[m - 1] /\ f[k] = Judged(g[m - 1], m)
        BY <3>1, <4>1
      <4>3. QED
        BY <2>3, <3>1, <4>2
    <3>2. CASE k # m
      <4>1. k \in 0 .. m - 1 /\ f[k] = g[k]
        BY <2>2, <3>2
      <4>2. g[k] = IF k = 0 THEN none ELSE Judged(g[k - 1], k)
        BY <2>5, <4>1
      <4>3. k # 0 => k - 1 \in 0 .. m /\ k - 1 # m
        BY <2>2
      <4>4. k # 0 => f[k - 1] = g[k - 1]
        BY <4>3
      <4>5. QED
        BY <4>1, <4>2, <4>4
    <3>3. QED
      BY <3>1, <3>2
  <2>7. Upto(f, m)
    <3> DEFINE h == [k \in 0 .. m |-> IF k = 0 THEN none ELSE Judged(f[k - 1], k)]
    <3>1. DOMAIN f = 0 .. m /\ DOMAIN h = 0 .. m
      OBVIOUS
    <3>2. \A k \in 0 .. m : f[k] = h[k]
      BY <2>6
    <3>3. f = [k \in 0 .. m |-> f[k]] /\ h = [k \in 0 .. m |-> h[k]]
      BY <3>1
    <3> HIDE DEF f
    <3>4. f = h
      BY <3>2, <3>3
    <3>5. QED
      BY <3>4
  <2>8. QED
    BY <2>2, <2>7
<1>2. \E f : Upto(f, Len(o))
  BY <1>1
<1>3. QED
  BY <1>2 DEF Judging

\* The resolution at the end of a run keeps the tables sound.
LEMMA ResolvedSound ==
  ASSUME NEW t, NEW o, Sound(t, o)
  PROVE  /\ Sound(autoResolveConflicts(t, o).table, autoResolveConflicts(t, o).open)
         /\ Len(autoResolveConflicts(t, o).table) = Len(t)
<1> DEFINE L == Len(o)
           none == [table |-> t, open |-> o]
           judged == CHOOSE f : Judging(f, t, o)
<1>1. L \in Nat /\ DOMAIN o = 1 .. L
  BY LenProperties DEF Sound, Joined
<1>2. autoResolveConflicts(t, o) = judged[L]
  BY DEF autoResolveConflicts, Judging
<1>3. Judging(judged, t, o)
  <2>1. \E f : Judging(f, t, o)
    BY <1>1, JudgedExists
  <2>2. QED
    BY <2>1, Zenon
<1> HIDE DEF judged
<1>4. judged[0] = none
  BY <1>1, <1>3 DEF Judging
<1>5. ASSUME NEW k \in 1 .. L PROVE judged[k] = Judged(judged[k - 1], k)
  <2> DEFINE new == Judged(judged[k - 1], k)
  <2>1. k \in 0 .. L /\ k # 0
    BY <1>1
  <2>2. judged[k] = IF k = 0 THEN none ELSE new
    BY <1>3, <2>1 DEF Judging
  <2> HIDE DEF new
  <2>3. judged[k] = new
    BY <2>1, <2>2
  <2>4. QED
    BY <2>3 DEF new
<1> DEFINE Kept(k) == /\ Sound(judged[k].table, judged[k].open)
                      /\ Len(judged[k].table) = Len(t) /\ Len(judged[k].open) = L
           Bad == {k \in 0 .. L : ~Kept(k)}
<1>6. Bad = {}
  <2> SUFFICES ASSUME Bad # {} PROVE FALSE
    OBVIOUS
  <2>1. Bad \subseteq Nat
    BY <1>1
  <2>2. PICK k \in Bad : \A y \in Bad : k <= y
    BY <2>1, LeastIndex
  <2>3. k \in 0 .. L /\ ~Kept(k)
    BY <2>2
  <2>4. k # 0
    <3>1. Kept(0)
      BY <1>4
    <3>2. QED
      BY <2>3, <3>1
  <2>5. k \in 1 .. L /\ k - 1 \in 0 .. L /\ k - 1 \notin Bad
    BY <1>1, <2>2, <2>3, <2>4
  <2>6. Kept(k - 1)
    BY <2>5
  <2> DEFINE db == judged[k - 1]
  <2>7. DOMAIN db.open = 1 .. L
    BY <2>6, LenProperties DEF Sound, Joined
  <2>8. judged[k] = Judged(db, k)
    BY <1>5, <2>5
  <2>9. Sound(db.table, db.open) /\ k \in DOMAIN db.open
    BY <2>5, <2>6, <2>7
  <2> HIDE DEF db
  <2>10. /\ Sound(Judged(db, k).table, Judged(db, k).open)
         /\ Len(Judged(db, k).table) = Len(db.table)
         /\ Len(Judged(db, k).open) = Len(db.open)
    BY <2>9, JudgedSound
  <2>11. Kept(k)
    BY <2>6, <2>8, <2>10 DEF db
  <2>12. QED
    BY <2>3, <2>11
<1>7. Kept(L)
  BY <1>1, <1>6
<1>8. QED
  BY <1>2, <1>7

----------------------------------------------------------------------------
(* What the runs of reflections and consolidations know *)

LEMMA GreatestOf ==
  ASSUME NEW S, S # {}, NEW N \in Nat, NEW f \in [S -> 0 .. N]
  PROVE  \E x \in S : \A y \in S : f[x] >= f[y]
<1> DEFINE T == {N - f[x] : x \in S}
<1>1. T \subseteq Nat /\ T # {}
  OBVIOUS
<1>2. PICK u \in T : \A v \in T : u <= v
  BY <1>1, LeastIndex
<1>3. PICK x \in S : u = N - f[x]
  BY <1>2
<1>4. ASSUME NEW y \in S PROVE f[x] >= f[y]
  <2>1. N - f[x] <= N - f[y]
    BY <1>2, <1>3
  <2>2. f[x] \in 0 .. N /\ f[y] \in 0 .. N
    OBVIOUS
  <2>3. QED
    BY <2>1, <2>2
<1>5. QED
  BY <1>4

LEMMA KnownFunction ==
  ASSUME NEW D \in SUBSET Nat, NEW f \in [D -> Confidence]
  PROVE  f \in Snapshots
BY DEF Snapshots

LEMMA KnownParts ==
  ASSUME NEW f \in Snapshots
  PROVE  f \in [DOMAIN f -> Confidence] /\ DOMAIN f \in SUBSET Nat
<1>1. PICK D \in SUBSET Nat : f \in [D -> Confidence]
  BY DEF Snapshots
<1>2. QED
  BY <1>1

\* Runs and groups stay right as the table grows.
LEMMA GoingOn ==
  ASSUME NEW r \in Reflection, NEW n \in Nat, NEW m \in Nat, n <= m, Going(r, n)
  PROVE  Going(r, m)
<1>1. r.match \in Nat
  BY DEF Reflection
<1>2. r.match <= m
  BY <1>1 DEF Going
<1>3. \A i \in DOMAIN r.known \cup r.made : i \in 1 .. m
  BY DEF Going
<1>4. QED
  BY <1>2, <1>3 DEF Going

LEMMA NoRunGoing ==
  ASSUME NEW n \in Nat
  PROVE  /\ NoRun \in Reflection /\ Going(NoRun, n)
         /\ \A c \in Int : /\ [NoRun EXCEPT !.at = "extract", !.clusters = c] \in Reflection
                            /\ Going([NoRun EXCEPT !.at = "extract", !.clusters = c], n)
<1> DEFINE none == <<>>
<1>1. none \in Snapshots
  <2>1. none \in [{} -> Confidence]
    OBVIOUS
  <2>2. QED
    BY <2>1, KnownFunction
<1>2. DOMAIN none = {}
  OBVIOUS
<1> HIDE DEF none
<1>3. NoRun = [at |-> "none", clusters |-> 0, left |-> 0, known |-> none,
               match |-> 0, made |-> {}, as |-> "none"]
  BY DEF NoRun, none
<1>4. NoRun \in Reflection /\ Going(NoRun, n)
  BY <1>1, <1>2, <1>3 DEF Reflection, Going
<1>5. DOMAIN NoRun.known = {} /\ NoRun.made = {} /\ NoRun.match = 0
  BY <1>2, <1>3
<1>6. ASSUME NEW c \in Int
      PROVE  /\ [NoRun EXCEPT !.at = "extract", !.clusters = c] \in Reflection
             /\ Going([NoRun EXCEPT !.at = "extract", !.clusters = c], n)
  <2> DEFINE r == [NoRun EXCEPT !.at = "extract", !.clusters = c]
  <2>1. /\ r \in Reflection /\ r.at = "extract" /\ r.known = NoRun.known
        /\ r.made = NoRun.made /\ r.match = NoRun.match
    BY <1>4 DEF Reflection
  <2> HIDE DEF r
  <2>2. Going(r, n)
    BY <1>5, <2>1 DEF Going
  <2>3. QED
    BY <2>1, <2>2 DEF r
<1>7. QED
  BY <1>4, <1>6

MemoryTables == Sound(memories, conflicts)
Runs == /\ reflection \in [Session -> Reflection]
        /\ \A s \in Session : Going(reflection[s], Len(memories))
Merges == /\ merging \in [Consolidator -> [group : SUBSET Nat, conf : Confidence]]
          /\ \A k \in Consolidator : Merge(merging[k], Len(memories))

LEMMA Parts ==
  ASSUME MemoryInv
  PROVE  /\ MemoryTables /\ Runs /\ Merges /\ clusters \in [Session -> Int] /\ byHand \in Int
         /\ memories \in Seq(Row) /\ Len(memories) \in Nat /\ DOMAIN memories = 1 .. Len(memories)
         /\ \A i \in 1 .. Len(memories) : memories[i] \in Row
         /\ conflicts \in Seq(Conflict) /\ \A k \in DOMAIN conflicts : conflicts[k] \in Conflict
<1>1. memories \in Seq(Row) /\ conflicts \in Seq(Conflict)
  BY DEF MemoryInv, Sound, Good, Joined
<1>2. Len(memories) \in Nat /\ DOMAIN memories = 1 .. Len(memories) /\ DOMAIN conflicts = 1 .. Len(conflicts)
  BY <1>1, LenProperties
<1>3. /\ \A i \in 1 .. Len(memories) : memories[i] \in Row
      /\ \A k \in DOMAIN conflicts : conflicts[k] \in Conflict
  BY <1>1, <1>2, ElementOfSeq
<1>4. QED
  BY <1>1, <1>2, <1>3 DEF MemoryInv, MemoryTables, Runs, Merges

\* The runs but one are where they were in a table that has grown.
LEMMA RunWritten ==
  ASSUME Runs, Len(memories) \in Nat, Len(memories') \in Nat, Len(memories) <= Len(memories'),
         NEW s \in Session, NEW r \in Reflection, Going(r, Len(memories')),
         reflection' = [reflection EXCEPT ![s] = r]
  PROVE  Runs'
<1>1. reflection' \in [Session -> Reflection]
  BY DEF Runs
<1>2. ASSUME NEW z \in Session PROVE Going(reflection'[z], Len(memories'))
  <2>1. CASE z = s
    BY <2>1 DEF Runs
  <2>2. CASE z # s
    <3>1. reflection'[z] = reflection[z] /\ reflection[z] \in Reflection
      BY <2>2 DEF Runs
    <3>2. Going(reflection[z], Len(memories))
      BY DEF Runs
    <3>3. QED
      BY <3>1, <3>2, GoingOn
  <2>3. QED
    BY <2>1, <2>2
<1>3. QED
  BY <1>1, <1>2 DEF Runs

LEMMA RunsKept ==
  ASSUME Runs, Len(memories) \in Nat, Len(memories') \in Nat, Len(memories) <= Len(memories'),
         reflection' = reflection
  PROVE  Runs'
<1>1. ASSUME NEW z \in Session PROVE Going(reflection'[z], Len(memories'))
  <2>1. Going(reflection[z], Len(memories)) /\ reflection[z] \in Reflection
    BY DEF Runs
  <2>2. QED
    BY <2>1, GoingOn
<1>2. QED
  BY <1>1 DEF Runs

LEMMA MergesKept ==
  ASSUME Merges, Len(memories) \in Nat, Len(memories') \in Nat, Len(memories) <= Len(memories'),
         merging' = merging
  PROVE  Merges'
<1>1. 1 .. Len(memories) \subseteq 1 .. Len(memories')
  OBVIOUS
<1>2. QED
  BY <1>1 DEF Merges, Merge

LEMMA Assembled ==
  ASSUME MemoryTables', Runs', Merges', (clusters \in [Session -> Int])', (byHand \in Int)'
  PROVE  MemoryInv'
BY DEF MemoryInv, MemoryTables, Runs, Merges

\* The next cluster, or the conflicts and the end of the run
LEMMA NextClusterKeeps ==
  ASSUME MemoryInv, NEW s \in Session, NEW table, NEW open, Sound(table, open),
         Len(memories) <= Len(table), NextCluster(s, table, open), merging' = merging
  PROVE  MemoryTables' /\ Runs' /\ Merges'
<1>1. Len(memories) \in Nat /\ Runs /\ Merges
  BY Parts
<1>2. Len(table) \in Nat
  BY LenProperties DEF Sound, Good
<1>3. reflection[s].clusters \in Int
  BY <1>1 DEF Runs, Reflection
<1>4. CASE reflection[s].clusters > 1
  <2> DEFINE c == reflection[s].clusters - 1
             r == [NoRun EXCEPT !.at = "extract", !.clusters = c]
  <2>1. memories' = table /\ conflicts' = open /\ reflection' = [reflection EXCEPT ![s] = r]
    BY <1>4 DEF NextCluster
  <2>2. c \in Int
    BY <1>3
  <2>3. r \in Reflection /\ Going(r, Len(memories'))
    <3> HIDE DEF c
    <3>1. QED
      BY <1>2, <2>1, <2>2, NoRunGoing
  <2> HIDE DEF r
  <2>4. Runs' /\ Merges'
    BY <1>1, <1>2, <2>1, <2>3, RunWritten, MergesKept
  <2>5. QED
    BY <2>1, <2>4 DEF MemoryTables
<1>5. CASE ~(reflection[s].clusters > 1)
  <2> DEFINE db == autoResolveConflicts(table, open)
  <2>1. memories' = db.table /\ conflicts' = db.open /\ reflection' = [reflection EXCEPT ![s] = NoRun]
    BY <1>5 DEF NextCluster
  <2>2. Sound(db.table, db.open) /\ Len(db.table) = Len(table)
    BY ResolvedSound
  <2> HIDE DEF db
  <2>3. NoRun \in Reflection /\ Going(NoRun, Len(memories'))
    BY <1>2, <2>1, <2>2, NoRunGoing
  <2>4. Runs' /\ Merges'
    BY <1>1, <1>2, <2>1, <2>2, <2>3, RunWritten, MergesKept
  <2>5. QED
    BY <2>1, <2>2, <2>4 DEF MemoryTables
<1>6. QED
  BY <1>4, <1>5

\* A candidate is done, in tables that have grown soundly.
LEMMA ReconciledKeeps ==
  ASSUME MemoryInv, NEW s \in Session, NEW table, NEW open, Sound(table, open),
         Len(memories) <= Len(table),
         NEW known \in Snapshots, \A i \in DOMAIN known : i \in 1 .. Len(table),
         Reconciled(s, table, open, known), merging' = merging
  PROVE  MemoryTables' /\ Runs' /\ Merges' /\ (clusters \in [Session -> Int])'
<1>1. /\ Len(memories) \in Nat /\ Runs /\ Merges /\ clusters \in [Session -> Int]
  BY Parts
<1>2. Len(table) \in Nat /\ DOMAIN table = 1 .. Len(table)
  BY LenProperties DEF Sound, Good
<1>3. reflection[s] \in Reflection /\ Going(reflection[s], Len(memories))
  BY <1>1 DEF Runs
<1>4. reflection[s].left \in Int /\ reflection[s].made \subseteq 1 .. Len(table)
  <2>1. reflection[s].made \subseteq 1 .. Len(memories)
    BY <1>3 DEF Going
  <2>2. reflection[s].left \in Int
    BY <1>3 DEF Reflection
  <2>3. QED
    BY <1>1, <1>2, <2>1, <2>2
<1>5. CASE reflection[s].left > 1
  <2> DEFINE left == reflection[s].left - 1
             r == [reflection[s] EXCEPT !.at = "embed", !.left = left, !.known = known,
                                        !.match = 0, !.as = "none"]
  <2>1. /\ memories' = table /\ conflicts' = open /\ reflection' = [reflection EXCEPT ![s] = r]
        /\ clusters' = clusters
    BY <1>5 DEF Reconciled
  <2>2. left \in Int
    BY <1>4
  <2> HIDE DEF left
  <2>3. r \in Reflection /\ r.at = "embed" /\ r.known = known /\ r.made = reflection[s].made /\ r.match = 0
    BY <1>3, <2>2 DEF Reflection
  <2> HIDE DEF r
  <2>4. Going(r, Len(memories'))
    <3>1. \A i \in DOMAIN r.known \cup r.made : i \in 1 .. Len(table)
      BY <1>4, <2>3
    <3>2. r.match <= Len(table)
      BY <1>2, <2>3
    <3>3. QED
      BY <2>1, <2>3, <3>1, <3>2 DEF Going
  <2>5. Runs' /\ Merges'
    BY <1>1, <1>2, <2>1, <2>3, <2>4, RunWritten, MergesKept
  <2>6. QED
    BY <1>1, <2>1, <2>5 DEF MemoryTables
<1>6. CASE ~(reflection[s].left > 1)
  <2> DEFINE sure == {i \in reflection[s].made : table[i].conf = 2}
             documents == {d \in DOMAIN table : table[d].type = "document" /\ table[d].status = "active"}
  <2>1. PICK pairs \in SUBSET (sure \X documents) :
          NextCluster(s, table, Compared(open, pairs))
    BY <1>6 DEF Reconciled
  <2>2. ReflectOn(s)
    BY <1>6 DEF Reconciled
  <2>3. pairs \subseteq (DOMAIN table) \X (DOMAIN table)
    <3>1. sure \subseteq DOMAIN table /\ documents \subseteq DOMAIN table
      BY <1>2, <1>4
    <3> HIDE DEF sure, documents
    <3>2. QED
      BY <2>1, <3>1
  <2>4. Sound(table, Compared(open, pairs))
    BY <2>3, ComparedSound
  <2>5. MemoryTables' /\ Runs' /\ Merges'
    BY <2>1, <2>4, NextClusterKeeps
  <2>6. (clusters \in [Session -> Int])'
    <3>1. clusters[s] - 1 \in Int
      BY <1>1
    <3>2. QED
      BY <1>1, <2>2, <3>1 DEF ReflectOn
  <2>7. QED
    BY <2>5, <2>6
<1>7. QED
  BY <1>5, <1>6

\* A confidence that is written to a memory as it was loaded
LEMMA ReinforceKeeps ==
  ASSUME MemoryInv, NEW s \in Session, NEW i \in DOMAIN reflection[s].known,
         Reinforce(s, i), merging' = merging
  PROVE  MemoryTables' /\ Runs' /\ Merges' /\ (clusters \in [Session -> Int])'
<1>1. /\ MemoryTables /\ Runs /\ memories \in Seq(Row) /\ Len(memories) \in Nat
      /\ DOMAIN memories = 1 .. Len(memories)
      /\ \A j \in 1 .. Len(memories) : memories[j] \in Row
      /\ conflicts \in Seq(Conflict) /\ \A k \in DOMAIN conflicts : conflicts[k] \in Conflict
  BY Parts
<1>2. reflection[s] \in Reflection /\ Going(reflection[s], Len(memories))
  BY <1>1 DEF Runs
<1>3. i \in 1 .. Len(memories) /\ \A j \in DOMAIN reflection[s].known : j \in 1 .. Len(memories)
  BY <1>2 DEF Going
<1>4. reflection[s].known \in Snapshots
  BY <1>2 DEF Reflection
<1>5. PICK conf \in {reflection[s].known[i], reflection[s].known[i] + 1} \cap Confidence :
        Reconciled(s, [memories EXCEPT ![i].conf = conf], conflicts,
                   [reflection[s].known EXCEPT ![i] = conf])
  BY DEF Reinforce
<1>6. conf \in Confidence
  OBVIOUS
<1> DEFINE table == [memories EXCEPT ![i].conf = conf]
           known == [reflection[s].known EXCEPT ![i] = conf]
<1>7. known \in Snapshots /\ DOMAIN known = DOMAIN reflection[s].known
  <2>1. /\ reflection[s].known \in [DOMAIN reflection[s].known -> Confidence]
        /\ DOMAIN reflection[s].known \in SUBSET Nat
    BY <1>4, KnownParts
  <2>2. known \in [DOMAIN reflection[s].known -> Confidence]
    BY <1>6, <2>1
  <2> HIDE DEF known
  <2>3. QED
    BY <2>1, <2>2, KnownFunction
<1>8. /\ table \in [DOMAIN memories -> Row]
      /\ \A j \in DOMAIN memories :
           /\ table[j].auth = memories[j].auth /\ table[j].scope = memories[j].scope
           /\ table[j].by = memories[j].by /\ table[j].status = memories[j].status
  <2>1. [memories[i] EXCEPT !.conf = conf] \in Row
    BY <1>1, <1>3, <1>6 DEF Row
  <2>2. table \in [DOMAIN memories -> Row]
    BY <1>1, <2>1
  <2>3. ASSUME NEW j \in DOMAIN memories
        PROVE  /\ table[j].auth = memories[j].auth /\ table[j].scope = memories[j].scope
               /\ table[j].by = memories[j].by /\ table[j].status = memories[j].status
    BY <1>1, <1>3 DEF Row
  <2>4. QED
    BY <2>2, <2>3
<1>9. conflicts \in [DOMAIN conflicts -> Conflict]
  BY <1>1, LenProperties
<1> HIDE DEF table, known
<1>10. Sound(table, conflicts) /\ Len(table) = Len(memories)
  <2>1. Sound(memories, conflicts)
    BY <1>1 DEF MemoryTables
  <2>2. \A j \in DOMAIN memories :
           /\ table[j].auth = memories[j].auth /\ table[j].scope = memories[j].scope
           /\ table[j].by = memories[j].by \/ (table[j].by \in 1 .. Len(memories) /\ table[j].by # j)
           /\ \/ table[j].status # "superseded" \/ table[j].by # 0 \/ Beaten(table, conflicts, j)
              \/ memories[j].status = "superseded"
    BY <1>8
  <2>3. QED
    BY <1>8, <1>9, <2>1, <2>2, RowsWritten
<1>11. Reconciled(s, table, conflicts, known)
  BY <1>5 DEF table, known
<1>12. Len(memories) <= Len(table) /\ \A j \in DOMAIN known : j \in 1 .. Len(table)
  BY <1>1, <1>3, <1>7, <1>10
<1>13. QED
  BY <1>7, <1>10, <1>11, <1>12, ReconciledKeeps

\* A new memory is the youngest.
LEMMA CreateKeeps ==
  ASSUME MemoryInv, NEW s \in Session,
         NEW as \in {"update", "contradiction", "novel"}, Create(s, as), merging' = merging,
         as # "novel" => reflection[s].match # 0
  PROVE  MemoryTables' /\ Runs' /\ Merges' /\ (clusters \in [Session -> Int])'
<1>1. /\ MemoryTables /\ Runs /\ Merges /\ clusters \in [Session -> Int] /\ Len(memories) \in Nat
  BY Parts
<1>2. PICK x \in Extractable :
        memories' = Append(memories, [type |-> "learning", auth |-> x.auth, scope |-> x.scope,
                                      conf |-> x.conf, status |-> "active", by |-> 0])
  BY DEF Create
<1> DEFINE row == [type |-> "learning", auth |-> x.auth, scope |-> x.scope,
                   conf |-> x.conf, status |-> "active", by |-> 0]
           n == Len(memories) + 1
           r == [reflection[s] EXCEPT !.at = "store", !.as = as, !.made = @ \cup {n}]
<1>3. row \in Row
  <2>1. x \in [auth : 0 .. 3, scope : STRING, conf : Confidence]
    BY MemoryAssumption
  <2>2. x.auth \in 0 .. 3 /\ x.scope \in STRING /\ x.conf \in Confidence
    BY <2>1
  <2>3. QED
    BY <2>2 DEF Row, MemoryType
<1>4. row.by = 0 /\ row.status = "active"
  OBVIOUS
<1> HIDE DEF row
<1>5. Sound(memories', conflicts') /\ Len(memories') = n
  <2>1. memories' = Append(memories, row) /\ conflicts' = conflicts
    BY <1>2 DEF row, Create
  <2>2. QED
    BY <1>1, <1>3, <1>4, <2>1, RowAdded DEF MemoryTables
<1>6. reflection[s] \in Reflection /\ Going(reflection[s], Len(memories))
  BY <1>1 DEF Runs
<1>7. n \in Nat /\ reflection[s].match \in Nat
  BY <1>1, <1>6 DEF Reflection
<1>8. /\ r \in Reflection /\ r.at = "store" /\ r.as = as /\ r.known = reflection[s].known
      /\ r.match = reflection[s].match /\ r.made = reflection[s].made \cup {n}
  <2> HIDE DEF n
  <2>1. QED
    BY <1>6, <1>7 DEF Reflection
<1>9. reflection' = [reflection EXCEPT ![s] = r]
  BY <1>1 DEF Create, Runs
<1> HIDE DEF r
<1>10. Going(r, n)
  <2>1. \A i \in DOMAIN r.known \cup reflection[s].made : i \in 1 .. Len(memories)
    BY <1>6, <1>8 DEF Going
  <2>2. r.match < n /\ r.match <= n
    BY <1>1, <1>6, <1>7, <1>8 DEF Going
  <2>3. \A i \in DOMAIN r.known \cup r.made : i \in 1 .. n
    BY <1>1, <1>8, <2>1
  <2>4. n \in r.made /\ \A j \in r.made : j <= n
    BY <1>1, <1>8, <2>1
  <2> HIDE DEF n
  <2>5. QED
    BY <1>8, <2>2, <2>3, <2>4 DEF Going
<1>11. Len(memories') \in Nat /\ Len(memories) <= Len(memories')
  BY <1>1, <1>5
<1>12. Runs' /\ Merges'
  BY <1>1, <1>5, <1>8, <1>9, <1>10, <1>11, RunWritten, MergesKept
<1>13. clusters' = clusters
  BY DEF Create
<1>14. QED
  BY <1>1, <1>5, <1>12, <1>13 DEF MemoryTables

----------------------------------------------------------------------------
(* The steps of a reflection *)

LEMMA ExtractStep ==
  ASSUME MemoryInv, NEW s \in Session, ExtractMemories(s)
  PROVE  MemoryInv'
<1>1. /\ MemoryTables /\ Runs /\ Merges /\ clusters \in [Session -> Int] /\ byHand \in Int
      /\ Len(memories) \in Nat /\ DOMAIN memories = 1 .. Len(memories)
      /\ \A i \in 1 .. Len(memories) : memories[i] \in Row
  BY Parts
<1>2. merging' = merging /\ byHand' = byHand
  BY DEF ExtractMemories
<1>3. Len(memories) <= Len(memories) /\ Sound(memories, conflicts)
  BY <1>1 DEF MemoryTables
<1>4. CASE NextCluster(s, memories, conflicts) /\ clusters' = clusters
  <2>1. MemoryTables' /\ Runs' /\ Merges'
    BY <1>2, <1>3, <1>4, NextClusterKeeps
  <2>2. QED
    BY <1>1, <1>2, <1>4, <2>1, Assembled
<1>5. CASE NextCluster(s, memories, conflicts) /\ ReflectOn(s)
  <2>1. MemoryTables' /\ Runs' /\ Merges'
    BY <1>2, <1>3, <1>5, NextClusterKeeps
  <2>2. clusters[s] - 1 \in Int
    BY <1>1
  <2>3. clusters' \in [Session -> Int]
    BY <1>1, <1>5, <2>2 DEF ReflectOn
  <2>4. QED
    BY <1>1, <1>2, <2>1, <2>3, Assembled
<1>6. ASSUME NEW n \in 1 .. MaxCandidates[s],
             reflection' = [reflection EXCEPT ![s].at = "embed", ![s].left = n,
               ![s].known = [i \in ActiveMemories |-> memories[i].conf]],
             UNCHANGED <<memories, conflicts, clusters>>
      PROVE  MemoryInv'
  <2> DEFINE known == [i \in ActiveMemories |-> memories[i].conf]
             r == [reflection[s] EXCEPT !.at = "embed", !.left = n, !.known = known]
  <2>1. n \in Int
    BY MemoryAssumption
  <2>2. known \in Snapshots /\ \A i \in DOMAIN known : i \in 1 .. Len(memories)
    <3>1. ActiveMemories \in SUBSET Nat /\ ActiveMemories \subseteq 1 .. Len(memories)
      BY <1>1 DEF ActiveMemories
    <3>2. known \in [ActiveMemories -> Confidence]
      BY <1>1, <3>1 DEF Row
    <3> HIDE DEF known
    <3>3. known \in Snapshots
      BY <3>1, <3>2, KnownFunction
    <3>4. QED
      BY <3>1, <3>2, <3>3
  <2>3. reflection[s] \in Reflection /\ Going(reflection[s], Len(memories))
    BY <1>1 DEF Runs
  <2>4. reflection' = [reflection EXCEPT ![s] = r]
    BY <1>1, <1>6 DEF Runs
  <2> HIDE DEF known
  <2>5. /\ r \in Reflection /\ r.at = "embed" /\ r.known = known
        /\ r.match = reflection[s].match /\ r.made = reflection[s].made
    BY <2>1, <2>2, <2>3 DEF Reflection
  <2> HIDE DEF r
  <2>6. Going(r, Len(memories))
    <3>1. \A i \in DOMAIN r.known \cup r.made : i \in 1 .. Len(memories)
      BY <2>2, <2>3, <2>5 DEF Going
    <3>2. QED
      BY <2>3, <2>5, <3>1 DEF Going
  <2>7. Len(memories') \in Nat /\ Len(memories) <= Len(memories') /\ Going(r, Len(memories'))
    BY <1>1, <1>6, <2>6
  <2>8. Runs'
    BY <1>1, <2>4, <2>5, <2>7, RunWritten
  <2>9. Merges'
    BY <1>1, <1>2, <2>7, MergesKept
  <2>10. MemoryTables' /\ (clusters \in [Session -> Int])'
    BY <1>1, <1>6 DEF MemoryTables
  <2>11. QED
    BY <1>1, <1>2, <2>8, <2>9, <2>10, Assembled
<1>7. QED
  BY <1>4, <1>5, <1>6 DEF ExtractMemories

LEMMA MatchedStep ==
  ASSUME MemoryInv, NEW s \in Session, Matched(s)
  PROVE  MemoryInv'
<1>1. /\ MemoryTables /\ Runs /\ Merges /\ clusters \in [Session -> Int] /\ byHand \in Int
      /\ Len(memories) \in Nat
  BY Parts
<1>2. merging' = merging /\ byHand' = byHand
  BY DEF Matched
<1>3. CASE Create(s, "novel")
  <2>1. MemoryTables' /\ Runs' /\ Merges' /\ (clusters \in [Session -> Int])'
    BY <1>2, <1>3, CreateKeeps
  <2>2. QED
    BY <1>1, <1>2, <2>1, Assembled
<1>4. ASSUME NEW i \in DOMAIN reflection[s].known, Reinforce(s, i)
      PROVE  MemoryInv'
  <2>1. MemoryTables' /\ Runs' /\ Merges' /\ (clusters \in [Session -> Int])'
    BY <1>2, <1>4, ReinforceKeeps
  <2>2. QED
    BY <1>1, <1>2, <2>1, Assembled
<1>5. ASSUME NEW i \in DOMAIN reflection[s].known,
             reflection' = [reflection EXCEPT ![s].at = "classify", ![s].match = i],
             UNCHANGED <<memories, conflicts, clusters>>
      PROVE  MemoryInv'
  <2> DEFINE r == [reflection[s] EXCEPT !.at = "classify", !.match = i]
  <2>1. reflection[s] \in Reflection /\ Going(reflection[s], Len(memories))
    BY <1>1 DEF Runs
  <2>2. i \in 1 .. Len(memories) /\ i \in Nat
    BY <1>1, <2>1 DEF Going
  <2>3. reflection' = [reflection EXCEPT ![s] = r]
    BY <1>1, <1>5 DEF Runs
  <2>4. /\ r \in Reflection /\ r.at = "classify" /\ r.known = reflection[s].known
        /\ r.match = i /\ r.made = reflection[s].made
    BY <2>1, <2>2 DEF Reflection
  <2> HIDE DEF r
  <2>5. Going(r, Len(memories))
    BY <1>1, <2>1, <2>2, <2>4 DEF Going
  <2>6. Len(memories') \in Nat /\ Len(memories) <= Len(memories') /\ Going(r, Len(memories'))
    BY <1>1, <1>5, <2>5
  <2>7. Runs'
    BY <1>1, <2>3, <2>4, <2>6, RunWritten
  <2>8. Merges'
    BY <1>1, <1>2, <2>6, MergesKept
  <2>9. MemoryTables' /\ (clusters \in [Session -> Int])'
    BY <1>1, <1>5 DEF MemoryTables
  <2>10. QED
    BY <1>1, <1>2, <2>7, <2>8, <2>9, Assembled
<1>6. QED
  BY <1>3, <1>4, <1>5 DEF Matched

LEMMA ClassifiedStep ==
  ASSUME MemoryInv, NEW s \in Session, Classified(s)
  PROVE  MemoryInv'
<1>1. Runs /\ byHand \in Int
  BY Parts
<1>2. merging' = merging /\ byHand' = byHand
  BY DEF Classified
<1>3. reflection[s].match \in DOMAIN reflection[s].known
  BY <1>1 DEF Runs, Going, Classified
<1>4. reflection[s].match # 0
  <2>1. reflection[s].match \in 1 .. Len(memories)
    BY <1>1, <1>3 DEF Runs, Going
  <2>2. QED
    BY <2>1
<1>5. MemoryTables' /\ Runs' /\ Merges' /\ (clusters \in [Session -> Int])'
  <2>1. CASE Reinforce(s, reflection[s].match)
    BY <1>2, <1>3, <2>1, ReinforceKeeps
  <2>2. CASE \E as \in {"update", "contradiction", "novel"} : Create(s, as)
    BY <1>2, <1>4, <2>2, CreateKeeps
  <2>3. QED
    BY <2>1, <2>2 DEF Classified
<1>6. QED
  BY <1>1, <1>2, <1>5, Assembled

LEMMA StoredStep ==
  ASSUME MemoryInv, NEW s \in Session, StoredMemory(s)
  PROVE  MemoryInv'
<1>1. /\ MemoryTables /\ Runs /\ Merges /\ clusters \in [Session -> Int] /\ byHand \in Int
      /\ Len(memories) \in Nat /\ DOMAIN memories = 1 .. Len(memories)
      /\ memories \in Seq(Row) /\ \A i \in 1 .. Len(memories) : memories[i] \in Row
      /\ conflicts \in Seq(Conflict) /\ \A k \in DOMAIN conflicts : conflicts[k] \in Conflict
  BY Parts
<1>2. merging' = merging /\ byHand' = byHand
  BY DEF StoredMemory
<1> DEFINE r == reflection[s]
           new == CHOOSE i \in r.made : \A j \in r.made : j <= i
           known == [i \in DOMAIN r.known \cup {new} |->
                       IF i \in DOMAIN r.known THEN r.known[i] ELSE memories[new].conf]
<1>3. r \in Reflection /\ Going(r, Len(memories)) /\ r.at = "store"
  BY <1>1 DEF Runs, StoredMemory
<1>4. PICK i \in r.made : r.match < i /\ \A j \in r.made : j <= i
  BY <1>3 DEF Going
<1>5. new \in r.made /\ \A j \in r.made : j <= new
  BY <1>4
<1> HIDE DEF new
<1>6. new \in 1 .. Len(memories) /\ i \in 1 .. Len(memories) /\ r.match \in Nat
  BY <1>3, <1>5 DEF Going, Reflection
<1>7. r.match < new
  BY <1>4, <1>5, <1>6
<1>8. known \in Snapshots /\ \A j \in DOMAIN known : j \in 1 .. Len(memories)
  <2> DEFINE D == DOMAIN r.known \cup {new}
  <2>1. r.known \in [DOMAIN r.known -> Confidence]
    BY <1>3, KnownParts DEF Reflection
  <2>2. memories[new].conf \in Confidence
    BY <1>1, <1>6 DEF Row
  <2>3. D \subseteq 1 .. Len(memories) /\ D \in SUBSET Nat
    BY <1>3, <1>6 DEF Going
  <2>4. known \in [D -> Confidence]
    BY <2>1, <2>2
  <2> HIDE DEF known
  <2>5. known \in Snapshots
    BY <2>3, <2>4, KnownFunction
  <2>6. QED
    BY <2>3, <2>4, <2>5
<1> HIDE DEF known
<1>9. Sound(memories, conflicts)
  BY <1>1 DEF MemoryTables
<1>10. MemoryTables' /\ Runs' /\ Merges' /\ (clusters \in [Session -> Int])'
  <2>1. CASE r.as = "update" /\
             Reconciled(s, [memories EXCEPT ![r.match].status = "superseded", ![r.match].by = new],
                        conflicts, known)
    <3> DEFINE m == r.match
               table == [memories EXCEPT ![m].status = "superseded", ![m].by = new]
    <3>1. m # 0
      BY <1>3, <2>1 DEF Going
    <3>2. m \in 1 .. Len(memories) /\ new # m /\ new \in Nat
      BY <1>1, <1>3, <1>6, <1>7, <3>1 DEF Going
    <3> HIDE DEF m
    <3>3. table \in [DOMAIN memories -> Row]
      <4>1. [memories[m] EXCEPT !.status = "superseded", !.by = new] \in Row
        BY <1>1, <3>2 DEF Row
      <4>2. table = [memories EXCEPT ![m] = [memories[m] EXCEPT !.status = "superseded", !.by = new]]
        BY <1>1, <3>2 DEF Row
      <4>3. QED
        BY <1>1, <4>1, <4>2
    <3>4. ASSUME NEW j \in DOMAIN memories
          PROVE  /\ table[j].auth = memories[j].auth /\ table[j].scope = memories[j].scope
                 /\ \/ table[j].by = memories[j].by /\ table[j].status = memories[j].status
                    \/ j = m /\ table[j].by = new
      BY <1>1, <3>2 DEF Row
    <3> HIDE DEF table
    <3>5. \A j \in DOMAIN memories :
             /\ table[j].auth = memories[j].auth /\ table[j].scope = memories[j].scope
             /\ table[j].by = memories[j].by \/ (table[j].by \in 1 .. Len(memories) /\ table[j].by # j)
             /\ \/ table[j].status # "superseded" \/ table[j].by # 0 \/ Beaten(table, conflicts, j)
                \/ memories[j].status = "superseded"
      <4>1. new # 0
        BY <1>6
      <4>2. QED
        BY <1>6, <3>2, <3>4, <4>1
    <3>6. conflicts \in [DOMAIN conflicts -> Conflict]
      BY <1>1, LenProperties
    <3>7. Sound(table, conflicts) /\ Len(table) = Len(memories)
      BY <1>9, <3>3, <3>5, <3>6, RowsWritten
    <3>8. Reconciled(s, table, conflicts, known)
      BY <2>1 DEF table, m
    <3>9. Len(memories) <= Len(table) /\ \A j \in DOMAIN known : j \in 1 .. Len(table)
      BY <1>1, <1>8, <3>7
    <3>10. QED
      BY <1>2, <1>8, <3>7, <3>8, <3>9, ReconciledKeeps
  <2>2. CASE r.as = "contradiction" /\
             Reconciled(s, memories, Append(conflicts, [a |-> r.match, b |-> new, how |-> "open"]),
                        known)
    <3> DEFINE c == [a |-> r.match, b |-> new, how |-> "open"]
               open == Append(conflicts, c)
    <3>1. r.match # 0
      BY <1>3, <2>2 DEF Going
    <3>2. r.match \in 1 .. Len(memories)
      BY <1>1, <1>3, <1>6, <3>1 DEF Going
    <3>3. c \in Conflict /\ c.a \in DOMAIN memories /\ c.b \in DOMAIN memories
      BY <1>1, <1>6, <3>2 DEF Conflict
    <3> HIDE DEF c
    <3>4. /\ Len(conflicts) \in Nat /\ DOMAIN conflicts = 1 .. Len(conflicts)
          /\ open \in Seq(Conflict) /\ Len(open) = Len(conflicts) + 1
          /\ DOMAIN open = 1 .. Len(conflicts) + 1
          /\ \A k \in 1 .. Len(conflicts) : open[k] = conflicts[k]
          /\ open[Len(conflicts) + 1] = c
      BY <1>1, <3>3, AppendProperties, LenProperties
    <3> HIDE DEF open
    <3>5. \A k \in DOMAIN conflicts : conflicts[k].a \in DOMAIN memories /\ conflicts[k].b \in DOMAIN memories
      BY <1>9 DEF Sound, Joined
    <3>6. ASSUME NEW k \in DOMAIN open
          PROVE  open[k].a \in DOMAIN memories /\ open[k].b \in DOMAIN memories
      <4>1. k \in DOMAIN conflicts \/ k = Len(conflicts) + 1
        BY <3>4
      <4>2. QED
        BY <3>3, <3>4, <3>5, <4>1
    <3>7. Len(conflicts) <= Len(open) /\ \A k \in DOMAIN conflicts : open[k] = conflicts[k]
      BY <3>4
    <3>8. Sound(memories, open)
      BY <1>9, <3>4, <3>6, <3>7, ConflictsAdded
    <3>9. Reconciled(s, memories, open, known)
      BY <2>2 DEF open, c
    <3>10. Len(memories) <= Len(memories)
      BY <1>1
    <3>11. QED
      BY <1>2, <1>8, <3>8, <3>9, <3>10, ReconciledKeeps
  <2>3. CASE Reconciled(s, memories, conflicts, known)
    <3>1. Len(memories) <= Len(memories)
      BY <1>1
    <3>2. QED
      BY <1>2, <1>8, <1>9, <2>3, <3>1, ReconciledKeeps
  <2>4. QED
    BY <2>1, <2>2, <2>3 DEF StoredMemory, known, new
<1>11. QED
  BY <1>1, <1>2, <1>10, Assembled

LEMMA RunReflectionStep ==
  ASSUME MemoryInv, NEW s \in Session, runReflection(s)
  PROVE  MemoryInv'
<1>1. /\ MemoryTables /\ Runs /\ Merges /\ clusters \in [Session -> Int] /\ byHand \in Int
      /\ Len(memories) \in Nat
  BY Parts
<1>2. UNCHANGED <<memories, conflicts, clusters, merging, byHand>>
  BY DEF runReflection
<1>3. Len(memories') \in Nat /\ Len(memories) <= Len(memories')
  BY <1>1, <1>2
<1>4. Runs'
  <2>1. CASE reflection' = reflection
    BY <1>1, <1>3, <2>1, RunsKept
  <2>2. CASE reflection' = [reflection EXCEPT ![s] =
               [NoRun EXCEPT !.at = "extract", !.clusters = clusters[s]]]
    <3>1. clusters[s] \in Int
      BY <1>1
    <3> DEFINE r == [NoRun EXCEPT !.at = "extract", !.clusters = clusters[s]]
    <3>2. r \in Reflection /\ Going(r, Len(memories'))
      BY <1>3, <3>1, NoRunGoing
    <3>3. reflection' = [reflection EXCEPT ![s] = r]
      BY <2>2
    <3> HIDE DEF r
    <3>4. QED
      BY <1>1, <1>3, <3>2, <3>3, RunWritten
  <2>3. QED
    BY <2>1, <2>2 DEF runReflection
<1>5. Merges'
  BY <1>1, <1>2, <1>3, MergesKept
<1>6. MemoryTables'
  BY <1>1, <1>2 DEF MemoryTables
<1>7. QED
  BY <1>1, <1>2, <1>4, <1>5, <1>6, Assembled

----------------------------------------------------------------------------
(* Consolidation, garbage collection and resolution by hand *)

LEMMA GroupStep ==
  ASSUME MemoryInv, NEW k \in Consolidator, Group(k)
  PROVE  MemoryInv'
<1>1. /\ MemoryTables /\ Runs /\ Merges /\ clusters \in [Session -> Int] /\ byHand \in Int
      /\ Len(memories) \in Nat /\ DOMAIN memories = 1 .. Len(memories)
      /\ \A i \in 1 .. Len(memories) : memories[i] \in Row
  BY Parts
<1>2. UNCHANGED <<memories, conflicts, clusters, reflection, byHand>>
  BY DEF Group
<1>3. Len(memories') \in Nat /\ Len(memories) <= Len(memories')
  BY <1>1, <1>2
<1>4. PICK group \in SUBSET ActiveMemories :
        /\ \E i, j \in group : i # j
        /\ merging' = [merging EXCEPT ![k] =
             [group |-> group,
              conf |-> CHOOSE c \in Confidence : /\ \E i \in group : memories[i].conf = c
                                                /\ \A i \in group : memories[i].conf <= c]]
  BY DEF Group
<1> DEFINE Most(c) == /\ \E i \in group : memories[i].conf = c
                      /\ \A i \in group : memories[i].conf <= c
           conf == CHOOSE c \in Confidence : Most(c)
<1>5. group \subseteq 1 .. Len(memories) /\ group # {}
  BY <1>1, <1>4 DEF ActiveMemories
<1>6. conf \in Confidence
  <2> DEFINE f == [i \in group |-> memories[i].conf]
  <2>1. f \in [group -> 0 .. 2]
    BY <1>1, <1>5 DEF Row, Confidence
  <2>2. PICK i \in group : \A j \in group : f[i] >= f[j]
    BY <1>5, <2>1, GreatestOf
  <2>3. \A j \in group : f[j] = memories[j].conf /\ f[j] \in 0 .. 2
    BY <2>1
  <2> HIDE DEF f
  <2>4. Most(memories[i].conf) /\ memories[i].conf \in Confidence
    BY <2>2, <2>3 DEF Confidence
  <2> HIDE DEF Most
  <2>5. QED
    BY <2>4
<1> HIDE DEF conf
<1>7. merging' = [merging EXCEPT ![k] = [group |-> group, conf |-> conf]]
  BY <1>4 DEF conf
<1>8. group \in SUBSET Nat
  BY <1>1, <1>5
<1>9. Merges'
  <2>1. [group |-> group, conf |-> conf] \in [group : SUBSET Nat, conf : Confidence]
    BY <1>6, <1>8
  <2>2. merging' \in [Consolidator -> [group : SUBSET Nat, conf : Confidence]]
    BY <1>1, <1>7, <2>1 DEF Merges
  <2>3. ASSUME NEW z \in Consolidator PROVE merging'[z].group \subseteq 1 .. Len(memories)
    BY <1>1, <1>5, <1>7 DEF Merges, Merge
  <2>4. QED
    BY <1>2, <2>2, <2>3 DEF Merges, Merge
<1>10. Runs'
  BY <1>1, <1>2, <1>3, RunsKept
<1>11. MemoryTables'
  BY <1>1, <1>2 DEF MemoryTables
<1>12. QED
  BY <1>1, <1>2, <1>9, <1>10, <1>11, Assembled

\* The type of a merged memory is that of one of the group.
LEMMA CommonTypeKnown ==
  ASSUME MemoryInv, NEW group, group \subseteq 1 .. Len(memories), group # {}
  PROVE  CommonType(group) \in MemoryType
<1>1. /\ Len(memories) \in Nat /\ \A i \in 1 .. Len(memories) : memories[i] \in Row
  BY Parts
<1> DEFINE Alike(i) == {j \in group : memories[j].type = memories[i].type}
           OfType(i) == Cardinality(Alike(i))
           N == Cardinality(group)
           most == {i \in group : \A j \in group : OfType(i) >= OfType(j)}
           first == CHOOSE i \in most : \A j \in most : i <= j
<1>2. IsFiniteSet(group)
  <2>1. 1 \in Int /\ Len(memories) \in Int
    BY <1>1
  <2>2. IsFiniteSet(1 .. Len(memories))
    BY <2>1, FS_Interval, Zenon
  <2>3. QED
    BY <2>2, FS_Subset
<1>3. N \in Nat
  BY <1>2, FS_CardinalityType
<1>4. ASSUME NEW i \in group PROVE OfType(i) \in 0 .. N
  <2>1. Alike(i) \subseteq group
    OBVIOUS
  <2> HIDE DEF Alike
  <2>2. Cardinality(Alike(i)) <= Cardinality(group) /\ IsFiniteSet(Alike(i))
    BY <1>2, <2>1, FS_Subset
  <2>3. Cardinality(Alike(i)) \in Nat
    BY <2>2, FS_CardinalityType
  <2>4. QED
    BY <1>3, <2>2, <2>3
<1>5. most # {}
  <2> DEFINE f == [i \in group |-> OfType(i)]
  <2> HIDE DEF OfType, N
  <2>1. f \in [group -> 0 .. N]
    BY <1>4
  <2>2. PICK i \in group : \A j \in group : f[i] >= f[j]
    BY <1>3, <2>1, GreatestOf
  <2>3. QED
    BY <2>2
<1> HIDE DEF OfType
<1>6. most \subseteq Nat /\ most \subseteq group
  <2>1. most \subseteq group
    OBVIOUS
  <2>2. group \subseteq Nat
    BY <1>1
  <2> HIDE DEF most
  <2>3. QED
    BY <2>1, <2>2
<1>7. first \in group
  <2> HIDE DEF most
  <2>1. \E i \in most : \A j \in most : i <= j
    BY <1>5, <1>6, LeastIndex
  <2>2. first \in most
    BY <2>1
  <2> HIDE DEF first
  <2>3. QED
    BY <1>6, <2>2
<1>8. CommonType(group) = memories[first].type
  BY DEF CommonType, OfType
<1> HIDE DEF first
<1>9. QED
  BY <1>1, <1>7, <1>8 DEF Row

LEMMA MergedStep ==
  ASSUME MemoryInv, NEW k \in Consolidator, Merged(k)
  PROVE  MemoryInv'
<1>1. /\ MemoryTables /\ Runs /\ Merges /\ clusters \in [Session -> Int] /\ byHand \in Int
      /\ Len(memories) \in Nat /\ DOMAIN memories = 1 .. Len(memories)
      /\ memories \in Seq(Row) /\ \A i \in 1 .. Len(memories) : memories[i] \in Row
      /\ conflicts \in Seq(Conflict) /\ \A c \in DOMAIN conflicts : conflicts[c] \in Conflict
  BY Parts
<1>2. UNCHANGED <<conflicts, clusters, reflection, byHand>>
  BY DEF Merged
<1> DEFINE group == merging[k].group
           first == CHOOSE i \in group : \A j \in group : i <= j
           best == CHOOSE i \in group : \A j \in group : memories[i].auth >= memories[j].auth
           new == Len(memories) + 1
           row == [type |-> CommonType(group), auth |-> memories[best].auth,
                   scope |-> memories[first].scope, conf |-> merging[k].conf,
                   status |-> "active", by |-> 0]
           table == [i \in DOMAIN memories |->
                       IF i \in group THEN [memories[i] EXCEPT !.status = "superseded", !.by = new]
                       ELSE memories[i]]
<1>3. group \subseteq 1 .. Len(memories) /\ group # {} /\ merging[k].conf \in Confidence
  BY <1>1 DEF Merges, Merge, Merged
<1>4. merging' = [merging EXCEPT ![k] = NoMerge]
  BY DEF Merged
<1>5. /\ merging' \in [Consolidator -> [group : SUBSET Nat, conf : Confidence]]
      /\ \A z \in Consolidator : merging'[z].group \subseteq 1 .. Len(memories)
  <2>1. NoMerge \in [group : SUBSET Nat, conf : Confidence] /\ NoMerge.group = {}
    BY DEF NoMerge, Confidence
  <2>2. QED
    BY <1>1, <1>4, <2>1 DEF Merges, Merge
<1>6. CASE memories' = memories
  <2>1. MemoryTables' /\ Merges'
    BY <1>1, <1>2, <1>5, <1>6 DEF MemoryTables, Merges, Merge
  <2>2. Runs'
    BY <1>1, <1>2, <1>6 DEF Runs
  <2>3. QED
    BY <1>1, <1>2, <2>1, <2>2, Assembled
<1>7. CASE memories' = Append(table, row)
  <2>1. best \in group
    <3> DEFINE f == [i \in group |-> memories[i].auth]
    <3>1. f \in [group -> 0 .. 3]
      BY <1>1, <1>3 DEF Row
    <3>2. PICK i \in group : \A j \in group : f[i] >= f[j]
      BY <1>3, <3>1, GreatestOf
    <3>3. \A j \in group : memories[i].auth >= memories[j].auth
      BY <3>2
    <3> HIDE DEF group
    <3>4. QED
      BY <3>3
  <2>2. first \in group
    <3>1. group \subseteq Nat
      BY <1>1, <1>3
    <3> HIDE DEF group
    <3>2. \E i \in group : \A j \in group : i <= j
      BY <1>3, <3>1, LeastIndex
    <3>3. QED
      BY <3>2
  <2>3. CommonType(group) \in MemoryType
    BY <1>3, CommonTypeKnown
  <2>4. memories[best] \in Row /\ memories[first] \in Row
    <3> HIDE DEF group, best, first
    <3>1. QED
      BY <1>1, <1>3, <2>1, <2>2
  <2>5. row \in Row /\ row.by = 0 /\ row.status = "active"
    <3> HIDE DEF group, best, first
    <3>1. memories[best].auth \in 0 .. 3 /\ memories[first].scope \in STRING
      BY <2>4 DEF Row
    <3>2. QED
      BY <1>3, <2>3, <3>1 DEF Row
  <2> HIDE DEF row, best, first
  <2> DEFINE u == Append(memories, row)
  <2>6. Sound(u, conflicts) /\ Len(u) = new
    BY <1>1, <2>5, RowAdded DEF MemoryTables
  <2>7. /\ u \in Seq(Row) /\ DOMAIN u = 1 .. new /\ \A i \in 1 .. Len(memories) : u[i] = memories[i]
        /\ u[new] = row
    BY <1>1, <2>5, <2>6, AppendProperties, LenProperties
  <2>8. /\ table \in [1 .. Len(memories) -> Row]
        /\ \A i \in 1 .. Len(memories) :
             /\ table[i].auth = memories[i].auth /\ table[i].scope = memories[i].scope
             /\ \/ table[i].by = new
                \/ table[i].by = memories[i].by /\ table[i].status = memories[i].status
    <3>1. ASSUME NEW i \in 1 .. Len(memories)
          PROVE  /\ table[i] \in Row
                 /\ table[i].auth = memories[i].auth /\ table[i].scope = memories[i].scope
                 /\ \/ table[i].by = new
                    \/ table[i].by = memories[i].by /\ table[i].status = memories[i].status
      <4>1. new \in Nat /\ memories[i] \in Row
        BY <1>1
      <4> HIDE DEF new, group
      <4>2. CASE i \in group
        BY <1>1, <4>1, <4>2 DEF Row
      <4>3. CASE i \notin group
        BY <1>1, <4>1, <4>3
      <4>4. QED
        BY <4>2, <4>3
    <3>2. table \in [1 .. Len(memories) -> Row]
      BY <1>1, <3>1
    <3>3. QED
      BY <3>1, <3>2
  <2> HIDE DEF table
  <2>9. table \in Seq(Row) /\ Len(table) = Len(memories)
    BY <1>1, <2>8, SeqDef, LenProperties
  <2> DEFINE t2 == Append(table, row)
  <2>10. /\ t2 \in Seq(Row) /\ Len(t2) = new /\ DOMAIN t2 = 1 .. new
         /\ \A i \in 1 .. Len(memories) : t2[i] = table[i]
         /\ t2[new] = row
    BY <1>1, <2>5, <2>9, AppendProperties, LenProperties
  <2> HIDE DEF t2, u
  <2>11. t2 \in [DOMAIN u -> Row]
    BY <2>7, <2>10, LenProperties
  <2>12. ASSUME NEW i \in DOMAIN u
         PROVE  /\ t2[i].auth = u[i].auth /\ t2[i].scope = u[i].scope
                /\ t2[i].by = u[i].by \/ (t2[i].by \in 1 .. Len(u) /\ t2[i].by # i)
                /\ \/ t2[i].status # "superseded" \/ t2[i].by # 0 \/ Beaten(t2, conflicts, i)
                   \/ u[i].status = "superseded"
    <3>1. CASE i = new
      BY <2>5, <2>7, <2>10, <3>1
    <3>2. CASE i # new
      <4>1. i \in 1 .. Len(memories) /\ i # new /\ new \in 1 .. Len(u) /\ new # 0
        BY <1>1, <2>6, <2>7, <3>2
      <4>2. t2[i] = table[i] /\ u[i] = memories[i]
        BY <2>7, <2>10, <4>1
      <4> HIDE DEF new
      <4>3. QED
        BY <2>8, <4>1, <4>2
    <3>3. QED
      BY <3>1, <3>2
  <2>13. conflicts \in [DOMAIN conflicts -> Conflict]
    BY <1>1, LenProperties
  <2>14. Sound(t2, conflicts)
    BY <2>6, <2>11, <2>12, <2>13, RowsWritten
  <2>15. memories' = t2
    BY <1>7 DEF t2
  <2>16. Len(memories') \in Nat /\ Len(memories) <= Len(memories')
    BY <1>1, <2>10, <2>15
  <2>17. MemoryTables'
    BY <1>2, <2>14, <2>15 DEF MemoryTables
  <2>18. Runs'
    BY <1>1, <1>2, <2>16, RunsKept
  <2>19. Merges'
    <3>1. 1 .. Len(memories) \subseteq 1 .. Len(memories')
      BY <1>1, <2>16
    <3>2. QED
      BY <1>5, <3>1 DEF Merges, Merge
  <2>20. QED
    BY <1>1, <1>2, <2>17, <2>18, <2>19, Assembled
<1>8. memories' = memories \/ memories' = Append(table, row)
  BY DEF Merged
<1>9. QED
  BY <1>6, <1>7, <1>8

\* A table whose rows are written in place, by a step that leaves the runs alone
LEMMA InPlace ==
  ASSUME MemoryInv, UNCHANGED <<clusters, reflection, merging>>, (byHand \in Int)',
         memories' \in [DOMAIN memories -> Row], conflicts' \in [DOMAIN conflicts -> Conflict],
         \A i \in DOMAIN memories :
           /\ memories'[i].auth = memories[i].auth /\ memories'[i].scope = memories[i].scope
           /\ memories'[i].by = memories[i].by
                \/ (memories'[i].by \in 1 .. Len(memories) /\ memories'[i].by # i)
           /\ \/ memories'[i].status # "superseded" \/ memories'[i].by # 0
              \/ Beaten(memories', conflicts', i)
              \/ memories[i].status = "superseded",
         \A k \in DOMAIN conflicts :
           /\ conflicts'[k].a = conflicts[k].a /\ conflicts'[k].b = conflicts[k].b
           /\ conflicts[k].how # "hand" \/ conflicts'[k].how = "hand"
  PROVE  MemoryInv'
<1>1. MemoryTables /\ Runs /\ Merges /\ clusters \in [Session -> Int] /\ Len(memories) \in Nat
  BY Parts
<1>2. Sound(memories, conflicts)
  BY <1>1 DEF MemoryTables
<1>3. Sound(memories', conflicts') /\ Len(memories') = Len(memories)
  BY <1>2, RowsWritten
<1>4. Len(memories') \in Nat /\ Len(memories) <= Len(memories')
  BY <1>1, <1>3
<1>5. Runs' /\ Merges'
  BY <1>1, <1>4, RunsKept, MergesKept
<1>6. QED
  BY <1>1, <1>3, <1>5, Assembled DEF MemoryTables

LEMMA GCStep ==
  ASSUME MemoryInv, runMemoryGC
  PROVE  MemoryInv'
<1>1. /\ byHand \in Int /\ memories \in Seq(Row) /\ DOMAIN memories = 1 .. Len(memories)
      /\ \A i \in 1 .. Len(memories) : memories[i] \in Row
      /\ conflicts \in Seq(Conflict) /\ \A k \in DOMAIN conflicts : conflicts[k] \in Conflict
  BY Parts
<1>2. UNCHANGED <<conflicts, clusters, reflection, merging>> /\ byHand' \in Int
  BY <1>1 DEF runMemoryGC
<1>3. PICK unused \in SUBSET {i \in DOMAIN memories : memories[i].type # "document"},
           seldom \in SUBSET {i \in DOMAIN memories : memories[i].type # "document"} :
        \E conf \in {f \in [seldom -> Confidence] : \A i \in seldom : f[i] <= memories[i].conf} :
          memories' = [i \in DOMAIN memories |->
            CASE i \in unused /\ memories[i].status = "active" -> [memories[i] EXCEPT !.status = "stale"]
              [] i \in unused /\ memories[i].status = "stale" /\ ~Protected(memories[i]) ->
                   [memories[i] EXCEPT !.status = "archived"]
              [] i \in seldom \ unused /\ memories[i].status = "active" ->
                   [memories[i] EXCEPT !.conf = conf[i]]
              [] OTHER -> memories[i]]
  BY DEF runMemoryGC
<1>4. PICK conf \in [seldom -> Confidence] :
          memories' = [i \in DOMAIN memories |->
            CASE i \in unused /\ memories[i].status = "active" -> [memories[i] EXCEPT !.status = "stale"]
              [] i \in unused /\ memories[i].status = "stale" /\ ~Protected(memories[i]) ->
                   [memories[i] EXCEPT !.status = "archived"]
              [] i \in seldom \ unused /\ memories[i].status = "active" ->
                   [memories[i] EXCEPT !.conf = conf[i]]
              [] OTHER -> memories[i]]
  BY <1>3
<1>5. ASSUME NEW i \in DOMAIN memories
      PROVE  \/ memories'[i] = memories[i]
             \/ memories'[i] = [memories[i] EXCEPT !.status = "stale"]
             \/ memories'[i] = [memories[i] EXCEPT !.status = "archived"]
             \/ i \in seldom /\ memories'[i] = [memories[i] EXCEPT !.conf = conf[i]]
  BY <1>4
<1>6. ASSUME NEW i \in DOMAIN memories
      PROVE  /\ memories'[i] \in Row
             /\ memories'[i].auth = memories[i].auth /\ memories'[i].scope = memories[i].scope
             /\ memories'[i].by = memories[i].by
             /\ memories'[i].status # "superseded" \/ memories[i].status = "superseded"
  <2>1. memories[i] \in Row
    BY <1>1
  <2>2. i \in seldom => conf[i] \in Confidence
    OBVIOUS
  <2>3. QED
    BY <1>5, <2>1, <2>2 DEF Row
<1>7. memories' \in [DOMAIN memories -> Row]
  BY <1>4, <1>6
<1>8. conflicts' \in [DOMAIN conflicts -> Conflict]
  BY <1>1, <1>2, LenProperties
<1>9. QED
  BY <1>2, <1>6, <1>7, <1>8, InPlace

LEMMA ResolveStep ==
  ASSUME MemoryInv, resolveConflict
  PROVE  MemoryInv'
<1>1. /\ MemoryTables /\ byHand \in Int /\ memories \in Seq(Row)
      /\ DOMAIN memories = 1 .. Len(memories) /\ Len(memories) \in Nat
      /\ \A i \in 1 .. Len(memories) : memories[i] \in Row
      /\ conflicts \in Seq(Conflict) /\ \A k \in DOMAIN conflicts : conflicts[k] \in Conflict
  BY Parts
<1>2. UNCHANGED <<clusters, reflection, merging>> /\ byHand' \in Int
  <2>1. UNCHANGED <<clusters, reflection, merging>> /\ byHand' = byHand + 1
    BY DEF resolveConflict
  <2>2. byHand + 1 \in Int
    BY <1>1
  <2>3. QED
    BY <2>1, <2>2
<1> DEFINE Lose(i, by) == [memories[i] EXCEPT !.status = "superseded", !.by = by]
           Pair(k) == {conflicts[k].a, conflicts[k].b}
<1>3. PICK k \in DOMAIN conflicts :
        /\ conflicts' = [conflicts EXCEPT ![k].how = "hand"]
        /\ \/ \E losers \in SUBSET Pair(k) \ {{}} :
                memories' = [i \in DOMAIN memories |->
                               IF i \in losers THEN Lose(i, memories[i].by) ELSE memories[i]]
           \/ UNCHANGED memories
           \/ \E i \in Pair(k) : \E j \in Pair(k) \ {i} :
                memories' = [memories EXCEPT ![i] = Lose(i, j)]
  BY DEF resolveConflict
<1>4. Pair(k) \subseteq 1 .. Len(memories)
  BY <1>1 DEF MemoryTables, Sound, Joined
<1>5. /\ conflicts' \in [DOMAIN conflicts -> Conflict] /\ DOMAIN conflicts' = DOMAIN conflicts
      /\ conflicts'[k].how = "hand"
      /\ \A n \in DOMAIN conflicts :
           /\ conflicts'[n].a = conflicts[n].a /\ conflicts'[n].b = conflicts[n].b
           /\ conflicts[n].how # "hand" \/ conflicts'[n].how = "hand"
  <2>1. conflicts \in [DOMAIN conflicts -> Conflict]
    BY <1>1, LenProperties
  <2>2. conflicts' = [conflicts EXCEPT ![k].how = "hand"]
    BY <1>3
  <2>3. QED
    BY <2>1, <2>2 DEF Conflict
<1>6. memories \in [DOMAIN memories -> Row]
  BY <1>1, LenProperties
<1>7. ASSUME NEW i \in 1 .. Len(memories), NEW by \in Nat
      PROVE  /\ Lose(i, by) \in Row
             /\ Lose(i, by).auth = memories[i].auth /\ Lose(i, by).scope = memories[i].scope
             /\ Lose(i, by).by = by
  BY <1>1 DEF Row
<1> HIDE DEF Lose
<1>8. /\ memories' \in [DOMAIN memories -> Row]
      /\ \A i \in DOMAIN memories :
           /\ memories'[i].auth = memories[i].auth /\ memories'[i].scope = memories[i].scope
           /\ memories'[i].by = memories[i].by
                \/ (memories'[i].by \in 1 .. Len(memories) /\ memories'[i].by # i)
           /\ memories'[i].status = memories[i].status \/ i \in Pair(k)
  <2>1. CASE memories' = memories
    BY <1>6, <2>1
  <2>2. ASSUME NEW losers \in SUBSET Pair(k),
               memories' = [i \in DOMAIN memories |->
                              IF i \in losers THEN Lose(i, memories[i].by) ELSE memories[i]]
        PROVE  <1>8!1 /\ <1>8!2
    <3>1. ASSUME NEW i \in DOMAIN memories
          PROVE  /\ memories'[i] \in Row
                 /\ memories'[i].auth = memories[i].auth /\ memories'[i].scope = memories[i].scope
                 /\ memories'[i].by = memories[i].by
                 /\ memories'[i].status = memories[i].status \/ i \in Pair(k)
      <4>1. memories[i] \in Row /\ memories[i].by \in Nat
        BY <1>1 DEF Row
      <4>2. CASE i \in losers
        BY <1>1, <1>7, <2>2, <4>1, <4>2
      <4>3. CASE i \notin losers
        BY <2>2, <4>1, <4>3
      <4>4. QED
        BY <4>2, <4>3
    <3>2. memories' \in [DOMAIN memories -> Row]
      BY <2>2, <3>1
    <3>3. QED
      BY <3>1, <3>2
  <2>3. ASSUME NEW i \in Pair(k), NEW j \in Pair(k) \ {i},
               memories' = [memories EXCEPT ![i] = Lose(i, j)]
        PROVE  <1>8!1 /\ <1>8!2
    <3>1. i \in 1 .. Len(memories) /\ j \in 1 .. Len(memories) /\ j \in Nat /\ j # i
      BY <1>1, <1>4
    <3>2. /\ Lose(i, j) \in Row /\ Lose(i, j).auth = memories[i].auth
          /\ Lose(i, j).scope = memories[i].scope /\ Lose(i, j).by = j
      BY <1>7, <3>1
    <3>3. memories' \in [DOMAIN memories -> Row]
      BY <1>1, <1>6, <2>3, <3>2
    <3>4. QED
      BY <1>1, <2>3, <3>1, <3>2, <3>3
  <2>4. QED
    BY <1>3, <2>1, <2>2, <2>3
<1>9. \A i \in Pair(k) : Beaten(memories', conflicts', i)
  BY <1>3, <1>5 DEF Beaten
<1>10. \A i \in DOMAIN memories :
         \/ memories'[i].status # "superseded" \/ memories'[i].by # 0
         \/ Beaten(memories', conflicts', i)
         \/ memories[i].status = "superseded"
  BY <1>8, <1>9
<1>11. QED
  BY <1>2, <1>5, <1>8, <1>10, InPlace

LEMMA MemoryInvNext ==
  ASSUME MemoryInv, [MemoryNext]_memoryVars
  PROVE  MemoryInv'
<1>1. CASE UNCHANGED memoryVars
  BY <1>1 DEF memoryVars, MemoryInv
<1>2. CASE FiveMinutesPass
  BY <1>2 DEF FiveMinutesPass, MemoryInv
<1>3. CASE runMemoryGC
  BY <1>3, GCStep
<1>4. CASE resolveConflict
  BY <1>4, ResolveStep
<1>5. ASSUME NEW s \in Session, runReflection(s) PROVE MemoryInv'
  BY <1>5, RunReflectionStep
<1>6. ASSUME NEW s \in Session, ExtractMemories(s) PROVE MemoryInv'
  BY <1>6, ExtractStep
<1>7. ASSUME NEW s \in Session, Matched(s) PROVE MemoryInv'
  BY <1>7, MatchedStep
<1>8. ASSUME NEW s \in Session, Classified(s) PROVE MemoryInv'
  BY <1>8, ClassifiedStep
<1>9. ASSUME NEW s \in Session, StoredMemory(s) PROVE MemoryInv'
  BY <1>9, StoredStep
<1>10. ASSUME NEW k \in Consolidator, Group(k) PROVE MemoryInv'
  BY <1>10, GroupStep
<1>11. ASSUME NEW k \in Consolidator, Merged(k) PROVE MemoryInv'
  BY <1>11, MergedStep
<1>12. QED
  BY <1>1, <1>2, <1>3, <1>4, <1>5, <1>6, <1>7, <1>8, <1>9, <1>10, <1>11 DEF MemoryNext

LEMMA MemoryInvInit == MemoryInit => MemoryInv
<1> SUFFICES ASSUME MemoryInit PROVE MemoryInv
  OBVIOUS
<1> DEFINE First == [type : MemoryType, auth : 0 .. 3, scope : STRING, conf : Confidence,
                     status : {"active"}, by : {0}]
<1>1. memories \in Seq(First)
  BY MemoryAssumption DEF MemoryInit
<1>2. Len(memories) \in Nat /\ DOMAIN memories = 1 .. Len(memories)
  BY <1>1, LenProperties
<1>3. \A i \in 1 .. Len(memories) : memories[i] \in First
  BY <1>1, <1>2, ElementOfSeq
<1>4. \A i \in 1 .. Len(memories) : memories[i] \in Row /\ memories[i].by = 0 /\ memories[i].status = "active"
  BY <1>3 DEF Row
<1>5. memories \in Seq(Row)
  <2>1. memories \in [1 .. Len(memories) -> First]
    BY <1>1, <1>2, LenProperties
  <2>2. memories \in [1 .. Len(memories) -> Row]
    BY <1>4, <2>1
  <2>3. QED
    BY <1>2, <2>2, SeqDef
<1> HIDE DEF First
<1>6. Good(memories) /\ Explained(memories, conflicts)
  BY <1>2, <1>4, <1>5 DEF Good, Explained
<1>7. Joined(memories, conflicts)
  BY DEF MemoryInit, Joined
<1>8. /\ reflection \in [Session -> Reflection]
      /\ \A s \in Session : Going(reflection[s], Len(memories))
  BY <1>2, NoRunGoing DEF MemoryInit
<1>9. /\ merging \in [Consolidator -> [group : SUBSET Nat, conf : Confidence]]
      /\ \A k \in Consolidator : Merge(merging[k], Len(memories))
  <2>1. NoMerge \in [group : SUBSET Nat, conf : Confidence] /\ NoMerge.group = {}
    BY DEF NoMerge, Confidence
  <2>2. QED
    BY <2>1 DEF MemoryInit, Merge
<1>10. clusters \in [Session -> Int] /\ byHand \in Int
  BY MemoryAssumption DEF MemoryInit
<1>11. QED
  BY <1>6, <1>7, <1>8, <1>9, <1>10 DEF MemoryInv, Sound

LEMMA MemoryInvHolds == MemorySpec => []MemoryInv
<1>1. MemoryInv /\ [MemoryNext]_memoryVars => MemoryInv'
  BY MemoryInvNext
<1>2. QED
  BY <1>1, MemoryInvInit, PTL DEF MemorySpec

----------------------------------------------------------------------------
(* The theorems *)

\* The types of the tables and the runs: whatever a run or a group holds is in
\* the table, and no memory replaces itself.
THEOREM MemoryTypeCorrect == MemorySpec => []MemoryTypeOK
<1>1. MemoryInv => MemoryTypeOK
  <2> SUFFICES ASSUME MemoryInv PROVE MemoryTypeOK
    OBVIOUS
  <2>1. /\ MemoryTables /\ Runs /\ Merges /\ Len(memories) \in Nat /\ DOMAIN memories = 1 .. Len(memories)
        /\ \A i \in 1 .. Len(memories) : memories[i] \in Row
        /\ conflicts \in Seq(Conflict) /\ \A k \in DOMAIN conflicts : conflicts[k] \in Conflict
    BY Parts
  <2>2. ASSUME NEW i \in DOMAIN memories
        PROVE  /\ memories[i].status \in {"active", "stale", "archived", "superseded", "contested"}
               /\ memories[i].by \in 0 .. Len(memories) /\ memories[i].by # i
               /\ memories[i].auth \in 0 .. 3 /\ memories[i].conf \in Confidence
    <3>1. memories[i].by <= Len(memories) /\ memories[i].by # i /\ memories[i] \in Row
      BY <2>1 DEF MemoryTables, Sound, Good
    <3>2. QED
      BY <2>1, <3>1 DEF Row
  <2>3. ASSUME NEW c \in DOMAIN conflicts
        PROVE  /\ conflicts[c].how \in {"open", "auto", "hand"}
               /\ {conflicts[c].a, conflicts[c].b} \subseteq DOMAIN memories
    BY <2>1 DEF MemoryTables, Sound, Joined, Conflict
  <2>4. ASSUME NEW s \in Session
        PROVE  /\ reflection[s].at \in {"none", "extract", "embed", "classify", "store"}
               /\ DOMAIN reflection[s].known \cup reflection[s].made \subseteq DOMAIN memories
    BY <2>1 DEF Runs, Going, Reflection
  <2>5. \A k \in Consolidator : merging[k].group \subseteq DOMAIN memories
    BY <2>1 DEF Merges, Merge
  <2>6. QED
    BY <2>2, <2>3, <2>4, <2>5 DEF MemoryTypeOK
<1>2. QED
  BY <1>1, MemoryInvHolds, PTL

\* In a dispute take the members of the highest authority, and the youngest of
\* them: no conflict lets the rules prefer another member, so if it is
\* superseded somebody took part by hand or it was replaced.
THEOREM DisputesLeaveOne == MemorySpec => []DisputeLeavesOne
<1>1. MemoryInv => DisputeLeavesOne
  <2> SUFFICES ASSUME MemoryInv, NEW set \in Disputes,
                      \A i \in set : memories[i].status = "superseded" /\ memories[i].by = 0,
                      \A k \in DOMAIN conflicts : conflicts[k].a \notin set \/ conflicts[k].how # "hand"
               PROVE  FALSE
    BY DEF DisputeLeavesOne
  <2>1. /\ MemoryTables /\ Len(memories) \in Nat /\ DOMAIN memories = 1 .. Len(memories)
        /\ \A i \in 1 .. Len(memories) : memories[i] \in Row
    BY Parts
  <2>2. /\ set \subseteq 1 .. Len(memories) /\ set # {}
        /\ \A k \in DOMAIN conflicts : conflicts[k].a \in set <=> conflicts[k].b \in set
    BY <2>1 DEF Disputes
  <2>3. ASSUME NEW i \in set PROVE \E j \in set : Beats(memories, j, i)
    <3>1. Beaten(memories, conflicts, i)
      BY <2>1, <2>2 DEF MemoryTables, Sound, Explained
    <3>2. PICK k \in DOMAIN conflicts :
            /\ i \in {conflicts[k].a, conflicts[k].b}
            /\ \/ conflicts[k].how = "hand"
               \/ \E j \in {conflicts[k].a, conflicts[k].b} : Beats(memories, j, i)
      BY <3>1 DEF Beaten
    <3>3. conflicts[k].a \in set /\ conflicts[k].b \in set
      BY <2>2, <3>2
    <3>4. QED
      BY <3>2, <3>3
  <2>4. PICK x \in set : \A y \in set : memories[x].auth >= memories[y].auth
    <3> DEFINE f == [i \in set |-> memories[i].auth]
    <3>1. f \in [set -> 0 .. 3]
      BY <2>1, <2>2 DEF Row
    <3>2. PICK x \in set : \A y \in set : f[x] >= f[y]
      BY <2>2, <3>1, GreatestOf
    <3>3. QED
      BY <3>2
  <2> DEFINE high == {i \in set : memories[i].auth = memories[x].auth}
  <2>5. PICK m \in high : \A i \in high : m >= i
    <3> DEFINE f == [i \in high |-> i]
    <3>1. high \subseteq 1 .. Len(memories)
      BY <2>2
    <3>2. x \in high
      OBVIOUS
    <3> HIDE DEF high
    <3>3. f \in [high -> 0 .. Len(memories)] /\ high # {}
      BY <2>1, <3>1, <3>2
    <3>4. PICK m \in high : \A i \in high : f[m] >= f[i]
      BY <2>1, <3>3, GreatestOf
    <3>5. QED
      BY <3>4
  <2>6. PICK j \in set : Beats(memories, j, m)
    BY <2>3
  <2>7. /\ m \in 1 .. Len(memories) /\ j \in 1 .. Len(memories)
        /\ memories[j].auth \in 0 .. 3 /\ memories[m].auth \in 0 .. 3
    BY <2>1, <2>2 DEF Row
  <2>8. memories[m].auth >= memories[j].auth
    BY <2>4
  <2>9. memories[j].auth = memories[m].auth /\ j > m
    BY <2>6, <2>7, <2>8 DEF Beats
  <2>10. j \in high
    BY <2>9
  <2>11. QED
    BY <2>5, <2>7, <2>9, <2>10
<1>2. QED
  BY <1>1, MemoryInvHolds, PTL
=============================================================================
