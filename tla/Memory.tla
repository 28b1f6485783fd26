------------------------------- MODULE Memory -------------------------------
(* src/memory: when a session ends its events are reflected on: an LLM       *)
(* extracts candidates, reconcile() compares each with the memories that     *)
(* were active when it began, and the conflicts it records are resolved at   *)
(* the end of the run.  Reflections of several sessions, the consolidation   *)
(* of near-duplicates, the garbage collection and the resolutions by hand    *)
(* change the same two tables while the others wait for a model.  The age of *)
(* a memory is its place in the table.                                       *)
EXTENDS Integers, Sequences, FiniteSets, SequencesExt

CONSTANTS
  Session,        \* sessions that end
  Consolidator,   \* callers of consolidateMemories: the cron job, the API
  Indexed,        \* the memories at the start, documents among them
  Extractable,    \* authority, scope and confidence of extracted memories
  MaxMemories,    \* bound of the table
  MaxCandidates,  \* candidates of a cluster of a session
  Unreflected,    \* clusters of events that the sessions may have
  MaxByHand       \* resolutions by hand and garbage collections

VARIABLES
  memories,       \* [type, auth, scope, conf, status, by]: by = superseded_by, or 0
  conflicts,      \* [a, b, how]: how = "open", "auto" or "hand"
  clusters,       \* session -> clusters of unreflected events
  cooling,        \* a session_end run was recorded less than 5 minutes ago
  reflection,     \* session -> the run of its activeReflectionKeys entry
  merging,        \* consolidator -> the group whose merge it waits for, as it was read
  byHand

memoryVars == <<memories, conflicts, clusters, cooling, reflection, merging, byHand>>

NoRun == [at |-> "none", clusters |-> 0, left |-> 0, known |-> <<>>,
          match |-> 0, made |-> {}, as |-> "none"]
NoMerge == [group |-> {}, conf |-> 0]

\* Chunks of documents, and whatever reflections extract
MemoryType == {"document", "learning"}

\* Confidence below 0.5, up to 0.7, and above
Confidence == 0 .. 2

ASSUME MemoryAssumption ==
  /\ Indexed \in Seq([type : MemoryType, auth : 0 .. 3, scope : STRING, conf : Confidence,
                      status : {"active"}, by : {0}])
  /\ Extractable \subseteq [auth : 0 .. 3, scope : STRING, conf : Confidence]
  /\ Unreflected \subseteq [Session -> Nat] /\ MaxCandidates \in [Session -> Nat]

MemoryTypeOK ==
  /\ \A i \in DOMAIN memories :
       /\ memories[i].status \in {"active", "stale", "archived", "superseded", "contested"}
       /\ memories[i].by \in 0 .. Len(memories) /\ memories[i].by # i
       /\ memories[i].auth \in 0 .. 3 /\ memories[i].conf \in Confidence
  /\ \A c \in DOMAIN conflicts :
       /\ conflicts[c].how \in {"open", "auto", "hand"}
       /\ {conflicts[c].a, conflicts[c].b} \subseteq DOMAIN memories
  /\ \A s \in Session :
       /\ reflection[s].at \in {"none", "extract", "embed", "classify", "store"}
       /\ DOMAIN reflection[s].known \cup reflection[s].made \subseteq DOMAIN memories
  /\ \A k \in Consolidator : merging[k].group \subseteq DOMAIN memories

MemoryInit ==
  /\ memories = Indexed /\ conflicts = <<>>
  /\ clusters \in Unreflected
  /\ cooling = FALSE
  /\ reflection = [s \in Session |-> NoRun]
  /\ merging = [k \in Consolidator |-> NoMerge]
  /\ byHand = 0

ActiveMemories == {i \in DOMAIN memories : memories[i].status = "active"}

----------------------------------------------------------------------------
\* Rules 1 to 3: the higher authority, then the newer of the same scope
Beats(table, i, j) ==
  \/ table[i].auth > table[j].auth
  \/ /\ table[i].auth = table[j].auth
     /\ table[i].scope = table[j].scope
     /\ i > j

Settled(db, k, losers, status) ==
  [table |-> [i \in DOMAIN db.table |->
                IF i \in losers THEN [db.table[i] EXCEPT !.status = status] ELSE db.table[i]],
   open |-> [db.open EXCEPT ![k].how = "auto"]]

\* MUTANT: rule 2 goes on to rule 3
JudgedThrough(db, k) ==
  LET c == db.open[k]
      losers == {i \in {c.a, c.b} :
                   \E j \in {c.a, c.b} \ {i} :
                     \/ db.table[j].auth > db.table[i].auth
                     \/ db.table[j].scope = db.table[i].scope /\ j > i}
  IN IF c.how = "open" /\ losers # {} THEN Settled(db, k, losers, "superseded") ELSE db

\* One conflict: rules 1 to 3, then 4: both disputed; another conflict stays open.
Judged(db, k) ==
  LET c == db.open[k]
      unsure == db.table[c.a].conf = 0 /\ db.table[c.b].conf = 0
  IN CASE c.how # "open" -> db
       [] c.how = "open" /\ Beats(db.table, c.a, c.b) -> Settled(db, k, {c.b}, "superseded")
       [] c.how = "open" /\ Beats(db.table, c.b, c.a) -> Settled(db, k, {c.a}, "superseded")
       [] OTHER -> IF unsure THEN Settled(db, k, {c.a, c.b}, "contested") ELSE db

\* The open conflicts one after the other
autoResolveConflicts(table, open) ==
  LET judged[k \in 0 .. Len(open)] ==
        IF k = 0 THEN [table |-> table, open |-> open] ELSE Judged(judged[k - 1], k)
  IN judged[Len(open)]

----------------------------------------------------------------------------
\* The end of a session: runReflection up to its first await.  A run that is
\* skipped is recorded too, with its start.
runReflection(s) ==
  /\ cooling' = TRUE
  /\ \/ /\ cooling \/ reflection[s].at # "none" \/ clusters[s] = 0
        /\ UNCHANGED reflection
     \/ /\ ~cooling /\ reflection[s].at = "none" /\ clusters[s] > 0
        /\ reflection' = [reflection EXCEPT ![s] =
             [NoRun EXCEPT !.at = "extract", !.clusters = clusters[s]]]
  /\ UNCHANGED <<memories, conflicts, clusters, merging, byHand>>

FiveMinutesPass ==
  /\ cooling /\ cooling' = FALSE
  /\ UNCHANGED <<memories, conflicts, clusters, reflection, merging, byHand>>

\* The next cluster, or the conflicts and the end of the run
NextCluster(s, table, open) ==
  IF reflection[s].clusters > 1
  THEN /\ memories' = table /\ conflicts' = open
       /\ reflection' = [reflection EXCEPT ![s] =
            [NoRun EXCEPT !.at = "extract", !.clusters = reflection[s].clusters - 1]]
  ELSE /\ \E db \in {autoResolveConflicts(table, open)} :
            memories' = db.table /\ conflicts' = db.open
       /\ reflection' = [reflection EXCEPT ![s] = NoRun]

ReflectOn(s) == clusters' = [clusters EXCEPT ![s] = @ - 1]

\* The answer of the extractor; reconcile loads the active memories once.
ExtractMemories(s) ==
  /\ reflection[s].at = "extract"
  /\ \/ NextCluster(s, memories, conflicts) /\ UNCHANGED clusters    \* four attempts failed
     \/ NextCluster(s, memories, conflicts) /\ ReflectOn(s)          \* no candidate
     \/ /\ \E n \in 1 .. MaxCandidates[s] :
             reflection' = [reflection EXCEPT ![s].at = "embed", ![s].left = n,
               ![s].known = [i \in ActiveMemories |-> memories[i].conf]]
        /\ UNCHANGED <<memories, conflicts, clusters>>
  /\ UNCHANGED <<cooling, merging, byHand>>

\* Document chunks that new memories resemble: a conflict for each pair that
\* has none, or has an open one the other way round
Compared(open, pairs) ==
  LET Before(n, d) == \E k \in DOMAIN open :
        \/ open[k].a = n /\ open[k].b = d
        \/ open[k].a = d /\ open[k].b = n /\ open[k].how = "open"
  IN open \o SetToSeq({[a |-> p[1], b |-> p[2], how |-> "open"] :
                         p \in {q \in pairs : ~Before(q[1], q[2])}})

\* A candidate is done: the next of the cluster, or checkCrossTypeConflicts
\* and the next cluster.
Reconciled(s, table, open, known) ==
  IF reflection[s].left > 1
  THEN /\ memories' = table /\ conflicts' = open
       /\ reflection' = [reflection EXCEPT ![s] =
            [reflection[s] EXCEPT !.at = "embed", !.left = @ - 1, !.known = known,
                                  !.match = 0, !.as = "none"]]
       /\ UNCHANGED clusters
  ELSE LET sure == {i \in reflection[s].made : table[i].conf = 2}
           documents == {d \in DOMAIN table : table[d].type = "document" /\ table[d].status = "active"}
       IN /\ ReflectOn(s)
          /\ \E pairs \in SUBSET (sure \X documents) :
               NextCluster(s, table, Compared(open, pairs))

\* What is written is the confidence as it was loaded, and a bump.
Reinforce(s, i) ==
  \E conf \in {reflection[s].known[i], reflection[s].known[i] + 1} \cap Confidence :
    Reconciled(s, [memories EXCEPT ![i].conf = conf], conflicts,
               [reflection[s].known EXCEPT ![i] = conf])

\* createMemory: the row is there before the embedding is asked for.
Create(s, as) ==
  /\ Len(memories) < MaxMemories
  /\ \E x \in Extractable :
       memories' = Append(memories, [type |-> "learning", auth |-> x.auth, scope |-> x.scope,
                                     conf |-> x.conf, status |-> "active", by |-> 0])
  /\ reflection' = [reflection EXCEPT ![s].at = "store", ![s].as = as,
                                     ![s].made = @ \cup {Len(memories) + 1}]
  /\ UNCHANGED <<conflicts, clusters>>

\* The embedding of the candidate: the best match decides.
Matched(s) ==
  /\ reflection[s].at = "embed"
  /\ \/ Create(s, "novel")
     \/ \E i \in DOMAIN reflection[s].known :
          \/ Reinforce(s, i)
          \/ /\ reflection' = [reflection EXCEPT ![s].at = "classify", ![s].match = i]
             /\ UNCHANGED <<memories, conflicts, clusters>>
  /\ UNCHANGED <<cooling, merging, byHand>>

\* The classification by the model; an error counts as complementary.
Classified(s) ==
  /\ reflection[s].at = "classify"
  /\ \/ Reinforce(s, reflection[s].match)
     \/ \E as \in {"update", "contradiction", "novel"} : Create(s, as)
  /\ UNCHANGED <<cooling, merging, byHand>>

\* The row has its embedding: the match, as it was loaded, is superseded or
\* set against the new memory.
StoredMemory(s) ==
  LET r == reflection[s]
      new == CHOOSE i \in r.made : \A j \in r.made : j <= i
      known == [i \in DOMAIN r.known \cup {new} |->
                  IF i \in DOMAIN r.known THEN r.known[i] ELSE memories[new].conf]
  IN /\ r.at = "store"
     /\ CASE r.as = "update" ->
               Reconciled(s, [memories EXCEPT ![r.match].status = "superseded", ![r.match].by = new],
                          conflicts, known)
          [] r.as = "contradiction" ->
               Reconciled(s, memories, Append(conflicts, [a |-> r.match, b |-> new, how |-> "open"]),
                          known)
          [] OTHER -> Reconciled(s, memories, conflicts, known)
     /\ UNCHANGED <<cooling, merging, byHand>>

----------------------------------------------------------------------------
\* consolidateMemories: a group of similar active memories, then the merged
\* text of the model
Group(k) ==
  /\ merging[k] = NoMerge
  /\ \E group \in SUBSET ActiveMemories :
       /\ \E i, j \in group : i # j
       /\ merging' = [merging EXCEPT ![k] =
            [group |-> group,
             conf |-> CHOOSE c \in Confidence : /\ \E i \in group : memories[i].conf = c
                                               /\ \A i \in group : memories[i].conf <= c]]
  /\ UNCHANGED <<memories, conflicts, clusters, cooling, reflection, byHand>>

\* The type that most of a group have, of two such the one met first
CommonType(group) ==
  LET OfType(i) == Cardinality({j \in group : memories[j].type = memories[i].type})
      most == {i \in group : \A j \in group : OfType(i) >= OfType(j)}
  IN memories[CHOOSE i \in most : \A j \in most : i <= j].type

Merged(k) ==
  LET group == merging[k].group
      first == CHOOSE i \in group : \A j \in group : i <= j
      best == CHOOSE i \in group : \A j \in group : memories[i].auth >= memories[j].auth
      new == Len(memories) + 1
  IN /\ group # {}
     /\ merging' = [merging EXCEPT ![k] = NoMerge]
     /\ \/ UNCHANGED memories                                         \* no merged text
        \/ /\ Len(memories) < MaxMemories
           /\ memories' = Append([i \in DOMAIN memories |->
                                    IF i \in group
                                    THEN [memories[i] EXCEPT !.status = "superseded", !.by = new]
                                    ELSE memories[i]],
                [type |-> CommonType(group), auth |-> memories[best].auth,
                 scope |-> memories[first].scope, conf |-> merging[k].conf,
                 status |-> "active", by |-> 0])
     /\ UNCHANGED <<conflicts, clusters, cooling, reflection, byHand>>

\* Never archived: what the agent wrote itself and what the user prefers
Protected(m) == m.auth >= 2

\* runMemoryGC: months pass in which some memories are not retrieved, or so
\* seldom that they lose confidence.
runMemoryGC ==
  /\ byHand < MaxByHand /\ byHand' = byHand + 1
  /\ \E unused, seldom \in SUBSET {i \in DOMAIN memories : memories[i].type # "document"} :
     \E conf \in {f \in [seldom -> Confidence] : \A i \in seldom : f[i] <= memories[i].conf} :
       memories' = [i \in DOMAIN memories |->
         CASE i \in unused /\ memories[i].status = "active" -> [memories[i] EXCEPT !.status = "stale"]
           [] i \in unused /\ memories[i].status = "stale" /\ ~Protected(memories[i]) ->
                [memories[i] EXCEPT !.status = "archived"]
           [] i \in seldom \ unused /\ memories[i].status = "active" ->
                [memories[i] EXCEPT !.conf = conf[i]]
           [] OTHER -> memories[i]]
  /\ memories' # memories
  /\ UNCHANGED <<conflicts, clusters, cooling, reflection, merging>>

\* The CLI: any conflict, also one that is resolved; one memory loses, or both.
\* The API: an open conflict; one memory replaces the other, or both are kept.
resolveConflict ==
  /\ byHand < MaxByHand /\ byHand' = byHand + 1
  /\ \E k \in DOMAIN conflicts :
       LET pair == {conflicts[k].a, conflicts[k].b}
           Lose(i, by) == [memories[i] EXCEPT !.status = "superseded", !.by = by]
       IN /\ conflicts' = [conflicts EXCEPT ![k].how = "hand"]
          /\ \/ \E losers \in SUBSET pair \ {{}} :
                  memories' = [i \in DOMAIN memories |->
                                 IF i \in losers THEN Lose(i, memories[i].by) ELSE memories[i]]
             \/ /\ conflicts[k].how = "open"
                /\ \/ UNCHANGED memories
                   \/ \E i \in pair : \E j \in pair \ {i} :
                        memories' = [memories EXCEPT ![i] = Lose(i, j)]
  /\ UNCHANGED <<clusters, cooling, reflection, merging>>

MemoryNext ==
  \/ FiveMinutesPass \/ runMemoryGC \/ resolveConflict
  \/ \E s \in Session :
       runReflection(s) \/ ExtractMemories(s) \/ Matched(s) \/ Classified(s) \/ StoredMemory(s)
  \/ \E k \in Consolidator : Group(k) \/ Merged(k)

MemorySpec == MemoryInit /\ [][MemoryNext]_memoryVars

----------------------------------------------------------------------------
\* The memories of a dispute: those that conflicts connect, open or resolved
Disputes ==
  LET Linked(set) ==
        \A k \in DOMAIN conflicts : conflicts[k].a \in set <=> conflicts[k].b \in set
      Closed(set) == Linked(set) /\ \E k \in DOMAIN conflicts : conflicts[k].a \in set
  IN {set \in SUBSET DOMAIN memories :
        Closed(set) /\ \A other \in SUBSET set : Closed(other) => other = set}

\* Whatever order conflicts are found, judged and added to in, the rules never
\* supersede the last memory of a dispute in which nobody took part by hand
\* and no member was replaced by an update or a merge.
DisputeLeavesOne ==
  \A set \in Disputes :
    \/ \E i \in set : memories[i].status # "superseded"
    \/ \E i \in set : memories[i].by # 0
    \/ \E k \in DOMAIN conflicts : conflicts[k].a \in set /\ conflicts[k].how = "hand"
=============================================================================
