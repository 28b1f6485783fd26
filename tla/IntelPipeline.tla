--------------------------- MODULE IntelPipeline ---------------------------
(***************************************************************************)
(* The intelligence pipeline: sweeps find sources (services/intel-sweep.ts) *)
(* and queue them for research, the research processor turns queue items    *)
(* into briefs and insights (services/research-queue.ts,                    *)
(* workers/research-processor.ts), and the next sweep extracts and routes   *)
(* (workers/intel-sweep.ts).  Workers run under the registry's limit        *)
(* (workers/index.ts); the API starts sweeps and research beside it.        *)
(***************************************************************************)
EXTENDS Integers, FiniteSets

CONSTANTS
  Source,          \* URLs that searches find
  Redirected,      \* those whose page is fetched from another URL
  Manual,          \* queue items that the API adds
  Run,             \* runs of workers and calls of the API, each used once
  MaxConcurrency,  \* maxConcurrency, 2
  MaxItems,        \* maxItemsPerSweep
  PerRun,          \* items of one run of the processor, 5
  Feeds,           \* enabled feeds
  MaxFailures,     \* bound: enqueues and researches that fail
  MaxCrashes       \* bound: crashes of the process

ASSUME IntelAssumption ==
  /\ IsFiniteSet(Source) /\ IsFiniteSet(Run)
  /\ Redirected \subseteq Source /\ Source \cap Manual = {}
  /\ "no item" \notin Source \cup Manual
  /\ {MaxConcurrency, MaxItems, PerRun, Feeds} \subseteq Nat \ {0}
  /\ {MaxFailures, MaxCrashes} \subseteq Nat

VARIABLES
  source,     \* intel_sources: status of a URL
  item,       \* research_queue: status of the item of a source or of the API
  insights,   \* intel_insights from the brief of an item, by title
  run,        \* what the runs do
  failures, crashes

intelVars == <<source, item, insights, run, failures, crashes>>

Item == Source \cup Manual
NoItem == "no item"

\* The titles of the insights of a brief: its own, one for key findings and
\* one for opportunities.
Title == {"brief", "finding", "opportunity"}

NotStarted == [kind |-> "none", left |-> 0, item |-> NoItem]
Ended == [NotStarted EXCEPT !.kind = "ended"]

IntelTypeOK ==
  /\ source \in [Source -> {"unknown", "discovered", "queued", "processed"}]
  /\ item \in [Item -> {"none", "queued", "processing", "completed", "failed"}]
  /\ insights \in [Item -> [Title -> Nat]]
  /\ run \in [Run -> [kind : {"none", "check", "processor", "sweep", "feed", "call", "ended"},
                      left : Nat, item : Item \cup {NoItem}]]
  /\ failures \in 0 .. MaxFailures /\ crashes \in 0 .. MaxCrashes

IntelInit ==
  /\ source = [u \in Source |-> "unknown"]
  /\ item = [i \in Item |-> "none"]
  /\ insights = [i \in Item |-> [t \in Title |-> 0]]
  /\ run = [r \in Run |-> NotStarted]
  /\ failures = 0 /\ crashes = 0

----------------------------------------------------------------------------
(* The research queue *)

\* mutant: of an item at work a second brief is made.
MayProcessAgain(i) == item[i] # "none"

\* processItem refuses an item that is at work.
MayProcess(i) == item[i] \notin {"none", "processing"}

\* Items of sweeps have the higher priority (200 against 100).
Claimable ==
  LET open == {i \in Item : item[i] = "queued"}
  IN IF open \cap Source # {} THEN open \cap Source ELSE open

\* claimNextQueuedItem for run r; without an item the run ends.
Claim(r, state, items) ==
  \/ /\ Claimable = {} \/ state.left = 0
     /\ run' = [run EXCEPT ![r] = Ended] /\ item' = items
  \/ \E i \in Claimable :
       /\ state.left > 0
       /\ run' = [run EXCEPT ![r] = [state EXCEPT !.item = i, !.left = @ - 1]]
       /\ item' = [items EXCEPT ![i] = "processing"]

\* enqueue by the API
Enqueue(i) ==
  /\ item[i] = "none"
  /\ item' = [item EXCEPT ![i] = "queued"]
  /\ UNCHANGED <<source, insights, run, failures, crashes>>

\* resetFailed
ResetFailed ==
  /\ \E i \in Item : item[i] = "failed"
  /\ item' = [i \in Item |-> IF item[i] = "failed" THEN "queued" ELSE item[i]]
  /\ UNCHANGED <<source, insights, run, failures, crashes>>

\* processItem and processNext of the API: one item, no insights
CallItem(r, i) ==
  /\ run[r].kind = "none" /\ MayProcess(i)
  /\ run' = [run EXCEPT ![r] = [kind |-> "call", left |-> 0, item |-> i]]
  /\ item' = [item EXCEPT ![i] = "processing"]
  /\ UNCHANGED <<source, insights, failures, crashes>>

CallNext(r) ==
  /\ run[r].kind = "none" /\ Claimable # {}
  /\ Claim(r, [kind |-> "call", left |-> 1, item |-> NoItem], item)
  /\ UNCHANGED <<source, insights, failures, crashes>>

----------------------------------------------------------------------------
(* Workers under the registry *)

Running == {r \in Run : run[r].kind \in {"check", "processor", "sweep"}}

\* runWorker, by the cron job of a worker or by the API; with too many at work
\* nothing is started ("queuing" is skipping).
runWorker(r) ==
  /\ run[r].kind = "none" /\ Cardinality(Running) < MaxConcurrency
  /\ run' = [run EXCEPT ![r].kind = "check"]
  /\ UNCHANGED <<source, item, insights, failures, crashes>>

\* The local model does not answer: the worker is skipped.
ModelUnavailable(r) ==
  /\ run[r].kind = "check"
  /\ run' = [run EXCEPT ![r] = Ended]
  /\ UNCHANGED <<source, item, insights, failures, crashes>>

ExecuteProcessor(r) ==
  /\ run[r].kind = "check"
  /\ Claim(r, [kind |-> "processor", left |-> PerRun, item |-> NoItem], item)
  /\ UNCHANGED <<source, insights, failures, crashes>>

\* extractInsights of the research processor: addInsight adds no second
\* insight of a title for a source, but any number without one, and
\* findSourceByUrl looks for the URL the page came from.
Noted(i, titles) ==
  [t \in Title |->
     IF t \notin titles THEN insights[i][t]
     ELSE IF i \in Source \ Redirected /\ insights[i][t] > 0 THEN insights[i][t]
     ELSE insights[i][t] + 1]

\* processClaimedItem ends with a brief, or fails.  The processor takes the
\* next item, a call of the API ends.
Researched(r) ==
  /\ run[r].item # NoItem
  /\ \E ok \in BOOLEAN, titles \in SUBSET Title :
       /\ ok \/ (titles = {} /\ failures < MaxFailures)
       /\ (ok /\ run[r].kind = "processor") => "brief" \in titles
       /\ run[r].kind = "call" => titles = {}
       /\ failures' = IF ok THEN failures ELSE failures + 1
       /\ insights' = [insights EXCEPT ![run[r].item] = Noted(run[r].item, titles)]
       /\ Claim(r, [run[r] EXCEPT !.item = NoItem],
                [item EXCEPT ![run[r].item] = IF ok THEN "completed" ELSE "failed"])
  /\ UNCHANGED <<source, crashes>>

----------------------------------------------------------------------------
(* Sweeps *)

ExecuteSweep(r) ==
  /\ run[r].kind = "check"
  /\ run' = [run EXCEPT ![r] = [kind |-> "sweep", left |-> Feeds, item |-> NoItem]]
  /\ UNCHANGED <<source, item, insights, failures, crashes>>

\* A sweep of one feed that the API starts, beside the registry
SweepOneFeed(r) ==
  /\ run[r].kind = "none"
  /\ run' = [run EXCEPT ![r] = [kind |-> "feed", left |-> 1, item |-> NoItem]]
  /\ UNCHANGED <<source, item, insights, failures, crashes>>

\* hasUrl
Known(u) == source[u] # "unknown"

\* The rows of new sources after sweepFeed: those that enqueue failed for stay
\* discovered.
Swept(new, enqueued, sources) ==
  [u \in Source |-> IF u \notin new THEN sources[u]
                    ELSE IF u \in enqueued THEN "queued" ELSE "discovered"]

\* getResearchBrief selects a column tags that research_briefs does not have:
\* it throws, and extractInsights marks the source as processed without its
\* brief, in phase 2 of the worker, which follows the last feed.
Extracted(sources) ==
  [u \in Source |-> IF sources[u] = "queued" /\ item[u] = "completed"
                    THEN "processed" ELSE sources[u]]

\* The searches of a feed have answered: what is new is saved and enqueued.
sweepFeed(r) ==
  /\ run[r].kind \in {"sweep", "feed"} /\ run[r].left > 0
  /\ \E found \in SUBSET Source :
       LET fresh == {u \in found : ~Known(u)}
       IN \E new \in SUBSET fresh : \E enqueued \in SUBSET new :
            /\ new = fresh \/ Cardinality(new) = MaxItems
            /\ Cardinality(new) <= MaxItems
            /\ failures + Cardinality(new \ enqueued) <= MaxFailures
            /\ failures' = failures + Cardinality(new \ enqueued)
            /\ LET last == run[r].left = 1
                   swept == Swept(new, enqueued, source)
               IN /\ source' = IF last /\ run[r].kind = "sweep" THEN Extracted(swept) ELSE swept
                  /\ run' = [run EXCEPT ![r] = IF last THEN Ended
                                                ELSE [run[r] EXCEPT !.left = @ - 1]]
            /\ item' = [i \in Item |-> IF i \in enqueued THEN "queued" ELSE item[i]]
  /\ UNCHANGED <<insights, crashes>>

\* The process dies: its runs are gone, the tables stay.
IntelCrash ==
  /\ crashes < MaxCrashes /\ crashes' = crashes + 1
  /\ run' = [r \in Run |-> IF run[r].kind = "none" THEN run[r] ELSE Ended]
  /\ UNCHANGED <<source, item, insights, failures>>

IntelNext ==
  \/ \E i \in Manual : Enqueue(i)
  \/ ResetFailed
  \/ \E r \in Run :
       \/ CallNext(r) \/ \E i \in Item : CallItem(r, i)
       \/ runWorker(r) \/ ModelUnavailable(r) \/ ExecuteProcessor(r) \/ ExecuteSweep(r)
       \/ SweepOneFeed(r) \/ sweepFeed(r) \/ Researched(r)
  \/ IntelCrash

IntelSpec == IntelInit /\ [][IntelNext]_intelVars

----------------------------------------------------------------------------
(* Properties *)

\* However runs of the processor, calls of the API, resets and crashes
\* interleave, an item is researched by one of them at a time, and only while
\* its row says so; no insight of a source that is found again by its URL is
\* stored twice, although an item may be researched again
\* (claimNextQueuedItem, processItem, addInsight).
OneResearcher ==
  /\ \A i \in Item :
       LET busy == {r \in Run : run[r].item = i}
       IN Cardinality(busy) <= 1 /\ (busy # {} => item[i] = "processing")
  /\ \A u \in Source \ Redirected, t \in Title : insights[u][t] <= 1
=============================================================================
