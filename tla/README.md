# Verification of interest-memory

TLA+ models of the interest-memory service (Go, `src/internal`, `src/cmd`), TLC
runs on small instances, and TLAPS proofs of what matters most. All file names
below are relative to `src/` unless they end in `.tla` or `.cfg`.

## The system

Agents (chat programs with a bridge) push their session transcripts to the
service; the service extracts what the user is interested in, merges it with
what it knows, and answers recall requests.

| Component | State | Operations | Hard behaviour |
|---|---|---|---|
| HTTP ingest `internal/httpapi` | none | `/sessions`, `/fork`, `/jobs/{id}`, reads | many request goroutines, no admission control |
| worker `internal/worker` | job table, one bounded channel and goroutine per agent, `closed`/`done` | Enqueue, runAgent/process, setStatus, pruneLocked, Close | backpressure outside the lock, shutdown, eviction, memory-only queue |
| transcript store `internal/store/interest_pages.go` | text, `received_at`, `processed_at` | Save, Get, ListUnprocessed, MarkProcessed | a session pushed again while or after it is processed |
| fork `internal/fork` | none | Analyze: windows, the side LLM, ranges, folding by topic | concurrent calls, indexes of windows against indexes of the transcript |
| pipeline s1 `internal/interest/merge.go` | none | DedupeMerge, runParallel | goroutines that leave a cancelled batch silently |
| pipeline s2 `internal/interest/cluster.go` | none | components, conflict queues | Go map order |
| pipeline V1.2 `adjudicate.go` | none | LLM verdict per unit | one snapshot, verdicts about the same historical point |
| pipeline V1.3 `persist.go` | none | rows, vectors, archivals, contradictions, edges | no transaction around the writes, retried from the start |
| vector index `internal/vec` | one row per id | Upsert (delete, insert), Delete, Search | shared by all agents |
| wiki `internal/wiki`, `store/edges.go`, `pending_links.go` | pages, edges, pending links | Compile, wiki_write, RebuildEdges, ReconcileRelated | concurrent agent loops, no transaction around a call or a rebuild, read-modify-write |
| recall `internal/recall`, grading `internal/verify`, `store/replace.go` | LRU of recalled texts, a cache per request | Recall, Search, GetByID, ResolveReplacement | many reads per request without a snapshot, jobs write between them, stale texts, chains of replacements |
| usage `internal/usage`, `store/usage.go` | accumulator of the day, rows per day | Add, flush, Today, Close | midnight, flusher goroutine, shutdown |
| LLM client, embedder, cache | LRU, retry counters | calls with retries | timeouts |
| bridges `bridge/*` | what was pushed | push, recall | their own retries |

A push saves the transcript and then enqueues a job. The agent's goroutine reads
the transcript, runs `ProcessSession` (s1, s2, V1.2, V1.3, wiki) and marks the
transcript. Any error aborts the run; a retry is a new job that runs everything
again. Every LLM call reports to the usage tracker.

What makes each part correct: pushes of an agent are processed one at a time and
in order, no accepted push waits forever, a job that says "done" has processed
its text, the table never forgets a job somebody will run; a component is
adjudicated once and together with its competitors; a retry repairs what an
aborted run left half-written, the index holds only points that exist and are
active; tokens are counted once and under their day, and what was flushed stays; what a
wiki page links to is either an edge or visibly pending, and no edge leads to a page
that is not there; merging loses nothing the side LLM extracted, in a run that writes
or marks, and the conversation shown for a topic is the one it came from; an answer
holds what was live, or succeeds what was found, and the cache forgets in time.

## The modules

### Worker.tla, JobService.tla, MCWorker.tla, WorkerProofs.tla

`Worker` is the path of a request: the handler saves the transcript
(`HandleSessions`) or reads the oldest unprocessed one (`HandleFork`), then
`Enqueue`, `EnqueueItem` (the two critical sections), and the select as `Send`,
`Park`, `DropOnDone`, `PanicOnClosed`. The agent goroutine takes items
(`Receive`, which also lets the first blocked sender in) and goes through
`SetRunning`, `GetTranscript`, `ProcessSession`, `MarkProcessed`, `Report`. `Close`
holds the mutex over three kinds of step (`BeginClose`, one `CloseQueue` per
channel, `CloseReturn`); every other critical section is one action guarded by
`LockFree`. `Restart` loses all memory and keeps the tables.

A job id names the request that creates it and the goroutine it may spawn,
because each request creates one job and spawns at most one goroutine.
`received_at` is the number of the save (two pushes of one session that are
stamped in one order and saved in the other are not told apart), `DoneAt` the
number of the end. `learned` and `pushed` are ghosts: the newest text of a
session that a finished pipeline read, and the text a request saved.

`JobService` is what clients may rely on: one line per agent, served in order
and one at a time, success only after the mark, no waiting or running job
forgotten except by an exit. `Worker` implements it with `state` computed from the
table and the goroutines and `line` as buffer plus blocked senders.

### UsageTracker.tla, UsageProofs.tla

One action per operation of the tracker, which holds its mutex throughout; one
number stands for the three counters, which are always treated alike. `Sync`
chooses between the two modes (the service uses the batched one). The ghosts
`used` and `lost` say what was reported on a day and what a failed persist or an
exit dropped, `flushed` what had been reported on a day when a flush last ran on it.
What a rollover drops (`Add`, `flush` and `Today` start a new day over, whatever is
accumulated) is in neither `rows` nor `lost`: `OpenDayAccounted` speaks of the
tracker's own day only, `FlushedStays` of every day, but only up to its last flush,
and `CloseFlushes` fails because of it. The clock never goes back over midnight.

### Lists.tla, DataTheorems.tla

`Lists` has the two loops over slices that several components share: `Flatten`
(append one slice after the other) and `Among` (append under a condition), as
recursive functions of how many elements the loop has seen. `DataTheorems` has what
the proofs need about data: least and greatest elements, induction, the existence of
recursive functions over a sequence, what `Flatten` and `Among` return, and that a
finite set of numbered elements can be listed in order.

### Cluster.tla, MCCluster.tla, ClusterProofs.tla

The input is the similarity graph (which points are more than `mergeSim` alike,
how much each resembles a historical point); the model has all of them as
initial states. `Visit` is one round of the conflict loop, in any order because
it ranges over a Go map; `Finish` makes the plain list, `Units` is the flattening
in `Adjudicate`.

### Learning.tla, MCLearning.tla, LearningProofs.tla

Runs of V1.2 and V1.3. `Begin` hands a run its points and the historical points
they resemble, `Merge`, `Keep`, `Archive`, `Ignore`, `Void`, `Isolate` are what
`applyComponent`, `void` and `isolated` do with the LLM's answer, which may name
any target and any topic. `BeginPersist` turns the adjudication into the list of
writes of `Persist`, `Write` does one, `Fail` gives the rest up, `Collide` is the
primary key conflict of the vector table. An id is a hash of the topic, so the
topic stands for it; the empty topic has an id like any other, and a name under
the key the prompt asks for ("name") is parsed into the empty topic. Units have
one point: the decisions of a larger component are applied one after the other
to the same snapshot, which several units with common historical points do too.

### WikiLoop.tla, MCWikiLoop.tla, WikiProofs.tla

One job after the other of one agent (its jobs are serial, Worker shows it, and
pages are per agent). `BeginCompile` starts the loops, `StartLoop` takes a place in
the semaphore. A call of `wiki_write` is `WikiWrite` (checks and the page row), then
one `AddLink` per edge and `EndCall`, the event that notes the id; `Refuse` is a call
that stores nothing and is noted all the same, `CallFails` a store error between
two edges. `EndLoop` begins the backfill of event times, whose read (`ReadPage`) and
write (`WritePageBack`) are two steps. `CompileReturns` waits for all loops and
either gives up (one failed) or plans the rebuild, `WorkFor`; the rebuild then does
one statement per step, and the reconciling loop (`Reconciler`) writes once more.
`BreakOff` is any error of the job, or the exit of the process, at any point.

The agent loop decides what to write, so arguments are any. A body is the set of
pages it links to plus whether the row has an event time; link parsing and
normalisation are in "the page it links to". An id that the loop spells unlike its
normal form is `Misspelt`: the page is stored under the normal form and noted under
the other, so neither backfill nor rebuild find it. `dirty` is a ghost: pages whose
present body no finished rebuild has seen.

`Timed` says which units have a point with an event time. In a new database none
has one, because V1.2 makes points without (`adjudicate.go:226-250`, `263-287`), and
the backfill only runs for points whose rows have one already; the run takes all
units as timed, the proofs hold for any.

### Windows.tla, Extraction.tla, MCExtraction.tla, ExtractionProofs.tla

`Windows` holds what the extraction computes, as functions: how a
transcript is cut into windows on each route, how the turns that the LLM names
become message indexes (`RenderIndices`, `MapTurnRange`), how candidates for one
topic are folded (`AddCandidate`, `Dedupe`, `DedupeCandidates`) against a definition of
what the fold should give (`IsDedupeOf`; it promises the start of the span only where
no range begins at message 0, and `DedupeSpansRanges` is the promise without that
condition), and which messages the wiki loop is shown for a range
(`DialogSegment`).

`Extraction` is one run of `ProcessSession` up to the mark. `Start` cuts the windows;
each of the three batches (windows, embedding, merging of clusters) has a goroutine
per task and `MaxConc` places: a task takes a place, answers or fails. In the last
two batches, which are `runParallel`'s, a goroutine that finds the context ended
leaves without a result and without an error. `Expire` is the deadline of the job.
The answers, the similarity of vectors and the verdicts on clusters are any.
Clustering, adjudication and persistence are one step here, since Cluster and
Learning have them. The ghosts `meant` and `owed` are which messages the LLM meant by
a topic and which topics it has named; `folded` and `voided` are which topic a verdict
merged into which, and which topics a verdict with an unknown action consumed for
nothing. `MergeLosesNothing` ends with what merging hands to clustering: that a
component is dropped after it is `ClusterLost`, and what of the rest is written is
Learning's.

### Recall.tla, MCRecall.tla, RecallProofs.tla

Requests against the tables that Learning and WikiLoop fill, a store call a step:
`Lookup` in the text cache, `Find` (vector search, else full text), `LoadHit` and
`LoadReplacement` (the grader's `loadEntity` for Recall, `resultFor` for Search and
GetByID), and ResolveReplacement as `ReadRow`, `ReadBacking`, `ReadSequel`,
`ReadSuccessor`, `ReadPages`. `GetPoint` and `GetPage` are the reads of `getByIDIn`,
`Complete` stores the text. Between any two of them a job may write a row
(`PutPoint`, `PutPage`), an edge (`LinkPoint`, `LinkSequel`) or delete those of a page
(`Unlink`). `memo` is `entityCache`, which only Search and GetByID have.

Points and pages are tables of their own with ids of their own making: the wiki
loop may call a page by the id of a point, and only so a `sequel` edge, which
wiki_write adds between pages, comes to lead from a point to a point, where
ResolveReplacement looks for it. What matches a query is any set of at most `TopK`
rows, which includes all that options filter. The other visible namespace has
points that stay. The wiki is enabled (otherwise pages are taken out of the answer
at the end, `service.go:313-324`, `334-336`). Store errors of reads are left out.
`gone` is when a row last stopped being live, `begun` when the reading behind an answer
began: for a text from the cache, the beginning of the request that made it.

## The runs

| Run | Shows | Bounds |
|---|---|---|
| WorkerSafety | serial processing per agent, table and queues agree, done covers the push, mark only after learning, blocked senders survive Close, eviction in order and to the bound, refinement of JobService | 1 agent, 2 sessions, 3 jobs, channel of 1, table of 2, 1 exit |
| WorkerLiveness | every accepted request ends; Close stops the goroutines | 1 agent, 1 session, 3 jobs, channel of 1 |
| WorkerRepush (violation) | a failed job after a re-push leaves the new text marked processed | 2 jobs |
| UsageBatched | nothing counted twice, the open day complete, what a flush has seen stays | 3 days, 3 tokens a day, 1 exit |
| ClusterConflicts | a component adjudicated at most once, queues in order, plain components do not compete | 3 points, 2 historical points, 3 affinities |
| ClusterLost (violation) | a component with two points alike one historical point is dropped | 2 points, 1 historical point |
| LearningRetries | a completed run takes effect after any aborted one, archived points leave the index, related edges join points, a vector belongs to a point of its agent although agents overwrite each other's ids | 2 agents, 2 topics, 2 units a run, 2 runs, 1 failed write |
| LearningContradictions (violation) | contradictions of an agent share one row | 3 topics, 2 units, 2 runs |
| WikiRebuild | links of rebuilt pages are edges or pending, no edge dangles, pages get their event time, only touched pages lose edges | 2 pages, 1 point, 2 loops at a time, 2 jobs, 2 calls, 1 fault |
| ExtractionSession | merging loses nothing, folding keeps the best, ranges show their source, windows are cut as they should be, every run ends | 4 messages, all routes, a step of 1, 3 windows, 2 topics, 6 candidates, answers of 2, 2 places |
| ExtractionRanges (violation) | on route non_prefix a range shows the wiki loop another part of the conversation | 3 messages, 2 windows |
| RecallServe | answers were live, replacements succeed what was found, GetByID finds the id, cached texts forget, every request is answered unless sequels form a circle | 1 request at a time, 2 ids, 3 stores to begin with, 2 writes, TTL of 1, 2 instants |

Deadlock is checked in the runs of Recall only: elsewhere the service may stop, and each
model ends when its bounded supply of requests, tokens or runs is used up. "Everyone
waits" shows as a violation of `JobsSettle` or `SessionEnds` there.

Why the bounds suffice. Three jobs on a channel of one are the least that give a
running job, a waiting one and a blocked sender of one agent at once; a table of
two is the least in which the oldest of several finished jobs must be chosen.
Agents share nothing in the worker but the mutex and the table, and the proofs
hold for any number of them. Three points and two historical points give a
component shared through both a point of its own and another component, in both
orders of the map. Two units suffice for two verdicts about one point in one
run, two runs for a retry. Two pages and two calls give a link whose target comes
later, two loops that write one page, and an edge from a page another job wrote;
the one fault is a misspelt id, a failed call, loop or write, or an exit. Four
messages and three windows give the first, a middle and the last window, the cap of each
route, messages the LLM is not shown, and a goroutine that waits for one of two places;
six candidates have better and worse confidences and ranges that are none, end or begin
behind the window. A step of one says little about how many messages a window grows by:
for longer steps `WindowsSound` rests on its proof.
Requests share nothing but the cached text, and jobs only write, so that one request at
a time shows what any number could see; the proofs hold for any number of them. Two
ids and two writes give a hit archived while its successor is sought, a chain of two
sequels, a circle, and a page that shares its id or its row with a point. In every run the interesting event (eviction, a
sender woken by Close, a collision, a broken-off run) is reached: each has a
faulty variant (`Mutant...` in the modules) that makes exactly its property fail.

Symmetry: jobs are interchangeable in WorkerSafety, historical points in
ClusterConflicts, agents in LearningRetries, pages and units in
WikiRebuild; runs with liveness properties use none. `CHOOSE` in `Cluster` picks from points and numbers only, never from
symmetric values.

Fairness. WorkerLiveness: weak fairness of each request goroutine, each agent
goroutine and the rest of Close. Go's scheduler runs every goroutine that can run, and
`ProcessSession` ends because its context has a deadline. Nobody is obliged to push, to
shut the process down or to start it again. ExtractionSession: weak fairness of the
run's steps (`Step`), because calls to the LLM end by their answer or their timeout;
the deadline itself may never come. RecallServe: weak fairness of each request's steps,
since a handler goroutine runs on until it has answered; jobs, the clock and evictions
owe nothing, and no request has to be made. `RequestsEnd` excuses a circle of sequels,
where the code walks for ever (RecallCircle.cfg) or recurses without end.

## What is proved

The proofs hold for every value of the constants, under the assumptions
`WorkerAssumption`, `UsageAssumption`, `ClusterAssumption`, `LearningAssumption`,
`WikiAssumption`, `WindowsAssumption`, `ExtractionAssumption` and `RecallAssumption` of
the modules: bounds are numbers, steps, caps and capacities that the code requires to
be positive are, the topics are finitely many, and
placeholders (no page, no topic, a point nobody filled in) are none of the values they
stand beside. Every invariant and every action property that a passing run checks is a
theorem; TLC also evaluates the assumptions.

* `WorkerProofs`: `Invariance` proves `Inv == TypeOK /\ Arrived /\ OneRunner /\ Flow`.
  `SerialPerAgent` is not inductive alone: that a request creates a goroutine only
  while its agent has no channel says nothing unless every goroutine that is up
  belongs to an agent with a channel and no two belong to one (`OneRunner`), which
  in turn needs that goroutines and queues only hold jobs that have arrived
  (`Arrived`). `Flow` follows a text through the goroutine (loaded text at least as
  new as the push, learned before marked, marked before done). From it follow
  `TypeCorrect`, `Serial`, `MarkedAfterLearning`, `DoneIsCovered`. On top of it,
  `Placed` says where each job is: the lines of channel and blocked senders hold each
  job once, of its own agent, in the state that the table shows; a goroutine holds what
  its place says; and what the table calls queued or running is held by somebody. From
  it follow `TableMatches`, `ParkedSurvive`, the action property `EvictsOldest`, and
  `WorkerImplements`: with the table as the state of the jobs and channel plus blocked
  senders as the line, the initial states are initial states of `JobService` and every
  step of the worker is a step of it or a stutter, so that `Spec` implies its
  specification. (It has no fairness of its own; liveness is below.)
* `UsageProofs`: the accounting equations are inductive once the tracker's day is
  known never to be ahead of the clock (`DayInOrder`) and the flusher to match the
  mode; `TypeCorrect`, `CountedOnce`, `OpenDay`. `FlushedIsKept` adds that
  rows and failures only grow (`RowsGrow`) and that a flush leaves the row of its day
  complete, which follows from the equation of the open day (`FlushCovers`).
* `ClusterProofs`: `PlainAlone`. The groups are disjoint (`GroupsDisjoint`), so two
  components that share a historical point have two distinct points that resemble
  it and the loop finds it contested (`SharedIsContested`); its visit puts both
  among the used ones. `AtMostOnce` and `QueuesInOrder` rest on `QInv`, that what stands
  in a queue is used and stands there only once, and on the sorted list that a visit
  makes being a list of exactly the components found (`SortedList`): the model picks
  it by `CHOOSE`, so that its existence has to be proved. `TypeCorrect` goes with them.
* `LearningProofs`: about the writes that a run has still to make. A plan of writes is
  in an order that no other run and no failure can spoil: a row comes before its vector
  and before the edges to it, the deletion of an old vector right before the insertion
  of the new, an archival right before the deletion of its vector and after all final
  points (`Sound`, `Rooted`); the plan that `BeginPersist` flattens from the
  adjudication is in that order and has all of it (`Flatten` of its parts, by the lemmas
  of `DataTheorems`); each write leaves the rest in order; and what is no longer in the
  plan is in the tables (`Effect`). From the invariant follow `TypeCorrect`,
  `HitsHaveRows`, `RelatedEdgesJoin`, `ArchivedGone` and the action property
  `RunTakesEffect`.
* `WikiProofs`: `Inv == Types /\ Turns /\ CallsSound /\ Progress /\ NoDanglingEdges /\
  CleanPagesAccounted`. Neither property is inductive alone. That no edge dangles
  needs that the edges a call has still to add join pages that are there
  (`CallsSound`: pages are never deleted, so what `validateEdges` saw stays true). That
  clean pages are accounted for needs to know how far a rebuild is (`Progress`: the
  links of a touched page are what is in the tables plus what is still to be
  added, once its old edges are gone), and that no loop writes meanwhile (`Turns`).
  From it follow `TypeCorrect`, `Accounted`, `NoDangling`, and the action property
  `Incremental`. `DatesPages` needs more: a loop's operations end with the event that
  notes its page, what follows it only fills in event times, and, while nothing has
  failed, a page without one is still in the hands of a loop that will give it one
  (`Dating`), although a loop may write back a row that it read before another wrote.
* `ExtractionProofs`: `NothingVanishesInMerge`. A goroutine leaves its batch without a result
  only when the context has ended (`Leavers`); a failed task fails the run; after the
  deadline nothing is written or marked; and before it every extracted topic is
  carried by the points or the results, under its own name or in what a verdict merged
  it into, unless a verdict dropped it (`Tracked`). `Invariance` is their conjunction. The
  theorem ends where clustering begins; it does not say that what is found is stored. The pure functions are proved for inputs of any length: what the
  first n candidates are folded into is complete, in order, of the right number and
  the best of each topic (`Folded`), which gives `DedupeCorrect`, the fold against its
  definition (the start of the span where no range begins at message 0); and where windows end, how many messages of the user are in each, and
  what the cap leaves (`WindowsAre`). The types of a run (`Typed`: what the results of
  a batch are, phase by phase) bring them to the variables: `TypeCorrect`, `KeepsBest`,
  `WindowsAreSound`. `SourceIsShown` adds that every message that was meant by a topic
  lies in one of the ranges found for it, which begins with a message that was meant
  too (`Shown`); folding only makes ranges wider.
* `RecallProofs`: `TypeCorrect`, and from `Recent` `AnswersLive` and the action property
  `CacheForgets`. `AnswersWereLive` is not inductive alone: an answer may come out of
  `entityCache`, from a read long before, or out of the text cache, from another
  request, so `Recent` says of what is remembered, half answered or cached that it was
  live since its request began. A request that finds a text takes over the beginning of
  the one that made it, which is only sound because Recall remembers nothing of its own.
  From `Faithful`, `GetFinds` and `Substitutes`: a walk along the sequels is always at a
  point that stands behind what succeeds the hit it set out from, whatever jobs link
  and unlink meanwhile, and a get whose rows nobody touches has the row or its successor
  at every step.

Induction. The prover cannot instantiate a theorem with an operator parameter, so
`DataTheorems` states induction for sets (`NaturalInduction`, `BoundedInduction`: a set
that has 0 and with each number the next has all) and shows with it that recursive
functions over a sequence exist and are what their equations say (`FoldExists`,
`PassedOn`). That is why `Flatten`, `Among` and `Dedupe` are recursive functions here
and not folds of a library with an operator as argument.

Only model-checked: `JobsSettle`, `CloseStopsRunners`, `SessionEnds` and `RequestsEnd`.
They are liveness under fairness, which is out of the prover's reach, as is `ENABLED`.

## Where the code differs from what it says

The four violation runs, with the lines quoted in `PROJECT.json`: a failed re-push
is never retried (WorkerRepush); a component that meets one historical point twice is
forgotten (ClusterLost); contradictions overwrite each other (LearningContradictions);
ranges found in later windows of route non_prefix show the wiki loop another part of the
conversation (ExtractionRanges).

Five more promises fail in the models. They are not among the runs that `PROJECT.json`
lists; each has its configuration here, with which TLC finds the counterexample
(`tlc -config UsageMidnight.cfg UsageTracker`):

| Configuration, module | Promise | What the code does |
|---|---|---|
| UsageMidnight, UsageTracker | `CloseFlushes`: Close "flushes any remainder" (`usage.go:42`), "persists any pending delta" (`:121`) | the last flush starts a new day over and drops what was accumulated before midnight (`usage.go:74-79`) |
| ExtractionSpan, MCExtraction | `DedupeSpansRanges`: the fold "merges turn_range to the span" (`fork.go:456-458`) | a start of 0 counts as none, so that a range that begins at message 0 loses its beginning (`fork.go:485-487`): [0,1] and [2,2] give [2,2] |
| WikiContradicts, MCWikiLoop | `ContradictsBothWays`: the "EnsureContradictPair invariant" (`edges.go:29-31`) | the rebuild deletes edges of every kind that start from a touched page and leaves the reverse ones (`writer.go:621-629`, `edges.go:152-162`) |
| RecallGet, MCRecall | `GetNeverSubstitutes`: GetByID reports archived entities "unlike Search, which silently substitutes" (`recall.go:608-611`) | a row archived between its two reads is substituted (`recall.go:631-672`) |
| RecallCircle, MCRecall | `ResolveReturns`: ResolveReplacement "returns its live successor, or nil" (`replace.go:18-20`) | archived points whose sequels form a circle keep it walking (`replace.go:46-75`) |

Read in the code and not run:

* RebuildEdges deletes edges of every kind of a touched page (`writer.go:621-629`,
  `edges.go:152-162`) and adds reference edges only: related and sequel edges that
  wiki_write of the same job has stored are gone with the contradictions.
* The upsert of a vector deletes by id alone (`vec/sqlitevec.go:105-108`), so that agents
  with one topic take each other's vectors, in spite of the namespaces of
  `config/config.go:49-51`.
* What the ticker's flush or an Add finds accumulated after midnight is in no row either
  (`usage.go:74-80`, `95-98`).
* The points of V1.2 have no event time (`adjudicate.go:226-250`, `263-287`, `336`) although
  `service.go:399-401` says that candidates always have one for temporal filtering.
* A side of a contradiction resolves to the id of the member's topic even when the
  member was merged or renamed (`adjudicate.go:378-391`): an edge to nothing.
* Ranges that begin behind a window stay as the LLM gave them; the cap
  of route non_prefix drops the oldest windows; tool messages are rendered on route
  prefix only (`fork.go:281`), where the comment of `summarize` says the opposite
  (`fork.go:518-523`).
* In the window of RecallGet the answer for an existing id may also be an entity of
  another agent or nothing (`recall.go:631-672`), where the comment says "nil when
  unknown".
* ResolveReplacement walks sequel edges from points (`replace.go:17-23`), which only
  wiki_write adds, between pages: what replaces a page is found only if pages share
  ids with points. A superseded page that a point shares with its successor makes
  resultFor call itself without end.
* Replacements are not filtered again: they may be pages when the options exclude
  pages, lie outside the time window, or double another hit.

## Not modelled, and why

Which pages reconcile looks at (its breadth-first search and its fallback without an
LLM compute a list of ids for an agent loop whose writes are any in WikiLoop already),
prompts, rendering, titles, tags, logs and the graph view: data that no property tells
apart. Of wiki_write, claims, ratings of points, logs and vectors are left out; the
grouping of points into units is any. Of recall, the namespace resolver's cache, event
times, scores and the edges attached to results. Configuration and transcript parsing
are pure functions of strings. The keyword fallback index finds nothing for the
pipeline. HTTP clients and LLM retries show only as failures. Bridges and scripts run
outside of the service. An ignored error of `GetInterestPoint` in clustering
(`cluster.go:125`) and errors of the reads of a request are left out.

## Plan

1. (done) Worker with JobService, UsageTracker, Cluster, Learning; proofs of the
   worker's invariants, the accounting and `PlainAlone`.
2. (done) WikiLoop: page writes, backfill, RebuildEdges, pending links, with its
   invariants proved.
3. (done) Windows and Extraction: the routes, `runParallel` with cancellation,
   mergeCluster's verdicts; `NothingVanishesInMerge`.
4. (done) Recall: requests against the writes of jobs, replacement chains, the text
   cache; `AnswersLive`, `CacheForgets`.
5. Reconcile's propagation within max_hops in batches, each page at most once, as a
   function against a reference definition.
6. The event time of points in Learning, and ratings that two loops write back.
7. Bridges: push dedupe and retry against `/sessions`.
8. (done) Proofs of all safety properties the runs check, of the refinement of
   JobService, and of the extraction's pure functions.
9. Proofs for what 5 to 7 add; the contradictions that a run without the defect would
   keep, and the order of pushes of one session in JobService.
