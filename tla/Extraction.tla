------------------------------ MODULE Extraction ------------------------------
(***************************************************************************)
(* One run of ProcessSession up to the mark: the side LLM is asked about   *)
(* the windows of the transcript (Analyze), what it finds is embedded and  *)
(* merged by similarity (DedupeMerge, stage s1), and the points go on to   *)
(* be clustered, adjudicated and persisted, which Cluster and Learning     *)
(* model and here is one step.                                             *)
(*                                                                         *)
(* Source: src/internal/fork/fork.go, src/internal/interest/merge.go, the  *)
(* head of ProcessSession in src/internal/service/service.go and process   *)
(* in src/internal/worker/worker.go.                                       *)
(*                                                                         *)
(* Each of the three batches has a goroutine per task and a semaphore of   *)
(* MaxConc places. The windows' goroutines wait for a place whatever       *)
(* happens; those of runParallel leave without a word when the context     *)
(* ends, which it does when a task fails or the job's deadline has passed, *)
(* and in the second case runParallel returns no error. A call that a      *)
(* passed deadline catches may still answer.                               *)
(*                                                                         *)
(* After the windows only the topics of the candidates matter, and the     *)
(* model forgets the rest.                                                 *)
(***************************************************************************)
EXTENDS Windows, FiniteSets

CONSTANTS
    Routes,       \* config route, any of "prefix", "non_prefix", "full", "full2"
    Topics,       \* normalised topics
    Candidates,   \* bound: what the LLM may say of a window, one by one
    MaxTurns,     \* bound: messages of the transcript
    MaxAnswer,    \* bound: candidates in one answer
    MaxConc,      \* max_concurrency
    Zero          \* a Point that nobody has filled in

AnyTopic == Topics \cup {NoTopic}
Verdict == {"nil", "yes", "no"}
Candidate == [topic : AnyTopic, confidence : Nat, range : Int \X Int, worthy : Verdict]

ASSUME ExtractionAssumption ==
    /\ Routes \subseteq {"prefix", "non_prefix", "full", "full2"}
    /\ Candidates \subseteq Candidate
    /\ NoTopic \notin Topics
    /\ Zero \notin Topics \cup {NoTopic}
    /\ MaxConc \in Nat \ {0}
    /\ MaxTurns \in Nat /\ MaxAnswer \in Nat

VARIABLES
    turns, route,   \* the transcript and the configured route
    phase,          \* where ProcessSession is
    expired,        \* the deadline of the job has passed
    task,           \* the goroutines of the batch at hand
    result,         \* results[i] of the batch at hand
    cands,          \* what Analyze returns
    pts,            \* the points of DedupeMerge, by topic
    leader,         \* the first point of each point's cluster
    points,         \* what DedupeMerge returns, by topic
    stored,         \* Persist has written something
    meant,          \* ghost: messages the LLM meant by a topic
    owed,           \* ghost: topics that were extracted
    folded, voided  \* ghosts: what a verdict merged into what, and what it made nothing of

read == <<turns, route, meant>>
merging == <<pts, leader, points, owed, folded, voided>>
vars == <<turns, route, phase, expired, task, result, cands, pts, leader, points,
          stored, meant, owed, folded, voided>>

Status == {"waiting", "running", "ok", "failed", "left"}
windows == WindowsOf(turns, route)
Tasks == DOMAIN task
Running == {i \in Tasks : task[i] = "running"}

\* The context of the batch has ended.
Cancelled == expired \/ \E i \in Tasks : task[i] = "failed"

\* What the LLM may answer.
Answers == UNION {[1..n -> Candidates] : n \in 0..MaxAnswer}
\* About a cluster with these topics; a name of another topic has no effect.
Verdicts(grp) ==
    [action : {"merge"}, sources : SUBSET grp, merged : AnyTopic]
    \cup [action : {"keep", "other"}, sources : SUBSET grp, merged : {NoTopic}]

-----------------------------------------------------------------------------
TypeOK ==
    /\ turns \in Seq(Roles)
    /\ route \in Routes
    /\ phase \in {"start", "windows", "extracted", "embed", "merge", "merged",
                  "returned", "marked", "failed"}
    /\ expired \in BOOLEAN /\ stored \in BOOLEAN
    /\ Tasks \subseteq Nat
    /\ \A i \in Tasks : task[i] \in Status
    /\ Cardinality(Running) <= MaxConc
    /\ \A i \in DOMAIN pts : pts[i] \in AnyTopic \cup {Zero}
    /\ points \subseteq AnyTopic \cup {Zero}
    /\ owed \subseteq AnyTopic
    /\ folded \subseteq AnyTopic \X AnyTopic /\ voided \subseteq AnyTopic

Init ==
    /\ turns \in UNION {[1..n -> Roles] : n \in 0..MaxTurns}
    /\ route \in Routes
    /\ phase = "start"
    /\ expired = FALSE
    /\ task = <<>> /\ result = <<>> /\ cands = <<>>
    /\ pts = <<>> /\ leader = <<>> /\ points = {} /\ stored = FALSE
    /\ meant = [t \in Topics |-> {}]
    /\ owed = {} /\ folded = {} /\ voided = {}

Expire ==
    /\ phase \notin {"marked", "failed"}
    /\ ~expired
    /\ expired' = TRUE
    /\ UNCHANGED <<turns, route, phase, task, result, cands, pts, leader, points,
                   stored, meant, owed, folded, voided>>

-----------------------------------------------------------------------------
\* A batch: goroutines and their semaphore.

Begin(ids, none) ==
    /\ task' = [i \in ids |-> "waiting"]
    /\ result' = [i \in ids |-> none]

\* The second pass of full2 is a call after the first has returned.
InTurn(i) ==
    phase = "windows" /\ route = "full2" /\ i = 2 => task[1] = "ok"

\* Faulty variant: the semaphore has a place more.
MutantStart(i) ==
    /\ phase \in {"windows", "embed", "merge"}
    /\ task[i] = "waiting" /\ InTurn(i)
    /\ Cardinality(Running) <= MaxConc
    /\ task' = [task EXCEPT ![i] = "running"]
    /\ UNCHANGED <<phase, expired, result, cands, stored, read, merging>>

\* A place in the semaphore.
Start(i) ==
    /\ phase \in {"windows", "embed", "merge"}
    /\ task[i] = "waiting" /\ InTurn(i)
    /\ Cardinality(Running) < MaxConc
    /\ task' = [task EXCEPT ![i] = "running"]
    /\ UNCHANGED <<phase, expired, result, cands, stored, read, merging>>

\* The other branch of the select in runParallel.
Leave(i) ==
    /\ phase \in {"embed", "merge"}
    /\ task[i] = "waiting"
    /\ Cancelled
    /\ task' = [task EXCEPT ![i] = "left"]
    /\ UNCHANGED <<phase, expired, result, cands, stored, read, merging>>

\* The call fails. A cluster of one point makes none.
Fail(i) ==
    /\ task[i] = "running"
    /\ phase = "merge" => \E j \in DOMAIN pts : leader[j] = i /\ j # i
    /\ task' = [task EXCEPT ![i] = "failed"]
    /\ UNCHANGED <<phase, expired, result, cands, stored, read, merging>>

Answered(i, r) ==
    /\ task[i] = "running"
    /\ task' = [task EXCEPT ![i] = "ok"]
    /\ result' = [result EXCEPT ![i] = r]
    /\ UNCHANGED <<phase, expired, cands, stored>>

\* Faulty variant: a goroutine that leaves does not tell the wait group.
MutantSettled == \A i \in Tasks : task[i] \in {"ok", "failed"}

\* wg.Wait() returns; in full2 a failed first pass is the end as well.
Settled ==
    \/ \A i \in Tasks : task[i] \in {"ok", "failed", "left"}
    \/ phase = "windows" /\ route = "full2" /\ task[1] = "failed"
AnyFailed == \E i \in Tasks : task[i] = "failed"

-----------------------------------------------------------------------------
\* Analyze.

Analyze ==
    /\ phase = "start"
    /\ IF turns = <<>>
         THEN phase' = "returned" /\ UNCHANGED <<task, result>>
         ELSE phase' = "windows" /\ Begin(1..Len(windows), <<>>)
    /\ UNCHANGED <<expired, cands, stored, read, merging>>

\* The messages of the transcript that the turns of a range stand for.
Meant(c, w, idx) ==
    LET s == IF c.range[1] < 1 THEN 1 ELSE c.range[1]
        e == Clamp(c.range[2], s, Len(idx))
    IN  IF c.range = <<0, 0>> THEN {} ELSE {w.from + idx[k] : k \in {k \in s..e : k <= Len(idx)}}

\* extract and extractAdditional. A window without a turn to show is not asked about.
Extract(i, raw) ==
    LET w == windows[i]
        idx == RenderIndices(turns, w, route = "prefix")
        kept == Extracted(raw, <<>>)    \* the same candidates with their ranges as they came
    IN  /\ phase = "windows"
        /\ idx = <<>> => raw = <<>>
        /\ Answered(i, Extracted(raw, idx))
        /\ meant' = [t \in Topics |-> meant[t] \cup
                       UNION {Meant(kept[k], w, idx) : k \in {k \in DOMAIN kept : kept[k].topic = t}}]
        /\ UNCHANGED <<turns, route, merging>>

CollectWindows ==
    /\ phase = "windows" /\ Settled
    /\ IF AnyFailed
         THEN phase' = "failed" /\ UNCHANGED cands
         ELSE phase' = "extracted" /\ cands' = Dedupe(Flatten(result))
    /\ UNCHANGED <<expired, task, result, stored, read, merging>>

-----------------------------------------------------------------------------
\* DedupeMerge.

BeginMerge ==
    LET deduped == DedupeCandidates(cands)
    IN  /\ phase = "extracted"
        /\ IF cands = <<>>
             THEN phase' = "returned" /\ UNCHANGED <<task, result, owed>>
             ELSE /\ phase' = "embed"
                  /\ Begin(1..Len(deduped), Zero)
                  /\ owed' = {deduped[i].topic : i \in 1..Len(deduped)}
        /\ pts' = [i \in 1..Len(deduped) |-> deduped[i].topic]
        /\ turns' = <<>> /\ cands' = <<>> /\ meant' = [t \in Topics |-> {}]
        /\ UNCHANGED <<route, expired, stored, leader, points, folded, voided>>

\* pts[i] is filled in.
Embed(i) ==
    /\ phase = "embed"
    /\ Answered(i, pts[i])
    /\ UNCHANGED <<read, merging>>

\* connectedComponents: similarity is anything, but a point without a vector is
\* like no other. A component is known by its first point.
Components(p) ==
    {f \in [DOMAIN p -> DOMAIN p] :
        \A i \in DOMAIN p : /\ f[i] <= i /\ f[f[i]] = f[i]
                            /\ p[i] = Zero => \A j \in DOMAIN p : f[j] = f[i] => j = i}

CollectEmbeddings ==
    /\ phase = "embed" /\ Settled
    /\ IF AnyFailed
         THEN phase' = "failed" /\ UNCHANGED <<task, result, pts, leader>>
         ELSE /\ phase' = "merge"
              /\ pts' = result
              /\ leader' \in Components(result)
              /\ Begin({i \in DOMAIN result : leader'[i] = i}, {})
    /\ UNCHANGED <<expired, cands, stored, read, points, owed, folded, voided>>

ClusterOf(i) == {pts[j] : j \in {j \in DOMAIN pts : leader[j] = i}}
Sources(vs) == UNION {v.sources : v \in vs}

\* Verdicts come as an array; at most two are told apart, and what they make is a
\* set of topics, so that their order is not.
\* mergeCluster: "merge" (and "compose") makes the merged point, "keep" the sources, any
\* other action nothing; what no verdict names passes.
MergeCluster(grp, vs) ==
    {v.merged : v \in {v \in vs : v.action = "merge"}}
    \cup (UNION {v.sources \cap grp : v \in {v \in vs : v.action = "keep"}})
    \cup (grp \ Sources(vs))

\* What the verdicts merge into what; those with an action that is none of the
\* three consume their sources and make nothing of them.
FoldedBy(vs) == UNION {v.sources \X {v.merged} : v \in {v \in vs : v.action = "merge"}}
VoidedBy(vs) == Sources({v \in vs : v.action = "other"})

Merge(i, vs) ==
    /\ phase = "merge"
    /\ (\A j \in DOMAIN pts : leader[j] = i => j = i) => vs = {}
    /\ Answered(i, MergeCluster(ClusterOf(i), vs))
    /\ folded' = folded \cup FoldedBy(vs)
    /\ voided' = voided \cup VoidedBy(vs)
    /\ UNCHANGED <<read, pts, leader, points, owed>>

CollectClusters ==
    /\ phase = "merge" /\ Settled
    /\ points' = IF AnyFailed THEN {} ELSE UNION {result[i] : i \in Tasks}
    /\ phase' = IF AnyFailed THEN "failed" ELSE IF points' = {} THEN "returned" ELSE "merged"
    /\ task' = <<>> /\ result' = <<>>
    /\ UNCHANGED <<expired, cands, stored, read, pts, leader, owed, folded, voided>>

-----------------------------------------------------------------------------
\* The rest of the run.

\* Cluster, Adjudicate, Persist: nothing is written once the deadline has passed, but
\* a run that writes nothing (all verdicts void) may come to its end.
Persist ==
    /\ phase = "merged"
    /\ phase' \in {"failed", "returned"}
    /\ \/ UNCHANGED stored
       \/ ~expired /\ stored' = TRUE
    /\ UNCHANGED <<expired, task, result, cands, read, merging>>

\* Faulty variant: the mark is made whether the deadline has passed or not.
MutantMarkProcessed ==
    /\ phase = "returned"
    /\ phase' = "marked"
    /\ UNCHANGED <<expired, task, result, cands, stored, read, merging>>

\* MarkTranscriptProcessed runs under the same deadline.
MarkProcessed ==
    /\ phase = "returned"
    /\ \/ ~expired /\ phase' = "marked"
       \/ phase' = "failed"
    /\ UNCHANGED <<expired, task, result, cands, stored, read, merging>>

Step ==
    \/ Analyze \/ CollectWindows \/ BeginMerge \/ CollectEmbeddings
    \/ CollectClusters \/ Persist \/ MarkProcessed
    \/ \E i \in Tasks :
         \/ Start(i) \/ Leave(i) \/ Fail(i) \/ Embed(i)
         \/ phase = "windows" /\ task[i] = "running" /\ \E raw \in Answers : Extract(i, raw)
         \/ phase = "merge" /\ task[i] = "running" /\
              \E vs \in {{}} \cup {{v, w} : v, w \in Verdicts(ClusterOf(i))} : Merge(i, vs)

Next == Expire \/ Step

Spec == Init /\ [][Next]_vars /\ WF_vars(Step)
-----------------------------------------------------------------------------
\* Properties.

\* A topic that is among the points of S, was merged into one of them, or was made
\* nothing of by a verdict.
Carried(t, S) == t \in S \/ t \in voided \/ \E p \in S : <<t, p>> \in folded

\* Merging loses nothing: when a run has written points or marked its transcript, each
\* topic the windows have found went on to be clustered, under its own name or in the
\* point that a verdict merged it into, or a verdict with an unknown action dropped it.
\* A goroutine of runParallel that leaves (merge.go:129) leaves a gap only in a batch
\* whose error ends the run, or after a deadline that lets nothing be written or
\* marked. (What clustering then loses is Cluster's EveryComponentAdjudicated.)
MergeLosesNothing ==
    stored \/ phase = "marked" => \A t \in owed : Carried(t, points)

\* The windows, in the order in which they came, are folded into one candidate per
\* topic with the best confidence, the first verdict on a page of its own and the
\* span of the ranges, if none begins at message 0 (DedupeSpansRanges is the promise
\* without that condition), and folding what is folded changes nothing (merge.go:286-288
\* does it again).
DedupeKeepsBest ==
    phase = "extracted" =>
        IsDedupeOf(cands, Flatten(result)) /\ DedupeCandidates(cands) = cands

\* "merges turn_range to the span" (fork.go:456-458): the range of a folded candidate
\* begins where the first of the ranges for its topic begins. ExtractionSpan.cfg finds it
\* violated: a start at message 0 counts as none (fork.go:485-487).
DedupeSpansRanges ==
    phase = "extracted" =>
        LET said == Flatten(result)
        IN  \A k \in DOMAIN cands : cands[k].topic # NoTopic =>
              cands[k].range[1] =
                SpanStart({said[i].range : i \in {i \in DOMAIN said : said[i].topic = cands[k].topic}})

\* The wiki loop is shown every message the LLM meant by a topic, by the range that the
\* candidate has in the end (fork.go:405-410, writer.go:492-493), except what it meant
\* by the first message, whose index 0 counts as none.
SegmentsShowSource ==
    phase = "extracted" =>
        \A k \in DOMAIN cands :
            LET t == cands[k].topic
            IN  t # NoTopic /\ 0 \notin meant[t] =>
                  {m \in meant[t] : turns[m + 1] # "tool"} \subseteq DialogSegment(turns, cands[k].range)

\* The same on the routes whose windows begin with the transcript.
PrefixSegmentsShowSource == route # "non_prefix" => SegmentsShowSource

\* Windows of route prefix are prefixes of one another (so that prompts are, fork.go:
\* 109-113), each but the first and the last has UserStep messages of the user more than
\* the one before, and the last is the transcript; those of route non_prefix follow on
\* one another to its end, and from its beginning unless the cap has cut it off.
WindowsSound ==
    phase = "windows" =>
        LET n == Len(windows)
            UsersIn(w) == Cardinality({i \in (w.from + 1)..w.to : turns[i] = "user"})
        IN  /\ n \in 1..(MaxWindows + 1)
            /\ windows[n].to = Len(turns)
            /\ route \in {"prefix", "non_prefix"} => n <= MaxWindows
            /\ route = "prefix" =>
                 /\ \A k \in 1..n : windows[k].from = 0
                 /\ \A k \in 1..(n - 1) :
                      /\ windows[k].to < windows[k + 1].to
                      /\ UsersIn(windows[k]) % UserStep = 0 /\ turns[windows[k].to] = "user"
                      /\ k + 1 < n => UsersIn(windows[k + 1]) = UsersIn(windows[k]) + UserStep
            /\ route = "non_prefix" =>
                 /\ n < MaxWindows => windows[1].from = 0
                 /\ \A k \in 1..(n - 1) :
                      windows[k].to = windows[k + 1].from /\ UsersIn(windows[k]) = UserStep

\* Every run comes to an end, by the mark or by an error: nobody waits for a place that
\* is not given back or for a goroutine that has gone.
SessionEnds == <>(phase \in {"marked", "failed"})
=============================================================================
