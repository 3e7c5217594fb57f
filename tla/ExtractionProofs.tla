--------------------------- MODULE ExtractionProofs ---------------------------
(***************************************************************************)
(* What a session promises, for every transcript, every answer, every      *)
(* similarity and every number of goroutines and places. There are four    *)
(* parts.                                                                  *)
(*                                                                         *)
(* 1. Merging loses nothing that the windows found. A goroutine leaves its *)
(* batch without a result only when the batch's context has ended (Leavers). *)
(* If a task has failed the run fails. Otherwise the deadline has passed,  *)
(* and then the run may well go on with gaps, but it can neither write nor *)
(* mark. While the deadline has not passed, every topic that was extracted *)
(* is carried by the points or the results, under its own name or in what a *)
(* verdict merged it into, unless a verdict dropped it (Tracked).          *)
(*                                                                         *)
(* 2. Folding: what the first n candidates are folded into is complete, in *)
(* order, the best of each topic and of the right number (Folded), and each *)
(* candidate keeps it so. Windows: where the boundaries of a transcript are, *)
(* and what the two ways to cut it make of them.                           *)
(*                                                                         *)
(* 3. Types (Typed): what a batch's results are, phase by phase. Part 2 then *)
(* gives what the candidates and the windows of every session are.         *)
(*                                                                         *)
(* 4. Every message that was meant by a topic lies in one of its ranges    *)
(* (Shown), so that it lies in the folded one.                             *)
(***************************************************************************)
EXTENDS Extraction, DataTheorems

-----------------------------------------------------------------------------
(* 1. Merging loses nothing.                                               *)

\* All topics that were extracted go on to be clustered, or a verdict dropped them.
Represented == \A t \in owed : Carried(t, points)

\* Each filled point has the topic it is filled for.
EmbedSound ==
    /\ Tasks = DOMAIN pts /\ DOMAIN result = DOMAIN pts
    /\ owed \subseteq {pts[i] : i \in DOMAIN pts}
    /\ \A i \in Tasks : task[i] = "ok" => result[i] = pts[i]

\* Every point is in a cluster with a task, and what a finished task was given is
\* carried by its result.
MergeSound ==
    /\ expired \/ owed \subseteq {pts[i] : i \in DOMAIN pts}
    /\ \A j \in DOMAIN pts : leader[j] \in Tasks
    /\ DOMAIN result = Tasks
    /\ \A i \in Tasks : task[i] = "ok" => \A t \in ClusterOf(i) : Carried(t, result[i])

\* Only the end of the context makes a goroutine leave.
Leavers ==
    phase \in {"embed", "merge"} => \A i \in Tasks : task[i] = "left" => Cancelled

\* Where the topics are that were extracted, phase by phase.
Tracked ==
    /\ phase \in {"start", "windows", "extracted"} => owed = {}
    /\ phase = "embed" => EmbedSound
    /\ phase = "merge" => MergeSound
    /\ phase \in {"merged", "returned"} => expired \/ Represented
    /\ phase = "marked" => Represented
    /\ stored => Represented /\ phase \in {"returned", "marked", "failed"}

Inv == expired \in BOOLEAN /\ Leavers /\ Tracked

-----------------------------------------------------------------------------
\* Nothing is owed yet.
LEMMA InitInv == Init => Inv
  BY DEF Init, Inv, Leavers, Tracked, Represented

\* Steps within a batch touch neither the points nor what is owed.
LEMMA BatchStep ==
    ASSUME Inv, NEW i \in Tasks, Start(i) \/ Leave(i) \/ Fail(i)
    PROVE  Inv'
<1>1. /\ DOMAIN task' = DOMAIN task /\ \A j \in Tasks : j # i => task'[j] = task[j]
      /\ UNCHANGED <<phase, expired, result, stored, pts, leader, points, owed, folded, voided>>
      /\ task'[i] \in {"running", "left", "failed"}
      /\ task[i] # "failed"
      /\ task'[i] = "left" => phase \in {"embed", "merge"} /\ Cancelled
  BY DEF Start, Leave, Fail, merging, Tasks
<1>2. ASSUME phase = "merge" PROVE MergeSound'
  <2>1. MergeSound
    BY <1>2 DEF Inv, Tracked
  <2>2. \A j : ClusterOf(j)' = ClusterOf(j)
    BY <1>1 DEF ClusterOf
  <2> QED
    BY <1>1, <2>1, <2>2 DEF MergeSound, Tasks, Carried
<1>3. ASSUME phase = "embed" PROVE EmbedSound'
  BY <1>1, <1>3 DEF Inv, Tracked, EmbedSound, Tasks
<1>4. Tracked'
  BY <1>1, <1>2, <1>3 DEF Inv, Tracked, Represented, Carried
<1>5. Cancelled => Cancelled'
  BY <1>1 DEF Cancelled, Tasks
<1>6. Leavers'
  BY <1>1, <1>5 DEF Inv, Leavers, Tasks
<1> QED
  BY <1>1, <1>4, <1>6 DEF Inv

\* Carried, by what the verdicts have done after the step.
CarriedThen(t, S) == t \in S \/ t \in voided' \/ \E p \in S : <<t, p>> \in folded'

\* A result comes in.
LEMMA AnsweredInv ==
    ASSUME Inv, NEW i \in Tasks, NEW r, Answered(i, r),
           UNCHANGED <<pts, leader, points, owed>>,
           folded \subseteq folded', voided \subseteq voided',
           phase \in {"start", "windows", "extracted", "embed", "merge"},
           phase = "embed" => r = pts[i],
           phase = "merge" => \A t \in ClusterOf(i) : CarriedThen(t, r)
    PROVE  Inv'
<1>1. /\ DOMAIN task' = DOMAIN task /\ DOMAIN result' = DOMAIN result
      /\ \A j \in Tasks : j # i => task'[j] = task[j]
      /\ \A j \in DOMAIN result : j # i => result'[j] = result[j]
      /\ i \in DOMAIN result => result'[i] = r
      /\ UNCHANGED <<phase, expired, stored>>
      /\ task'[i] = "ok" /\ task[i] = "running"
  BY DEF Answered, Tasks
<1>2. ASSUME phase = "merge" PROVE MergeSound'
  <2>1. MergeSound
    BY <1>2 DEF Inv, Tracked
  <2>2. \A j : ClusterOf(j)' = ClusterOf(j)
    BY DEF ClusterOf
  <2>3. ASSUME NEW j \in Tasks', task'[j] = "ok"
        PROVE  \A t \in ClusterOf(j) : CarriedThen(t, result'[j])
    <3>1. CASE j = i
      BY <1>1, <1>2, <2>1, <3>1 DEF MergeSound, Tasks
    <3>2. CASE j # i
      <4>1. \A t \in ClusterOf(j) : Carried(t, result[j])
        BY <1>1, <2>1, <2>3, <3>2 DEF MergeSound, Tasks
      <4>2. result'[j] = result[j]
        BY <1>1, <2>1, <2>3, <3>2 DEF MergeSound, Tasks
      <4> QED
        BY <4>1, <4>2 DEF Carried, CarriedThen
    <3> QED
      BY <3>1, <3>2
  <2> QED
    BY <1>1, <2>1, <2>2, <2>3 DEF MergeSound, Tasks, Carried, CarriedThen
<1>3. ASSUME phase = "embed" PROVE EmbedSound'
  BY <1>1, <1>3 DEF Inv, Tracked, EmbedSound, Tasks
<1>4. Tracked'
  BY <1>1, <1>2, <1>3 DEF Inv, Tracked
<1>5. Cancelled => Cancelled'
  BY <1>1 DEF Cancelled, Tasks
<1>6. Leavers'
  BY <1>1, <1>5 DEF Inv, Leavers, Tasks
<1> QED
  BY <1>1, <1>4, <1>6 DEF Inv

\* A point passes, or a verdict keeps it, merges it into another or drops it.
LEMMA MergeClusterKeeps ==
    ASSUME NEW grp, NEW vs \in SUBSET Verdicts(grp), NEW t \in grp
    PROVE  \/ t \in MergeCluster(grp, vs) \/ t \in VoidedBy(vs)
           \/ \E p \in MergeCluster(grp, vs) : <<t, p>> \in FoldedBy(vs)
<1>1. CASE t \notin Sources(vs)
  BY <1>1 DEF MergeCluster
<1>2. CASE t \in Sources(vs)
  <2>1. PICK v \in vs : t \in v.sources
    BY <1>2 DEF Sources
  <2>2. v.action \in {"merge", "keep", "other"}
    BY DEF Verdicts
  <2>3. CASE v.action = "merge"
    <3>1. v.merged \in MergeCluster(grp, vs)
      BY <2>3 DEF MergeCluster
    <3>2. <<t, v.merged>> \in FoldedBy(vs)
      BY <2>1, <2>3 DEF FoldedBy
    <3> QED
      BY <3>1, <3>2
  <2>4. CASE v.action = "keep"
    BY <2>1, <2>4 DEF MergeCluster
  <2>5. CASE v.action = "other"
    BY <2>1, <2>5 DEF VoidedBy, Sources
  <2> QED
    BY <2>2, <2>3, <2>4, <2>5
<1> QED
  BY <1>1, <1>2

\* What is owed from here on is the topics of the points.
LEMMA BeginMergeInv ==
    ASSUME Inv, BeginMerge
    PROVE  Inv'
<1> DEFINE deduped == DedupeCandidates(cands)
           Ids == 1..Len(deduped)
<1>1. ~stored
  BY DEF BeginMerge, Inv, Tracked
<1>2. UNCHANGED <<expired, stored, points, folded, voided>> /\ phase = "extracted" /\ owed = {}
  BY DEF BeginMerge, Inv, Tracked
<1>3. CASE cands = <<>>
  BY <1>2, <1>3 DEF BeginMerge, Inv, Leavers, Tracked, Represented
<1>4. CASE cands # <<>>
  <2>1. /\ phase' = "embed"
        /\ task' = [i \in Ids |-> "waiting"]
        /\ result' = [i \in Ids |-> Zero]
        /\ owed' = {deduped[i].topic : i \in Ids}
        /\ pts' = [i \in Ids |-> deduped[i].topic]
    BY <1>4 DEF BeginMerge, Begin
  <2> HIDE DEF deduped
  <2>2. DOMAIN task' = Ids /\ DOMAIN pts' = Ids /\ DOMAIN result' = Ids
    BY <2>1
  <2>3. \A i \in Ids : task'[i] = "waiting" /\ pts'[i] = deduped[i].topic
    BY <2>1
  <2> HIDE DEF Ids
  <2>4. owed' \subseteq {pts'[i] : i \in DOMAIN pts'}
    BY <2>1, <2>2, <2>3
  <2>5. EmbedSound'
    BY <2>2, <2>3, <2>4 DEF EmbedSound, Tasks
  <2> QED
    BY <1>1, <1>2, <2>1, <2>2, <2>3, <2>5 DEF Inv, Leavers, Tracked, Tasks
<1> QED
  BY <1>3, <1>4

\* Unless the deadline has passed all points have been filled in.
LEMMA CollectEmbeddingsInv ==
    ASSUME Inv, CollectEmbeddings
    PROVE  Inv'
<1>1. /\ UNCHANGED <<expired, stored, points, owed, folded, voided>> /\ phase = "embed" /\ EmbedSound
      /\ ~stored /\ Leavers /\ expired \in BOOLEAN
  BY DEF CollectEmbeddings, Inv, Tracked, read
<1>2. CASE AnyFailed
  BY <1>1, <1>2 DEF CollectEmbeddings, Inv, Leavers, Tracked
<1>3. CASE ~AnyFailed
  <2> DEFINE Leaders == {i \in DOMAIN result : leader'[i] = i}
  <2>1. /\ phase' = "merge" /\ pts' = result /\ leader' \in Components(result)
        /\ task' = [i \in Leaders |-> "waiting"] /\ result' = [i \in Leaders |-> {}]
    BY <1>3 DEF CollectEmbeddings, Begin
  <2>2. ASSUME ~expired PROVE owed \subseteq {result[i] : i \in DOMAIN result}
    <3>1. \A i \in Tasks : task[i] = "ok"
      BY <1>1, <1>3, <2>2 DEF CollectEmbeddings, Settled, AnyFailed, Leavers, Cancelled
    <3>2. \A i \in DOMAIN result : result[i] = pts[i]
      BY <1>1, <3>1 DEF EmbedSound
    <3> QED
      BY <1>1, <3>2 DEF EmbedSound
  <2>3. \A j \in DOMAIN result : leader'[j] \in Leaders
    BY <2>1 DEF Components
  <2>4. DOMAIN task' = Leaders /\ DOMAIN result' = Leaders /\ \A i \in Leaders : task'[i] = "waiting"
    BY <2>1
  <2> HIDE DEF Leaders
  <2>5. MergeSound'
    BY <1>1, <2>1, <2>2, <2>3, <2>4 DEF MergeSound, Tasks
  <2>6. Leavers'
    BY <2>4 DEF Leavers, Tasks
  <2> QED
    BY <1>1, <2>1, <2>5, <2>6 DEF Inv, Tracked
<1> QED
  BY <1>2, <1>3

\* Unless the deadline has passed all clusters have their result.
LEMMA CollectClustersInv ==
    ASSUME Inv, CollectClusters
    PROVE  Inv'
<1>1. /\ UNCHANGED <<expired, stored, owed, folded, voided>> /\ phase = "merge" /\ MergeSound
      /\ ~stored /\ Leavers /\ expired \in BOOLEAN
      /\ phase' \in {"failed", "returned", "merged"}
  BY DEF CollectClusters, Inv, Tracked, read
<1>2. CASE AnyFailed
  BY <1>1, <1>2 DEF CollectClusters, Inv, Leavers, Tracked
<1>3. ASSUME ~AnyFailed, ~expired PROVE Represented'
  <2>1. \A i \in Tasks : task[i] = "ok"
    BY <1>1, <1>3 DEF CollectClusters, Settled, AnyFailed, Leavers, Cancelled
  <2>2. points' = UNION {result[i] : i \in Tasks}
    BY <1>3 DEF CollectClusters
  <2>3. ASSUME NEW j \in DOMAIN pts PROVE Carried(pts[j], points')
    <3>1. leader[j] \in Tasks /\ pts[j] \in ClusterOf(leader[j])
      BY <1>1 DEF MergeSound, ClusterOf
    <3>2. Carried(pts[j], result[leader[j]])
      BY <1>1, <2>1, <3>1 DEF MergeSound
    <3>3. result[leader[j]] \subseteq points'
      BY <2>2, <3>1
    <3> QED
      BY <3>2, <3>3 DEF Carried
  <2>4. \A t \in owed : Carried(t, points')
    BY <1>1, <1>3, <2>3 DEF MergeSound
  <2> QED
    BY <1>1, <2>4 DEF Represented, Carried
<1> QED
  BY <1>1, <1>2, <1>3 DEF Inv, Leavers, Tracked

-----------------------------------------------------------------------------
\* Every step keeps the invariant.
LEMMA NextInv ==
    ASSUME Inv, [Next]_vars
    PROVE  Inv'
<1>1. CASE Expire
  <2>1. UNCHANGED <<phase, task, result, pts, leader, points, stored, owed, folded, voided>> /\ expired'
    BY <1>1 DEF Expire
  <2>2. \A j : ClusterOf(j)' = ClusterOf(j)
    BY <2>1 DEF ClusterOf
  <2>3. phase = "merge" => MergeSound'
    BY <2>1, <2>2 DEF Inv, Tracked, MergeSound, Tasks, Carried
  <2>4. phase = "embed" => EmbedSound'
    BY <2>1 DEF Inv, Tracked, EmbedSound, Tasks
  <2>5. expired' = TRUE
    BY <1>1 DEF Expire
  <2>6. Leavers'
    BY <2>5 DEF Leavers, Cancelled
  <2> QED
    BY <2>1, <2>3, <2>4, <2>5, <2>6 DEF Inv, Tracked, Represented, Carried
<1>2. CASE Analyze
  BY <1>2 DEF Analyze, merging, Inv, Leavers, Tracked, Represented
<1>3. CASE CollectWindows
  BY <1>3 DEF CollectWindows, merging, Inv, Leavers, Tracked
<1>4. CASE BeginMerge
  BY <1>4, BeginMergeInv
<1>5. CASE CollectEmbeddings
  BY <1>5, CollectEmbeddingsInv
<1>6. CASE CollectClusters
  BY <1>6, CollectClustersInv
<1>7. CASE Persist
  BY <1>7 DEF Persist, merging, Inv, Leavers, Tracked, Represented, Carried
<1>8. CASE MarkProcessed
  BY <1>8 DEF MarkProcessed, merging, Inv, Leavers, Tracked, Represented, Carried
<1>9. ASSUME NEW i \in Tasks, Start(i) \/ Leave(i) \/ Fail(i) PROVE Inv'
  BY <1>9, BatchStep
<1>10. ASSUME NEW i \in Tasks, Embed(i) PROVE Inv'
  BY <1>10, AnsweredInv DEF Embed, merging
<1>11. ASSUME NEW i \in Tasks, NEW raw, Extract(i, raw) PROVE Inv'
  <2>1. PICK r : Answered(i, r)
    BY <1>11 DEF Extract
  <2>2. UNCHANGED merging /\ phase = "windows"
    BY <1>11 DEF Extract
  <2> QED
    BY <2>1, <2>2, AnsweredInv DEF merging
<1>12. ASSUME NEW i \in Tasks, NEW vs \in SUBSET Verdicts(ClusterOf(i)), Merge(i, vs) PROVE Inv'
  <2>1. Answered(i, MergeCluster(ClusterOf(i), vs)) /\ phase = "merge"
        /\ UNCHANGED <<pts, leader, points, owed>>
        /\ folded' = folded \cup FoldedBy(vs) /\ voided' = voided \cup VoidedBy(vs)
    BY <1>12 DEF Merge
  <2>2. ASSUME NEW t \in ClusterOf(i) PROVE CarriedThen(t, MergeCluster(ClusterOf(i), vs))
    BY <2>1, MergeClusterKeeps DEF CarriedThen
  <2> QED
    BY <2>1, <2>2, AnsweredInv
<1>13. CASE UNCHANGED vars
  <2>1. UNCHANGED <<phase, expired, task, result, pts, leader, points, stored, owed, folded, voided>>
    BY <1>13 DEF vars
  <2>2. \A j : ClusterOf(j)' = ClusterOf(j)
    BY <2>1 DEF ClusterOf
  <2> QED
    BY <2>1, <2>2 DEF Inv, Leavers, Cancelled, Tracked, Represented, EmbedSound, MergeSound, Tasks, Carried
<1> QED
  BY <1>1, <1>2, <1>3, <1>4, <1>5, <1>6, <1>7, <1>8, <1>9, <1>10, <1>11, <1>12, <1>13
     DEF Next, Step

\* ProcessSession keeps the invariant, whatever fails and whenever it expires.
THEOREM Invariance == Spec => []Inv
  BY InitInv, NextInv, PTL DEF Spec

\* Once a run has written or marked, what was extracted has gone on to be clustered, in a
\* point of its own or in the one a verdict merged it into, unless a verdict with an
\* unknown action dropped it (runParallel's silent leavers do no harm).
THEOREM NothingVanishesInMerge == Spec => []MergeLosesNothing
  <1>1. Inv => MergeLosesNothing
    BY DEF Inv, Tracked, Represented, MergeLosesNothing
  <1> QED
    BY <1>1, Invariance, PTL

-----------------------------------------------------------------------------
(* 2. Folding candidates.                                                  *)

\* Candidates whose ranges have been mapped: none begins before the first message.
Mapped == [topic : AnyTopic, confidence : Nat, range : Nat \X Int, worthy : Verdict]

\* The first n candidates of s on topic t, and the topics among them.
On(s, n, t) == {i \in 1..n : s[i].topic = t}
Said(s, n) == {s[i].topic : i \in 1..n} \ {NoTopic}

\* Entry e has the highest confidence, the first verdict and the span of the candidates
\* I of s.
Best(e, s, I) ==
    /\ I # {}
    /\ \E i \in I : s[i].confidence = e.confidence
    /\ \A i \in I : s[i].confidence <= e.confidence
    /\ \E i \in I : s[i].range[1] = e.range[1]
    /\ \A i \in I : s[i].range[1] # 0 => e.range[1] # 0 /\ e.range[1] <= s[i].range[1]
    /\ \E i \in I : s[i].range[2] = e.range[2]
    /\ \A i \in I : s[i].range[2] <= e.range[2]
    /\ e.worthy = "nil" => \A i \in I : s[i].worthy = "nil"
    /\ e.worthy # "nil" => \E i \in I : /\ s[i].worthy = e.worthy
                                        /\ \A j \in I : j < i => s[j].worthy = "nil"

\* out is what the first n candidates of s are folded into.
Complete(out, s, n) == \A t \in Said(s, n) : \E k \in 1..Len(out) : out[k].topic = t
Ordered(out, s, n) ==
    \A j, k \in 1..Len(out) :
        j < k /\ out[j].topic # NoTopic /\ out[k].topic # NoTopic =>
            \E p \in On(s, n, out[j].topic) : \A q \in On(s, n, out[k].topic) : p < q
AllBest(out, s, n) ==
    \A k \in 1..Len(out) : out[k].topic # NoTopic => Best(out[k], s, On(s, n, out[k].topic))
Counted(out, s, n) == Len(out) = Cardinality(Said(s, n)) + Cardinality(On(s, n, NoTopic))
Folded(out, s, n) ==
    Complete(out, s, n) /\ Ordered(out, s, n) /\ AllBest(out, s, n) /\ Counted(out, s, n)

\* A folded entry is a candidate on the same topic.
LEMMA FoldIntoFields ==
    ASSUME NEW m \in Mapped, NEW c \in Mapped
    PROVE  LET f == FoldInto(m, c)
           IN  /\ f \in Mapped /\ f.topic = m.topic
               /\ f.confidence = IF c.confidence > m.confidence THEN c.confidence ELSE m.confidence
               /\ f.range[1] = IF c.range[1] > 0 /\ (m.range[1] = 0 \/ c.range[1] < m.range[1])
                               THEN c.range[1] ELSE m.range[1]
               /\ f.range[2] = IF c.range[2] > m.range[2] THEN c.range[2] ELSE m.range[2]
               /\ f.worthy = IF m.worthy = "nil" THEN c.worthy ELSE m.worthy
<1>1. /\ m.topic \in AnyTopic /\ m.confidence \in Nat /\ m.range \in Nat \X Int /\ m.worthy \in Verdict
      /\ c.topic \in AnyTopic /\ c.confidence \in Nat /\ c.range \in Nat \X Int /\ c.worthy \in Verdict
  BY DEF Mapped
<1>2. /\ m.range[1] \in Nat /\ m.range[2] \in Int /\ c.range[1] \in Nat /\ c.range[2] \in Int
  BY <1>1
<1> QED BY <1>1, <1>2 DEF Mapped, FoldInto

\* A candidate begins an entry of its own, or is folded into the first on its topic.
LEMMA AddCases ==
    ASSUME NEW out \in Seq(Mapped), NEW c \in Mapped
    PROVE  \/ /\ c.topic = NoTopic \/ \A k \in 1..Len(out) : out[k].topic # c.topic
              /\ AddCandidate(out, c) = Append(out, c)
           \/ /\ c.topic # NoTopic
              /\ \E k \in 1..Len(out) :
                    /\ out[k].topic = c.topic
                    /\ AddCandidate(out, c) = [out EXCEPT ![k] = FoldInto(out[k], c)]
<1> DEFINE same == {i \in 1..Len(out) : out[i].topic = c.topic}
<1>1. AddCandidate(out, c) = IF c.topic = NoTopic \/ same = {} THEN Append(out, c)
                             ELSE [out EXCEPT ![Min(same)] = FoldInto(out[Min(same)], c)]
  BY DEF AddCandidate
<1>2. CASE c.topic = NoTopic \/ same = {}
  BY <1>1, <1>2
<1>3. CASE c.topic # NoTopic /\ same # {}
  <2>1. Min(same) \in same
    <3>1. \E m \in same : \A n \in same : m <= n
      BY <1>3, LeastNatural, same \subseteq Nat
    <3> HIDE DEF same
    <3> QED BY <3>1 DEF Min
  <2> QED BY <1>1, <1>3, <2>1
<1> QED BY <1>2, <1>3

\* An answer stays a list of candidates.
LEMMA AddType ==
    ASSUME NEW out \in Seq(Mapped), NEW c \in Mapped
    PROVE  AddCandidate(out, c) \in Seq(Mapped)
<1>1. CASE AddCandidate(out, c) = Append(out, c)
  BY <1>1
<1>2. ASSUME NEW k \in 1..Len(out), AddCandidate(out, c) = [out EXCEPT ![k] = FoldInto(out[k], c)]
      PROVE  AddCandidate(out, c) \in Seq(Mapped)
  <2>1. out[k] \in Mapped
    OBVIOUS
  <2>2. FoldInto(out[k], c) \in Mapped
    BY <2>1, FoldIntoFields
  <2> QED BY <1>2, <2>2
<1> QED BY <1>1, <1>2, AddCases

\* Entries is what its recursion says.
LEMMA EntriesSteps ==
    ASSUME NEW s \in Seq(Mapped)
    PROVE  \E out \in [0..Len(s) -> Seq(Mapped)] :
               /\ out[0] = <<>>
               /\ \A n \in 1..Len(s) : out[n] = AddCandidate(out[n - 1], s[n])
               /\ Dedupe(s) = out[Len(s)] /\ DedupeCandidates(s) = out[Len(s)]
<1> DEFINE N == Len(s)
           F == [u \in Seq(Mapped) |-> [c \in Mapped |-> AddCandidate(u, c)]]
           Eq(g) == g = [n \in 0..N |-> IF n = 0 THEN <<>> ELSE AddCandidate(g[n - 1], s[n])]
           out == CHOOSE g : Eq(g)
<1>1. N \in Nat /\ \A n \in 1..N : s[n] \in Mapped
  OBVIOUS
<1>2. F \in [Seq(Mapped) -> [Mapped -> Seq(Mapped)]] /\ <<>> \in Seq(Mapped)
  BY AddType
<1>3. \A u \in Seq(Mapped), c \in Mapped : F[u][c] = AddCandidate(u, c)
  OBVIOUS
<1> HIDE DEF F
<1>4. \E f : IsFold(f, Seq(Mapped), <<>>, s, F)
  BY <1>2, FoldExists
<1>5. PICK f \in [0..N -> Seq(Mapped)] : f[0] = <<>> /\ \A n \in 1..N : f[n] = F[f[n - 1]][s[n]]
  BY <1>4 DEF IsFold
<1>6. \A n \in 1..N : f[n] = AddCandidate(f[n - 1], s[n])
  <2> TAKE n \in 1..N
  <2>1. n - 1 \in 0..N /\ f[n - 1] \in Seq(Mapped) /\ s[n] \in Mapped
    BY <1>1, <1>5
  <2> QED BY <1>3, <1>5, <2>1
<1>7. Eq(f)
  <2>1. \A n \in 0..N : n = 0 \/ n \in 1..N
    BY <1>1
  <2> QED BY <1>5, <1>6, <2>1
<1>8. Eq(out)
  <2> HIDE DEF Eq
  <2> QED BY <1>7
<1>9. Entries(s) = out
  BY Zenon DEF Entries
<1> HIDE DEF out
<1>10. out = [n \in 0..N |-> out[n]] /\ out[0] = <<>>
       /\ \A n \in 1..N : out[n] = AddCandidate(out[n - 1], s[n])
  <2>1. DOMAIN out = 0..N
        /\ \A n \in 0..N : out[n] = IF n = 0 THEN <<>> ELSE AddCandidate(out[n - 1], s[n])
    BY <1>8, Zenon
  <2>2. out = [n \in 0..N |-> out[n]]
    BY <1>8, <2>1, Zenon
  <2>3. 0 \in 0..N /\ \A n \in 1..N : n \in 0..N /\ n # 0
    BY <1>1
  <2> QED BY <2>1, <2>2, <2>3, Zenon
<1> HIDE DEF Eq
<1>11. \A n \in 1..N : out[n - 1] \in Seq(Mapped) => out[n] \in Seq(Mapped)
  BY <1>1, <1>10, AddType
<1>12. out[0] \in Seq(Mapped)
  BY <1>2, <1>10
<1>13. \A n \in 0..N : out[n] \in Seq(Mapped)
  <2> HIDE DEF N
  <2> QED BY <1>1, <1>11, <1>12, PassedOn
<1>14. out \in [0..N -> Seq(Mapped)]
  <2> HIDE DEF N
  <2> QED BY <1>10, <1>13
<1> QED BY <1>9, <1>10, <1>14 DEF Dedupe, DedupeCandidates

\* One candidate more on its topic, none on the others.
LEMMA OnStep ==
    ASSUME NEW s, NEW n \in Nat \ {0}
    PROVE  /\ \A t : t # s[n].topic => On(s, n, t) = On(s, n - 1, t)
           /\ On(s, n, s[n].topic) = On(s, n - 1, s[n].topic) \cup {n}
           /\ Said(s, n) = Said(s, n - 1) \cup ({s[n].topic} \ {NoTopic})
           /\ \A t : On(s, n - 1, t) \subseteq 1..(n - 1)
  BY DEF On, Said

\* A topic is said in the first n candidates if there is one on it.
LEMMA SaidOn ==
    ASSUME NEW s, NEW n, NEW t, t # NoTopic
    PROVE  t \in Said(s, n) <=> On(s, n, t) # {}
  BY DEF On, Said

\* The sets that are counted are finite.
LEMMA FiniteOn ==
    ASSUME NEW s, NEW n \in Nat, NEW t
    PROVE  /\ IsFiniteSet(On(s, n, t)) /\ Cardinality(On(s, n, t)) \in Nat
           /\ IsFiniteSet(Said(s, n)) /\ Cardinality(Said(s, n)) \in Nat
<1>1. IsFiniteSet(1..n)
  BY FS_Interval
<1>2. IsFiniteSet(On(s, n, t))
  BY <1>1, FS_Subset DEF On
<1>3. IsFiniteSet({s[i].topic : i \in 1..n})
  <2> DEFINE f == [i \in 1..n |-> s[i].topic]
  <2>1. f \in Surjection(1..n, {s[i].topic : i \in 1..n})
    BY DEF Surjection
  <2> HIDE DEF f
  <2> QED BY <1>1, <2>1, FS_Surjection
<1>4. IsFiniteSet(Said(s, n))
  BY <1>3, FS_Subset DEF Said
<1> QED BY <1>2, <1>4, FS_CardinalityType

\* A candidate of its own entry is the best of itself.
LEMMA BestAlone ==
    ASSUME NEW s, NEW n \in Nat, s[n] \in Mapped
    PROVE  Best(s[n], s, {n})
<1>1. s[n].confidence \in Nat /\ s[n].range \in Nat \X Int
  BY DEF Mapped
<1>2. s[n].range[1] \in Nat /\ s[n].range[2] \in Int
  BY <1>1
<1> QED BY <1>1, <1>2 DEF Best

\* Folding a candidate into the best of others before it gives the best of all.
LEMMA BestFold ==
    ASSUME NEW s \in Seq(Mapped), NEW n \in 1..Len(s), NEW I, I \subseteq 1..(n - 1),
           NEW e \in Mapped, Best(e, s, I)
    PROVE  Best(FoldInto(e, s[n]), s, I \cup {n})
<1> DEFINE c == s[n]
           f == FoldInto(e, c)
<1>1. c \in Mapped
  OBVIOUS
<1>2. /\ f.confidence = IF c.confidence > e.confidence THEN c.confidence ELSE e.confidence
      /\ f.range[1] = IF c.range[1] > 0 /\ (e.range[1] = 0 \/ c.range[1] < e.range[1])
                      THEN c.range[1] ELSE e.range[1]
      /\ f.range[2] = IF c.range[2] > e.range[2] THEN c.range[2] ELSE e.range[2]
      /\ f.worthy = IF e.worthy = "nil" THEN c.worthy ELSE e.worthy
  BY <1>1, FoldIntoFields
<1>3. \A i \in I \cup {n} : /\ s[i].confidence \in Nat
                            /\ s[i].range[1] \in Nat /\ s[i].range[2] \in Int
  <2> TAKE i \in I \cup {n}
  <2>1. s[i] \in Mapped
    OBVIOUS
  <2>2. s[i].confidence \in Nat /\ s[i].range \in Nat \X Int
    BY <2>1 DEF Mapped
  <2> QED BY <2>2
<1>4. e.confidence \in Nat /\ e.range[1] \in Nat /\ e.range[2] \in Int
  <2>1. e.confidence \in Nat /\ e.range \in Nat \X Int
    BY DEF Mapped
  <2> QED BY <2>1
<1> DEFINE J == I \cup {n}
<1>5. \A i \in J : i = n \/ i \in I
  OBVIOUS
<1>6. n \in J /\ (\A i \in I : i \in J /\ i < n /\ i # n)
  OBVIOUS
<1> HIDE DEF f
<1>7. (\E i \in J : s[i].confidence = f.confidence) /\ \A i \in J : s[i].confidence <= f.confidence
  BY <1>2, <1>3, <1>4, <1>5, <1>6 DEF Best
<1>8. /\ \E i \in J : s[i].range[1] = f.range[1]
      /\ \A i \in J : s[i].range[1] # 0 => f.range[1] # 0 /\ f.range[1] <= s[i].range[1]
  <2>1. PICK k \in I : s[k].range[1] = e.range[1]
    BY DEF Best
  <2>2. \A i \in I : s[i].range[1] # 0 => e.range[1] # 0 /\ e.range[1] <= s[i].range[1]
    BY DEF Best
  <2>3. CASE s[n].range[1] > 0 /\ (e.range[1] = 0 \/ s[n].range[1] < e.range[1])
    <3>1. f.range[1] = s[n].range[1]
      BY <1>2, <2>3
    <3> QED BY <1>3, <1>4, <1>5, <1>6, <2>2, <2>3, <3>1
  <2>4. CASE ~(s[n].range[1] > 0 /\ (e.range[1] = 0 \/ s[n].range[1] < e.range[1]))
    <3>1. f.range[1] = e.range[1]
      BY <1>2, <2>4
    <3>2. k \in J
      BY <1>6
    <3>3. s[n].range[1] # 0 => e.range[1] # 0 /\ e.range[1] <= s[n].range[1]
      BY <1>3, <1>4, <1>6, <2>4
    <3> QED BY <1>5, <2>1, <2>2, <3>1, <3>2, <3>3
  <2> QED BY <2>3, <2>4
<1>9. (\E i \in J : s[i].range[2] = f.range[2]) /\ \A i \in J : s[i].range[2] <= f.range[2]
  <2>1. PICK k \in I : s[k].range[2] = e.range[2]
    BY DEF Best
  <2>2. \A i \in I : s[i].range[2] <= e.range[2]
    BY DEF Best
  <2>3. CASE s[n].range[2] > e.range[2]
    <3>1. f.range[2] = s[n].range[2]
      BY <1>2, <2>3
    <3> QED BY <1>3, <1>4, <1>5, <1>6, <2>2, <2>3, <3>1
  <2>4. CASE ~(s[n].range[2] > e.range[2])
    <3>1. f.range[2] = e.range[2] /\ s[n].range[2] <= e.range[2]
      BY <1>2, <1>3, <1>4, <1>6, <2>4
    <3>2. k \in J
      BY <1>6
    <3> QED BY <1>5, <2>1, <2>2, <3>1, <3>2
  <2> QED BY <2>3, <2>4
<1>10. f.worthy = "nil" => \A i \in J : s[i].worthy = "nil"
  BY <1>2, <1>5 DEF Best
<1>11. ASSUME f.worthy # "nil"
       PROVE  \E i \in J : s[i].worthy = f.worthy /\ \A j \in J : j < i => s[j].worthy = "nil"
  <2>1. CASE e.worthy = "nil"
    <3>1. f.worthy = s[n].worthy /\ \A j \in J : j < n => s[j].worthy = "nil"
      BY <1>2, <1>5, <2>1 DEF Best
    <3> QED BY <1>6, <3>1
  <2>2. CASE e.worthy # "nil"
    <3>1. PICK i \in I : s[i].worthy = e.worthy /\ \A j \in I : j < i => s[j].worthy = "nil"
      BY <2>2 DEF Best
    <3>2. ~(n < i) /\ f.worthy = s[i].worthy
      BY <1>2, <2>2, <3>1
    <3>3. \A j \in J : j < i => s[j].worthy = "nil"
      BY <1>5, <3>1, <3>2
    <3> QED BY <1>6, <3>2, <3>3
  <2> QED BY <2>1, <2>2
<1> HIDE DEF J
<1>12. Best(f, s, J)
  BY <1>6, <1>7, <1>8, <1>9, <1>10, <1>11 DEF Best
<1> QED BY <1>12 DEF f, J

\* Each candidate keeps the entries what they should be.
LEMMA FoldedStep ==
    ASSUME NEW s \in Seq(Mapped), NEW n \in 1..Len(s), NEW out \in Seq(Mapped),
           Folded(out, s, n - 1)
    PROVE  Folded(AddCandidate(out, s[n]), s, n)
<1> DEFINE c == s[n]
           t == s[n].topic
           w == AddCandidate(out, s[n])
<1>1. /\ n \in Nat \ {0} /\ n - 1 \in Nat /\ s[n] \in Mapped
  OBVIOUS
<1>2. /\ \A u : u # t => On(s, n, u) = On(s, n - 1, u)
      /\ On(s, n, t) = On(s, n - 1, t) \cup {n}
      /\ Said(s, n) = Said(s, n - 1) \cup ({t} \ {NoTopic})
      /\ \A u : On(s, n - 1, u) \subseteq 1..(n - 1)
  BY <1>1, OnStep
<1>3. CASE (t = NoTopic \/ \A k \in 1..Len(out) : out[k].topic # t) /\ w = Append(out, c)
  <2> DEFINE L == Len(out)
  <2>1. /\ L \in Nat /\ Len(w) = L + 1 /\ w[L + 1] = c
        /\ \A k \in 1..L : w[k] = out[k]
        /\ \A k \in 1..(L + 1) : k \in 1..L \/ k = L + 1
    BY <1>3
  <2>2. t # NoTopic => t \notin Said(s, n - 1) /\ On(s, n - 1, t) = {}
    BY <1>3, SaidOn DEF Folded, Complete
  <2> HIDE DEF w, L
  <2>3. Complete(w, s, n)
    BY <1>2, <2>1 DEF Folded, Complete, L
  <2>4. Ordered(w, s, n)
    <3> SUFFICES ASSUME NEW j \in 1..Len(w), NEW k \in 1..Len(w), j < k,
                        w[j].topic # NoTopic, w[k].topic # NoTopic
                 PROVE  \E p \in On(s, n, w[j].topic) : \A q \in On(s, n, w[k].topic) : p < q
        BY DEF Ordered
    <3>1. j \in 1..L /\ w[j] = out[j]
      BY <2>1
    <3>2. w[j].topic # t
      BY <1>3, <3>1 DEF L
    <3>3. CASE k \in 1..L
      <4>1. w[k] = out[k] /\ w[k].topic # t
        BY <1>3, <2>1, <3>3 DEF L
      <4> QED BY <1>2, <3>1, <3>2, <3>3, <4>1 DEF Folded, Ordered, L
    <3>4. CASE k = L + 1
      <4>1. w[k].topic = t /\ On(s, n, t) = {n}
        BY <1>2, <2>1, <2>2, <3>4
      <4>2. On(s, n, w[j].topic) # {}
        BY <1>2, <3>1, <3>2 DEF Folded, AllBest, Best, L
      <4>3. On(s, n, w[j].topic) \subseteq 1..(n - 1)
        BY <1>2, <3>2
      <4> QED BY <4>1, <4>2, <4>3
    <3> QED BY <2>1, <3>3, <3>4
  <2>5. AllBest(w, s, n)
    <3> SUFFICES ASSUME NEW k \in 1..Len(w), w[k].topic # NoTopic
                 PROVE  Best(w[k], s, On(s, n, w[k].topic))
        BY DEF AllBest
    <3>1. CASE k \in 1..L
      <4>1. w[k] = out[k] /\ w[k].topic # t
        BY <1>3, <2>1, <3>1 DEF L
      <4> QED BY <1>2, <3>1, <4>1 DEF Folded, AllBest, L
    <3>2. CASE k = L + 1
      <4>1. w[k] = s[n] /\ On(s, n, w[k].topic) = {n}
        BY <1>2, <2>1, <2>2, <3>2
      <4>2. Best(s[n], s, {n})
        BY <1>1, BestAlone
      <4> QED BY <4>1, <4>2
    <3> QED BY <2>1, <3>1, <3>2
  <2>6. Counted(w, s, n)
    <3>1. Len(out) = Cardinality(Said(s, n - 1)) + Cardinality(On(s, n - 1, NoTopic))
      BY DEF Folded, Counted
    <3>2. /\ IsFiniteSet(On(s, n - 1, NoTopic)) /\ Cardinality(On(s, n - 1, NoTopic)) \in Nat
          /\ IsFiniteSet(Said(s, n - 1)) /\ Cardinality(Said(s, n - 1)) \in Nat
      BY <1>1, FiniteOn
    <3>3. CASE t = NoTopic
      <4>1. n \notin On(s, n - 1, NoTopic) /\ Said(s, n) = Said(s, n - 1)
            /\ On(s, n, NoTopic) = On(s, n - 1, NoTopic) \cup {n}
        BY <1>2, <3>3
      <4>2. Cardinality(On(s, n, NoTopic)) = Cardinality(On(s, n - 1, NoTopic)) + 1
        BY <3>2, <4>1, FS_AddElement
      <4> QED BY <2>1, <3>1, <3>2, <4>1, <4>2 DEF Counted, L
    <3>4. CASE t # NoTopic
      <4>1. t \notin Said(s, n - 1) /\ Said(s, n) = Said(s, n - 1) \cup {t}
            /\ On(s, n, NoTopic) = On(s, n - 1, NoTopic)
        BY <1>2, <2>2, <3>4
      <4>2. Cardinality(Said(s, n)) = Cardinality(Said(s, n - 1)) + 1
        BY <3>2, <4>1, FS_AddElement
      <4> QED BY <2>1, <3>1, <3>2, <4>1, <4>2 DEF Counted, L
    <3> QED BY <3>3, <3>4
  <2>7. Folded(w, s, n)
    BY <2>3, <2>4, <2>5, <2>6 DEF Folded
  <2> QED BY <2>7 DEF w
<1>4. ASSUME t # NoTopic, NEW m \in 1..Len(out), out[m].topic = t,
             w = [out EXCEPT ![m] = FoldInto(out[m], c)]
      PROVE  Folded(w, s, n)
  <2> DEFINE f == FoldInto(out[m], c)
  <2>1. out[m] \in Mapped /\ f.topic = t
    <3>1. out[m] \in Mapped
      OBVIOUS
    <3> QED BY <1>1, <1>4, <3>1, FoldIntoFields
  <2>2. /\ Len(w) = Len(out) /\ w[m] = f
        /\ \A k \in 1..Len(out) : k # m => w[k] = out[k]
    BY <1>4
  <2>3. \A k \in 1..Len(out) : w[k].topic = out[k].topic
    BY <1>4, <2>1, <2>2
  <2> HIDE DEF w, f
  <2>4. Best(out[m], s, On(s, n - 1, t)) /\ t \in Said(s, n - 1)
    <3>1. Best(out[m], s, On(s, n - 1, t))
      BY <1>4 DEF Folded, AllBest
    <3>2. On(s, n - 1, t) # {}
      BY <3>1 DEF Best
    <3> QED BY <1>4, <3>1, <3>2, SaidOn
  <2>5. Said(s, n) = Said(s, n - 1) /\ On(s, n, NoTopic) = On(s, n - 1, NoTopic)
    BY <1>2, <1>4, <2>4
  <2>6. Complete(w, s, n)
    BY <2>2, <2>3, <2>5 DEF Folded, Complete
  <2>7. Ordered(w, s, n)
    <3> SUFFICES ASSUME NEW j \in 1..Len(w), NEW k \in 1..Len(w), j < k,
                        w[j].topic # NoTopic, w[k].topic # NoTopic
                 PROVE  \E p \in On(s, n, w[j].topic) : \A q \in On(s, n, w[k].topic) : p < q
        BY DEF Ordered
    <3>1. j \in 1..Len(out) /\ k \in 1..Len(out) /\ w[j].topic = out[j].topic /\ w[k].topic = out[k].topic
      BY <2>2, <2>3
    <3>2. PICK p \in On(s, n - 1, w[j].topic) : \A q \in On(s, n - 1, w[k].topic) : p < q
      BY <3>1 DEF Folded, Ordered
    <3>3. p \in On(s, n, w[j].topic) /\ p \in 1..(n - 1)
      BY <1>2, <3>2
    <3>4. \A q \in On(s, n, w[k].topic) : q \in On(s, n - 1, w[k].topic) \/ q = n
      BY <1>2
    <3> QED BY <3>2, <3>3, <3>4
  <2>8. AllBest(w, s, n)
    <3> SUFFICES ASSUME NEW k \in 1..Len(w), w[k].topic # NoTopic
                 PROVE  Best(w[k], s, On(s, n, w[k].topic))
        BY DEF AllBest
    <3>1. CASE out[k].topic = t
      <4>1. k = m
        <5>1. ASSUME NEW i \in 1..Len(out), NEW j \in 1..Len(out), i < j,
                     out[i].topic = t, out[j].topic = t
              PROVE  FALSE
          <6>1. PICK p \in On(s, n - 1, t) : \A q \in On(s, n - 1, t) : p < q
            BY <1>4, <5>1 DEF Folded, Ordered
          <6>2. p < p /\ p \in 1..(n - 1)
            BY <1>2, <6>1
          <6> QED BY <6>2
        <5>2. k \in 1..Len(out)
          BY <2>2
        <5>3. ~(k < m) /\ ~(m < k)
          BY <1>4, <3>1, <5>1, <5>2
        <5> QED BY <5>2, <5>3
      <4>2. w[k] = FoldInto(out[m], s[n]) /\ On(s, n, w[k].topic) = On(s, n - 1, t) \cup {n}
        BY <1>2, <2>1, <2>2, <4>1 DEF f
      <4>3. On(s, n - 1, t) \subseteq 1..(n - 1)
        BY <1>2
      <4>4. Best(FoldInto(out[m], s[n]), s, On(s, n - 1, t) \cup {n})
        BY <2>1, <2>4, <4>3, BestFold
      <4> QED BY <4>2, <4>4
    <3>2. CASE out[k].topic # t
      <4>1. k \in 1..Len(out) /\ k # m
        BY <1>4, <2>2, <3>2
      <4>2. w[k] = out[k] /\ On(s, n, out[k].topic) = On(s, n - 1, out[k].topic)
        BY <1>2, <2>2, <3>2, <4>1
      <4> QED BY <4>1, <4>2 DEF Folded, AllBest
    <3> QED BY <3>1, <3>2
  <2>9. Counted(w, s, n)
    BY <2>2, <2>5 DEF Folded, Counted
  <2> QED BY <2>6, <2>7, <2>8, <2>9 DEF Folded
<1>5. \/ (t = NoTopic \/ \A k \in 1..Len(out) : out[k].topic # t) /\ w = Append(out, c)
      \/ t # NoTopic /\ \E m \in 1..Len(out) : /\ out[m].topic = t
                                              /\ w = [out EXCEPT ![m] = FoldInto(out[m], c)]
  BY <1>1, AddCases
<1>6. Folded(w, s, n)
  <2> HIDE DEF w, t, c
  <2>1. CASE (t = NoTopic \/ \A k \in 1..Len(out) : out[k].topic # t) /\ w = Append(out, c)
    BY <1>3, <2>1 DEF w
  <2> QED BY <1>4, <1>5, <2>1
<1> QED BY <1>6

\* Max and Min are the elements they should be.
LEMMA MaxIs ==
    ASSUME NEW S, S \subseteq Int, NEW m \in S, \A x \in S : x <= m
    PROVE  Max(S) = m
<1>1. Max(S) \in S /\ \A y \in S : Max(S) >= y
  <2>1. \A y \in S : m >= y
    OBVIOUS
  <2> QED BY <2>1 DEF Max
<1>2. PICK x : x = Max(S)
  OBVIOUS
<1>3. x \in Int /\ m \in Int /\ x >= m /\ x <= m
  BY <1>1, <1>2
<1> QED BY <1>2, <1>3

LEMMA MinIs ==
    ASSUME NEW S, S \subseteq Int, NEW m \in S, \A x \in S : m <= x
    PROVE  Min(S) = m
<1>1. Min(S) \in S /\ \A y \in S : Min(S) <= y
  BY DEF Min
<1>2. PICK x : x = Min(S)
  OBVIOUS
<1>3. x \in Int /\ m \in Int /\ x <= m /\ m <= x
  BY <1>1, <1>2
<1> QED BY <1>2, <1>3

\* A nonempty set of positive numbers has the minimum Min computes.
LEMMA MinOf ==
    ASSUME NEW S, S \subseteq Nat, S # {}
    PROVE  Min(S) \in S /\ \A y \in S : Min(S) <= y
<1>1. \E m \in S : \A n \in S : m <= n
  BY LeastNatural
<1> QED BY <1>1 DEF Min

\* The fold is folded.
LEMMA DedupeFolded ==
    ASSUME NEW s \in Seq(Mapped)
    PROVE  /\ Dedupe(s) \in Seq(Mapped) /\ Folded(Dedupe(s), s, Len(s))
           /\ DedupeCandidates(s) = Dedupe(s)
<1> DEFINE N == Len(s)
<1>1. PICK out \in [0..N -> Seq(Mapped)] :
               /\ out[0] = <<>>
               /\ \A n \in 1..N : out[n] = AddCandidate(out[n - 1], s[n])
               /\ Dedupe(s) = out[N] /\ DedupeCandidates(s) = out[N]
  BY EntriesSteps
<1>2. N \in Nat
  OBVIOUS
<1> DEFINE D == {n \in 0..N : Folded(out[n], s, n)}
<1>3. 0 \in D
  <2>1. On(s, 0, NoTopic) = {} /\ Said(s, 0) = {}
    BY DEF On, Said
  <2>2. Folded(<<>>, s, 0)
    <3>1. Cardinality({}) = 0 /\ Len(<<>>) = 0
      BY FS_EmptySet
    <3> QED BY <2>1, <3>1 DEF Folded, Complete, Ordered, AllBest, Counted
  <2> QED BY <1>1, <1>2, <2>2
<1>4. ASSUME NEW n \in 1..N, n - 1 \in D PROVE n \in D
  <2>1. out[n - 1] \in Seq(Mapped) /\ Folded(out[n - 1], s, n - 1)
    BY <1>1, <1>2, <1>4
  <2>2. Folded(AddCandidate(out[n - 1], s[n]), s, n)
    BY <2>1, FoldedStep
  <2>3. out[n] = AddCandidate(out[n - 1], s[n])
    BY <1>1
  <2> QED BY <1>2, <2>2, <2>3
<1>5. N \in D
  <2>1. 0..N \subseteq D
    <3> HIDE DEF D, N
    <3> QED BY <1>2, <1>3, <1>4, BoundedInduction
  <2> QED BY <1>2, <2>1
<1>6. out[N] \in Seq(Mapped)
  BY <1>1, <1>2
<1> QED BY <1>1, <1>5, <1>6

\* What is folded is what the reference says.
LEMMA FoldedIsDedupe ==
    ASSUME NEW s \in Seq(Mapped), NEW out \in Seq(Mapped), Folded(out, s, Len(s))
    PROVE  IsDedupeOf(out, s)
<1> DEFINE N == Len(s)
           Of(t) == {i \in 1..Len(s) : s[i].topic = t}
           Topicals == {s[i].topic : i \in 1..Len(s)} \ {NoTopic}
           FirstOf(k) == Min(Of(out[k].topic))
<1>1. Topicals = Said(s, N) /\ \A t : Of(t) = On(s, N, t)
  BY DEF Said, On
<1>2. Len(out) = Cardinality(Topicals) + Cardinality(Of(NoTopic))
  BY <1>1 DEF Folded, Counted
<1>3. \A t \in Topicals : \E k \in 1..Len(out) : out[k].topic = t
  BY <1>1 DEF Folded, Complete
<1>4. ASSUME NEW j \in 1..Len(out), NEW k \in 1..Len(out), j < k,
             NoTopic \notin {out[j].topic, out[k].topic}
      PROVE  FirstOf(j) < FirstOf(k)
  <2>1a. PICK p \in On(s, N, out[j].topic) : \A q \in On(s, N, out[k].topic) : p < q
    <3>1. out[j].topic # NoTopic /\ out[k].topic # NoTopic /\ j < k
      BY <1>4
    <3>2. Ordered(out, s, N)
      BY DEF Folded
    <3> QED BY <3>1, <3>2 DEF Ordered
  <2>1. p \in Of(out[j].topic) /\ \A q \in Of(out[k].topic) : p < q
    BY <1>1, <2>1a, Zenon
  <2>2. Of(out[k].topic) # {}
    BY <1>1, <1>4 DEF Folded, AllBest, Best
  <2>3. Of(out[j].topic) \subseteq Nat /\ Of(out[k].topic) \subseteq Nat
    OBVIOUS
  <2>4. FirstOf(k) \in Of(out[k].topic) /\ FirstOf(j) \in Of(out[j].topic) /\ FirstOf(j) <= p
    <3> HIDE DEF Of
    <3> QED BY <2>1, <2>2, <2>3, MinOf
  <2>5. p < FirstOf(k) /\ p \in Nat /\ FirstOf(k) \in Nat /\ FirstOf(j) \in Nat
    <3> HIDE DEF Of, FirstOf
    <3> QED BY <2>1, <2>3, <2>4
  <2> HIDE DEF FirstOf
  <2> QED BY <2>4, <2>5
<1>5. ASSUME NEW k \in 1..Len(out), out[k].topic # NoTopic
      PROVE  LET all == Of(out[k].topic)
                 ranges == {s[i].range : i \in all}
                 judged == {i \in all : s[i].worthy # "nil"}
             IN  /\ out[k].confidence = Max({s[i].confidence : i \in all})
                 /\ (\A r \in RealRanges(ranges) : r[1] # 0) => out[k].range[1] = SpanStart(ranges)
                 /\ out[k].range[2] = Max({s[i].range[2] : i \in all})
                 /\ out[k].worthy = IF judged = {} THEN "nil" ELSE s[Min(judged)].worthy
  <2> DEFINE all == Of(out[k].topic)
             starts == {s[i].range[1] : i \in all} \ {0}
             ranges == {s[i].range : i \in all}
             judged == {i \in all : s[i].worthy # "nil"}
             e == out[k]
  <2>1. Best(e, s, all)
    BY <1>1, <1>5 DEF Folded, AllBest
  <2>2. all \subseteq 1..N /\ N \in Nat
    OBVIOUS
  <2>3. \A i \in all : /\ s[i].confidence \in Nat
                       /\ s[i].range[1] \in Nat /\ s[i].range[2] \in Int
    <3> TAKE i \in all
    <3>1. s[i] \in Mapped
      OBVIOUS
    <3>2. s[i].confidence \in Nat /\ s[i].range \in Nat \X Int
      BY <3>1 DEF Mapped
    <3> QED BY <3>2
  <2> HIDE DEF all, e
  <2>4. e.confidence = Max({s[i].confidence : i \in all})
    <3> DEFINE C == {s[i].confidence : i \in all}
    <3>1. C \subseteq Int /\ e.confidence \in C /\ \A x \in C : x <= e.confidence
      BY <2>1, <2>3 DEF Best
    <3> HIDE DEF C
    <3>2. Max(C) = e.confidence
      BY <3>1, MaxIs
    <3> QED BY <3>2 DEF C
  <2>5. e.range[2] = Max({s[i].range[2] : i \in all})
    <3> DEFINE C == {s[i].range[2] : i \in all}
    <3>1. C \subseteq Int /\ e.range[2] \in C /\ \A x \in C : x <= e.range[2]
      BY <2>1, <2>3 DEF Best
    <3> HIDE DEF C
    <3>2. Max(C) = e.range[2]
      BY <3>1, MaxIs
    <3> QED BY <3>2 DEF C
  <2>6. e.range[1] = IF starts = {} THEN 0 ELSE Min(starts)
    <3>1. PICK i \in all : s[i].range[1] = e.range[1]
      BY <2>1 DEF Best
    <3>2. CASE starts = {}
      BY <3>1, <3>2
    <3>3. CASE starts # {}
      <4>1. \A x \in starts : e.range[1] # 0 /\ e.range[1] <= x
        BY <2>1 DEF Best
      <4>2. e.range[1] \in starts /\ starts \subseteq Int
        BY <2>3, <3>1, <3>3, <4>1
      <4>3. Min(starts) = e.range[1]
        <5> HIDE DEF starts
        <5> QED BY <4>1, <4>2, MinIs
      <4> QED BY <3>3, <4>3
    <3> QED BY <3>2, <3>3
  <2>6a. (\A r \in RealRanges(ranges) : r[1] # 0) => e.range[1] = SpanStart(ranges)
    <3> SUFFICES ASSUME \A r \in RealRanges(ranges) : r[1] # 0 PROVE e.range[1] = SpanStart(ranges)
        OBVIOUS
    <3>1. starts = {r[1] : r \in RealRanges(ranges)}
      BY DEF RealRanges
    <3>2. starts = {} <=> RealRanges(ranges) = {}
      BY <3>1
    <3> HIDE DEF starts, ranges
    <3> QED BY <2>6, <3>1, <3>2 DEF SpanStart
  <2>7. e.worthy = IF judged = {} THEN "nil" ELSE s[Min(judged)].worthy
    <3>1. CASE e.worthy = "nil"
      <4>1. judged = {}
        BY <2>1, <3>1 DEF Best
      <4> QED BY <3>1, <4>1
    <3>2. CASE e.worthy # "nil"
      <4>1. PICK p \in all : s[p].worthy = e.worthy /\ \A j \in all : j < p => s[j].worthy = "nil"
        BY <2>1, <3>2 DEF Best
      <4>2. p \in judged
        BY <3>2, <4>1
      <4>3. /\ judged \subseteq Int
            /\ \A j \in judged : p <= j
        <5> SUFFICES ASSUME NEW j \in judged PROVE j \in Int /\ p <= j
            OBVIOUS
        <5>1. j \in all /\ ~(j < p)
          BY <4>1
        <5>2. \A x \in all : x \in Int
          BY <2>2
        <5> HIDE DEF judged
        <5>3. j \in Int /\ p \in Int
          BY <5>1, <5>2
        <5> QED BY <5>1, <5>3
      <4>4. Min(judged) = p
        <5> HIDE DEF judged
        <5> QED BY <4>2, <4>3, MinIs
      <4> QED BY <4>1, <4>2, <4>4
    <3> QED BY <3>1, <3>2
  <2> QED BY <2>4, <2>5, <2>6a, <2>7 DEF all, e
<1> QED BY <1>2, <1>3, <1>4, <1>5 DEF IsDedupeOf

\* Entries on topics of their own are folded into themselves.
LEMMA FoldAgain ==
    ASSUME NEW s \in Seq(Mapped),
           \A j, k \in 1..Len(s) : j < k /\ s[j].topic # NoTopic => s[j].topic # s[k].topic
    PROVE  DedupeCandidates(s) = s
<1> DEFINE N == Len(s)
<1>1. PICK out \in [0..N -> Seq(Mapped)] :
               /\ out[0] = <<>>
               /\ \A n \in 1..N : out[n] = AddCandidate(out[n - 1], s[n])
               /\ Dedupe(s) = out[N] /\ DedupeCandidates(s) = out[N]
  BY EntriesSteps
<1>2. N \in Nat
  OBVIOUS
<1> DEFINE Same(u, n) == Len(u) = n /\ \A i \in 1..n : u[i] = s[i]
           D == {n \in 0..N : Same(out[n], n)}
<1>3. 0 \in D
  BY <1>1, <1>2
<1>4. ASSUME NEW n \in 1..N, n - 1 \in D PROVE n \in D
  <2> DEFINE u == out[n - 1]
  <2>1. u \in Seq(Mapped) /\ Len(u) = n - 1 /\ \A i \in 1..(n - 1) : u[i] = s[i]
    BY <1>1, <1>2, <1>4
  <2>2. out[n] = AddCandidate(u, s[n]) /\ s[n] \in Mapped
    BY <1>1
  <2> HIDE DEF u
  <2>3. \A k \in 1..Len(u) : s[n].topic # NoTopic => u[k].topic # s[n].topic
    <3> TAKE k \in 1..Len(u)
    <3>1. k \in 1..N /\ k < n /\ n \in 1..Len(s) /\ u[k] = s[k]
      BY <1>2, <2>1
    <3>2. s[k].topic # NoTopic => s[k].topic # s[n].topic
      BY <3>1
    <3> QED BY <3>1, <3>2
  <2>4. out[n] = Append(u, s[n])
    BY <2>1, <2>2, <2>3, AddCases
  <2>5. Same(out[n], n)
    <3>1. Len(out[n]) = n /\ out[n][n] = s[n] /\ \A i \in 1..(n - 1) : out[n][i] = u[i]
      BY <2>1, <2>4
    <3>2. \A i \in 1..n : i = n \/ i \in 1..(n - 1)
      OBVIOUS
    <3> QED BY <2>1, <3>1, <3>2
  <2> HIDE DEF Same
  <2> QED BY <1>2, <2>5
<1>5. N \in D
  <2>1. 0..N \subseteq D
    <3> HIDE DEF D, N
    <3> QED BY <1>2, <1>3, <1>4, BoundedInduction
  <2> QED BY <1>2, <2>1
<1>6. out[N] \in Seq(Mapped) /\ Len(out[N]) = Len(s) /\ \A i \in 1..Len(s) : out[N][i] = s[i]
  BY <1>1, <1>2, <1>5
<1>7. out[N] = s
  BY <1>6, SeqEqual
<1> QED BY <1>1, <1>7

\* Dedupe is what the reference says, and folding again changes nothing.
LEMMA DedupeCorrect ==
    ASSUME NEW s \in Seq(Mapped)
    PROVE  /\ Dedupe(s) \in Seq(Mapped) /\ DedupeCandidates(s) = Dedupe(s)
           /\ IsDedupeOf(Dedupe(s), s)
           /\ DedupeCandidates(Dedupe(s)) = Dedupe(s)
<1> DEFINE d == Dedupe(s)
<1>1. d \in Seq(Mapped) /\ Folded(d, s, Len(s)) /\ DedupeCandidates(s) = d
  BY DedupeFolded
<1> HIDE DEF d
<1>2. IsDedupeOf(d, s)
  BY <1>1, FoldedIsDedupe
<1>3. ASSUME NEW j \in 1..Len(d), NEW k \in 1..Len(d), j < k, d[j].topic # NoTopic
      PROVE  d[j].topic # d[k].topic
  <2> SUFFICES ASSUME d[j].topic = d[k].topic PROVE FALSE
      OBVIOUS
  <2>1. PICK p \in On(s, Len(s), d[j].topic) : \A q \in On(s, Len(s), d[j].topic) : p < q
    BY <1>1, <1>3 DEF Folded, Ordered
  <2>2. p < p /\ p \in Nat
    BY <2>1 DEF On
  <2> QED BY <2>2
<1>4. DedupeCandidates(d) = d
  BY <1>1, <1>3, FoldAgain
<1> QED BY <1>1, <1>2, <1>4 DEF d

-----------------------------------------------------------------------------
(* Windows.                                                                *)

\* Multiples of the step, and how often it fits.
LEMMA Steps ==
    ASSUME NEW L \in Nat, NEW U \in Nat \ {0}
    PROVE  /\ L \div U \in Nat /\ (L \div U) * U <= L
           /\ \A k \in Nat : k * U \in Nat /\ (k * U) % U = 0 /\ (k + 1) * U = k * U + U
           /\ \A k, m \in Nat : k < m => k * U < m * U
           /\ \A k \in Nat : k >= 1 => k * U >= 1
<1>1. L \div U \in Nat /\ (L \div U) * U <= L
  OBVIOUS
<1>2. \A k \in Nat : k * U \in Nat /\ (k * U) % U = 0 /\ (k + 1) * U = k * U + U
  OBVIOUS
<1>3. \A k, m \in Nat : k < m => k * U < m * U
  OBVIOUS
<1>4. \A k \in Nat : k >= 1 => k * U >= 1
  OBVIOUS
<1> QED BY <1>1, <1>2, <1>3, <1>4

\* The positions of the user's messages, in ascending order.
LEMMA UserPositionsAre ==
    ASSUME NEW ts \in Seq(Roles)
    PROVE  LET pos == UserPositions(ts)
           IN  /\ pos \in Seq(Nat)
               /\ Ascending(pos)
               /\ \A x : Has(pos, x) <=> x \in 0..(Len(ts) - 1) /\ ts[x + 1] = "user"
<1> DEFINE N == Len(ts)
           all == [i \in 1..N |-> i - 1]
           S == {p \in 0..(N - 1) : ts[p + 1] = "user"}
           pos == UserPositions(ts)
<1>1. N \in Nat
  OBVIOUS
<1>2. all \in Seq(Int) /\ Ascending(all) /\ \A x \in S : Has(all, x)
  <2>1. all \in Seq(Int) /\ Len(all) = N /\ \A i \in 1..N : all[i] = i - 1
    BY <1>1
  <2>2. \A x \in S : x + 1 \in 1..N /\ (x + 1) - 1 = x
    BY <1>1
  <2> HIDE DEF all, S
  <2> QED BY <2>1, <2>2 DEF Ascending, Has
<1>3. pos = Among(all, S)
  BY DEF UserPositions
<1> HIDE DEF all, S, pos, N
<1>4. /\ pos \in Seq(Int) /\ Ascending(pos)
      /\ \A x : Has(pos, x) <=> x \in S /\ Has(all, x)
  BY <1>2, <1>3, AmongAscending
<1>5. \A x : Has(pos, x) <=> x \in S
  BY <1>2, <1>4
<1>6. \A i \in 1..Len(pos) : pos[i] \in Nat
  BY <1>5 DEF S, Has
<1>7. pos \in Seq(Nat)
  BY <1>4, <1>6
<1> QED BY <1>4, <1>5, <1>7 DEF S, N, pos

\* Windows end with every UserStep-th message of the user and with the transcript.
LEMMA WindowEndsAre ==
    ASSUME NEW ts \in Seq(Roles), ts # <<>>
    PROVE  LET pos == UserPositions(ts)
               e == WindowEnds(ts)
           IN  /\ e \in Seq(Nat) /\ Len(e) \in Nat \ {0}
               /\ e[Len(e)] = Len(ts)
               /\ \A i, j \in 1..Len(e) : i < j => e[i] < e[j]
               /\ \A k \in 1..(Len(e) - 1) : k * UserStep \in 1..Len(pos) /\ e[k] = pos[k * UserStep] + 1
<1> DEFINE pos == UserPositions(ts)
           U == UserStep
           q == Len(pos) \div U
           b == Boundaries(ts)
           e == WindowEnds(ts)
           L == Len(ts)
<1>1. /\ pos \in Seq(Nat) /\ Len(pos) \in Nat
      /\ \A i, j \in 1..Len(pos) : i < j => pos[i] < pos[j]
      /\ \A i \in 1..Len(pos) : pos[i] \in 0..(L - 1)
  <2>1. /\ pos \in Seq(Nat) /\ Ascending(pos)
        /\ \A x : Has(pos, x) <=> x \in 0..(L - 1) /\ ts[x + 1] = "user"
    BY UserPositionsAre
  <2> HIDE DEF pos, L
  <2>2. \A i \in 1..Len(pos) : Has(pos, pos[i])
    BY DEF Has
  <2> QED BY <2>1, <2>2 DEF Ascending
<1>2. U \in Nat \ {0} /\ L \in Nat \ {0}
  BY WindowsAssumption, EmptySeq
<1>3. b = [k \in 1..q |-> pos[k * U] + 1]
  BY DEF Boundaries
<1>4. e = IF b # <<>> /\ b[Len(b)] = L THEN b ELSE Append(b, L)
  BY DEF WindowEnds, Last
<1> HIDE DEF pos, U, b, e, L
<1>5. /\ q \in Nat /\ q * U <= Len(pos)
      /\ \A k \in Nat : k * U \in Nat
      /\ \A k, m \in Nat : k < m => k * U < m * U
      /\ \A k \in Nat : k >= 1 => k * U >= 1
  BY <1>1, <1>2, Steps
<1> HIDE DEF q
<1>6. \A k \in 1..q : k * U \in 1..Len(pos)
  <2> TAKE k \in 1..q
  <2>1. k \in Nat /\ k >= 1 /\ (k = q \/ k < q)
    BY <1>5
  <2>2. k * U \in Nat /\ k * U >= 1 /\ q * U \in Nat
    BY <1>5, <2>1
  <2>3. CASE k = q
    BY <1>1, <1>5, <2>2, <2>3
  <2>4. CASE k < q
    <3>1. k * U < q * U
      BY <1>5, <2>1, <2>4
    <3> QED BY <1>1, <1>5, <2>2, <3>1
  <2> QED BY <2>1, <2>3, <2>4
<1>7. b \in Seq(Nat) /\ Len(b) = q /\ \A k \in 1..q : b[k] = pos[k * U] + 1 /\ b[k] \in 1..L
  <2>1. \A k \in 1..q : pos[k * U] \in 0..(L - 1)
    BY <1>1, <1>6
  <2>2. \A k \in 1..q : b[k] = pos[k * U] + 1
    BY <1>3
  <2>3. \A k \in 1..q : b[k] \in 1..L
    BY <1>2, <2>1, <2>2
  <2>4. b = [k \in 1..q |-> b[k]]
    BY <1>3
  <2>5. \A k \in 1..q : b[k] \in Nat
    BY <1>2, <2>3
  <2>6. b \in [1..q -> Nat]
    BY <2>4, <2>5
  <2>7. b \in Seq(Nat) /\ Len(b) = q
    BY <1>5, <2>6
  <2> QED BY <2>2, <2>3, <2>7
<1>8. \A i, j \in 1..q : i < j => b[i] < b[j]
  <2> TAKE i, j \in 1..q
  <2> HAVE i < j
  <2>1. i * U \in 1..Len(pos) /\ j * U \in 1..Len(pos) /\ i * U < j * U
    <3>1. i \in Nat /\ j \in Nat
      OBVIOUS
    <3> QED BY <1>5, <1>6, <3>1
  <2>2. pos[i * U] < pos[j * U] /\ pos[i * U] \in 0..(L - 1) /\ pos[j * U] \in 0..(L - 1)
    BY <1>1, <2>1
  <2> QED BY <1>2, <1>7, <2>2
<1>9. CASE b # <<>> /\ b[Len(b)] = L
  <2>1. e = b /\ q >= 1
    BY <1>4, <1>5, <1>7, <1>9, EmptySeq
  <2>2. \A k \in 1..(q - 1) : k * U \in 1..Len(pos) /\ e[k] = pos[k * U] + 1
    <3> TAKE k \in 1..(q - 1)
    <3>1. k \in 1..q
      BY <1>5
    <3> QED BY <1>6, <1>7, <2>1, <3>1
  <2>3. e \in Seq(Nat) /\ Len(e) = q /\ q \in Nat \ {0} /\ e[q] = L
    BY <1>5, <1>7, <1>9, <2>1
  <2>4. \A i, j \in 1..q : i < j => e[i] < e[j]
    BY <1>8, <2>1
  <2> QED BY <2>2, <2>3, <2>4 DEF pos, U, e, L
<1>10. CASE ~(b # <<>> /\ b[Len(b)] = L)
  <2>1. /\ Len(e) = q + 1 /\ e[q + 1] = L /\ e \in Seq(Nat)
        /\ \A k \in 1..q : e[k] = b[k]
    BY <1>2, <1>4, <1>5, <1>7, <1>10
  <2>2. \A k \in 1..q : b[k] < L
    <3> TAKE k \in 1..q
    <3>1. q \in 1..q /\ b # <<>> /\ b[q] # L /\ b[q] \in 1..L
      BY <1>5, <1>7, <1>10, EmptySeq
    <3>2. b[q] < L /\ (k = q \/ k < q)
      BY <1>2, <1>5, <3>1
    <3>3. k < q => b[k] < b[q]
      BY <1>8, <3>1
    <3>4. b[k] \in 1..L /\ b[q] \in 1..L
      BY <1>7, <3>1
    <3> QED BY <1>2, <3>2, <3>3, <3>4
  <2>3. \A i, j \in 1..(q + 1) : i < j => e[i] < e[j]
    <3> TAKE i, j \in 1..(q + 1)
    <3> HAVE i < j
    <3>1. i \in 1..q /\ (j \in 1..q \/ j = q + 1)
      BY <1>5
    <3> QED BY <1>8, <2>1, <2>2, <3>1
  <2>4. (q + 1) - 1 = q /\ q + 1 \in Nat \ {0}
    BY <1>5
  <2>5. \A k \in 1..q : k * U \in 1..Len(pos) /\ e[k] = pos[k * U] + 1
    BY <1>6, <1>7, <2>1
  <2> QED BY <2>1, <2>3, <2>4, <2>5 DEF pos, U, e, L
<1> QED BY <1>9, <1>10

\* Messages of the user among the messages first..last of ts.
UsersFrom(ts, first, last) == {i \in first..last : ts[i] = "user"}

\* Up to the b-th message of the user there are b, from there to the c-th c - b.
LEMMA UsersBetween ==
    ASSUME NEW ts \in Seq(Roles), NEW a \in Nat, NEW b \in 1..Len(UserPositions(ts)), a < b, NEW first,
           first = IF a = 0 THEN 1 ELSE UserPositions(ts)[a] + 2
    PROVE  /\ Cardinality(UsersFrom(ts, first, UserPositions(ts)[b] + 1)) = b - a
           /\ ts[UserPositions(ts)[b] + 1] = "user"
<1> DEFINE pos == UserPositions(ts)
           N == Len(ts)
           M == Len(pos)
           T == UsersFrom(ts, first, pos[b] + 1)
           f == [k \in (a + 1)..b |-> pos[k] + 1]
<1>1. /\ pos \in Seq(Nat) /\ Ascending(pos)
      /\ \A x : Has(pos, x) <=> x \in 0..(N - 1) /\ ts[x + 1] = "user"
  BY UserPositionsAre
<1>2. b \in 1..M /\ first = IF a = 0 THEN 1 ELSE pos[a] + 2
  OBVIOUS
<1>3. N \in Nat
  OBVIOUS
<1> HIDE DEF pos, N, M
<1>4. /\ M \in Nat /\ \A i \in 1..M : pos[i] \in Nat /\ pos[i] \in 0..(N - 1) /\ ts[pos[i] + 1] = "user"
      /\ \A i, j \in 1..M : i < j => pos[i] < pos[j]
  <2>1. M \in Nat /\ \A i \in 1..M : pos[i] \in Nat /\ Has(pos, pos[i])
    BY <1>1 DEF Has, M
  <2> QED BY <1>1, <2>1 DEF Ascending, M
<1>5. \A k \in (a + 1)..b : k \in 1..M /\ pos[k] + 1 \in T
  <2> TAKE k \in (a + 1)..b
  <2>1. k \in 1..M /\ (k = b \/ k < b) /\ k > a
    BY <1>2, <1>4
  <2>2. pos[k] <= pos[b]
    BY <1>2, <1>4, <2>1
  <2>3. first <= pos[k] + 1 /\ first \in Int
    <3>1. CASE a = 0
      BY <1>2, <1>4, <2>1, <3>1
    <3>2. CASE a # 0
      <4>1. a \in 1..M /\ pos[a] < pos[k] /\ pos[a] \in Nat
        BY <1>2, <1>4, <2>1, <3>2
      <4> QED BY <1>2, <1>4, <2>1, <3>2, <4>1
    <3> QED BY <3>1, <3>2
  <2> QED BY <1>2, <1>4, <2>1, <2>2, <2>3 DEF UsersFrom
<1>6. ASSUME NEW x \in T PROVE \E k \in (a + 1)..b : pos[k] + 1 = x
  <2>1. x \in first..(pos[b] + 1) /\ ts[x] = "user" /\ pos[b] \in 0..(N - 1)
    BY <1>2, <1>4 DEF UsersFrom
  <2>2. first \in Nat \ {0}
    <3>1. a # 0 => a \in 1..M
      BY <1>2, <1>4
    <3> QED BY <1>2, <1>4, <3>1
  <2>3. x \in Nat \ {0} /\ x - 1 \in 0..(N - 1) /\ (x - 1) + 1 = x
    BY <1>3, <2>1, <2>2
  <2>4. Has(pos, x - 1)
    BY <1>1, <2>1, <2>3
  <2>5. PICK k \in 1..M : pos[k] = x - 1
    BY <2>4 DEF Has, M
  <2>6. ~(b < k)
    <3>1. pos[k] <= pos[b] /\ pos[b] \in Nat
      BY <2>1, <2>3, <2>5
    <3> QED BY <1>2, <1>4, <3>1
  <2>7. a < k
    <3>1. CASE a = 0
      BY <3>1
    <3>2. CASE a # 0
      <4>1. a \in 1..M /\ pos[a] \in Nat /\ first = pos[a] + 2
        BY <1>2, <1>4, <3>2
      <4>2. pos[a] < pos[k]
        BY <2>1, <2>3, <2>5, <4>1
      <4>3. ~(k < a) /\ k # a
        BY <1>4, <4>1, <4>2
      <4> QED BY <4>1, <4>3
    <3> QED BY <3>1, <3>2
  <2>8. k \in (a + 1)..b
    BY <1>2, <2>6, <2>7
  <2> QED BY <2>3, <2>5, <2>8
<1>7. f \in Bijection((a + 1)..b, T)
  <2>1. f \in [(a + 1)..b -> T] /\ \A k \in (a + 1)..b : f[k] = pos[k] + 1
    BY <1>5
  <2>2. ASSUME NEW i \in (a + 1)..b, NEW j \in (a + 1)..b, f[i] = f[j] PROVE i = j
    <3>1. i \in 1..M /\ j \in 1..M /\ pos[i] \in Nat /\ pos[j] \in Nat /\ pos[i] = pos[j]
      BY <1>4, <1>5, <2>1, <2>2
    <3>2. ~(i < j) /\ ~(j < i)
      BY <1>4, <3>1
    <3> QED BY <3>1, <3>2
  <2>3. \A x \in T : \E k \in (a + 1)..b : f[k] = x
    BY <1>6, <2>1
  <2> HIDE DEF f, T
  <2> QED BY <2>1, <2>2, <2>3 DEF Bijection, Injection, Surjection, IsInjective
<1>8. IsFiniteSet((a + 1)..b) /\ Cardinality((a + 1)..b) = b - a
  <2>1. a + 1 \in Int /\ b \in Int /\ ~(a + 1 > b) /\ b - (a + 1) + 1 = b - a
    BY <1>2
  <2> QED BY <2>1, FS_Interval
<1>9. Cardinality(T) = b - a
  <2> HIDE DEF f, T
  <2> QED BY <1>7, <1>8, FS_Bijection DEF ExistsBijection
<1> QED BY <1>2, <1>4, <1>9 DEF pos

\* The cap leaves the last windows, at least one and all of them if there are few.
LEMMA KeepLastKeeps ==
    ASSUME NEW W, NEW ws \in Seq(W), Len(ws) \in Nat \ {0}
    PROVE  LET n == Len(KeepLast(ws))
               d == Len(ws) - n
           IN  /\ KeepLast(ws) \in Seq(W) /\ n \in 1..MaxWindows /\ d \in Nat
               /\ d > 0 => n = MaxWindows
               /\ \A k \in 1..n : KeepLast(ws)[k] = ws[d + k]
<1>1. MaxWindows \in Nat \ {0}
  BY WindowsAssumption
<1>2. CASE Len(ws) > MaxWindows
  <2> DEFINE d == Len(ws) - MaxWindows
             v == SubSeq(ws, d + 1, Len(ws))
  <2>1. KeepLast(ws) = v
    BY <1>2 DEF KeepLast
  <2>2. d + 1 \in 1..Len(ws) /\ Len(ws) \in 1..Len(ws) /\ d \in Nat
    BY <1>1, <1>2
  <2>3. v \in Seq(W) /\ Len(v) = MaxWindows /\ \A k \in 1..MaxWindows : v[k] = ws[d + k]
    BY <1>1, <1>2, <2>2
  <2> HIDE DEF v
  <2> QED BY <1>1, <1>2, <2>1, <2>2, <2>3
<1>3. CASE ~(Len(ws) > MaxWindows)
  <2>1. KeepLast(ws) = ws
    BY <1>3 DEF KeepLast
  <2> QED BY <1>1, <1>3, <2>1
<1> QED BY <1>2, <1>3

Window == [from : Nat, to : Nat]

\* What WindowsSound asks of the windows ws of a transcript on route r.
UsersIn(ts, w) == Cardinality({i \in (w.from + 1)..w.to : ts[i] = "user"})
PrefixesSound(ts, ws) ==
    /\ \A k \in 1..Len(ws) : ws[k].from = 0
    /\ \A k \in 1..(Len(ws) - 1) :
         /\ ws[k].to < ws[k + 1].to
         /\ UsersIn(ts, ws[k]) % UserStep = 0 /\ ts[ws[k].to] = "user"
         /\ k + 1 < Len(ws) => UsersIn(ts, ws[k + 1]) = UsersIn(ts, ws[k]) + UserStep
SlicesSound(ts, ws) ==
    /\ Len(ws) < MaxWindows => ws[1].from = 0
    /\ \A k \in 1..(Len(ws) - 1) :
         ws[k].to = ws[k + 1].from /\ UsersIn(ts, ws[k]) = UserStep

\* Windows are slices of the transcript, the last of them reaches its end.
SlicesOf(ts, ws) ==
    /\ ws \in Seq(Window) /\ Len(ws) \in Nat \ {0} /\ ws[Len(ws)].to = Len(ts)
    /\ \A k \in 1..Len(ws) : ws[k].from <= ws[k].to /\ ws[k].to <= Len(ts)

\* The windows of route prefix.
LEMMA PrefixWindowsAre ==
    ASSUME NEW ts \in Seq(Roles), ts # <<>>
    PROVE  LET ws == SplitPrefixWindows(ts)
           IN  SlicesOf(ts, ws) /\ Len(ws) <= MaxWindows /\ PrefixesSound(ts, ws)
<1> DEFINE pos == UserPositions(ts)
           e == WindowEnds(ts)
           m == Len(e)
           L == Len(ts)
           all == [k \in 1..m |-> [from |-> 0, to |-> e[k]]]
           ws == SplitPrefixWindows(ts)
           n == Len(ws)
           d == m - n
           U == UserStep
<1>1. /\ e \in Seq(Nat) /\ m \in Nat \ {0} /\ e[m] = L
      /\ \A i, j \in 1..m : i < j => e[i] < e[j]
      /\ \A k \in 1..(m - 1) : k * U \in 1..Len(pos) /\ e[k] = pos[k * U] + 1
  BY WindowEndsAre
<1>2. ws = KeepLast(all)
  BY DEF SplitPrefixWindows
<1>3. U \in Nat \ {0} /\ MaxWindows \in Nat \ {0} /\ L \in Nat
  BY WindowsAssumption
<1> HIDE DEF e, L, ws, pos, U
<1>4. \A k \in 1..m : e[k] \in Nat /\ e[k] <= L
  <2> TAKE k \in 1..m
  <2>1. e[k] \in Nat /\ m \in 1..m /\ (k = m \/ k < m)
    BY <1>1
  <2>2. CASE k = m
    BY <1>1, <1>3, <2>1, <2>2
  <2>3. CASE k < m
    <3>1. e[k] < e[m]
      BY <1>1, <2>1, <2>3
    <3> QED BY <1>1, <1>3, <2>1, <3>1
  <2> QED BY <2>1, <2>2, <2>3
<1>5. all \in Seq(Window) /\ Len(all) = m /\ \A k \in 1..m : all[k].from = 0 /\ all[k].to = e[k]
  <2>1. \A k \in 1..m : [from |-> 0, to |-> e[k]] \in Window
    BY <1>4 DEF Window
  <2>2. all \in Seq(Window) /\ Len(all) = m
    BY <1>1, <2>1
  <2> QED BY <2>2
<1> HIDE DEF all, m
<1>6. /\ ws \in Seq(Window) /\ n \in 1..MaxWindows /\ d \in Nat
      /\ \A k \in 1..n : ws[k] = all[d + k]
  BY <1>1, <1>2, <1>5, KeepLastKeeps
<1>7. \A k \in 1..n : d + k \in 1..m /\ ws[k].from = 0 /\ ws[k].to = e[d + k]
  <2> TAKE k \in 1..n
  <2>1. d + k \in 1..m
    BY <1>1, <1>3, <1>6
  <2> QED BY <1>5, <1>6, <2>1
<1>8. SlicesOf(ts, ws)
  <2>1. n \in 1..n /\ d + n = m
    BY <1>1, <1>3, <1>6
  <2>2. ws[n].to = L
    BY <1>1, <1>7, <2>1
  <2>3. \A k \in 1..n : ws[k].from <= ws[k].to /\ ws[k].to <= L
    <3> TAKE k \in 1..n
    <3>1. ws[k].from = 0 /\ ws[k].to = e[d + k] /\ e[d + k] \in Nat /\ e[d + k] <= L
      BY <1>4, <1>7
    <3> QED BY <3>1
  <2>4. n \in Nat \ {0}
    BY <1>6
  <2> QED BY <1>6, <2>2, <2>3, <2>4 DEF SlicesOf, L
<1>9. ASSUME NEW k \in 1..(n - 1)
      PROVE  /\ UsersIn(ts, ws[k]) = (d + k) * U /\ ts[ws[k].to] = "user"
             /\ ws[k].to < ws[k + 1].to
  <2>1. k \in 1..n /\ k + 1 \in 1..n /\ d + k \in 1..(m - 1) /\ d + k \in Nat /\ d + (k + 1) = (d + k) + 1
    BY <1>1, <1>3, <1>6
  <2> DEFINE b == (d + k) * U
  <2>2. b \in 1..Len(pos) /\ ws[k].from = 0 /\ ws[k].to = pos[b] + 1
    BY <1>1, <1>7, <2>1
  <2>3. ws[k].to < ws[k + 1].to
    <3>1. d + k \in 1..m /\ d + (k + 1) \in 1..m /\ d + k < d + (k + 1)
      BY <1>7, <2>1
    <3> QED BY <1>1, <1>7, <2>1, <3>1
  <2> HIDE DEF b
  <2>4. Cardinality(UsersFrom(ts, 1, pos[b] + 1)) = b - 0 /\ ts[pos[b] + 1] = "user"
    <3>1. b \in 1..Len(UserPositions(ts)) /\ 0 < b
      BY <2>2 DEF pos
    <3> QED BY <3>1, UsersBetween DEF pos
  <2>5. UsersIn(ts, ws[k]) = b
    <3>1. b - 0 = b
      BY <2>2
    <3> QED BY <2>2, <2>4, <3>1 DEF UsersIn, UsersFrom
  <2> QED BY <2>2, <2>3, <2>4, <2>5 DEF b
<1>10. PrefixesSound(ts, ws)
  <2>1. \A k \in 1..(n - 1) : UsersIn(ts, ws[k]) % U = 0
    <3> TAKE k \in 1..(n - 1)
    <3>1. d + k \in Nat
      BY <1>6
    <3>2. ((d + k) * U) % U = 0
      BY <1>3, <3>1, Steps
    <3> QED BY <1>9, <3>2
  <2>2. \A k \in 1..(n - 1) : k + 1 < n => UsersIn(ts, ws[k + 1]) = UsersIn(ts, ws[k]) + U
    <3> TAKE k \in 1..(n - 1)
    <3> HAVE k + 1 < n
    <3>1. k + 1 \in 1..(n - 1) /\ d + k \in Nat /\ d + (k + 1) = (d + k) + 1
      BY <1>6
    <3>2. ((d + k) + 1) * U = (d + k) * U + U
      BY <1>3, <3>1, Steps
    <3> QED BY <1>9, <3>1, <3>2
  <2> QED BY <1>7, <1>9, <2>1, <2>2 DEF PrefixesSound, U
<1> QED BY <1>3, <1>6, <1>8, <1>10 DEF ws

\* The windows of route non_prefix.
LEMMA SliceWindowsAre ==
    ASSUME NEW ts \in Seq(Roles), ts # <<>>
    PROVE  LET ws == SplitNonPrefixWindows(ts)
           IN  SlicesOf(ts, ws) /\ Len(ws) <= MaxWindows /\ SlicesSound(ts, ws)
<1> DEFINE pos == UserPositions(ts)
           e == WindowEnds(ts)
           m == Len(e)
           L == Len(ts)
           begin(k) == IF k = 1 THEN 0 ELSE e[k - 1]
           all == [k \in 1..m |-> [from |-> IF k = 1 THEN 0 ELSE e[k - 1], to |-> e[k]]]
           ws == SplitNonPrefixWindows(ts)
           n == Len(ws)
           d == m - n
           U == UserStep
<1>1. /\ e \in Seq(Nat) /\ m \in Nat \ {0} /\ e[m] = L
      /\ \A i, j \in 1..m : i < j => e[i] < e[j]
      /\ \A k \in 1..(m - 1) : k * U \in 1..Len(pos) /\ e[k] = pos[k * U] + 1
  BY WindowEndsAre
<1>2. ws = KeepLast(all)
  BY DEF SplitNonPrefixWindows
<1>3. U \in Nat \ {0} /\ MaxWindows \in Nat \ {0} /\ L \in Nat
  BY WindowsAssumption
<1> HIDE DEF e, L, ws, pos, U
<1>4. \A k \in 1..m : e[k] \in Nat /\ e[k] <= L
  <2> TAKE k \in 1..m
  <2>1. e[k] \in Nat /\ m \in 1..m /\ (k = m \/ k < m)
    BY <1>1
  <2>2. CASE k = m
    BY <1>1, <1>3, <2>1, <2>2
  <2>3. CASE k < m
    <3>1. e[k] < e[m]
      BY <1>1, <2>1, <2>3
    <3> QED BY <1>1, <1>3, <2>1, <3>1
  <2> QED BY <2>1, <2>2, <2>3
<1>5. \A k \in 1..m : begin(k) \in Nat /\ begin(k) <= e[k]
  <2> TAKE k \in 1..m
  <2>1. CASE k = 1
    BY <1>4, <2>1
  <2>2. CASE k # 1
    <3>1. k - 1 \in 1..m /\ k - 1 < k
      BY <2>2
    <3> QED BY <1>1, <1>4, <2>2, <3>1
  <2> QED BY <2>1, <2>2
<1>6. all \in Seq(Window) /\ Len(all) = m /\ \A k \in 1..m : all[k].from = begin(k) /\ all[k].to = e[k]
  <2>1. \A k \in 1..m : [from |-> begin(k), to |-> e[k]] \in Window
    BY <1>4, <1>5 DEF Window
  <2>2. all \in Seq(Window) /\ Len(all) = m
    BY <1>1, <2>1
  <2> QED BY <2>2
<1> HIDE DEF all, m, begin
<1>7. /\ ws \in Seq(Window) /\ n \in 1..MaxWindows /\ d \in Nat
      /\ d > 0 => n = MaxWindows
      /\ \A k \in 1..n : ws[k] = all[d + k]
  BY <1>1, <1>2, <1>6, KeepLastKeeps
<1>8. \A k \in 1..n : d + k \in 1..m /\ ws[k].from = begin(d + k) /\ ws[k].to = e[d + k]
  <2> TAKE k \in 1..n
  <2>1. d + k \in 1..m
    BY <1>1, <1>3, <1>7
  <2> QED BY <1>6, <1>7, <2>1
<1>9. SlicesOf(ts, ws)
  <2>1. n \in 1..n /\ d + n = m
    BY <1>1, <1>3, <1>7
  <2>2. ws[n].to = L
    BY <1>1, <1>8, <2>1
  <2>3. \A k \in 1..n : ws[k].from <= ws[k].to /\ ws[k].to <= L
    <3> TAKE k \in 1..n
    <3>1. /\ ws[k].from = begin(d + k) /\ ws[k].to = e[d + k] /\ e[d + k] <= L
          /\ begin(d + k) <= e[d + k]
      BY <1>4, <1>5, <1>8
    <3> QED BY <3>1
  <2>4. n \in Nat \ {0}
    BY <1>7
  <2> QED BY <1>7, <2>2, <2>3, <2>4 DEF SlicesOf, L
<1>10. ASSUME NEW k \in 1..(n - 1)
       PROVE  ws[k].to = ws[k + 1].from /\ UsersIn(ts, ws[k]) = U
  <2> DEFINE j == d + k
             b == j * U
             a == (j - 1) * U
  <2>1. /\ k \in 1..n /\ k + 1 \in 1..n /\ j \in 1..(m - 1) /\ d + (k + 1) = j + 1
        /\ j + 1 # 1 /\ (j + 1) - 1 = j /\ j - 1 \in Nat /\ (j - 1) + 1 = j
    BY <1>1, <1>3, <1>7
  <2> HIDE DEF j
  <2>2. ws[k].to = ws[k + 1].from
    <3>1. begin(j + 1) = e[j]
      BY <2>1 DEF begin
    <3> QED BY <1>8, <2>1, <3>1 DEF j
  <2>3. b \in 1..Len(pos) /\ ws[k].from = begin(j) /\ ws[k].to = pos[b] + 1
    BY <1>1, <1>8, <2>1 DEF j
  <2>4. a \in Nat /\ b = a + U /\ a < b
    BY <1>3, <2>1, Steps
  <2>5. ws[k].from + 1 = IF a = 0 THEN 1 ELSE pos[a] + 2
    <3>1. CASE j = 1
      <4>1. a = 0 /\ begin(j) = 0
        BY <1>3, <3>1 DEF begin
      <4> QED BY <2>3, <4>1
    <3>2. CASE j # 1
      <4>1. j - 1 \in 1..(m - 1)
        BY <1>1, <2>1, <3>2
      <4>2. a \in 1..Len(pos) /\ e[j - 1] = pos[a] + 1 /\ begin(j) = e[j - 1]
        BY <1>1, <3>2, <4>1 DEF begin
      <4>3. e[j - 1] \in Nat /\ pos[a] \in Nat
        <5>1. pos \in Seq(Nat)
          BY UserPositionsAre DEF pos
        <5> QED BY <4>2, <5>1
      <4> QED BY <2>3, <4>2, <4>3
    <3> QED BY <3>1, <3>2
  <2> HIDE DEF a, b
  <2>6. Cardinality(UsersFrom(ts, ws[k].from + 1, pos[b] + 1)) = b - a
    <3>1. b \in 1..Len(UserPositions(ts)) /\ ws[k].from + 1 = IF a = 0 THEN 1 ELSE UserPositions(ts)[a] + 2
      BY <2>3, <2>5 DEF pos
    <3> QED BY <2>4, <3>1, UsersBetween DEF pos
  <2>7. b - a = U
    BY <1>3, <2>4
  <2> QED BY <2>2, <2>3, <2>6, <2>7 DEF UsersIn, UsersFrom
<1>11. SlicesSound(ts, ws)
  <2>1. n < MaxWindows => ws[1].from = 0
    <3> HAVE n < MaxWindows
    <3>1. d = 0 /\ 1 \in 1..n /\ d + 1 = 1
      BY <1>3, <1>7
    <3> QED BY <1>8, <3>1 DEF begin
  <2> QED BY <1>10, <2>1 DEF SlicesSound, U
<1> QED BY <1>3, <1>7, <1>9, <1>11 DEF ws

\* The windows of every route.
LEMMA WindowsAre ==
    ASSUME NEW ts \in Seq(Roles), ts # <<>>, NEW r \in {"prefix", "non_prefix", "full", "full2"}
    PROVE  LET ws == WindowsOf(ts, r)
           IN  /\ SlicesOf(ts, ws) /\ Len(ws) <= MaxWindows + 1
               /\ r \in {"prefix", "non_prefix"} => Len(ws) <= MaxWindows
               /\ r = "prefix" => PrefixesSound(ts, ws)
               /\ r = "non_prefix" => SlicesSound(ts, ws)
               /\ r # "non_prefix" => \A k \in 1..Len(ws) : ws[k].from = 0
<1>1. MaxWindows \in Nat \ {0} /\ Len(ts) \in Nat
  BY WindowsAssumption
<1>2. CASE r = "prefix"
  <2>1. WindowsOf(ts, r) = SplitPrefixWindows(ts)
    BY <1>2 DEF WindowsOf
  <2>2. Len(SplitPrefixWindows(ts)) \in Nat
    BY PrefixWindowsAre DEF SlicesOf
  <2> QED BY <1>1, <1>2, <2>1, <2>2, PrefixWindowsAre DEF PrefixesSound
<1>3. CASE r = "non_prefix"
  <2>1. WindowsOf(ts, r) = SplitNonPrefixWindows(ts)
    BY <1>3 DEF WindowsOf
  <2>2. Len(SplitNonPrefixWindows(ts)) \in Nat
    BY SliceWindowsAre DEF SlicesOf
  <2> QED BY <1>1, <1>3, <2>1, <2>2, SliceWindowsAre
<1>4. Whole(ts) \in Window /\ Whole(ts).from = 0 /\ Whole(ts).to = Len(ts)
  BY <1>1 DEF Whole, Window
<1>5. CASE r = "full"
  <2> DEFINE w == <<Whole(ts)>>
  <2>1. WindowsOf(ts, r) = w
    BY <1>5 DEF WindowsOf
  <2>2. w \in Seq(Window) /\ Len(w) = 1 /\ \A k \in 1..1 : w[k] = Whole(ts)
    BY <1>4
  <2> HIDE DEF w
  <2>3. SlicesOf(ts, w)
    BY <1>1, <1>4, <2>2 DEF SlicesOf
  <2>4. \A k \in 1..Len(w) : w[k].from = 0
    BY <1>4, <2>2
  <2>5. Len(w) <= MaxWindows + 1
    BY <1>1, <2>2
  <2>6. r \notin {"prefix", "non_prefix"}
    BY <1>5
  <2> QED BY <2>1, <2>3, <2>4, <2>5, <2>6
<1>6. CASE r = "full2"
  <2> DEFINE w == <<Whole(ts), Whole(ts)>>
  <2>1. WindowsOf(ts, r) = w
    BY <1>6 DEF WindowsOf
  <2>2. w \in Seq(Window) /\ Len(w) = 2 /\ \A k \in 1..2 : w[k] = Whole(ts)
    BY <1>4
  <2> HIDE DEF w
  <2>3. SlicesOf(ts, w)
    BY <1>1, <1>4, <2>2 DEF SlicesOf
  <2>4. \A k \in 1..Len(w) : w[k].from = 0
    BY <1>4, <2>2
  <2>5. Len(w) <= MaxWindows + 1
    BY <1>1, <2>2
  <2>6. r \notin {"prefix", "non_prefix"}
    BY <1>6
  <2> QED BY <2>1, <2>3, <2>4, <2>5, <2>6
<1> QED BY <1>2, <1>3, <1>5, <1>6

\* What a point is: a topic, or nothing yet.
Values == AnyTopic \cup {Zero}

-----------------------------------------------------------------------------
(* 3. What extract makes of an answer.                                     *)

\* A range that is mapped begins at no message before the first.
LEMMA MappedRange ==
    ASSUME NEW range \in Int \X Int, NEW idx \in Seq(Nat), idx # <<>>
    PROVE  MapTurnRange(range, idx) \in Nat \X Int
<1> DEFINE N == Len(idx)
           s == IF range[1] < 1 THEN 1 ELSE range[1]
           e == Clamp(range[2], s, N)
<1>1. N \in Nat \ {0} /\ range[1] \in Int /\ range[2] \in Int /\ range = <<range[1], range[2]>>
  OBVIOUS
<1>2. s \in Nat \ {0}
  BY <1>1
<1>3. MapTurnRange(range, idx) = IF idx = <<>> \/ range = <<0, 0>> \/ s > N THEN range ELSE <<idx[s], idx[e]>>
  BY DEF MapTurnRange
<1>4. s <= N => e \in 1..N
  <2> HIDE DEF s, N
  <2> QED BY <1>1, <1>2 DEF Clamp
<1>5. s > N => range[1] \in Nat
  BY <1>1
<1> HIDE DEF s, e
<1>6. CASE range = <<0, 0>>
  BY <1>3, <1>6
<1>7. CASE range # <<0, 0>> /\ s > N
  <2>1. MapTurnRange(range, idx) = <<range[1], range[2]>>
    BY <1>1, <1>3, <1>7
  <2> QED BY <1>1, <1>5, <1>7, <2>1
<1>8. CASE range # <<0, 0>> /\ ~(s > N)
  <2>1. s \in 1..N /\ e \in 1..N
    BY <1>1, <1>2, <1>4, <1>8
  <2>2. idx[s] \in Nat /\ idx[e] \in Int
    BY <2>1
  <2> QED BY <1>3, <1>8, <2>2
<1> QED BY <1>6, <1>7, <1>8

\* new is the candidates of old with their ranges mapped.
MapsRanges(old, new, idx) ==
    /\ Len(new) = Len(old)
    /\ \A k \in 1..Len(old) : new[k] = [old[k] EXCEPT !.range = MapTurnRange(old[k].range, idx)]

\* The candidates kept of an answer do not depend on the turns, their ranges do.
LEMMA ExtractedAre ==
    ASSUME NEW raw \in Seq(Candidate)
    PROVE  \E old \in Seq(Candidate) :
             /\ \A idx : MapsRanges(old, Extracted(raw, idx), idx) /\ DOMAIN Extracted(raw, idx) = 1..Len(old)
             /\ raw = <<>> => old = <<>>
             /\ \A k \in 1..Len(old) : Extracted(raw, <<>>)[k] = old[k]
<1> DEFINE S == {c \in Range(raw) : c.confidence >= MinConfidence}
           conf == Among(raw, S)
           old == SubSeq(conf, 1, IF Len(conf) > MaxCandidates THEN MaxCandidates ELSE Len(conf))
<1>1. PICK c \in [0..Len(raw) -> Seq(Candidate)] : Keeps(c, raw, S) /\ conf = c[Len(raw)]
  <2> HIDE DEF S
  <2> QED BY AmongSteps
<1>2. conf \in Seq(Candidate) /\ (raw = <<>> => conf = <<>>)
  <2>1. c[Len(raw)] \in Seq(Candidate)
    BY <1>1
  <2>2. raw = <<>> => c[Len(raw)] = <<>>
    BY <1>1 DEF Keeps
  <2> QED BY <1>1, <2>1, <2>2
<1>3. MaxCandidates \in Nat
  BY WindowsAssumption
<1> HIDE DEF conf
<1>4. old \in Seq(Candidate) /\ (raw = <<>> => old = <<>>)
  BY <1>2, <1>3
<1>5. \A idx : Extracted(raw, idx) = [k \in 1..Len(old) |-> [old[k] EXCEPT !.range = MapTurnRange(@, idx)]]
  BY DEF Extracted, conf
<1> HIDE DEF old
<1>6. \A idx : Len(Extracted(raw, idx)) = Len(old) /\ DOMAIN Extracted(raw, idx) = 1..Len(old)
               /\ \A k \in 1..Len(old) :
                    Extracted(raw, idx)[k] = [old[k] EXCEPT !.range = MapTurnRange(old[k].range, idx)]
  <2> TAKE idx
  <2> DEFINE v(k) == [old[k] EXCEPT !.range = MapTurnRange(old[k].range, idx)]
             new == [k \in 1..Len(old) |-> v(k)]
  <2>1. Len(old) \in Nat
    BY <1>4
  <2>2. Extracted(raw, idx) = new
    BY <1>5
  <2> HIDE DEF v
  <2>3. Len(new) = Len(old) /\ DOMAIN new = 1..Len(old) /\ \A k \in 1..Len(old) : new[k] = v(k)
    BY <2>1
  <2> QED BY <2>2, <2>3 DEF v
<1>7. \A k \in 1..Len(old) : Extracted(raw, <<>>)[k] = old[k]
  <2> TAKE k \in 1..Len(old)
  <2>1. MapTurnRange(old[k].range, <<>>) = old[k].range
    BY DEF MapTurnRange
  <2>2. old[k] \in Candidate
    BY <1>4
  <2>3. [old[k] EXCEPT !.range = old[k].range] = old[k]
    BY <2>2 DEF Candidate
  <2> QED BY <1>6, <2>1, <2>3
<1> QED BY <1>4, <1>6, <1>7 DEF MapsRanges

\* They begin at no message before the first.
LEMMA ExtractedType ==
    ASSUME NEW raw \in Seq(Candidate), NEW idx \in Seq(Nat), idx = <<>> => raw = <<>>
    PROVE  Extracted(raw, idx) \in Seq(Mapped)
<1>1. PICK old \in Seq(Candidate) :
             /\ \A i : MapsRanges(old, Extracted(raw, i), i) /\ DOMAIN Extracted(raw, i) = 1..Len(old)
             /\ raw = <<>> => old = <<>>
  BY ExtractedAre
<1> DEFINE new == Extracted(raw, idx)
<1>2. /\ DOMAIN new = 1..Len(old)
      /\ \A k \in 1..Len(old) : new[k] = [old[k] EXCEPT !.range = MapTurnRange(old[k].range, idx)]
  BY <1>1 DEF MapsRanges
<1>3. ASSUME NEW k \in 1..Len(old) PROVE new[k] \in Mapped
  <2>1. idx # <<>>
    BY <1>1
  <2>2. old[k] \in Candidate
    OBVIOUS
  <2>3. old[k].range \in Int \X Int
    BY <2>2 DEF Candidate
  <2>4. MapTurnRange(old[k].range, idx) \in Nat \X Int
    BY <2>1, <2>3, MappedRange
  <2> QED BY <1>2, <2>2, <2>4 DEF Candidate, Mapped
<1>4. new = [k \in 1..Len(old) |-> new[k]]
  <2>1. new = [k \in DOMAIN new |-> new[k]]
    BY DEF Extracted
  <2> HIDE DEF new
  <2> QED BY <1>2, <2>1
<1> HIDE DEF new
<1>5. new \in Seq(Mapped)
  BY <1>3, <1>4
<1> QED BY <1>5 DEF new

\* The turns of a window are messages of it, in their order.
LEMMA RenderIndicesAre ==
    ASSUME NEW ts \in Seq(Roles), NEW w \in Window, w.from <= w.to, w.to <= Len(ts),
           NEW tool
    PROVE  LET idx == RenderIndices(ts, w, tool)
           IN  /\ idx \in Seq(Nat)
               /\ Ascending(idx)
               /\ \A k \in 1..Len(idx) : idx[k] < w.to - w.from
<1> DEFINE N == w.to - w.from
           all == [i \in 1..N |-> i - 1]
           S == {p \in 0..(N - 1) : ts[w.from + p + 1] # "tool" \/ tool}
           idx == RenderIndices(ts, w, tool)
<1>1. N \in Nat
  BY DEF Window
<1> HIDE DEF N
<1>2. all \in Seq(Int) /\ Ascending(all)
  BY <1>1 DEF Ascending
<1>3. idx = Among(all, S)
  BY DEF RenderIndices, N
<1> HIDE DEF all, S, idx
<1>4. idx \in Seq(Int) /\ Ascending(idx) /\ \A x : Has(idx, x) => x \in S
  BY <1>2, <1>3, AmongAscending
<1>5. ASSUME NEW k \in 1..Len(idx) PROVE idx[k] \in Nat /\ idx[k] < N
  <2>1. idx[k] \in S
    BY <1>4 DEF Has
  <2> QED BY <1>1, <2>1 DEF S
<1> QED BY <1>4, <1>5 DEF idx, N

\* The windows of a transcript that is being read and what they have given so far.
Reading ==
    /\ turns # <<>> /\ Tasks = 1..Len(windows)
    /\ result \in Seq(Seq(Mapped)) /\ Len(result) = Len(windows)
    /\ \A i \in Tasks : task[i] \in {"waiting", "running"} => result[i] = <<>>
\* The points of the merge and what its batches have given so far.
Embedding ==
    /\ Tasks = DOMAIN pts /\ DOMAIN result = DOMAIN pts
    /\ \A i \in Tasks : result[i] \in Values
\* Its clusters.
Merging ==
    /\ leader \in Components(pts)
    /\ DOMAIN result = Tasks
    /\ \A i \in Tasks : result[i] \subseteq Values

\* The goroutines, and the places they take.
Batch ==
    /\ Tasks \subseteq Nat /\ IsFiniteSet(Tasks)
    /\ \A i \in Tasks : task[i] \in Status
    /\ Cardinality(Running) <= MaxConc

\* The transcript, the phase and what the run leaves behind; the points.
Scalars ==
    /\ turns \in Seq(Roles) /\ route \in Routes
    /\ phase \in {"start", "windows", "extracted", "embed", "merge", "merged",
                  "returned", "marked", "failed"}
    /\ expired \in BOOLEAN /\ stored \in BOOLEAN
    /\ points \subseteq Values /\ owed \subseteq AnyTopic
    /\ folded \subseteq AnyTopic \X AnyTopic /\ voided \subseteq AnyTopic
Filled ==
    /\ DOMAIN pts \subseteq Nat /\ IsFiniteSet(DOMAIN pts)
    /\ \A i \in DOMAIN pts : pts[i] \in Values

\* What depends on where the run is.
Phased ==
    /\ phase = "windows" => Reading
    /\ phase = "extracted" => result \in Seq(Seq(Mapped)) /\ cands = Dedupe(Flatten(result))
    /\ phase = "embed" => Embedding
    /\ phase = "merge" => Merging
Typed == Scalars /\ Batch /\ Filled /\ Phased

-----------------------------------------------------------------------------
(* Goroutines and places.                                                  *)

\* A goroutine takes a free place.
LEMMA StartKeepsBatch ==
    ASSUME Batch, NEW i \in Tasks, Cardinality(Running) < MaxConc,
           task' = [task EXCEPT ![i] = "running"]
    PROVE  Batch'
<1>1. Tasks' = Tasks /\ Running' = Running \cup {i}
  BY DEF Tasks, Running
<1>2. IsFiniteSet(Running) /\ MaxConc \in Nat
  BY FS_Subset, ExtractionAssumption DEF Batch, Running
<1>3. /\ Cardinality(Running) \in Nat /\ Cardinality(Running \cup {i}) \in Nat
      /\ Cardinality(Running \cup {i}) <= Cardinality(Running) + 1
  <2>1. Cardinality(Running) \in Nat
    BY <1>2, FS_CardinalityType
  <2>2. Cardinality(Running \cup {i}) = IF i \in Running THEN Cardinality(Running) ELSE Cardinality(Running) + 1
    BY <1>2, FS_AddElement
  <2> QED BY <2>1, <2>2
<1>4. Cardinality(Running') <= MaxConc
  BY <1>1, <1>2, <1>3
<1>5. \A j \in Tasks' : task'[j] \in Status
  BY <1>1 DEF Batch, Status, Tasks
<1> QED BY <1>1, <1>4, <1>5 DEF Batch

\* A goroutine gives its place back, or leaves without one.
LEMMA EndKeepsBatch ==
    ASSUME Batch, NEW i \in Tasks, NEW s \in {"ok", "failed", "left"},
           task' = [task EXCEPT ![i] = s]
    PROVE  Batch'
<1>1. Tasks' = Tasks /\ Running' \subseteq Running
  BY DEF Tasks, Running
<1>2. IsFiniteSet(Running) /\ MaxConc \in Nat
  BY FS_Subset, ExtractionAssumption DEF Batch, Running
<1>3. Cardinality(Running') <= Cardinality(Running) /\ Cardinality(Running) \in Nat /\ Cardinality(Running') \in Nat
  <2>1. IsFiniteSet(Running') /\ Cardinality(Running') <= Cardinality(Running)
    BY <1>1, <1>2, FS_Subset
  <2> QED BY <1>2, <2>1, FS_CardinalityType
<1>4. Cardinality(Running') <= MaxConc
  <2>1. Cardinality(Running) <= MaxConc
    BY DEF Batch
  <2> QED BY <1>2, <1>3, <2>1
<1>5. \A j \in Tasks' : task'[j] \in Status
  BY <1>1 DEF Batch, Status, Tasks
<1> QED BY <1>1, <1>4, <1>5 DEF Batch

\* A new batch has taken no place.
LEMMA BeginKeepsBatch ==
    ASSUME NEW ids, ids \subseteq Nat, IsFiniteSet(ids), task' = [i \in ids |-> "waiting"]
    PROVE  Batch' /\ Tasks' = ids
<1>1. Tasks' = ids /\ Running' = {} /\ \A i \in ids : task'[i] = "waiting"
  BY DEF Tasks, Running
<1>2. Cardinality(Running') = 0 /\ MaxConc \in Nat
  BY <1>1, FS_EmptySet, ExtractionAssumption
<1> QED BY <1>1, <1>2 DEF Batch, Status

\* Without tasks.
LEMMA NoBatch ==
    ASSUME task' = <<>>
    PROVE  Batch'
<1>1. task' = [i \in {} |-> "waiting"]
  OBVIOUS
<1> QED BY <1>1, BeginKeepsBatch, FS_EmptySet

-----------------------------------------------------------------------------
\* Before the run.
LEMMA TypedInit == Init => Typed
<1> SUFFICES ASSUME Init PROVE Typed
    OBVIOUS
<1>1. turns \in Seq(Roles)
  <2>1. PICK n \in 0..MaxTurns : turns \in [1..n -> Roles]
    BY DEF Init
  <2>2. n \in Nat
    BY ExtractionAssumption
  <2> QED BY <2>1, <2>2
<1>2. Scalars
  BY <1>1 DEF Init, Scalars
<1>3. Batch
  <2>1. Tasks = {} /\ Running = {}
    BY DEF Init, Tasks, Running
  <2>2. IsFiniteSet({}) /\ Cardinality({}) = 0 /\ MaxConc \in Nat
    BY FS_EmptySet, ExtractionAssumption
  <2> QED BY <2>1, <2>2 DEF Batch
<1>4. Filled
  <2>1. DOMAIN pts = {}
    BY DEF Init
  <2> QED BY <2>1, FS_EmptySet DEF Filled
<1> QED BY <1>2, <1>3, <1>4 DEF Typed, Phased, Init

\* Start, Leave and Fail touch nothing but the status of a task.
LEMMA StatusTyped ==
    ASSUME Typed, NEW i \in Tasks, Start(i) \/ Leave(i) \/ Fail(i)
    PROVE  Typed'
<1>1. /\ DOMAIN task' = DOMAIN task /\ \A j \in Tasks : j # i => task'[j] = task[j]
      /\ UNCHANGED <<turns, route, phase, expired, result, cands, stored, pts, leader, points, owed, folded, voided>>
      /\ task[i] \in {"waiting", "running"}
  BY DEF Start, Leave, Fail, merging, read, Tasks
<1>2. Batch'
  <2>1. CASE Start(i)
    BY <2>1, StartKeepsBatch DEF Typed, Start
  <2>2. CASE Leave(i)
    BY <2>2, EndKeepsBatch DEF Typed, Leave
  <2>3. CASE Fail(i)
    BY <2>3, EndKeepsBatch DEF Typed, Fail
  <2> QED BY <2>1, <2>2, <2>3
<1>3. Tasks' = Tasks
  BY <1>1 DEF Tasks
<1>4. windows' = windows
  BY <1>1 DEF windows
<1>5. phase = "windows" => Reading'
  <2> SUFFICES ASSUME phase = "windows" PROVE Reading'
      OBVIOUS
  <2>1. Reading
    BY DEF Typed, Phased
  <2>2. \A j \in Tasks : task'[j] \in {"waiting", "running"} => result[j] = <<>>
    BY <1>1, <2>1 DEF Reading
  <2> QED BY <1>1, <1>3, <1>4, <2>1, <2>2 DEF Reading
<1>6. phase = "embed" => Embedding'
  BY <1>1, <1>3 DEF Typed, Phased, Embedding
<1>7. phase = "merge" => Merging'
  BY <1>1, <1>3 DEF Typed, Phased, Merging
<1>8. Scalars' /\ Filled'
  BY <1>1 DEF Typed, Scalars, Filled
<1>9. Phased'
  BY <1>1, <1>5, <1>6, <1>7 DEF Typed, Phased
<1> QED BY <1>2, <1>8, <1>9 DEF Typed

\* The windows are those of WindowsAre.
LEMMA AnalyzeTyped ==
    ASSUME Typed, Analyze
    PROVE  Typed'
<1>1. /\ phase = "start"
      /\ UNCHANGED <<turns, route, expired, cands, stored, pts, leader, points, owed, folded, voided>>
      /\ phase' \in {"returned", "windows"}
  BY DEF Analyze, read, merging
<1>2. Scalars' /\ Filled'
  BY <1>1 DEF Typed, Scalars, Filled
<1>3. CASE turns = <<>>
  <2>1. phase' = "returned" /\ UNCHANGED task
    BY <1>3 DEF Analyze
  <2>2. Batch' /\ Phased'
    BY <2>1 DEF Typed, Batch, Phased, Tasks, Running
  <2> QED BY <1>2, <2>2 DEF Typed
<1>4. CASE turns # <<>>
  <2> DEFINE n == Len(windows)
  <2>1. phase' = "windows" /\ task' = [i \in 1..n |-> "waiting"] /\ result' = [i \in 1..n |-> <<>>]
    BY <1>4 DEF Analyze, Begin
  <2>2. turns \in Seq(Roles) /\ route \in {"prefix", "non_prefix", "full", "full2"}
    BY ExtractionAssumption DEF Typed, Scalars
  <2>3. n \in Nat
    BY <1>4, <2>2, WindowsAre DEF SlicesOf, windows
  <2>4. windows' = windows
    BY <1>1 DEF windows
  <2> HIDE DEF n
  <2>5. Batch' /\ Tasks' = 1..n
    <3>1. 1..n \subseteq Nat /\ IsFiniteSet(1..n)
      BY <2>3, FS_Interval
    <3> QED BY <2>1, <3>1, BeginKeepsBatch
  <2>6. result' \in Seq(Seq(Mapped)) /\ Len(result') = n /\ \A i \in 1..n : result'[i] = <<>>
    BY <2>1, <2>3
  <2>7. Reading'
    BY <1>1, <1>4, <2>4, <2>5, <2>6 DEF Reading, n
  <2> QED BY <1>2, <2>1, <2>5, <2>7 DEF Typed, Phased
<1> QED BY <1>3, <1>4

\* A window's answer.
LEMMA ExtractTyped ==
    ASSUME Typed, NEW i \in Tasks, NEW raw \in Answers, Extract(i, raw)
    PROVE  Typed'
<1> DEFINE w == windows[i]
           idx == RenderIndices(turns, w, route = "prefix")
           new == Extracted(raw, idx)
<1>1. /\ phase = "windows" /\ task[i] = "running"
      /\ UNCHANGED <<turns, route, phase, expired, cands, stored, pts, leader, points, owed, folded, voided>>
      /\ task' = [task EXCEPT ![i] = "ok"] /\ result' = [result EXCEPT ![i] = new]
      /\ idx = <<>> => raw = <<>>
  BY DEF Extract, Answered, merging
<1>2. Scalars' /\ Filled'
  BY <1>1 DEF Typed, Scalars, Filled
<1>3. Batch'
  BY <1>1, EndKeepsBatch DEF Typed
<1>4. Reading /\ turns \in Seq(Roles) /\ route \in {"prefix", "non_prefix", "full", "full2"}
  BY <1>1, ExtractionAssumption DEF Typed, Phased, Scalars
<1>5. SlicesOf(turns, windows)
  BY <1>4, WindowsAre DEF windows, Reading
<1>6. w \in Window /\ w.from <= w.to /\ w.to <= Len(turns)
  BY <1>4, <1>5 DEF SlicesOf, Reading
<1> HIDE DEF w
<1>7. idx \in Seq(Nat)
  BY <1>4, <1>6, RenderIndicesAre
<1>8. raw \in Seq(Candidate)
  <2>1. PICK n \in 0..MaxAnswer : raw \in [1..n -> Candidates]
    BY DEF Answers
  <2>2. n \in Nat /\ Candidates \subseteq Candidate
    BY ExtractionAssumption
  <2>3. raw \in [1..n -> Candidate]
    BY <2>1, <2>2
  <2> QED BY <2>2, <2>3
<1> HIDE DEF idx
<1>9. new \in Seq(Mapped)
  BY <1>1, <1>7, <1>8, ExtractedType
<1> HIDE DEF new
<1>10. Tasks' = Tasks /\ windows' = windows
  BY <1>1 DEF Tasks, windows
<1>11. /\ result' \in Seq(Seq(Mapped)) /\ Len(result') = Len(result)
       /\ \A j \in Tasks : j # i => result'[j] = result[j] /\ task'[j] = task[j]
       /\ task'[i] = "ok"
  <2>1. result \in Seq(Seq(Mapped)) /\ i \in 1..Len(result)
    BY <1>4 DEF Reading
  <2>2. result' \in Seq(Seq(Mapped)) /\ Len(result') = Len(result)
    BY <1>1, <1>9, <2>1
  <2> QED BY <1>1, <2>1, <2>2 DEF Tasks
<1>12. Reading'
  <2>1. \A j \in Tasks : task'[j] \in {"waiting", "running"} => result'[j] = <<>>
    BY <1>4, <1>11 DEF Reading
  <2> QED BY <1>1, <1>4, <1>10, <1>11, <2>1 DEF Reading
<1> QED BY <1>1, <1>2, <1>3, <1>12 DEF Typed, Phased


\* The results of the windows are flattened and folded.
LEMMA CollectWindowsTyped ==
    ASSUME Typed, CollectWindows
    PROVE  Typed'
<1>1. /\ phase = "windows" /\ phase' \in {"failed", "extracted"}
      /\ UNCHANGED <<turns, route, expired, task, result, stored, pts, leader, points, owed, folded, voided>>
      /\ phase' = "extracted" => cands' = Dedupe(Flatten(result))
  BY DEF CollectWindows, read, merging
<1>2. Scalars' /\ Filled' /\ Batch'
  BY <1>1 DEF Typed, Scalars, Filled, Batch, Tasks, Running
<1>3. result \in Seq(Seq(Mapped))
  BY <1>1 DEF Typed, Phased, Reading
<1> QED BY <1>1, <1>2, <1>3 DEF Typed, Phased

\* The points take their topics from the candidates.
LEMMA BeginMergeTyped ==
    ASSUME Typed, BeginMerge
    PROVE  Typed'
<1> DEFINE deduped == DedupeCandidates(cands)
           n == Len(deduped)
<1>1. /\ phase = "extracted" /\ phase' \in {"returned", "embed"}
      /\ UNCHANGED <<route, expired, stored, points, folded, voided>> /\ turns' = <<>>
      /\ pts' = [i \in 1..n |-> deduped[i].topic]
  BY DEF BeginMerge
<1>2. deduped \in Seq(Mapped)
  <2>1. result \in Seq(Seq(Mapped)) /\ cands = Dedupe(Flatten(result))
    BY <1>1 DEF Typed, Phased
  <2>2. Flatten(result) \in Seq(Mapped)
    BY <2>1, FlattenType
  <2>3. cands \in Seq(Mapped)
    BY <2>1, <2>2, DedupeCorrect
  <2> QED BY <2>3, DedupeCorrect
<1> DEFINE tp == [i \in 1..n |-> deduped[i].topic]
<1>3. n \in Nat /\ \A i \in 1..n : tp[i] \in AnyTopic
  <2>1. n \in Nat
    BY <1>2
  <2>2. \A i \in 1..n : deduped[i] \in Mapped
    BY <1>2
  <2> QED BY <2>1, <2>2 DEF Mapped
<1>4. pts' = tp /\ DOMAIN tp = 1..n
  BY <1>1
<1>5. (owed' = owed /\ phase' = "returned" /\ UNCHANGED task)
      \/ (/\ owed' = {tp[i] : i \in 1..n} /\ phase' = "embed"
          /\ task' = [i \in 1..n |-> "waiting"] /\ result' = [i \in 1..n |-> Zero])
  BY DEF BeginMerge, Begin
<1> HIDE DEF tp, n
<1>6. owed' \subseteq AnyTopic
  BY <1>3, <1>5 DEF Typed, Scalars
<1>7. Scalars'
  <2>1. turns' \in Seq(Roles)
    BY <1>1
  <2> QED BY <1>1, <1>6, <2>1 DEF Typed, Scalars
<1>8. 1..n \subseteq Nat /\ IsFiniteSet(1..n)
  BY <1>3, FS_Interval
<1>9. Filled'
  <2>1. \A i \in DOMAIN pts' : pts'[i] \in Values
    BY <1>3, <1>4 DEF Values
  <2> QED BY <1>4, <1>8, <2>1 DEF Filled
<1>10. CASE phase' = "returned"
  <2>1. Batch'
    BY <1>5, <1>10 DEF Typed, Batch, Tasks, Running
  <2> QED BY <1>7, <1>9, <1>10, <2>1 DEF Typed, Phased
<1>11. CASE phase' = "embed"
  <2>1. task' = [i \in 1..n |-> "waiting"] /\ result' = [i \in 1..n |-> Zero]
    BY <1>5, <1>11
  <2>2. Batch' /\ Tasks' = 1..n
    BY <1>8, <2>1, BeginKeepsBatch
  <2>3. Embedding'
    <3>1. DOMAIN result' = 1..n /\ \A i \in 1..n : result'[i] = Zero
      BY <2>1
    <3> QED BY <1>4, <2>2, <3>1 DEF Embedding, Values
  <2> QED BY <1>7, <1>9, <1>11, <2>2, <2>3 DEF Typed, Phased
<1> QED BY <1>1, <1>10, <1>11

\* A point is filled in.
LEMMA EmbedTyped ==
    ASSUME Typed, NEW i \in Tasks, Embed(i)
    PROVE  Typed'
<1>1. /\ phase = "embed"
      /\ UNCHANGED <<turns, route, phase, expired, cands, stored, pts, leader, points, owed, folded, voided>>
      /\ task' = [task EXCEPT ![i] = "ok"] /\ result' = [result EXCEPT ![i] = pts[i]]
  BY DEF Embed, Answered, read, merging
<1>2. Scalars' /\ Filled'
  BY <1>1 DEF Typed, Scalars, Filled
<1>3. Batch'
  BY <1>1, EndKeepsBatch DEF Typed
<1>4. Embedding /\ Filled
  BY <1>1 DEF Typed, Phased
<1>5. Embedding'
  <2>1. Tasks' = Tasks /\ DOMAIN result' = DOMAIN result
    BY <1>1 DEF Tasks
  <2>2. \A j \in Tasks : result'[j] \in Values
    BY <1>1, <1>4 DEF Embedding, Filled
  <2> QED BY <1>1, <1>4, <2>1, <2>2 DEF Embedding
<1> QED BY <1>1, <1>2, <1>3, <1>5 DEF Typed, Phased

\* The points go into clusters.
LEMMA CollectEmbeddingsTyped ==
    ASSUME Typed, CollectEmbeddings
    PROVE  Typed'
<1>1. /\ phase = "embed" /\ phase' \in {"failed", "merge"}
      /\ UNCHANGED <<turns, route, expired, cands, stored, points, owed, folded, voided>>
  BY DEF CollectEmbeddings, read
<1>2. Scalars'
  BY <1>1 DEF Typed, Scalars
<1>3. Embedding /\ Filled
  BY <1>1 DEF Typed, Phased
<1>4. CASE phase' = "failed"
  <2>1. UNCHANGED <<task, pts>>
    BY <1>4 DEF CollectEmbeddings
  <2>2. Batch' /\ Filled'
    BY <2>1 DEF Typed, Batch, Filled, Tasks, Running
  <2> QED BY <1>2, <1>4, <2>2 DEF Typed, Phased
<1>5. CASE phase' = "merge"
  <2> DEFINE ids == {i \in DOMAIN result : leader'[i] = i}
  <2>1. /\ pts' = result /\ leader' \in Components(result)
        /\ task' = [i \in ids |-> "waiting"] /\ result' = [i \in ids |-> {}]
    BY <1>5 DEF CollectEmbeddings, Begin
  <2>2. ids \subseteq Nat /\ IsFiniteSet(ids)
    <3>1. ids \subseteq DOMAIN pts /\ DOMAIN pts \subseteq Nat /\ IsFiniteSet(DOMAIN pts)
      BY <1>3 DEF Embedding, Filled
    <3> QED BY <3>1, FS_Subset
  <2>3. Batch' /\ Tasks' = ids
    BY <2>1, <2>2, BeginKeepsBatch
  <2>4. Filled'
    BY <1>3, <2>1 DEF Embedding, Filled
  <2>5. Merging'
    <3>1. DOMAIN result' = ids /\ \A i \in ids : result'[i] = {}
      BY <2>1
    <3> QED BY <2>1, <2>3, <3>1 DEF Merging
  <2> QED BY <1>2, <1>5, <2>3, <2>4, <2>5 DEF Typed, Phased
<1> QED BY <1>1, <1>4, <1>5

\* Only points with a vector are in a cluster of several.
LEMMA SeveralFilled ==
    ASSUME Filled, leader \in Components(pts), NEW i, ~(\A j \in DOMAIN pts : leader[j] = i => j = i)
    PROVE  ClusterOf(i) \subseteq AnyTopic
<1>1. PICK j \in DOMAIN pts : leader[j] = i /\ j # i
  OBVIOUS
<1>2. \A k \in DOMAIN pts : /\ leader[k] \in DOMAIN pts /\ leader[leader[k]] = leader[k]
                            /\ pts[k] = Zero => \A l \in DOMAIN pts : leader[l] = leader[k] => l = k
  BY DEF Components
<1>3. ASSUME NEW k \in DOMAIN pts, leader[k] = i PROVE pts[k] # Zero
  <2>1. i \in DOMAIN pts /\ leader[i] = i
    BY <1>1, <1>2
  <2> QED BY <1>1, <1>2, <1>3, <2>1
<1> QED BY <1>3 DEF ClusterOf, Filled, Values

\* A cluster has its result.
LEMMA MergeTyped ==
    ASSUME Typed, NEW i \in Tasks,
           NEW vs \in SUBSET Verdicts(ClusterOf(i)), Merge(i, vs)
    PROVE  Typed'
<1> DEFINE grp == ClusterOf(i)
           r == MergeCluster(grp, vs)
<1>1. /\ phase = "merge"
      /\ UNCHANGED <<turns, route, phase, expired, cands, stored, pts, leader, points, owed>>
      /\ task' = [task EXCEPT ![i] = "ok"] /\ result' = [result EXCEPT ![i] = r]
      /\ folded' = folded \cup FoldedBy(vs) /\ voided' = voided \cup VoidedBy(vs)
      /\ (\A j \in DOMAIN pts : leader[j] = i => j = i) => vs = {}
  BY DEF Merge, Answered, read
<1>2. Merging /\ Filled /\ folded \subseteq AnyTopic \X AnyTopic /\ voided \subseteq AnyTopic
  BY <1>1 DEF Typed, Phased, Scalars
<1>3. vs \subseteq Verdicts(grp)
  OBVIOUS
<1>4. \A v \in vs : v.sources \subseteq grp /\ (v.action = "merge" => v.merged \in AnyTopic)
  BY <1>3 DEF Verdicts
<1>5. vs # {} => grp \subseteq AnyTopic
  BY <1>1, <1>2, SeveralFilled DEF Merging
<1>6. folded' \subseteq AnyTopic \X AnyTopic /\ voided' \subseteq AnyTopic
  <2>1. FoldedBy(vs) \subseteq AnyTopic \X AnyTopic
    BY <1>4, <1>5 DEF FoldedBy
  <2>2. VoidedBy(vs) \subseteq AnyTopic
    BY <1>4, <1>5 DEF VoidedBy, Sources
  <2> QED BY <1>1, <1>2, <2>1, <2>2
<1>7. r \subseteq Values
  <2>1. grp \subseteq Values
    BY <1>2 DEF ClusterOf, Filled
  <2> HIDE DEF grp
  <2> QED BY <1>4, <2>1 DEF MergeCluster, Values
<1> HIDE DEF r
<1>8. Scalars' /\ Filled'
  BY <1>1, <1>6 DEF Typed, Scalars, Filled
<1>9. Batch'
  <2>1. Batch /\ task' = [task EXCEPT ![i] = "ok"]
    BY <1>1 DEF Typed
  <2>2. "ok" \in {"ok", "failed", "left"}
    OBVIOUS
  <2> HIDE DEF grp
  <2> QED BY <2>1, <2>2, EndKeepsBatch, Zenon
<1>10. Merging'
  <2>1. Tasks' = Tasks /\ DOMAIN result' = DOMAIN result
    BY <1>1 DEF Tasks
  <2>2. \A j \in Tasks : result'[j] \subseteq Values
    BY <1>1, <1>2, <1>7 DEF Merging
  <2> QED BY <1>1, <1>2, <2>1, <2>2 DEF Merging
<1> QED BY <1>1, <1>8, <1>9, <1>10 DEF Typed, Phased

\* The results of the clusters are the points of the session.
LEMMA CollectClustersTyped ==
    ASSUME Typed, CollectClusters
    PROVE  Typed'
<1>1. /\ phase = "merge" /\ phase' \in {"failed", "returned", "merged"}
      /\ UNCHANGED <<turns, route, expired, cands, stored, pts, leader, owed, folded, voided>>
      /\ task' = <<>>
      /\ points' \subseteq UNION {result[i] : i \in Tasks}
  BY DEF CollectClusters, read
<1>2. Merging
  BY <1>1 DEF Typed, Phased
<1>3. points' \subseteq Values
  BY <1>1, <1>2 DEF Merging
<1>4. Batch'
  BY <1>1, NoBatch
<1>5. Scalars' /\ Filled'
  BY <1>1, <1>3 DEF Typed, Scalars, Filled
<1> QED BY <1>1, <1>4, <1>5 DEF Typed, Phased

-----------------------------------------------------------------------------
\* Every step keeps the types.
LEMMA TypedNext ==
    ASSUME Typed, [Next]_vars
    PROVE  Typed'
<1>1. CASE Expire
  <2>1. /\ UNCHANGED <<turns, route, phase, task, result, cands, pts, leader, points, stored, owed, folded, voided>>
        /\ expired' = TRUE
    BY <1>1 DEF Expire
  <2> QED BY <2>1 DEF Typed, Scalars, Batch, Filled, Phased, Reading, Embedding, Merging, Tasks, Running, windows
<1>2. CASE Analyze
  BY <1>2, AnalyzeTyped
<1>3. CASE CollectWindows
  BY <1>3, CollectWindowsTyped
<1>4. CASE BeginMerge
  BY <1>4, BeginMergeTyped
<1>5. CASE CollectEmbeddings
  BY <1>5, CollectEmbeddingsTyped
<1>6. CASE CollectClusters
  BY <1>6, CollectClustersTyped
<1>7. ASSUME Persist \/ MarkProcessed PROVE Typed'
  <2>1. /\ UNCHANGED <<turns, route, expired, task, result, cands, pts, leader, points, owed, folded, voided>>
        /\ stored' \in {stored, TRUE} /\ phase' \in {"failed", "returned", "marked"}
    BY <1>7 DEF Persist, MarkProcessed, read, merging
  <2> QED BY <2>1 DEF Typed, Scalars, Batch, Filled, Phased, Tasks, Running
<1>8. ASSUME NEW i \in Tasks, Start(i) \/ Leave(i) \/ Fail(i) PROVE Typed'
  BY <1>8, StatusTyped
<1>9. ASSUME NEW i \in Tasks, Embed(i) PROVE Typed'
  BY <1>9, EmbedTyped
<1>10. ASSUME NEW i \in Tasks, NEW raw \in Answers, Extract(i, raw) PROVE Typed'
  BY <1>10, ExtractTyped
<1>11. ASSUME NEW i \in Tasks, NEW vs \in SUBSET Verdicts(ClusterOf(i)), Merge(i, vs) PROVE Typed'
  BY <1>11, MergeTyped
<1>12. \A grp : {{}} \cup {{v, w} : v, w \in Verdicts(grp)} \subseteq SUBSET Verdicts(grp)
  OBVIOUS
<1>13. CASE UNCHANGED vars
  <2>1. UNCHANGED <<turns, route, phase, expired, task, result, cands, pts, leader, points, stored, owed, folded, voided>>
    BY <1>13 DEF vars
  <2> QED BY <2>1 DEF Typed, Scalars, Batch, Filled, Phased, Reading, Embedding, Merging, Tasks, Running, windows
<1> QED
  BY <1>1, <1>2, <1>3, <1>4, <1>5, <1>6, <1>7, <1>8, <1>9, <1>10, <1>11, <1>12, <1>13
     DEF Next, Step

\* The types hold at all times.
LEMMA AlwaysTyped == Spec => []Typed
  BY TypedInit, TypedNext, PTL DEF Spec

\* The variables of a run have the types the pipeline counts on, and never are more
\* calls under way than max_concurrency allows.
THEOREM TypeCorrect == Spec => []TypeOK
  <1>1. Typed => TypeOK
    <2> SUFFICES ASSUME Scalars, Batch, Filled PROVE TypeOK
        BY DEF Typed
    <2>1. \A i \in DOMAIN pts : pts[i] \in AnyTopic \cup {Zero}
      BY DEF Filled, Values
    <2>2. points \subseteq AnyTopic \cup {Zero} /\ owed \subseteq AnyTopic
          /\ folded \subseteq AnyTopic \X AnyTopic /\ voided \subseteq AnyTopic
      BY DEF Scalars, Values
    <2> QED BY <2>1, <2>2 DEF Scalars, Batch, TypeOK
  <1> QED BY <1>1, AlwaysTyped, PTL

\* What Analyze returns is the best of what the windows gave, topic by topic, whatever
\* they gave, and folding it again in the merge changes nothing.
THEOREM KeepsBest == Spec => []DedupeKeepsBest
  <1>1. ASSUME Typed, phase = "extracted"
        PROVE  IsDedupeOf(cands, Flatten(result)) /\ DedupeCandidates(cands) = cands
    <2>1. result \in Seq(Seq(Mapped)) /\ cands = Dedupe(Flatten(result))
      BY <1>1 DEF Typed, Phased
    <2>2. Flatten(result) \in Seq(Mapped)
      BY <2>1, FlattenType
    <2> QED BY <2>1, <2>2, DedupeCorrect
  <1>2. Typed => DedupeKeepsBest
    BY <1>1 DEF DedupeKeepsBest
  <1> QED BY <1>2, AlwaysTyped, PTL

\* The windows of every transcript on every route are what they are meant to be.
THEOREM WindowsAreSound == Spec => []WindowsSound
  <1>1. Typed => WindowsSound
    <2> SUFFICES ASSUME Typed, phase = "windows" PROVE WindowsSound
        BY DEF WindowsSound
    <2>1. turns \in Seq(Roles) /\ turns # <<>> /\ route \in {"prefix", "non_prefix", "full", "full2"}
      BY ExtractionAssumption DEF Typed, Scalars, Phased, Reading
    <2>2. /\ SlicesOf(turns, windows) /\ Len(windows) <= MaxWindows + 1
          /\ route \in {"prefix", "non_prefix"} => Len(windows) <= MaxWindows
          /\ route = "prefix" => PrefixesSound(turns, windows)
          /\ route = "non_prefix" => SlicesSound(turns, windows)
      BY <2>1, WindowsAre DEF windows
    <2>3. Len(windows) \in 1..(MaxWindows + 1)
      BY <2>2, WindowsAssumption DEF SlicesOf
    <2> QED BY <2>2, <2>3 DEF WindowsSound, SlicesOf, PrefixesSound, SlicesSound, UsersIn
  <1> QED BY <1>1, AlwaysTyped, PTL

-----------------------------------------------------------------------------
(* 4. Ranges.                                                              *)

\* A window has found m, a message meant by topic t, in a range for t that also begins
\* with a message meant by t.
Covers(t, m) ==
    \E i \in DOMAIN result : \E k \in 1..Len(result[i]) :
        LET e == result[i][k]
        IN  /\ e.topic = t /\ e.range[1] \in meant[t]
            /\ e.range[1] <= m /\ m <= e.range[2]

\* So has every message that was meant, where windows begin with the transcript.
Shown ==
    /\ phase = "start" => \A t \in Topics : meant[t] = {}
    /\ phase \in {"windows", "extracted"} /\ route # "non_prefix" =>
         \A t \in Topics : \A m \in meant[t] : m \in 0..(Len(turns) - 1) /\ Covers(t, m)

\* The mapped range of a candidate spans the messages that its turns stand for.
LEMMA MeantCovered ==
    ASSUME NEW c \in Candidate, NEW w, w.from = 0,
           NEW idx \in Seq(Nat), Ascending(idx), NEW m \in Meant(c, w, idx)
    PROVE  LET r == MapTurnRange(c.range, idx)
           IN  /\ r[1] \in Meant(c, w, idx) /\ r[1] <= m /\ m <= r[2]
               /\ \E q \in 1..Len(idx) : m = idx[q]
<1> DEFINE N == Len(idx)
           rg == c.range
           s == IF rg[1] < 1 THEN 1 ELSE rg[1]
           e == Clamp(rg[2], s, N)
<1>1. N \in Nat /\ rg[1] \in Int /\ rg[2] \in Int
  BY DEF Candidate
<1>2. s \in Nat \ {0}
  BY <1>1
<1>3. /\ Meant(c, w, idx) = IF rg = <<0, 0>> THEN {} ELSE {w.from + idx[k] : k \in {k \in s..e : k <= N}}
      /\ MapTurnRange(rg, idx) = IF idx = <<>> \/ rg = <<0, 0>> \/ s > N THEN rg ELSE <<idx[s], idx[e]>>
  BY DEF Meant, MapTurnRange
<1>4. s <= N => e \in s..N
  <2> HIDE DEF s, N
  <2> QED BY <1>1, <1>2 DEF Clamp
<1> HIDE DEF s, e
<1>6. rg # <<0, 0>>
  BY <1>3
<1>7. PICK q \in s..e : q <= N /\ m = w.from + idx[q]
  BY <1>3, <1>6
<1>8. s <= N /\ e \in s..N /\ q \in s..N
  BY <1>1, <1>2, <1>4, <1>7
<1>9. s \in 1..N /\ e \in 1..N /\ q \in 1..N /\ s <= q /\ q <= e
  BY <1>1, <1>2, <1>7, <1>8
<1>10. \A k \in 1..N : idx[k] \in Nat
  OBVIOUS
<1>11. m = idx[q]
  BY <1>7, <1>9, <1>10
<1>12. MapTurnRange(rg, idx) = <<idx[s], idx[e]>>
  BY <1>1, <1>3, <1>6, <1>9
<1>13. idx[s] \in Meant(c, w, idx)
  <2>1. idx[s] = w.from + idx[s] /\ s \in s..e /\ s <= N
    BY <1>9, <1>10
  <2> QED BY <1>3, <1>6, <2>1
<1>14. idx[s] <= idx[q] /\ idx[q] <= idx[e]
  <2>1. s < q => idx[s] < idx[q]
    BY <1>9 DEF Ascending
  <2>2. q < e => idx[q] < idx[e]
    BY <1>9 DEF Ascending
  <2> QED BY <1>9, <1>10, <2>1, <2>2
<1> QED BY <1>9, <1>11, <1>12, <1>13, <1>14

\* Nothing is meant yet.
LEMMA ShownInit == Init => Shown
  BY DEF Init, Shown

\* An answer covers what it means, and takes nothing from other windows' answers.
LEMMA ExtractShown ==
    ASSUME Typed, Shown, NEW i \in Tasks, NEW raw \in Answers, Extract(i, raw)
    PROVE  Shown'
<1> DEFINE w == windows[i]
           idx == RenderIndices(turns, w, route = "prefix")
           new == Extracted(raw, idx)
           kept == Extracted(raw, <<>>)
<1>1. /\ phase = "windows" /\ task[i] = "running" /\ UNCHANGED <<turns, route, phase>>
      /\ result' = [result EXCEPT ![i] = new]
      /\ meant' = [t \in Topics |-> meant[t] \cup
                       UNION {Meant(kept[k], w, idx) : k \in {k \in DOMAIN kept : kept[k].topic = t}}]
  BY DEF Extract, Answered
<1> SUFFICES ASSUME route # "non_prefix", NEW t \in Topics, NEW m \in meant'[t]
             PROVE  m \in 0..(Len(turns) - 1) /\ Covers(t, m)'
    BY <1>1 DEF Shown
<1>2. Reading /\ turns \in Seq(Roles) /\ route \in {"prefix", "non_prefix", "full", "full2"}
  BY <1>1, ExtractionAssumption DEF Typed, Phased, Scalars
<1>3. SlicesOf(turns, windows) /\ \A k \in 1..Len(windows) : windows[k].from = 0
  BY <1>2, WindowsAre DEF windows, Reading
<1>4. w \in Window /\ w.from <= w.to /\ w.to <= Len(turns) /\ w.from = 0
  BY <1>2, <1>3 DEF SlicesOf, Reading
<1> HIDE DEF w
<1>5. idx \in Seq(Nat) /\ Ascending(idx) /\ \A k \in 1..Len(idx) : idx[k] < w.to - w.from
  BY <1>2, <1>4, RenderIndicesAre
<1>6. raw \in Seq(Candidate)
  <2>1. PICK n \in 0..MaxAnswer : raw \in [1..n -> Candidates]
    BY DEF Answers
  <2>2. n \in Nat /\ Candidates \subseteq Candidate
    BY ExtractionAssumption
  <2>3. raw \in [1..n -> Candidate]
    BY <2>1, <2>2
  <2> QED BY <2>2, <2>3
<1> HIDE DEF idx
<1>7. PICK old \in Seq(Candidate) :
             /\ \A j : MapsRanges(old, Extracted(raw, j), j) /\ DOMAIN Extracted(raw, j) = 1..Len(old)
             /\ raw = <<>> => old = <<>>
             /\ \A k \in 1..Len(old) : Extracted(raw, <<>>)[k] = old[k]
  BY <1>6, ExtractedAre
<1>8. /\ DOMAIN kept = 1..Len(old) /\ \A k \in 1..Len(old) : kept[k] = old[k]
      /\ Len(new) = Len(old)
      /\ \A k \in 1..Len(old) : new[k] = [old[k] EXCEPT !.range = MapTurnRange(old[k].range, idx)]
  BY <1>7 DEF MapsRanges
<1> HIDE DEF kept, new
<1>9. i \in DOMAIN result /\ result[i] = <<>>
  BY <1>1, <1>2 DEF Reading
<1>10. DOMAIN result' = DOMAIN result /\ result'[i] = new
       /\ \A j \in DOMAIN result : j # i => result'[j] = result[j]
  BY <1>1, <1>9
<1>11. meant[t] \subseteq meant'[t] /\
       meant'[t] = meant[t] \cup UNION {Meant(kept[k], w, idx) : k \in {k \in DOMAIN kept : kept[k].topic = t}}
  BY <1>1
<1>12. CASE m \in meant[t]
  <2>1. m \in 0..(Len(turns) - 1) /\ Covers(t, m)
    BY <1>1, <1>12 DEF Shown
  <2>2. PICK j \in DOMAIN result : \E k \in 1..Len(result[j]) :
          /\ result[j][k].topic = t /\ result[j][k].range[1] \in meant[t]
          /\ result[j][k].range[1] <= m /\ m <= result[j][k].range[2]
    BY <2>1 DEF Covers
  <2>3. j # i
    BY <1>9, <2>2
  <2>4. result'[j] = result[j] /\ j \in DOMAIN result'
    BY <1>10, <2>3
  <2> QED BY <1>11, <2>1, <2>2, <2>4 DEF Covers
<1>13. ASSUME NEW k \in DOMAIN kept, kept[k].topic = t, m \in Meant(kept[k], w, idx)
       PROVE  m \in 0..(Len(turns) - 1) /\ Covers(t, m)'
  <2> DEFINE c == old[k]  r == MapTurnRange(c.range, idx)
  <2>1. k \in 1..Len(old) /\ kept[k] = c /\ c \in Candidate
    BY <1>8
  <2> HIDE DEF c
  <2>2. /\ r[1] \in Meant(c, w, idx) /\ r[1] <= m /\ m <= r[2]
        /\ \E q \in 1..Len(idx) : m = idx[q]
    BY <1>4, <1>5, <1>13, <2>1, MeantCovered
  <2>3. m \in 0..(Len(turns) - 1)
    <3>1. PICK q \in 1..Len(idx) : m = idx[q]
      BY <2>2
    <3>2. m \in Nat /\ m < w.to - w.from
      BY <1>5, <3>1
    <3> QED BY <1>2, <1>4, <3>2 DEF Window
  <2>4. new[k] = [c EXCEPT !.range = r]
    BY <1>8, <2>1 DEF c
  <2>5. new[k].range = r /\ new[k].topic = t
    BY <1>13, <2>1, <2>4 DEF Candidate
  <2>6. r[1] \in meant'[t]
    BY <1>11, <1>13, <2>1, <2>2
  <2>7. k \in 1..Len(new)
    BY <1>8, <2>1
  <2> HIDE DEF r
  <2>8. Covers(t, m)'
    BY <1>9, <1>10, <2>2, <2>5, <2>6, <2>7 DEF Covers
  <2> QED BY <2>3, <2>8
<1> QED BY <1>11, <1>12, <1>13

\* No other step changes what is meant or found before the merge.
LEMMA ShownNext ==
    ASSUME Typed, Shown, [Next]_vars
    PROVE  Shown'
<1>1. ASSUME UNCHANGED <<turns, route, meant, result>>,
             phase' = "start" => phase = "start",
             phase' \in {"windows", "extracted"} => phase \in {"windows", "extracted"}
      PROVE  Shown'
  <2>1. \A t, m : Covers(t, m)' = Covers(t, m)
    BY <1>1 DEF Covers
  <2> QED BY <1>1, <2>1 DEF Shown
<1>2. ASSUME phase' \notin {"start", "windows", "extracted"} PROVE Shown'
  BY <1>2 DEF Shown
<1>3. CASE Expire
  <2>1. UNCHANGED <<turns, route, meant, result>> /\ phase' = phase
    BY <1>3 DEF Expire
  <2> QED BY <1>1, <2>1
<1>4. CASE Analyze
  <2>1. phase = "start" /\ phase' \in {"returned", "windows"} /\ meant' = meant
    BY <1>4 DEF Analyze, read
  <2> QED BY <2>1 DEF Shown
<1>5. CASE CollectWindows
  <2>1. UNCHANGED <<turns, route, meant, result>> /\ phase = "windows" /\ phase' \in {"failed", "extracted"}
    BY <1>5 DEF CollectWindows, read
  <2> QED BY <1>1, <1>2, <2>1
<1>6. ASSUME BeginMerge \/ CollectEmbeddings \/ CollectClusters \/ Persist \/ MarkProcessed PROVE Shown'
  BY <1>2, <1>6 DEF BeginMerge, CollectEmbeddings, CollectClusters, Persist, MarkProcessed
<1>7. ASSUME NEW i \in Tasks, Start(i) \/ Leave(i) \/ Fail(i) PROVE Shown'
  <2>1. UNCHANGED <<turns, route, meant, result>> /\ phase' = phase
    BY <1>7 DEF Start, Leave, Fail, read
  <2> QED BY <1>1, <2>1
<1>8. ASSUME NEW i \in Tasks, Embed(i) PROVE Shown'
  BY <1>2, <1>8 DEF Embed, Answered
<1>9. ASSUME NEW i \in Tasks, NEW vs, Merge(i, vs) PROVE Shown'
  BY <1>2, <1>9 DEF Merge, Answered
<1>10. ASSUME NEW i \in Tasks, NEW raw \in Answers, Extract(i, raw) PROVE Shown'
  BY <1>10, ExtractShown
<1>11. CASE UNCHANGED vars
  <2>1. UNCHANGED <<turns, route, meant, result>> /\ phase' = phase
    BY <1>11 DEF vars
  <2> QED BY <1>1, <2>1
<1> QED
  BY <1>3, <1>4, <1>5, <1>6, <1>7, <1>8, <1>9, <1>10, <1>11 DEF Next, Step

\* On the routes whose windows begin with the transcript the wiki loop is shown all
\* that a topic was found in, whatever turns the LLM names, however many windows it
\* finds the topic in and whichever of its candidates are kept.
THEOREM SourceIsShown == Spec => []PrefixSegmentsShowSource
  <1>1. ASSUME Typed, Shown PROVE PrefixSegmentsShowSource
    <2> SUFFICES ASSUME route # "non_prefix", phase = "extracted",
                        NEW k \in DOMAIN cands, cands[k].topic # NoTopic,
                        0 \notin meant[cands[k].topic],
                        NEW m \in meant[cands[k].topic], turns[m + 1] # "tool"
                 PROVE  m \in DialogSegment(turns, cands[k].range)
        BY DEF PrefixSegmentsShowSource, SegmentsShowSource
    <2> DEFINE all == Flatten(result)
               t == cands[k].topic
               rg == cands[k].range
    <2>1. result \in Seq(Seq(Mapped)) /\ cands = Dedupe(all) /\ all \in Seq(Mapped)
      <3>1. result \in Seq(Seq(Mapped)) /\ cands = Dedupe(Flatten(result))
        BY <1>1 DEF Typed, Phased
      <3> QED BY <3>1, FlattenType
    <2> HIDE DEF all
    <2>2. cands \in Seq(Mapped) /\ Folded(cands, all, Len(all))
      BY <2>1, DedupeFolded
    <2>3. k \in 1..Len(cands) /\ cands[k] \in Mapped
      BY <2>2
    <2>4. t \in Topics /\ rg \in Nat \X Int
      BY <2>3 DEF Mapped, AnyTopic
    <2>5. Best(cands[k], all, On(all, Len(all), t))
      BY <2>2, <2>3 DEF Folded, AllBest
    <2>6. m \in 0..(Len(turns) - 1) /\ Covers(t, m)
      BY <1>1, <2>4 DEF Shown
    <2>7. PICK i \in DOMAIN result : \E q \in 1..Len(result[i]) :
            /\ result[i][q].topic = t /\ result[i][q].range[1] \in meant[t]
            /\ result[i][q].range[1] <= m /\ m <= result[i][q].range[2]
      BY <2>6 DEF Covers
    <2>7a. PICK q \in 1..Len(result[i]) :
            /\ result[i][q].topic = t /\ result[i][q].range[1] \in meant[t]
            /\ result[i][q].range[1] <= m /\ m <= result[i][q].range[2]
      BY <2>7
    <2>8. PICK p \in 1..Len(all) : all[p] = result[i][q]
      <3>1. i \in 1..Len(result)
        BY <2>1
      <3> QED BY <2>1, <2>7a, <3>1, FlattenHasAll DEF all
    <2>9. p \in On(all, Len(all), t)
      BY <2>7a, <2>8 DEF On
    <2>10. all[p].range[1] # 0
      BY <2>7a, <2>8
    <2>11. /\ rg[1] # 0 /\ rg[1] <= all[p].range[1]
           /\ all[p].range[2] <= rg[2]
      BY <2>5, <2>9, <2>10 DEF Best
    <2>12. all[p].range[1] \in Nat /\ all[p].range[2] \in Int
      <3>1. all[p] \in Mapped
        BY <2>1
      <3>2. all[p].range \in Nat \X Int
        BY <3>1 DEF Mapped
      <3> QED BY <3>2
    <2>13. m \in rg[1]..rg[2] /\ rg # <<0, 0>>
      <3>1. rg[1] \in Nat /\ rg[2] \in Int
        BY <2>4
      <3>2. m \in Int /\ all[p].range[1] <= m /\ m <= all[p].range[2]
        BY <2>6, <2>7a, <2>8
      <3>3. rg[1] <= m /\ m <= rg[2]
        BY <2>11, <2>12, <3>1, <3>2
      <3> QED BY <2>11, <3>1, <3>2, <3>3
    <2>14. m < Len(turns)
      BY <1>1, <2>6 DEF Typed, Scalars
    <2> QED BY <2>13, <2>14 DEF DialogSegment
  <1>2. Spec => []Shown
    BY AlwaysTyped, ShownInit, ShownNext, PTL DEF Spec
  <1> QED BY <1>1, <1>2, AlwaysTyped, PTL

=============================================================================
