------------------------------ MODULE Learning ------------------------------
(***************************************************************************)
(* Stages V1.2 and V1.3 of the pipeline: the LLM adjudicates the points of *)
(* a session against the historical points they resemble, and the outcome  *)
(* is persisted, one write at a time: rows, vectors, archivals,            *)
(* contradictions and edges. Runs of one agent are serial (the worker sees *)
(* to that), runs of different agents interleave, any write may fail and   *)
(* then the rest of the run is given up. A retry is one more run.          *)
(*                                                                         *)
(* Source: src/internal/interest/adjudicate.go and persist.go, Upsert and  *)
(* Delete of src/internal/vec/sqlitevec.go, UpsertInterestPoint and        *)
(* UpsertContradiction of src/internal/store/interest_pages.go.            *)
(*                                                                         *)
(* newID is a hash of the topic, so a topic stands for its id. A unit has  *)
(* one new point here: the decisions of a component with several members   *)
(* are applied like those of several units that share historical points.   *)
(***************************************************************************)
EXTENDS Naturals, Sequences, FiniteSets, Lists

CONSTANTS
    Agents,
    Topics,       \* what a point can be about; also its id
    Unnamed,      \* the empty topic, and newID("")
    MaxUnits,     \* bound: new points of a session
    MaxRuns,      \* bound: pipeline runs
    MaxFailures   \* bound: writes that fail

\* Topics are strings an LLM with bounded answers gives.
ASSUME LearningAssumption ==
    /\ Unnamed \notin Topics /\ Unnamed \notin Agents
    /\ IsFiniteSet(Topics)
    /\ MaxUnits \in Nat
    /\ MaxRuns \in Nat
    /\ MaxFailures \in Nat

VARIABLES
    rows,      \* interest_points: status and seen_count per agent and id
    vec,       \* vec_interest_point: which agent's vector has the id, if any
    contras,   \* contradictions: the pair in the row with id "", <<>> if none
    edges,     \* edges per agent
    stage,     \* "idle", "adjudicating", "persisting"
    hist,      \* the historical points of each unit not yet adjudicated
    draft,     \* the Adjudication under construction
    plan,      \* the writes Persist has still to make
    runs, failures

tables == <<rows, vec, contras, edges>>
bounds == <<runs, failures>>
vars == <<tables, stage, hist, draft, plan, bounds>>

Ids == Topics \cup {Unnamed}
NoRow == [status |-> "none", seen |-> 0]
NoDraft == [finals |-> <<>>, archived |-> <<>>, contras |-> <<>>]
Kinds == {"contradicts", "related"}

Indexed(a) == {i \in Ids : vec[i] = a}

\* The values a sequence takes.
Values(s) == {s[i] : i \in 1..Len(s)}
Orderings(S) ==
    {s \in [1..Cardinality(S) -> S] : \A i, j \in 1..Cardinality(S) : s[i] = s[j] => i = j}

TypeOK ==
    /\ \A a \in Agents, i \in Ids :
        /\ rows[a][i].status \in {"none", "active", "archived"}
        /\ rows[a][i].seen \in Nat
    /\ \A i \in Ids : vec[i] \in Agents \cup {Unnamed}
    /\ \A a \in Agents : contras[a] = <<>> \/ contras[a] \in Ids \X Ids
    /\ \A a \in Agents : edges[a] \subseteq Ids \X Ids \X Kinds
    /\ \A a \in Agents : stage[a] \in {"idle", "adjudicating", "persisting"}
    /\ \A a \in Agents : stage[a] = "idle" => plan[a] = <<>> /\ draft[a] = NoDraft
    /\ \A a \in Agents : hist[a] \in UNION {[S -> SUBSET Ids] : S \in SUBSET Topics}
    /\ runs \in 0..MaxRuns
    /\ failures \in 0..MaxFailures

-----------------------------------------------------------------------------
(***************************************************************************)
(* The writes of Persist                                                   *)
(***************************************************************************)
Row(i, seen) == [op |-> "row", id |-> i, seen |-> seen]
Index(i) == <<[op |-> "vecDelete", id |-> i], [op |-> "vecInsert", id |-> i]>>
ArchiveRow(i, seen) == [op |-> "archive", id |-> i, seen |-> seen]
Unindex(i) == [op |-> "unindex", id |-> i]
Contradiction(p) == [op |-> "contra", pair |-> p]
AddEdges(E) == [op |-> "edges", edges |-> E]

\* Faulty variant: The vector before the row.
MutantFinalWrites(f) == (IF f.embedded THEN Index(f.id) ELSE <<>>) \o <<Row(f.id, f.seen)>>

\* A final point: its row, then its vector if it could be embedded.
FinalWrites(f) == <<Row(f.id, f.seen)>> \o IF f.embedded THEN Index(f.id) ELSE <<>>

\* Faulty variant: Archiving leaves the vector.
MutantArchiveWrites(f) == <<ArchiveRow(f.id, f.seen)>>

\* An archived point: its row, then the deletion of its vector.
ArchiveWrites(f) == <<ArchiveRow(f.id, f.seen), Unindex(f.id)>>

\* AddEdgePairs: contradictions in both directions, in one transaction.
EdgeSet(C, R) ==
    {<<p[1], p[2], "contradicts">> : p \in C} \cup {<<p[2], p[1], "contradicts">> : p \in C}
        \cup {<<p[1], p[2], "related">> : p \in R}

\* The writes W(f) of every f of s, in order.
Concat(s, W(_)) == Flatten([i \in 1..Len(s) |-> W(s[i])])

\* Faulty variant: The edges first.
MutantPersistPlan(d, R) ==
    LET C == Values(d.contras)
        one(p) == <<Contradiction(p)>>
    IN  (IF C = {} /\ R = {} THEN <<>> ELSE <<AddEdges(EdgeSet(C, R))>>)
            \o Concat(d.finals, FinalWrites) \o Concat(d.archived, ArchiveWrites)
            \o Concat(d.contras, one)

\* Persist: final points, archived points, contradictions, edges.
PersistPlan(d, R) ==
    LET C == Values(d.contras)
        one(p) == <<Contradiction(p)>>
    IN  Concat(d.finals, FinalWrites) \o Concat(d.archived, ArchiveWrites)
            \o Concat(d.contras, one)
            \o IF C = {} /\ R = {} THEN <<>> ELSE <<AddEdges(EdgeSet(C, R))>>

-----------------------------------------------------------------------------
Init ==
    /\ rows = [a \in Agents |-> [i \in Ids |-> NoRow]]
    /\ vec = [i \in Ids |-> Unnamed]
    /\ contras = [a \in Agents |-> <<>>]
    /\ edges = [a \in Agents |-> {}]
    /\ stage = [a \in Agents |-> "idle"]
    /\ hist = [a \in Agents |-> <<>>]
    /\ draft = [a \in Agents |-> NoDraft]
    /\ plan = [a \in Agents |-> <<>>]
    /\ runs = 0
    /\ failures = 0

\* A run has come as far as stage s2: each new point of S with the indexed
\* points of the agent it resembles.
Begin(a, S, H) ==
    /\ stage[a] = "idle"
    /\ runs < MaxRuns
    /\ S # {} /\ Cardinality(S) <= MaxUnits
    /\ stage' = [stage EXCEPT ![a] = "adjudicating"]
    /\ hist' = [hist EXCEPT ![a] = H]
    /\ runs' = runs + 1
    /\ UNCHANGED <<tables, draft, plan, failures>>

(***************************************************************************)
(* Adjudicate: one unit after the other, the isolated points last. Each    *)
(* action drafts the final points F, the archived points A and the         *)
(* contradictions C of the unit of c.                                      *)
(***************************************************************************)
Drafted(a, c, F, A, C) ==
    /\ stage[a] = "adjudicating"
    /\ draft' = [draft EXCEPT ![a] = [finals |-> @.finals \o F,
                                      archived |-> @.archived \o A,
                                      contras |-> @.contras \o C]]
    /\ hist' = [hist EXCEPT ![a] = [t \in DOMAIN @ \ {c} |-> @[t]]]
    /\ UNCHANGED <<tables, stage, plan, bounds>>

\* created, void, isolated: a new point under the id of its topic, seen once.
Created(i, embedded) == [id |-> i, seen |-> 1, embedded |-> embedded]

\* updatedPoint: the historical point seen once more; an id the unit does not
\* know gets a bare point.
Updated(a, c, i, embedded) ==
    [id |-> i, seen |-> IF i \in hist[a][c] THEN rows[a][i].seen + 1 ELSE 0,
     embedded |-> embedded]

\* JSON of a merged object into mergeCandidate: the topic is read from the key
\* "topic"; the prompt asks for "name", which is not read.
Parsed(key, name) == IF key = "topic" THEN name ELSE Unnamed

Isolate(a, c) ==
    /\ \A t \in DOMAIN hist[a] : hist[a][t] = {}
    /\ Drafted(a, c, <<Created(c, TRUE)>>, <<>>, <<>>)

\* LLM failure or an omitted member: the member with its s1 embedding.
Void(a, c) ==
    /\ hist[a][c] # {}
    /\ Drafted(a, c, <<Created(c, TRUE)>>, <<>>, <<>>)

\* The contradictions of a unit: a side is a historical id or the member's
\* topic, which resolveSide turns into newID of that topic.
Sides(a, c) == {{<<c, h>> : h \in P \ {c}} : P \in SUBSET hist[a][c]}

Merge(a, c, target, embedded, C) ==
    /\ hist[a][c] # {}
    /\ Drafted(a, c, <<Updated(a, c, target, embedded)>>, <<>>, C)

Keep(a, c, name, key, U, embedded, C) ==
    /\ hist[a][c] # {}
    /\ Drafted(a, c, <<Created(Parsed(key, name), embedded)>>
                        \o [i \in 1..Len(U) |-> Updated(a, c, U[i], embedded)],
               <<>>, C)

Archive(a, c, target, name, key, embedded, C) ==
    /\ hist[a][c] # {}
    /\ Drafted(a, c, <<Created(Parsed(key, name), embedded)>>,
               IF target \in hist[a][c]
                 THEN <<[id |-> target, seen |-> rows[a][target].seen]>> ELSE <<>>,
               C)

\* An action the switch does not know: the member counts as decided.
Ignore(a, c, C) ==
    /\ hist[a][c] # {}
    /\ Drafted(a, c, <<>>, <<>>, C)

\* Adjudicate is through: Persist begins, with any of the pairs of embedded
\* final points at least relateSim alike.
BeginPersist(a, R) ==
    /\ stage[a] = "adjudicating"
    /\ hist[a] = <<>>
    /\ stage' = [stage EXCEPT ![a] = "persisting"]
    /\ plan' = [plan EXCEPT ![a] = PersistPlan(draft[a], R)]
    /\ UNCHANGED <<tables, hist, draft, bounds>>

\* The pairs i < j of embedded final points.
Pairs(d) ==
    {<<d.finals[p[1]].id, d.finals[p[2]].id>> :
        p \in {q \in (1..Len(d.finals)) \X (1..Len(d.finals)) :
                  q[1] < q[2] /\ d.finals[q[1]].embedded /\ d.finals[q[2]].embedded}}

-----------------------------------------------------------------------------
\* Faulty variant: An existing row keeps its status.
MutantUpsertRow(a, i, status, seen) ==
    rows' = [rows EXCEPT ![a][i] =
                [status |-> IF @.status = "none" THEN status ELSE @.status, seen |-> seen]]

UpsertRow(a, i, status, seen) ==
    rows' = [rows EXCEPT ![a][i] = [status |-> status, seen |-> seen]]

\* Upsert, first statement: DELETE ... WHERE id = ?.
VecDelete(i) == vec' = [vec EXCEPT ![i] = Unnamed]

\* Upsert, second statement: id is the table's primary key.
VecInsert(a, i) ==
    /\ vec[i] = Unnamed
    /\ vec' = [vec EXCEPT ![i] = a]

\* Delete: WHERE id = ? AND agent_id = ?.
VecUnindex(a, i) == vec' = [vec EXCEPT ![i] = IF @ = a THEN Unnamed ELSE @]

\* UpsertContradiction: the id is never set, so the row with id "" is replaced.
UpsertContradiction(a, p) == contras' = [contras EXCEPT ![a] = p]

\* The next write succeeds.
Write(a) ==
    /\ stage[a] = "persisting"
    /\ plan[a] # <<>>
    /\ plan' = [plan EXCEPT ![a] = Tail(@)]
    /\ LET w == Head(plan[a]) IN
        \/ w.op = "row" /\ UpsertRow(a, w.id, "active", w.seen) /\ UNCHANGED <<vec, contras, edges>>
        \/ w.op = "vecDelete" /\ VecDelete(w.id) /\ UNCHANGED <<rows, contras, edges>>
        \/ w.op = "vecInsert" /\ VecInsert(a, w.id) /\ UNCHANGED <<rows, contras, edges>>
        \/ w.op = "archive" /\ UpsertRow(a, w.id, "archived", w.seen)
                            /\ UNCHANGED <<vec, contras, edges>>
        \/ w.op = "unindex" /\ VecUnindex(a, w.id) /\ UNCHANGED <<rows, contras, edges>>
        \/ w.op = "contra" /\ UpsertContradiction(a, w.pair) /\ UNCHANGED <<rows, vec, edges>>
        \/ w.op = "edges" /\ edges' = [edges EXCEPT ![a] = @ \cup w.edges]
                          /\ UNCHANGED <<rows, vec, contras>>
    /\ UNCHANGED <<stage, hist, draft, bounds>>

\* Faulty variant: The Adjudication outlives its run.
MutantEndRun(a) ==
    /\ stage' = [stage EXCEPT ![a] = "idle"]
    /\ hist' = [hist EXCEPT ![a] = <<>>]
    /\ plan' = [plan EXCEPT ![a] = <<>>]
    /\ UNCHANGED <<tables, draft, runs>>

EndRun(a) ==
    /\ stage' = [stage EXCEPT ![a] = "idle"]
    /\ hist' = [hist EXCEPT ![a] = <<>>]
    /\ draft' = [draft EXCEPT ![a] = NoDraft]
    /\ plan' = [plan EXCEPT ![a] = <<>>]
    /\ UNCHANGED <<tables, runs>>

\* Persist returns nil.
Persisted(a) ==
    /\ stage[a] = "persisting"
    /\ plan[a] = <<>>
    /\ EndRun(a)
    /\ UNCHANGED failures

\* A write fails (the database, the job's deadline, the process exits): Persist
\* returns the error, what is written stays.
Fail(a) ==
    /\ stage[a] = "persisting"
    /\ plan[a] # <<>>
    /\ failures < MaxFailures
    /\ failures' = failures + 1
    /\ EndRun(a)

\* The insertion of a vector finds the id taken by another agent's vector.
Collide(a) ==
    /\ stage[a] = "persisting"
    /\ plan[a] # <<>>
    /\ Head(plan[a]).op = "vecInsert"
    /\ vec[Head(plan[a]).id] # Unnamed
    /\ EndRun(a)
    /\ UNCHANGED failures

-----------------------------------------------------------------------------
\* The LLM may answer anything: any target, any name, either key.
Adjudicate(a) ==
    \E c \in DOMAIN hist[a] :
        \/ Isolate(a, c)
        \/ Void(a, c)
        \/ \E P \in Sides(a, c) : \E C \in Orderings(P), e \in BOOLEAN, target \in Ids :
            \/ Merge(a, c, target, e, C)
            \/ Ignore(a, c, C)
            \/ \E name \in Topics, key \in {"name", "topic"} :
                \/ \E U \in {<<>>, <<target>>} : Keep(a, c, name, key, U, e, C)
                \/ Archive(a, c, target, name, key, e, C)

Next ==
    \E a \in Agents :
        \/ \E S \in SUBSET Topics : \E H \in [S -> SUBSET Indexed(a)] : Begin(a, S, H)
        \/ Adjudicate(a)
        \/ \E R \in SUBSET Pairs(draft[a]) : BeginPersist(a, R)
        \/ Write(a) \/ Persisted(a) \/ Fail(a) \/ Collide(a)

Spec == Init /\ [][Next]_vars
-----------------------------------------------------------------------------
(***************************************************************************)
(* Properties                                                              *)
(***************************************************************************)

\* Everything a run had to write is written.
Complete(a) == stage[a] = "persisting" /\ plan[a] = <<>>

ArchivedIds(a) == {f.id : f \in Values(draft[a].archived)}

\* Whatever fails and whoever interferes, a vector belongs to a point that its
\* agent has: a hit of the index can be looked up.
IndexedHasRow ==
    \A i \in Ids : vec[i] \in Agents => rows[vec[i]][i].status # "none"

\* As long as no write has failed, an archived point is out of the index or its
\* run is about to take it out, whichever units updated, created or archived
\* the same point before.
ArchivedNotIndexed ==
    failures = 0 =>
        \A a \in Agents, i \in Ids :
            rows[a][i].status = "archived" /\ vec[i] = a => Unindex(i) \in Values(plan[a])

\* A run that comes to its end makes up for every run that broke off before it:
\* its final points are active and indexed, its archived points neither, even
\* where several of its units decided about one point. Only an agent that has
\* written a point with the same id can have taken the vector away.
CompletedRunTakesEffect ==
    \A a \in Agents : Complete(a) =>
        /\ \A f \in Values(draft[a].finals) : f.id \notin ArchivedIds(a) =>
            /\ rows[a][f.id].status = "active"
            /\ f.embedded => \/ vec[f.id] = a
                             \/ \E b \in Agents \ {a} : rows[b][f.id].status # "none"
        /\ \A i \in ArchivedIds(a) : rows[a][i].status = "archived" /\ vec[i] # a

\* A related edge joins points that exist, also after a failure.
RelatedJoinsPoints ==
    \A a \in Agents : \A e \in edges[a] : e[3] = "related" =>
        rows[a][e[1]].status # "none" /\ rows[a][e[2]].status # "none"

(***************************************************************************)
(* What comments of the repository say and the code does not do.           *)
(***************************************************************************)

\* "contradictions are stored with bidirectional contradicts edges" (Persist):
\* the contradiction of every contradicts edge is in the table.
ContradictionsStored ==
    \A a \in Agents : \A e \in edges[a] : e[3] = "contradicts" =>
        contras[a] \in {<<e[1], e[2]>>, <<e[2], e[1]>>}
=============================================================================
