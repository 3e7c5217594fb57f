------------------------------- MODULE Cluster -------------------------------
(***************************************************************************)
(* Stage s2 of the pipeline: the points of a session are grouped into      *)
(* connected components together with the historical points they resemble, *)
(* and components that compete for a historical point are pulled out into  *)
(* conflict queues; then the flattening by which stage V1.2 makes units    *)
(* for the adjudicating LLM of them.                                       *)
(*                                                                         *)
(* Source: src/internal/interest/cluster.go and the head of Adjudicate in  *)
(* src/internal/interest/adjudicate.go.                                    *)
(*                                                                         *)
(* The embeddings matter only through two thresholds and the order of      *)
(* affinities, so a session is its similarity graph: which points are more *)
(* than mergeSim alike, and the affinity of a point to a historical point, *)
(* 0 when it is not above histSim. Points are numbered in input order.     *)
(***************************************************************************)
EXTENDS Naturals, Sequences, FiniteSets

CONSTANTS
    N,        \* bound: points of a session
    Hist,     \* historical points of the agent
    MaxAff    \* bound: affinities told apart

ASSUME ClusterAssumption == N \in Nat /\ MaxAff \in Nat

VARIABLES
    similar,     \* the pairs of points above mergeSim
    affinity,    \* affinity[p][h], 0 when not above histSim
    unvisited,   \* historical points the conflict loop has still to visit
    used,        \* components that the loop has taken out of the plain list
    conflicts,   \* res.Conflicts
    components,  \* res.Components
    pc           \* "detect", "done"

input == <<similar, affinity>>
vars == <<similar, affinity, unvisited, used, conflicts, components, pc>>

Points == 1..N
Pairs == {e \in SUBSET Points : Cardinality(e) = 2}

-----------------------------------------------------------------------------
\* Union-find over the pairs: a component is closed under similarity and falls
\* into no two parts without a pair between them.
Linked(S, T) == \E p \in S, q \in T : {p, q} \in similar
Groups ==
    {S \in SUBSET Points :
        /\ S # {}
        /\ ~Linked(S, Points \ S)
        /\ \A T \in SUBSET S : T # {} /\ T # S => Linked(T, S \ T)}

Touches(c, h) == \E p \in c : affinity[p][h] > 0

\* A lone point that resembles nothing is isolated; every other group is a
\* component.
Isolated == {S \in Groups : Cardinality(S) = 1 /\ \A h \in Hist : ~Touches(S, h)}
Comps == Groups \ Isolated

\* Components in the order of the slice comps, by their first point.
First(c) == CHOOSE p \in c : \A q \in c : p <= q

\* The entries of histInComps[h]: one for every point that resembles h, so a
\* component with two such points is entered twice.
Entries(h) == Cardinality({p \in Points : affinity[p][h] > 0})

Greatest(A) == CHOOSE a \in A : \A b \in A : b <= a

\* affinityOf: the best affinity of a component's points.
AffinityOf(c, h) == Greatest({affinity[p][h] : p \in c})

\* Faulty variant: the queue is sorted the wrong way round.
MutantPrecedes(c, d, h) ==
    \/ AffinityOf(c, h) < AffinityOf(d, h)
    \/ AffinityOf(c, h) = AffinityOf(d, h) /\ First(c) < First(d)

\* sortConflictQueue: highest affinity first, stable.
Precedes(c, d, h) ==
    \/ AffinityOf(c, h) > AffinityOf(d, h)
    \/ AffinityOf(c, h) = AffinityOf(d, h) /\ First(c) < First(d)
SortConflictQueue(S, h) ==
    CHOOSE s \in [1..Cardinality(S) -> S] :
        \A i, j \in 1..Cardinality(S) : i < j => Precedes(s[i], s[j], h)

-----------------------------------------------------------------------------
\* Further faulty variants, one per property: a slip the code could have made.

\* A component already in a queue is queued again.
MutantFresh(h) == {c \in Comps : Touches(c, h)}

\* A point must be shared by more than two.
MutantContested(h) == Entries(h) > 2

\* An isolated point is taken for a component.
MutantPlain == Groups \ used

-----------------------------------------------------------------------------
Init ==
    /\ similar \in SUBSET Pairs
    /\ affinity \in [Points -> [Hist -> 0..MaxAff]]
    /\ unvisited = Hist
    /\ used = {}
    /\ conflicts = <<>>
    /\ components = {}
    /\ pc = "detect"

Contested(h) == Entries(h) >= 2

Fresh(h) == {c \in Comps : Touches(c, h)} \ used

\* One round of the loop over histInComps, in the order of a Go map: any.
Visit(h) ==
    /\ pc = "detect"
    /\ h \in unvisited
    /\ unvisited' = unvisited \ {h}
    /\ IF Contested(h)
         THEN /\ used' = used \cup Fresh(h)
              /\ conflicts' = IF Cardinality(Fresh(h)) >= 2
                                THEN Append(conflicts, SortConflictQueue(Fresh(h), h))
                                ELSE conflicts
         ELSE UNCHANGED <<used, conflicts>>
    /\ UNCHANGED <<input, components, pc>>

Plain == Comps \ used

\* The components nobody took are the plain ones.
Finish ==
    /\ pc = "detect"
    /\ unvisited = {}
    /\ components' = Plain
    /\ pc' = "done"
    /\ UNCHANGED <<input, unvisited, used, conflicts>>

Next == (\E h \in Hist : Visit(h)) \/ Finish

Spec == Init /\ [][Next]_vars

Queued(c) == {q \in 1..Len(conflicts) : \E i \in 1..Len(conflicts[q]) : conflicts[q][i] = c}

\* Adjudicate: every component, plain or queued, is one unit for the LLM.
Units == components \cup {c \in Comps : Queued(c) # {}}

-----------------------------------------------------------------------------
TypeOK ==
    /\ similar \subseteq Pairs
    /\ affinity \in [Points -> [Hist -> 0..MaxAff]]
    /\ unvisited \subseteq Hist
    /\ used \subseteq Comps
    /\ \A q \in 1..Len(conflicts) : \A i \in 1..Len(conflicts[q]) : conflicts[q][i] \in Comps
    /\ components \subseteq Comps
    /\ pc \in {"detect", "done"}

\* A component is adjudicated at most once, whatever order the map is visited
\* in: it is plain or stands in one place of one queue.
AdjudicatedAtMostOnce ==
    \A c \in Comps :
        /\ Cardinality(Queued(c)) <= 1
        /\ Queued(c) # {} => c \notin components
        /\ \A q \in Queued(c) :
            \A i, j \in 1..Len(conflicts[q]) : conflicts[q][i] = c /\ conflicts[q][j] = c => i = j

\* A queue holds at least two components that all resemble one historical
\* point, the one closest to it first (ClusterResult: "must be adjudicated in
\* order").
QueuesShareInOrder ==
    \A q \in 1..Len(conflicts) :
        /\ Len(conflicts[q]) >= 2
        /\ \E h \in Hist :
            \A i \in 1..Len(conflicts[q]) :
                /\ Touches(conflicts[q][i], h)
                /\ i > 1 => AffinityOf(conflicts[q][i - 1], h) >= AffinityOf(conflicts[q][i], h)

\* A plain component competes with no other component: whoever shares a
\* historical point was taken out of the plain list.
PlainDoNotCompete ==
    \A c \in components, d \in Comps, h \in Hist :
        c # d => ~(Touches(c, h) /\ Touches(d, h))

\* "Conflict components are removed from Components and appear only in their
\* queue ... Everything else forms plain components" (ClusterResult, Cluster):
\* no component disappears, so that every point reaches the adjudication.
EveryComponentAdjudicated == pc = "done" => Units = Comps
=============================================================================
