---------------------------- MODULE ClusterProofs ----------------------------
(***************************************************************************)
(* Conflict detection proved for every number of points, every set of      *)
(* historical points and every order in which the map is visited: plain    *)
(* components compete with nobody.                                         *)
(*                                                                         *)
(* The argument: groups are disjoint, so two components that touch one     *)
(* historical point make at least two entries for it and it is contested;  *)
(* every component that touches a visited contested point is used.         *)
(***************************************************************************)
EXTENDS Cluster, DataTheorems

\* Groups do not overlap: a group that shares a point with another cannot end
\* inside it without a similar pair that leads out of the other.
LEMMA GroupsDisjoint ==
    ASSUME NEW c \in Groups, NEW d \in Groups, NEW p, p \in c, p \in d
    PROVE  c = d
<1>1. ASSUME NEW x \in Groups, NEW y \in Groups, p \in x, p \in y
      PROVE  x \subseteq y
  <2> SUFFICES ASSUME ~(x \subseteq y) PROVE FALSE
      OBVIOUS
  <2> DEFINE T == x \cap y
  <2>1. T \in SUBSET x /\ T # {} /\ T # x
    BY <1>1
  <2>2. Linked(T, x \ T)
    BY <2>1 DEF Groups
  <2>3. PICK u \in T, v \in x \ T : {u, v} \in similar
    BY <2>2 DEF Linked
  <2>4. u \in y /\ v \in Points \ y
    BY <2>3 DEF Groups
  <2>5. Linked(y, Points \ y)
    BY <2>3, <2>4 DEF Linked
  <2> QED BY <2>5 DEF Groups
<1> QED BY <1>1

\* Two components that touch a historical point make it contested.
LEMMA SharedIsContested ==
    ASSUME affinity \in [Points -> [Hist -> 0..MaxAff]],
           NEW h \in Hist, NEW c \in Comps, NEW d \in Comps, c # d,
           Touches(c, h), Touches(d, h)
    PROVE  Contested(h)
<1> DEFINE E == {p \in Points : affinity[p][h] > 0}
<1>1. PICK p \in c : affinity[p][h] > 0
  BY DEF Touches
<1>2. PICK q \in d : affinity[q][h] > 0
  BY DEF Touches
<1>3. c \in Groups /\ d \in Groups
  BY DEF Comps
<1>4. p # q
  BY <1>1, <1>2, <1>3, GroupsDisjoint
<1>5. {p, q} \subseteq E
  BY <1>1, <1>2, <1>3 DEF Groups
<1>6. IsFiniteSet(E)
  <2>1. IsFiniteSet(Points)
    BY FS_Interval, ClusterAssumption DEF ClusterAssumption, Points
  <2> QED BY <2>1, FS_Subset
<1>7. Cardinality({p, q}) = 2
  <2>1. {p, q} = {p} \cup {q} OBVIOUS
  <2>2. IsFiniteSet({p}) /\ Cardinality({p}) = 1 BY FS_Singleton
  <2>3. q \notin {p} BY <1>4
  <2>4. Cardinality({p} \cup {q}) = Cardinality({p}) + 1
    BY <2>2, <2>3, FS_AddElement
  <2>5. 1 + 1 = 2 OBVIOUS
  <2> QED BY <2>1, <2>2, <2>4, <2>5, Zenon
<1>8. Cardinality({p, q}) <= Cardinality(E) /\ Cardinality(E) \in Nat
  BY <1>5, <1>6, FS_Subset, FS_CardinalityType
<1> QED BY <1>7, <1>8 DEF Contested, Entries

-----------------------------------------------------------------------------
\* What the loop has established: the input is fixed, every component that
\* touches a visited contested point is used, the plain ones are the others.
Inv ==
    /\ affinity \in [Points -> [Hist -> 0..MaxAff]]
    /\ \A h \in Hist \ unvisited : Contested(h) => {c \in Comps : Touches(c, h)} \subseteq used
    /\ components # {} => pc = "done"
    /\ pc = "done" => unvisited = {} /\ components = Comps \ used

LEMMA InitInv == Init => Inv
BY DEF Init, Inv

LEMMA NextInv == Inv /\ [Next]_vars => Inv'
<1> SUFFICES ASSUME Inv, [Next]_vars PROVE Inv'
    OBVIOUS
<1> USE DEF input
<1>0. ASSUME UNCHANGED input
      PROVE  /\ Comps' = Comps
             /\ \A h \in Hist : Contested(h)' = Contested(h)
             /\ \A c \in Comps, h \in Hist : Touches(c, h)' = Touches(c, h)
  BY <1>0 DEF Comps, Isolated, Groups, Linked, Touches, Contested, Entries, Points
<1>1. ASSUME NEW h \in Hist, Visit(h)
      PROVE  Inv'
  <2>1. UNCHANGED <<input, components, pc>> /\ pc = "detect" /\ unvisited' = unvisited \ {h}
    BY <1>1 DEF Visit
  <2>2. used \subseteq used'
    BY <1>1 DEF Visit
  <2>3. Contested(h) => {c \in Comps : Touches(c, h)} \subseteq used'
    BY <1>1 DEF Visit, Fresh
  <2>4. ASSUME NEW g \in Hist \ unvisited', Contested(g)
        PROVE  {c \in Comps : Touches(c, g)} \subseteq used'
    BY <2>1, <2>2, <2>3, <2>4 DEF Inv
  <2> QED BY <1>0, <2>1, <2>4 DEF Inv
<1>2. CASE Finish
  <2>1. UNCHANGED <<input, unvisited, used>> /\ unvisited = {} /\ components' = Comps \ used
        /\ pc' = "done"
    BY <1>2 DEF Finish, Plain
  <2> QED BY <1>0, <2>1 DEF Inv
<1>3. CASE UNCHANGED vars
  BY <1>0, <1>3 DEF Inv, vars
<1> QED BY <1>1, <1>2, <1>3 DEF Next

\* A plain component shares no historical point with another component.
THEOREM PlainAlone == Spec => []PlainDoNotCompete
<1>1. Inv => PlainDoNotCompete
  <2> SUFFICES ASSUME Inv, NEW c \in components, NEW d \in Comps, NEW h \in Hist,
                      c # d, Touches(c, h), Touches(d, h)
               PROVE  FALSE
      BY DEF PlainDoNotCompete
  <2>1. c \in Comps \ used /\ unvisited = {}
    BY DEF Inv
  <2>2. Contested(h)
    BY <2>1, SharedIsContested DEF Inv
  <2> QED BY <2>1, <2>2 DEF Inv
<1> QED BY <1>1, InitInv, NextInv, PTL DEF Spec

-----------------------------------------------------------------------------
\* The order of a queue.

\* The first point of a component is one of its points.
LEMMA FirstIn ==
    ASSUME NEW c \in Groups
    PROVE  First(c) \in c
<1>1. c \subseteq Nat /\ c # {}
  BY DEF Groups, Points
<1>2. \E p \in c : \A q \in c : p <= q
  BY <1>1, LeastNatural
<1> QED BY <1>2 DEF First

\* The affinity of a component is the best one of its points.
LEMMA AffinityType ==
    ASSUME affinity \in [Points -> [Hist -> 0..MaxAff]], NEW c \in Groups, NEW h \in Hist
    PROVE  AffinityOf(c, h) \in 0..MaxAff
<1> DEFINE A == {affinity[p][h] : p \in c}
<1>1. A \subseteq 0..MaxAff /\ A # {}
  BY DEF Groups
<1>2. PICK a \in A : \A b \in A : b <= a
  BY <1>1, GreatestNatural, ClusterAssumption DEF ClusterAssumption
<1> HIDE DEF A
<1>3. Greatest(A) \in A
  BY <1>2 DEF Greatest
<1> QED BY <1>1, <1>3 DEF A, AffinityOf

\* sortConflictQueue yields a queue of exactly the components it is given, each
\* before those with a smaller affinity.
LEMMA QueueSorted ==
    ASSUME affinity \in [Points -> [Hist -> 0..MaxAff]], NEW h \in Hist, NEW S \in SUBSET Comps
    PROVE  LET q == SortConflictQueue(S, h)
           IN  /\ Cardinality(S) \in Nat
               /\ q \in [1..Cardinality(S) -> S]
               /\ \A i, j \in 1..Cardinality(S) : i < j => Precedes(q[i], q[j], h)
               /\ \A i, j \in 1..Cardinality(S) : q[i] = q[j] => i = j
<1> DEFINE R == {p \in S \X S : Precedes(p[1], p[2], h)}
           aff(c) == AffinityOf(c, h)
           n == Cardinality(S)
<1>1. IsFiniteSet(S)
  <2>1. IsFiniteSet(SUBSET Points)
    <3>1. IsFiniteSet(Points)
      BY FS_Interval, ClusterAssumption DEF ClusterAssumption, Points
    <3> QED BY <3>1, FS_SUBSET
  <2>2. S \in SUBSET SUBSET Points
    BY DEF Comps, Groups
  <2> QED BY <2>1, <2>2, FS_Subset
<1>2. ASSUME NEW c \in S
      PROVE  c \in Groups /\ aff(c) \in Nat /\ First(c) \in c /\ First(c) \in Nat
  <2>1. c \in Groups
    BY DEF Comps
  <2>2. aff(c) \in 0..MaxAff
    BY <2>1, AffinityType
  <2>3. First(c) \in c /\ First(c) \in Points
    BY <2>1, FirstIn DEF Groups
  <2> QED BY <2>1, <2>2, <2>3 DEF Points
<1> HIDE DEF aff
<1>3. ASSUME NEW c \in S, NEW d \in S
      PROVE  <<c, d>> \in R <=> aff(c) > aff(d) \/ (aff(c) = aff(d) /\ First(c) < First(d))
  BY DEF Precedes, aff
<1>4. ASSUME NEW c \in S, NEW d \in S, c # d
      PROVE  First(c) # First(d)
  BY <1>2, <1>4, GroupsDisjoint
<1> HIDE DEF R
<1>5. \A c \in S : <<c, c>> \notin R
  BY <1>2, <1>3
<1>6. \A c, d \in S : c # d => <<c, d>> \in R \/ <<d, c>> \in R
  BY <1>2, <1>3, <1>4
<1>7. \A c, d, e \in S : <<c, d>> \in R /\ <<d, e>> \in R => <<c, e>> \in R
  BY <1>2, <1>3
<1>8. \E q \in [1..n -> S] : \A i, j \in 1..n : i < j => <<q[i], q[j]>> \in R
  BY <1>1, <1>5, <1>6, <1>7, SortedList
<1>9. \E q \in [1..n -> S] : \A i, j \in 1..n : i < j => Precedes(q[i], q[j], h)
  BY <1>8 DEF R
<1> DEFINE q == SortConflictQueue(S, h)
<1>10. q \in [1..n -> S] /\ \A i, j \in 1..n : i < j => Precedes(q[i], q[j], h)
  BY <1>9 DEF SortConflictQueue
<1> HIDE DEF q
<1>11. n \in Nat
  BY <1>1, FS_CardinalityType
<1>12. ASSUME NEW i \in 1..n, NEW j \in 1..n, q[i] = q[j] PROVE i = j
  <2>1. ASSUME NEW k \in 1..n, NEW l \in 1..n, k < l PROVE q[k] # q[l]
    <3>1. <<q[k], q[l]>> \in R
      BY <1>10, <2>1 DEF R
    <3> QED BY <1>5, <1>10, <3>1
  <2> HIDE DEF n
  <2> QED BY <1>11, <1>12, <2>1
<1> QED BY <1>10, <1>11, <1>12 DEF q

-----------------------------------------------------------------------------
\* What a queue holds is used, and stands in one place only.
QInv ==
    /\ conflicts \in Seq(Seq(Comps))
    /\ used \subseteq Comps
    /\ \A q \in 1..Len(conflicts) : \A i \in 1..Len(conflicts[q]) : conflicts[q][i] \in used
    /\ \A q, r \in 1..Len(conflicts) :
         \A i \in 1..Len(conflicts[q]), j \in 1..Len(conflicts[r]) :
             conflicts[q][i] = conflicts[r][j] => q = r /\ i = j
    /\ QueuesShareInOrder

IInv == TypeOK /\ Inv /\ QInv

LEMMA InitIInv == Init => IInv
<1> SUFFICES ASSUME Init PROVE IInv
    OBVIOUS
<1>1. conflicts = <<>> /\ used = {} /\ components = {}
  BY DEF Init
<1>2. TypeOK
  BY <1>1 DEF Init, TypeOK
<1>3. QInv
  BY <1>1 DEF QInv, QueuesShareInOrder
<1> QED BY <1>2, <1>3, InitInv DEF IInv

\* What a step that leaves the graph alone does not change.
LEMMA InputFixed ==
    ASSUME UNCHANGED input
    PROVE  /\ Comps' = Comps
           /\ \A c, h : Touches(c, h)' = Touches(c, h)
           /\ \A c, h : AffinityOf(c, h)' = AffinityOf(c, h)
BY DEF input, Comps, Isolated, Groups, Linked, Touches, AffinityOf, Points

\* Queueing a list of fresh components keeps the queues apart and in order.
LEMMA NewQueue ==
    ASSUME IInv, NEW h \in Hist, Visit(h), conflicts' # conflicts
    PROVE  QInv'
<1> DEFINE S == Fresh(h)
           n == Cardinality(S)
           q == SortConflictQueue(S, h)
           m == Len(conflicts)
<1>1. /\ conflicts' = Append(conflicts, q) /\ n >= 2
      /\ used' = used \cup S
      /\ UNCHANGED input
  BY DEF Visit
<1>2. S \in SUBSET Comps /\ S \cap used = {} /\ \A c \in S : Touches(c, h)
  BY DEF Fresh
<1>3. /\ n \in Nat /\ q \in [1..n -> S]
      /\ \A i, j \in 1..n : i < j => Precedes(q[i], q[j], h)
      /\ \A i, j \in 1..n : q[i] = q[j] => i = j
  BY <1>2, QueueSorted DEF IInv, Inv
<1> HIDE DEF S, n, q
<1>4. q \in Seq(Comps) /\ Len(q) = n
  BY <1>2, <1>3
<1>5. conflicts \in Seq(Seq(Comps)) /\ m \in Nat
  BY DEF IInv, QInv
<1>6. /\ conflicts' \in Seq(Seq(Comps)) /\ Len(conflicts') = m + 1
      /\ \A k \in 1..m : conflicts'[k] = conflicts[k]
      /\ conflicts'[m + 1] = q
  BY <1>1, <1>4, <1>5
<1>7. Comps' = Comps
  BY <1>1, InputFixed
<1>8. used' \subseteq Comps
  BY <1>1, <1>2 DEF IInv, QInv
<1>9. ASSUME NEW k \in 1..Len(conflicts'), NEW i \in 1..Len(conflicts'[k])
      PROVE  conflicts'[k][i] \in used'
  <2>1. CASE k = m + 1
    BY <1>1, <1>3, <1>4, <1>6, <2>1
  <2>2. CASE k \in 1..m
    BY <1>1, <1>6, <2>2 DEF IInv, QInv
  <2> QED BY <1>5, <1>6, <2>1, <2>2
<1>10. ASSUME NEW k \in 1..Len(conflicts'), NEW l \in 1..Len(conflicts'),
              NEW i \in 1..Len(conflicts'[k]), NEW j \in 1..Len(conflicts'[l]),
              conflicts'[k][i] = conflicts'[l][j]
       PROVE  k = l /\ i = j
  <2>1. \A x \in 1..m : \A y \in 1..Len(conflicts'[x]) : conflicts'[x][y] \in used
    BY <1>6 DEF IInv, QInv
  <2>2. \A y \in 1..n : q[y] \notin used
    BY <1>2, <1>3
  <2>3. CASE k = m + 1 /\ l = m + 1
    BY <1>3, <1>4, <1>6, <1>10, <2>3
  <2>4. CASE k \in 1..m /\ l \in 1..m
    <3>1. conflicts'[k] = conflicts[k] /\ conflicts'[l] = conflicts[l]
      BY <1>6, <2>4
    <3>2. i \in 1..Len(conflicts[k]) /\ j \in 1..Len(conflicts[l])
      BY <3>1
    <3>3. conflicts[k][i] = conflicts[l][j]
      BY <1>10, <3>1
    <3> QED BY <2>4, <3>2, <3>3 DEF IInv, QInv
  <2>5. CASE k = m + 1 /\ l \in 1..m
    BY <1>4, <1>6, <1>10, <2>1, <2>2, <2>5
  <2>6. CASE k \in 1..m /\ l = m + 1
    BY <1>4, <1>6, <1>10, <2>1, <2>2, <2>6
  <2> QED BY <1>5, <1>6, <2>3, <2>4, <2>5, <2>6
<1>11. ASSUME NEW k \in 1..Len(conflicts')
       PROVE  /\ Len(conflicts'[k]) >= 2
              /\ \E g \in Hist :
                   \A i \in 1..Len(conflicts'[k]) :
                     /\ Touches(conflicts'[k][i], g)
                     /\ i > 1 => AffinityOf(conflicts'[k][i - 1], g) >= AffinityOf(conflicts'[k][i], g)
  <2>1. CASE k \in 1..m
    BY <1>6, <2>1 DEF IInv, QInv, QueuesShareInOrder
  <2>2. CASE k = m + 1
    <3>1. ASSUME NEW i \in 1..n PROVE Touches(q[i], h)
      BY <1>2, <1>3
    <3>2. ASSUME NEW i \in 1..n, i > 1
          PROVE  AffinityOf(q[i - 1], h) >= AffinityOf(q[i], h)
      <4>1. i - 1 \in 1..n /\ i - 1 < i
        BY <1>3, <3>2
      <4>2. Precedes(q[i - 1], q[i], h)
        BY <1>3, <4>1
      <4>3. q[i - 1] \in Groups /\ q[i] \in Groups
        BY <1>2, <1>3, <4>1 DEF Comps
      <4>4. AffinityOf(q[i - 1], h) \in 0..MaxAff /\ AffinityOf(q[i], h) \in 0..MaxAff
        BY <4>3, AffinityType DEF IInv, Inv
      <4> QED BY <4>2, <4>4 DEF Precedes
    <3> QED BY <1>1, <1>4, <1>6, <2>2, <3>1, <3>2
  <2> QED BY <1>5, <1>6, <2>1, <2>2
<1>12. QueuesShareInOrder'
  <2>1. affinity' = affinity
    BY <1>1 DEF input
  <2> QED BY <1>11, <2>1 DEF QueuesShareInOrder, Touches, AffinityOf
<1> QED BY <1>6, <1>7, <1>8, <1>9, <1>10, <1>12 DEF QInv

LEMMA NextIInv == IInv /\ [Next]_vars => IInv'
<1> SUFFICES ASSUME IInv, [Next]_vars PROVE IInv'
    OBVIOUS
<1>1. Inv'
  BY NextInv DEF IInv
<1>2. QInv' /\ UNCHANGED input
  <2>1. ASSUME UNCHANGED <<input, conflicts>>, used \subseteq used', used' \subseteq Comps
        PROVE  QInv'
    <3>1. affinity' = affinity /\ conflicts' = conflicts
      BY <2>1 DEF input
    <3>2. QueuesShareInOrder' <=> QueuesShareInOrder
      BY <3>1 DEF QueuesShareInOrder, Touches, AffinityOf
    <3>3. Comps' = Comps
      BY <2>1, InputFixed
    <3> QED BY <2>1, <3>1, <3>2, <3>3 DEF IInv, QInv
  <2>2. ASSUME NEW h \in Hist, Visit(h) PROVE QInv' /\ UNCHANGED input
    <3>1. UNCHANGED input /\ used \subseteq used'
      BY <2>2 DEF Visit
    <3>2. used' \subseteq Comps
      BY <2>2 DEF Visit, Fresh, IInv, QInv
    <3>3. CASE conflicts' # conflicts
      BY <2>2, <3>1, <3>3, NewQueue
    <3> QED BY <2>1, <3>1, <3>2, <3>3
  <2>3. CASE Finish
    BY <2>1, <2>3 DEF Finish, IInv, QInv
  <2>4. CASE UNCHANGED vars
    BY <2>1, <2>4 DEF vars, input, IInv, QInv
  <2> QED BY <2>2, <2>3, <2>4 DEF Next
<1>3. TypeOK'
  <2>1. Comps' = Comps
    BY <1>2, InputFixed
  <2>2. components' \subseteq Comps /\ pc' \in {"detect", "done"} /\ unvisited' \subseteq Hist
    BY DEF IInv, TypeOK, Next, Visit, Finish, Plain, vars, input
  <2>3. \A q \in 1..Len(conflicts') : \A i \in 1..Len(conflicts'[q]) : conflicts'[q][i] \in Comps
    BY <1>2, <2>1 DEF QInv
  <2>4. similar' \subseteq Pairs /\ Pairs' = Pairs
    BY <1>2 DEF IInv, TypeOK, input, Pairs, Points
  <2> QED BY <1>1, <1>2, <2>1, <2>2, <2>3, <2>4 DEF TypeOK, Inv, QInv
<1> QED BY <1>1, <1>2, <1>3 DEF IInv

\* The inductive invariant of conflict detection holds throughout.
LEMMA Invariance == Spec => []IInv
BY InitIInv, NextIInv, PTL DEF Spec

\* The components, the queues and the used ones keep their types.
THEOREM TypeCorrect == Spec => []TypeOK
<1>1. IInv => TypeOK
  BY DEF IInv
<1> QED BY <1>1, Invariance, PTL

\* No component reaches the LLM twice: it stands in one place of one queue or is
\* plain, in whatever order the map is visited.
THEOREM AtMostOnce == Spec => []AdjudicatedAtMostOnce
<1>1. IInv => AdjudicatedAtMostOnce
  <2> SUFFICES ASSUME IInv, NEW c \in Comps
               PROVE  /\ Cardinality(Queued(c)) <= 1
                      /\ Queued(c) # {} => c \notin components
                      /\ \A q \in Queued(c) :
                          \A i, j \in 1..Len(conflicts[q]) :
                              conflicts[q][i] = c /\ conflicts[q][j] = c => i = j
      BY DEF AdjudicatedAtMostOnce
  <2>1. \A q, r \in Queued(c) : q = r
    BY DEF IInv, QInv, Queued
  <2>2. Queued(c) # {} => c \in used
    BY DEF IInv, QInv, Queued
  <2>3. c \in components => c \notin used
    BY DEF IInv, Inv
  <2>4. Cardinality(Queued(c)) <= 1
    <3>1. CASE Queued(c) = {}
      BY <3>1, FS_EmptySet
    <3>2. CASE Queued(c) # {}
      <4>1. PICK q : Queued(c) = {q}
        BY <2>1, <3>2
      <4> QED BY <4>1, FS_Singleton
    <3> QED BY <3>1, <3>2
  <2>5. ASSUME NEW q \in Queued(c), NEW i \in 1..Len(conflicts[q]), NEW j \in 1..Len(conflicts[q]),
               conflicts[q][i] = c, conflicts[q][j] = c
        PROVE  i = j
    BY <2>5 DEF IInv, QInv, Queued
  <2> QED BY <2>2, <2>3, <2>4, <2>5
<1> QED BY <1>1, Invariance, PTL

\* Every queue has at least two components that share a historical point, the one
\* closest to it first.
THEOREM QueuesInOrder == Spec => []QueuesShareInOrder
<1>1. IInv => QueuesShareInOrder
  BY DEF IInv, QInv
<1> QED BY <1>1, Invariance, PTL
=============================================================================
