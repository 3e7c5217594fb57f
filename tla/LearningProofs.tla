--------------------------- MODULE LearningProofs ---------------------------
(***************************************************************************)
(* Persistence proved for any number of agents, topics, runs and failures. *)
(*                                                                         *)
(* The argument is about the writes a run has still to make (plan). Before *)
(* a run starts to write, they are in an order that no other run and no    *)
(* failure can spoil: a point's row comes before its vector and before the *)
(* edges that lead to it, the deletion of an old vector right before the   *)
(* insertion of the new one, an archival right before the deletion of the  *)
(* vector, and every archival after every final point (Sound, Rooted). The *)
(* order survives each write, and what the run has no longer to write is   *)
(* in the tables (Effect).                                                 *)
(***************************************************************************)
EXTENDS Learning, DataTheorems

-----------------------------------------------------------------------------
(***************************************************************************)
(* The order of the writes                                                 *)
(***************************************************************************)
EdgeTriples == Ids \X Ids \X Kinds
Writes ==
    [op : {"row", "archive"}, id : Ids, seen : Nat]
        \cup [op : {"vecDelete", "vecInsert", "unindex"}, id : Ids]
        \cup [op : {"contra"}, pair : Ids \X Ids]
        \cup [op : {"edges"}, edges : SUBSET EdgeTriples]

Ops == {"row", "vecDelete", "vecInsert", "archive", "unindex", "contra", "edges"}
VecOps == {"vecDelete", "vecInsert"}
FinalOps == {"row", "vecDelete", "vecInsert"}
ArchiveOps == {"archive", "unindex"}

OpsIn(u, X) == \A k \in 1..Len(u) : u[k].op \in X

\* The row of i is written before the k-th write.
RowBefore(u, k, i) == \E j \in 1..Len(u) : j < k /\ u[j].op = "row" /\ u[j].id = i

\* The order of u, where the points K are active already.
Sound(u, K) ==
    /\ \A k \in 1..Len(u) : u[k].op \in VecOps => u[k].id \in K \/ RowBefore(u, k, u[k].id)
    /\ \A k \in 1..Len(u) : u[k].op = "vecDelete" =>
           k + 1 \in 1..Len(u) /\ u[k + 1].op = "vecInsert" /\ u[k + 1].id = u[k].id
    /\ \A k \in 1..Len(u) : u[k].op = "archive" =>
           k + 1 \in 1..Len(u) /\ u[k + 1] = Unindex(u[k].id)
    /\ \A j, k \in 1..Len(u) : j < k /\ u[j].op \in ArchiveOps => u[k].op \notin FinalOps

\* The ends of a related edge of u have a row before, where the points K have one.
Rooted(u, K) ==
    \A k \in 1..Len(u) : u[k].op = "edges" =>
        \A e \in u[k].edges : e[3] = "related" =>
            /\ e[1] \in K \/ RowBefore(u, k, e[1])
            /\ e[2] \in K \/ RowBefore(u, k, e[2])

\* A write of the kind op for i is still to be made.
Pending(u, op, i) == \E k \in 1..Len(u) : u[k].op = op /\ u[k].id = i

\* What kind of write has which fields.
LEMMA WriteFields ==
    ASSUME NEW w \in Writes
    PROVE  /\ w.op \in Ops
           /\ w.op \in {"row", "archive"} => w.id \in Ids /\ w.seen \in Nat
           /\ w.op \in {"vecDelete", "vecInsert", "unindex"} => w.id \in Ids
           /\ w.op = "contra" => w.pair \in Ids \X Ids
           /\ w.op = "edges" => w.edges \subseteq EdgeTriples
<1>1. CASE w \in [op : {"row", "archive"}, id : Ids, seen : Nat]
  BY <1>1 DEF Ops
<1>2. CASE w \in [op : {"vecDelete", "vecInsert", "unindex"}, id : Ids]
  BY <1>2 DEF Ops
<1>3. CASE w \in [op : {"contra"}, pair : Ids \X Ids]
  BY <1>3 DEF Ops
<1>4. CASE w \in [op : {"edges"}, edges : SUBSET EdgeTriples]
  BY <1>4 DEF Ops
<1> QED BY <1>1, <1>2, <1>3, <1>4 DEF Writes

\* The positions of a concatenation.
LEMMA ConcatAt ==
    ASSUME NEW u \in Seq(Writes), NEW v \in Seq(Writes)
    PROVE  /\ u \o v \in Seq(Writes)
           /\ Len(u) \in Nat /\ Len(v) \in Nat /\ Len(u \o v) = Len(u) + Len(v)
           /\ \A k \in 1..Len(u) : k \in 1..Len(u \o v) /\ (u \o v)[k] = u[k]
           /\ \A k \in 1..Len(v) :
                 Len(u) + k \in 1..Len(u \o v) /\ (u \o v)[Len(u) + k] = v[k]
           /\ \A k \in 1..Len(u \o v) :
                 \/ k \in 1..Len(u)
                 \/ \E l \in 1..Len(v) : k = Len(u) + l
<1>1. /\ u \o v \in Seq(Writes) /\ Len(u \o v) = Len(u) + Len(v)
      /\ Len(u) \in Nat /\ Len(v) \in Nat
      /\ \A k \in 1..Len(u) + Len(v) :
            (u \o v)[k] = IF k <= Len(u) THEN u[k] ELSE v[k - Len(u)]
  BY ConcatProperties
<1>2. ASSUME NEW k \in 1..Len(u) PROVE k \in 1..Len(u \o v) /\ (u \o v)[k] = u[k]
  BY <1>1
<1>3. ASSUME NEW k \in 1..Len(v)
      PROVE  Len(u) + k \in 1..Len(u \o v) /\ (u \o v)[Len(u) + k] = v[k]
  <2>1. Len(u) + k \in 1..Len(u) + Len(v) /\ ~(Len(u) + k <= Len(u)) /\ (Len(u) + k) - Len(u) = k
    BY <1>1
  <2>2. (u \o v)[Len(u) + k] = v[(Len(u) + k) - Len(u)]
    BY <1>1, <2>1, Zenon
  <2> QED BY <1>1, <2>1, <2>2
<1>4. ASSUME NEW k \in 1..Len(u \o v)
      PROVE  k \in 1..Len(u) \/ \E l \in 1..Len(v) : k = Len(u) + l
  <2>1. CASE k <= Len(u)
    BY <1>1, <2>1
  <2>2. CASE ~(k <= Len(u))
    <3>1. k - Len(u) \in 1..Len(v) /\ k = Len(u) + (k - Len(u))
      BY <1>1, <2>2
    <3> QED BY <3>1
  <2> QED BY <2>1, <2>2
<1> QED BY <1>1, <1>2, <1>3, <1>4

\* Sound parts are sound together unless an archival would come before a final point.
LEMMA SoundConcat ==
    ASSUME NEW u \in Seq(Writes), NEW v \in Seq(Writes), NEW K, Sound(u, K), Sound(v, K),
           OpsIn(u, Ops \ ArchiveOps) \/ OpsIn(v, Ops \ FinalOps)
    PROVE  Sound(u \o v, K)
<1> DEFINE s == u \o v  n == Len(u)
<1>1. /\ n \in Nat /\ Len(v) \in Nat /\ Len(s) = n + Len(v)
      /\ \A k \in 1..n : k \in 1..Len(s) /\ s[k] = u[k]
      /\ \A k \in 1..Len(v) : n + k \in 1..Len(s) /\ s[n + k] = v[k]
      /\ \A k \in 1..Len(s) : k \in 1..n \/ \E l \in 1..Len(v) : k = n + l
  BY ConcatAt
<1> HIDE DEF s
<1>2. ASSUME NEW k \in 1..n, NEW i, RowBefore(u, k, i) PROVE RowBefore(s, k, i)
  <2>1. PICK j \in 1..n : j < k /\ u[j].op = "row" /\ u[j].id = i
    BY <1>2 DEF RowBefore
  <2>2. j \in 1..Len(s) /\ s[j] = u[j]
    BY <1>1
  <2> QED BY <2>1, <2>2 DEF RowBefore
<1>3. ASSUME NEW l \in 1..Len(v), NEW i, RowBefore(v, l, i) PROVE RowBefore(s, n + l, i)
  <2>1. PICK j \in 1..Len(v) : j < l /\ v[j].op = "row" /\ v[j].id = i
    BY <1>3 DEF RowBefore
  <2>2. n + j \in 1..Len(s) /\ s[n + j] = v[j] /\ n + j < n + l
    BY <1>1, <2>1
  <2> QED BY <2>1, <2>2 DEF RowBefore
<1>4. ASSUME NEW k \in 1..Len(s), s[k].op \in VecOps
      PROVE  s[k].id \in K \/ RowBefore(s, k, s[k].id)
  <2>1. CASE k \in 1..n
    <3>1. s[k] = u[k]
      BY <1>1, <2>1
    <3>2. u[k].id \in K \/ RowBefore(u, k, u[k].id)
      BY <1>4, <2>1, <3>1 DEF Sound
    <3> QED BY <1>2, <2>1, <3>1, <3>2
  <2>2. ASSUME NEW l \in 1..Len(v), k = n + l PROVE s[k].id \in K \/ RowBefore(s, k, s[k].id)
    <3>1. s[k] = v[l]
      BY <1>1, <2>2
    <3>2. v[l].id \in K \/ RowBefore(v, l, v[l].id)
      BY <1>4, <3>1 DEF Sound
    <3> QED BY <1>3, <2>2, <3>1, <3>2
  <2> QED BY <1>1, <2>1, <2>2
<1>5. ASSUME NEW k \in 1..Len(s), s[k].op \in {"vecDelete", "archive"}
      PROVE  /\ k + 1 \in 1..Len(s)
             /\ s[k].op = "vecDelete" => s[k + 1].op = "vecInsert" /\ s[k + 1].id = s[k].id
             /\ s[k].op = "archive" => s[k + 1] = Unindex(s[k].id)
  <2>1. CASE k \in 1..n
    <3>1. s[k] = u[k]
      BY <1>1, <2>1
    <3>2. /\ k + 1 \in 1..n
          /\ u[k].op = "vecDelete" => u[k + 1].op = "vecInsert" /\ u[k + 1].id = u[k].id
          /\ u[k].op = "archive" => u[k + 1] = Unindex(u[k].id)
      BY <1>5, <2>1, <3>1 DEF Sound
    <3>3. k + 1 \in 1..Len(s) /\ s[k + 1] = u[k + 1]
      BY <1>1, <3>2
    <3> QED BY <3>1, <3>2, <3>3
  <2>2. ASSUME NEW l \in 1..Len(v), k = n + l
        PROVE  /\ k + 1 \in 1..Len(s)
               /\ s[k].op = "vecDelete" => s[k + 1].op = "vecInsert" /\ s[k + 1].id = s[k].id
               /\ s[k].op = "archive" => s[k + 1] = Unindex(s[k].id)
    <3>1. s[k] = v[l]
      BY <1>1, <2>2
    <3>2. /\ l + 1 \in 1..Len(v)
          /\ v[l].op = "vecDelete" => v[l + 1].op = "vecInsert" /\ v[l + 1].id = v[l].id
          /\ v[l].op = "archive" => v[l + 1] = Unindex(v[l].id)
      BY <1>5, <3>1 DEF Sound
    <3>3. k + 1 = n + (l + 1)
      BY <1>1, <2>2
    <3>4. k + 1 \in 1..Len(s) /\ s[k + 1] = v[l + 1]
      BY <1>1, <3>2, <3>3
    <3> QED BY <3>1, <3>2, <3>4
  <2> QED BY <1>1, <2>1, <2>2
<1>6. ASSUME NEW j \in 1..Len(s), NEW k \in 1..Len(s), j < k, s[j].op \in ArchiveOps
      PROVE  s[k].op \notin FinalOps
  <2>1. CASE j \in 1..n /\ k \in 1..n
    BY <1>1, <1>6, <2>1 DEF Sound
  <2>2. ASSUME j \in 1..n, NEW l \in 1..Len(v), k = n + l PROVE s[k].op \notin FinalOps
    <3>1. s[j] = u[j] /\ s[k] = v[l]
      BY <1>1, <2>2
    <3>2. ~OpsIn(u, Ops \ ArchiveOps)
      BY <1>6, <2>2, <3>1 DEF OpsIn
    <3> QED BY <3>1, <3>2 DEF OpsIn
  <2>3. ASSUME NEW i \in 1..Len(v), j = n + i PROVE s[k].op \notin FinalOps
    <3>0. k \notin 1..n
      BY <1>1, <1>6, <2>3
    <3>1. PICK l \in 1..Len(v) : k = n + l
      BY <1>1, <3>0
    <3>2. s[j] = v[i] /\ s[k] = v[l] /\ i < l
      BY <1>1, <1>6, <2>3, <3>1
    <3> QED BY <1>6, <3>2 DEF Sound
  <2> QED BY <1>1, <2>1, <2>2, <2>3
<1>7. Sound(s, K)
  BY <1>4, <1>5, <1>6 DEF Sound
<1> QED BY <1>7 DEF s

\* The kinds of writes of a concatenation.
LEMMA OpsConcat ==
    ASSUME NEW u \in Seq(Writes), NEW v \in Seq(Writes), NEW X, OpsIn(u, X), OpsIn(v, X)
    PROVE  OpsIn(u \o v, X)
<1>1. /\ \A k \in 1..Len(u) : (u \o v)[k] = u[k]
      /\ \A k \in 1..Len(v) : (u \o v)[Len(u) + k] = v[k]
      /\ \A k \in 1..Len(u \o v) : k \in 1..Len(u) \/ \E l \in 1..Len(v) : k = Len(u) + l
  BY ConcatAt
<1>2. ASSUME NEW k \in 1..Len(u \o v) PROVE (u \o v)[k].op \in X
  <2>1. CASE k \in 1..Len(u)
    BY <1>1, <2>1 DEF OpsIn
  <2>2. ASSUME NEW l \in 1..Len(v), k = Len(u) + l PROVE (u \o v)[k].op \in X
    BY <1>1, <2>2 DEF OpsIn
  <2> QED BY <1>1, <2>1, <2>2
<1> QED BY <1>2 DEF OpsIn

\* The positions of what is left after the first write.
LEMMA TailAt ==
    ASSUME NEW u \in Seq(Writes), u # <<>>
    PROVE  /\ Tail(u) \in Seq(Writes) /\ Head(u) = u[1] /\ Head(u) \in Writes
           /\ Len(u) \in Nat /\ 1 \in 1..Len(u) /\ Len(Tail(u)) = Len(u) - 1
           /\ \A k \in 1..Len(Tail(u)) : k + 1 \in 1..Len(u) /\ Tail(u)[k] = u[k + 1]
           /\ \A k \in 1..Len(u) : k # 1 => k - 1 \in 1..Len(Tail(u)) /\ Tail(u)[k - 1] = u[k]
<1>1. /\ Tail(u) \in Seq(Writes) /\ Len(Tail(u)) = Len(u) - 1
      /\ \A k \in 1..Len(Tail(u)) : Tail(u)[k] = u[k + 1]
  BY HeadTailProperties
<1>2. Len(u) \in Nat /\ Len(u) # 0 /\ Head(u) = u[1]
  BY EmptySeq
<1>3. ASSUME NEW k \in 1..Len(u), k # 1
      PROVE  k - 1 \in 1..Len(Tail(u)) /\ Tail(u)[k - 1] = u[k]
  <2>1. k - 1 \in 1..Len(Tail(u)) /\ (k - 1) + 1 = k
    BY <1>1, <1>2, <1>3
  <2>2. Tail(u)[k - 1] = u[(k - 1) + 1]
    BY <1>1, <2>1, Zenon
  <2> QED BY <2>1, <2>2
<1>4. Head(u) \in Writes
  BY HeadTailProperties
<1> QED BY <1>1, <1>2, <1>3, <1>4

\* A row that was before a write is still before it, or was the first write.
LEMMA RowBeforeTail ==
    ASSUME NEW u \in Seq(Writes), u # <<>>, NEW k \in 1..Len(Tail(u)), NEW i,
           RowBefore(u, k + 1, i)
    PROVE  RowBefore(Tail(u), k, i) \/ (Head(u).op = "row" /\ Head(u).id = i)
<1>1. PICK j \in 1..Len(u) : j < k + 1 /\ u[j].op = "row" /\ u[j].id = i
  BY DEF RowBefore
<1>2. CASE j = 1
  BY <1>1, <1>2, TailAt
<1>3. CASE j # 1
  <2>1. j - 1 \in 1..Len(Tail(u)) /\ Tail(u)[j - 1] = u[j]
    BY <1>3, TailAt
  <2>2. j - 1 < k
    BY <1>1, TailAt
  <2> QED BY <1>1, <2>1, <2>2 DEF RowBefore
<1> QED BY <1>2, <1>3

\* The order survives the first write: L are the points active after it.
LEMMA SoundTail ==
    ASSUME NEW u \in Seq(Writes), u # <<>>, NEW K, NEW L, Sound(u, K),
           Head(u).op \notin ArchiveOps => K \subseteq L,
           Head(u).op = "row" => Head(u).id \in L
    PROVE  Sound(Tail(u), L)
<1> DEFINE t == Tail(u)
<1>1. /\ t \in Seq(Writes) /\ Head(u) = u[1] /\ Len(u) \in Nat /\ 1 \in 1..Len(u)
      /\ Len(t) = Len(u) - 1
      /\ \A k \in 1..Len(t) : k + 1 \in 1..Len(u) /\ t[k] = u[k + 1]
      /\ \A k \in 1..Len(u) : k # 1 => k - 1 \in 1..Len(t) /\ t[k - 1] = u[k]
  BY TailAt
<1>2. ASSUME NEW k \in 1..Len(t), NEW i, RowBefore(u, k + 1, i)
      PROVE  RowBefore(t, k, i) \/ (Head(u).op = "row" /\ Head(u).id = i)
  BY <1>2, RowBeforeTail
<1> HIDE DEF t
<1>3. ASSUME NEW k \in 1..Len(t), t[k].op \in VecOps
      PROVE  t[k].id \in L \/ RowBefore(t, k, t[k].id)
  <2>1. k + 1 \in 1..Len(u) /\ t[k] = u[k + 1] /\ 1 < k + 1
    BY <1>1
  <2>2. u[k + 1].id \in K \/ RowBefore(u, k + 1, u[k + 1].id)
    BY <1>3, <2>1 DEF Sound
  <2>3. Head(u).op \notin ArchiveOps
    BY <1>1, <1>3, <2>1 DEF Sound, FinalOps, VecOps
  <2> QED BY <1>2, <2>1, <2>2, <2>3
<1>4. ASSUME NEW k \in 1..Len(t), t[k].op \in {"vecDelete", "archive"}
      PROVE  /\ k + 1 \in 1..Len(t)
             /\ t[k].op = "vecDelete" => t[k + 1].op = "vecInsert" /\ t[k + 1].id = t[k].id
             /\ t[k].op = "archive" => t[k + 1] = Unindex(t[k].id)
  <2>1. k + 1 \in 1..Len(u) /\ t[k] = u[k + 1]
    BY <1>1
  <2>2. /\ (k + 1) + 1 \in 1..Len(u)
        /\ t[k].op = "vecDelete" => u[(k + 1) + 1].op = "vecInsert" /\ u[(k + 1) + 1].id = t[k].id
        /\ t[k].op = "archive" => u[(k + 1) + 1] = Unindex(t[k].id)
    BY <1>4, <2>1 DEF Sound
  <2>3. k + 1 \in 1..Len(t)
    BY <1>1, <2>2
  <2>4. t[k + 1] = u[(k + 1) + 1]
    BY <1>1, <2>3
  <2> QED BY <2>2, <2>3, <2>4
<1>5. ASSUME NEW j \in 1..Len(t), NEW k \in 1..Len(t), j < k, t[j].op \in ArchiveOps
      PROVE  t[k].op \notin FinalOps
  <2>1. j + 1 \in 1..Len(u) /\ k + 1 \in 1..Len(u) /\ j + 1 < k + 1
        /\ t[j] = u[j + 1] /\ t[k] = u[k + 1]
    BY <1>1, <1>5
  <2> QED BY <1>5, <2>1 DEF Sound
<1>6. Sound(t, L)
  BY <1>3, <1>4, <1>5 DEF Sound
<1> QED BY <1>6 DEF t

\* So does what leads to a related edge: L are the points that exist after the write.
LEMMA RootedTail ==
    ASSUME NEW u \in Seq(Writes), u # <<>>, NEW K, NEW L, Rooted(u, K),
           K \subseteq L, Head(u).op = "row" => Head(u).id \in L
    PROVE  Rooted(Tail(u), L)
<1> SUFFICES ASSUME NEW k \in 1..Len(Tail(u)), Tail(u)[k].op = "edges",
                    NEW e \in Tail(u)[k].edges, e[3] = "related"
             PROVE  /\ e[1] \in L \/ RowBefore(Tail(u), k, e[1])
                    /\ e[2] \in L \/ RowBefore(Tail(u), k, e[2])
    BY DEF Rooted
<1>1. k + 1 \in 1..Len(u) /\ Tail(u)[k] = u[k + 1]
  BY TailAt
<1>2. /\ e[1] \in K \/ RowBefore(u, k + 1, e[1])
      /\ e[2] \in K \/ RowBefore(u, k + 1, e[2])
  BY <1>1 DEF Rooted
<1> QED BY <1>2, RowBeforeTail

\* The rest has no other kinds of writes.
LEMMA OpsTail ==
    ASSUME NEW u \in Seq(Writes), u # <<>>, NEW X, OpsIn(u, X)
    PROVE  OpsIn(Tail(u), X)
BY TailAt DEF OpsIn

\* Behind an archival or the deletion of a vector no final point is written.
LEMMA NoFinalBehind ==
    ASSUME NEW u \in Seq(Writes), u # <<>>, NEW K, Sound(u, K), Head(u).op \in ArchiveOps
    PROVE  OpsIn(Tail(u), Ops \ FinalOps)
<1> SUFFICES ASSUME NEW k \in 1..Len(Tail(u)) PROVE Tail(u)[k].op \in Ops \ FinalOps
    BY DEF OpsIn
<1>1. k + 1 \in 1..Len(u) /\ Tail(u)[k] = u[k + 1] /\ 1 < k + 1 /\ 1 \in 1..Len(u)
      /\ Head(u) = u[1] /\ Tail(u)[k] \in Writes
  BY TailAt
<1>2. u[k + 1].op \notin FinalOps
  BY <1>1 DEF Sound
<1> QED BY <1>1, <1>2, WriteFields

\* What was pending is still pending, or was the first write.
LEMMA PendingTail ==
    ASSUME NEW u \in Seq(Writes), u # <<>>, NEW op, NEW i, Pending(u, op, i)
    PROVE  Pending(Tail(u), op, i) \/ (Head(u).op = op /\ Head(u).id = i)
<1>1. PICK k \in 1..Len(u) : u[k].op = op /\ u[k].id = i
  BY DEF Pending
<1>2. CASE k = 1
  BY <1>1, <1>2, TailAt
<1>3. CASE k # 1
  <2>1. k - 1 \in 1..Len(Tail(u)) /\ Tail(u)[k - 1] = u[k]
    BY <1>3, TailAt
  <2> QED BY <1>1, <2>1 DEF Pending
<1> QED BY <1>2, <1>3

-----------------------------------------------------------------------------
(***************************************************************************)
(* The plan Persist begins with                                            *)
(***************************************************************************)
Finals == [id : Ids, seen : Nat, embedded : BOOLEAN]
Archivals == [id : Ids, seen : Nat]
Drafts == [finals : Seq(Finals), archived : Seq(Archivals), contras : Seq(Ids \X Ids)]

\* The writes of one final point, of one archived point and of one contradiction.
LEMMA FinalShape ==
    ASSUME NEW f \in Finals
    PROVE  /\ FinalWrites(f) \in Seq(Writes)
           /\ OpsIn(FinalWrites(f), FinalOps) /\ Sound(FinalWrites(f), {})
           /\ Pending(FinalWrites(f), "row", f.id)
           /\ f.embedded => Pending(FinalWrites(f), "vecInsert", f.id)
<1> DEFINE w == FinalWrites(f)
           a == Row(f.id, f.seen)
           b == [op |-> "vecDelete", id |-> f.id]
           c == [op |-> "vecInsert", id |-> f.id]
<1>1. a \in Writes /\ b \in Writes /\ c \in Writes
  BY DEF Finals, Writes, Row
<1>2. /\ a.op = "row" /\ a.id = f.id /\ b.op = "vecDelete" /\ b.id = f.id
      /\ c.op = "vecInsert" /\ c.id = f.id
  BY DEF Row
<1>3. /\ f.embedded => w = <<a>> \o <<b, c>>
      /\ ~f.embedded => w = <<a>> \o <<>>
  BY DEF FinalWrites, Index
<1> HIDE DEF a, b, c, w
<1>4. CASE f.embedded
  <2> DEFINE u == <<a>>  v == <<b, c>>
  <2>1. /\ u \in Seq(Writes) /\ Len(u) = 1 /\ u[1] = a
        /\ v \in Seq(Writes) /\ Len(v) = 2 /\ v[1] = b /\ v[2] = c
    BY <1>1
  <2>2. w = u \o v
    BY <1>3, <1>4
  <2> HIDE DEF u, v
  <2>3. w \in Seq(Writes) /\ Len(w) = 3 /\ w[1] = a /\ w[2] = b /\ w[3] = c
    <3>1. /\ w \in Seq(Writes) /\ Len(w) = Len(u) + Len(v)
          /\ \A k \in 1..Len(u) + Len(v) : w[k] = IF k <= Len(u) THEN u[k] ELSE v[k - Len(u)]
      BY <2>1, <2>2, ConcatProperties
    <3> QED BY <2>1, <3>1
  <2>4. \A k \in 1..Len(w) : k = 1 \/ k = 2 \/ k = 3
    BY <2>3
  <2>5. OpsIn(w, FinalOps)
    BY <1>2, <2>3, <2>4 DEF OpsIn, FinalOps
  <2>6. 1 \in 1..Len(w) /\ 3 \in 1..Len(w) /\ 2 + 1 \in 1..Len(w) /\ w[2 + 1] = c
    BY <2>3
  <2>7. Pending(w, "row", f.id) /\ Pending(w, "vecInsert", f.id)
    BY <1>2, <2>3, <2>6 DEF Pending
  <2>8. RowBefore(w, 2, f.id) /\ RowBefore(w, 3, f.id)
    BY <1>2, <2>3, <2>6 DEF RowBefore
  <2>9. Sound(w, {})
    BY <1>2, <2>3, <2>4, <2>6, <2>8 DEF Sound, VecOps, ArchiveOps
  <2> QED BY <2>3, <2>5, <2>7, <2>9 DEF w
<1>5. CASE ~f.embedded
  <2>1. w \in Seq(Writes) /\ Len(w) = 1 /\ w[1] = a
    <3>1. w = <<a>>
      BY <1>1, <1>3, <1>5, ConcatEmptySeq
    <3> QED BY <1>1, <3>1
  <2>2. \A k \in 1..Len(w) : k = 1
    BY <2>1
  <2>3. OpsIn(w, FinalOps)
    BY <1>2, <2>1, <2>2 DEF OpsIn, FinalOps
  <2>4. Pending(w, "row", f.id)
    BY <1>2, <2>1 DEF Pending
  <2>5. Sound(w, {})
    BY <1>2, <2>1, <2>2 DEF Sound, VecOps, ArchiveOps
  <2> QED BY <1>5, <2>1, <2>3, <2>4, <2>5 DEF w
<1> QED BY <1>4, <1>5

\* One archived point: its archival and the deletion of its vector, in order.
LEMMA ArchiveShape ==
    ASSUME NEW f \in Archivals
    PROVE  /\ ArchiveWrites(f) \in Seq(Writes)
           /\ OpsIn(ArchiveWrites(f), ArchiveOps) /\ Sound(ArchiveWrites(f), {})
           /\ \A k \in 1..Len(ArchiveWrites(f)) : ArchiveWrites(f)[k].id = f.id
           /\ Pending(ArchiveWrites(f), "archive", f.id)
           /\ Pending(ArchiveWrites(f), "unindex", f.id)
<1> DEFINE w == ArchiveWrites(f)
           a == ArchiveRow(f.id, f.seen)
           b == Unindex(f.id)
<1>1. a \in Writes /\ b \in Writes
  BY DEF Archivals, Writes, ArchiveRow, Unindex
<1>2. a.op = "archive" /\ a.id = f.id /\ b.op = "unindex" /\ b.id = f.id
  BY DEF ArchiveRow, Unindex
<1>3. w = <<a, b>>
  BY DEF ArchiveWrites
<1>4. b = Unindex(f.id)
  OBVIOUS
<1> HIDE DEF a, b, w
<1>5. w \in Seq(Writes) /\ Len(w) = 2 /\ w[1] = a /\ w[2] = b
  BY <1>1, <1>3
<1>6. /\ \A k \in 1..Len(w) : k = 1 \/ k = 2
      /\ 1 \in 1..Len(w) /\ 1 + 1 \in 1..Len(w) /\ w[1 + 1] = b
  BY <1>5
<1>7. OpsIn(w, ArchiveOps)
  BY <1>2, <1>5, <1>6 DEF OpsIn, ArchiveOps
<1>8. Pending(w, "archive", f.id) /\ Pending(w, "unindex", f.id)
  BY <1>2, <1>5, <1>6 DEF Pending
<1>9. Sound(w, {})
  BY <1>2, <1>4, <1>5, <1>6 DEF Sound, VecOps, FinalOps
<1>10. \A k \in 1..Len(w) : w[k].id = f.id
  BY <1>2, <1>5, <1>6
<1> QED BY <1>5, <1>7, <1>8, <1>9, <1>10 DEF w

\* All final points: nothing but final writes, in order, and none left out.
LEMMA FinalsShape ==
    ASSUME NEW s \in Seq(Finals)
    PROVE  LET u == Concat(s, FinalWrites)
           IN  /\ u \in Seq(Writes) /\ OpsIn(u, FinalOps) /\ Sound(u, {})
               /\ \A n \in 1..Len(s) : /\ Pending(u, "row", s[n].id)
                                       /\ s[n].embedded => Pending(u, "vecInsert", s[n].id)
<1> DEFINE ss == [i \in 1..Len(s) |-> FinalWrites(s[i])]
           G == {u \in Seq(Writes) : OpsIn(u, FinalOps) /\ Sound(u, {})}
           w == Flatten(ss)
<1>1. ASSUME NEW n \in 1..Len(s)
      PROVE  s[n] \in Finals /\ FinalWrites(s[n]) \in Seq(Writes) /\ FinalWrites(s[n]) \in G
  <2>1. s[n] \in Finals
    BY ElementOfSeq
  <2> QED BY <2>1, FinalShape
<1>2. ss \in Seq(Seq(Writes)) /\ Len(ss) = Len(s)
  BY <1>1
<1>3. <<>> \in G
  BY DEF OpsIn, Sound
<1>4. ASSUME NEW u \in Seq(Writes), NEW n \in 1..Len(ss), u \in G PROVE u \o ss[n] \in G
  <2>1. ss[n] \in Seq(Writes) /\ OpsIn(ss[n], FinalOps) /\ Sound(ss[n], {})
    BY <1>1, <1>2
  <2>2. OpsIn(u, FinalOps) /\ Sound(u, {}) /\ OpsIn(u, Ops \ ArchiveOps)
    BY <1>4 DEF OpsIn, FinalOps, Ops, ArchiveOps
  <2> HIDE DEF ss
  <2>3. OpsIn(u \o ss[n], FinalOps) /\ Sound(u \o ss[n], {}) /\ u \o ss[n] \in Seq(Writes)
    BY <2>1, <2>2, OpsConcat, SoundConcat, ConcatAt
  <2> QED BY <2>3
<1>5. w \in Seq(Writes) /\ w \in G
  <2> HIDE DEF ss, G
  <2> QED BY <1>2, <1>3, <1>4, FlattenClosed
<1>6. ASSUME NEW n \in 1..Len(s), NEW op, NEW i, Pending(ss[n], op, i) PROVE Pending(w, op, i)
  <2>1. PICK k \in 1..Len(ss[n]) : ss[n][k].op = op /\ ss[n][k].id = i
    BY <1>6 DEF Pending
  <2> HIDE DEF ss
  <2>2. n \in 1..Len(ss)
    BY <1>2
  <2>3. PICK l \in 1..Len(w) : w[l] = ss[n][k]
    BY <1>2, <2>2, FlattenHasAll
  <2> QED BY <2>1, <2>3 DEF Pending
<1>7. ASSUME NEW n \in 1..Len(s)
      PROVE  Pending(w, "row", s[n].id) /\ (s[n].embedded => Pending(w, "vecInsert", s[n].id))
  <2>1. ss[n] = FinalWrites(s[n]) /\ s[n] \in Finals
    BY <1>1
  <2>2. /\ Pending(ss[n], "row", s[n].id)
        /\ s[n].embedded => Pending(ss[n], "vecInsert", s[n].id)
    BY <2>1, FinalShape
  <2> HIDE DEF ss, w
  <2> QED BY <1>6, <2>2
<1>8. Concat(s, FinalWrites) = w
  BY DEF Concat
<1> HIDE DEF w, ss
<1> QED BY <1>5, <1>7, <1>8

\* All archived points: nothing but their archivals, in order, and none left out.
LEMMA ArchivalsShape ==
    ASSUME NEW s \in Seq(Archivals)
    PROVE  LET u == Concat(s, ArchiveWrites)
           IN  /\ u \in Seq(Writes) /\ OpsIn(u, ArchiveOps) /\ Sound(u, {})
               /\ \A k \in 1..Len(u) : \E n \in 1..Len(s) : u[k].id = s[n].id
               /\ \A n \in 1..Len(s) : Pending(u, "archive", s[n].id) /\ Pending(u, "unindex", s[n].id)
<1> DEFINE ss == [i \in 1..Len(s) |-> ArchiveWrites(s[i])]
           known(u) == \A k \in 1..Len(u) : \E n \in 1..Len(s) : u[k].id = s[n].id
           G == {u \in Seq(Writes) : OpsIn(u, ArchiveOps) /\ Sound(u, {}) /\ known(u)}
           w == Flatten(ss)
<1>1. ASSUME NEW n \in 1..Len(s)
      PROVE  s[n] \in Archivals /\ ArchiveWrites(s[n]) \in Seq(Writes) /\ ArchiveWrites(s[n]) \in G
  <2>1. s[n] \in Archivals
    BY ElementOfSeq
  <2>2. known(ArchiveWrites(s[n]))
    BY <2>1, ArchiveShape
  <2> HIDE DEF known
  <2> QED BY <2>1, <2>2, ArchiveShape
<1>2. ss \in Seq(Seq(Writes)) /\ Len(ss) = Len(s)
  BY <1>1
<1>3. <<>> \in G
  BY DEF OpsIn, Sound
<1>4. ASSUME NEW u \in Seq(Writes), NEW n \in 1..Len(ss), u \in G PROVE u \o ss[n] \in G
  <2>1. ss[n] \in Seq(Writes) /\ OpsIn(ss[n], ArchiveOps) /\ Sound(ss[n], {}) /\ known(ss[n])
    <3> HIDE DEF known
    <3> QED BY <1>1, <1>2
  <2>2. OpsIn(u, ArchiveOps) /\ Sound(u, {}) /\ known(u) /\ OpsIn(ss[n], Ops \ FinalOps)
    <3>1. OpsIn(u, ArchiveOps) /\ Sound(u, {}) /\ known(u)
      <4> HIDE DEF known
      <4> QED BY <1>4
    <3>2. OpsIn(ss[n], Ops \ FinalOps)
      BY <2>1 DEF OpsIn, FinalOps, Ops, ArchiveOps
    <3> QED BY <3>1, <3>2
  <2> HIDE DEF ss
  <2>3. OpsIn(u \o ss[n], ArchiveOps) /\ Sound(u \o ss[n], {}) /\ u \o ss[n] \in Seq(Writes)
    BY <2>1, <2>2, OpsConcat, SoundConcat, ConcatAt
  <2>4. known(u \o ss[n])
    <3> SUFFICES ASSUME NEW k \in 1..Len(u \o ss[n])
                 PROVE  \E m \in 1..Len(s) : (u \o ss[n])[k].id = s[m].id
        OBVIOUS
    <3>1. CASE k \in 1..Len(u)
      <4>1. (u \o ss[n])[k] = u[k]
        BY <2>1, <3>1, ConcatAt
      <4> QED BY <2>2, <3>1, <4>1
    <3>2. ASSUME NEW l \in 1..Len(ss[n]), k = Len(u) + l
          PROVE  \E m \in 1..Len(s) : (u \o ss[n])[k].id = s[m].id
      <4>1. (u \o ss[n])[k] = ss[n][l]
        BY <2>1, <3>2, ConcatAt
      <4> QED BY <2>1, <4>1
    <3> QED BY <2>1, <3>1, <3>2, ConcatAt
  <2> HIDE DEF known
  <2> QED BY <2>3, <2>4
<1>5. w \in Seq(Writes) /\ w \in G
  <2> HIDE DEF ss, G
  <2> QED BY <1>2, <1>3, <1>4, FlattenClosed
<1>6. ASSUME NEW n \in 1..Len(s), NEW op, NEW i, Pending(ss[n], op, i) PROVE Pending(w, op, i)
  <2>1. PICK k \in 1..Len(ss[n]) : ss[n][k].op = op /\ ss[n][k].id = i
    BY <1>6 DEF Pending
  <2> HIDE DEF ss
  <2>2. n \in 1..Len(ss)
    BY <1>2
  <2>3. PICK l \in 1..Len(w) : w[l] = ss[n][k]
    BY <1>2, <2>2, FlattenHasAll
  <2> QED BY <2>1, <2>3 DEF Pending
<1>7. ASSUME NEW n \in 1..Len(s)
      PROVE  Pending(w, "archive", s[n].id) /\ Pending(w, "unindex", s[n].id)
  <2>1. ss[n] = ArchiveWrites(s[n]) /\ s[n] \in Archivals
    BY <1>1
  <2>2. Pending(ss[n], "archive", s[n].id) /\ Pending(ss[n], "unindex", s[n].id)
    BY <2>1, ArchiveShape
  <2> HIDE DEF ss, w
  <2> QED BY <1>6, <2>2
<1>8. Concat(s, ArchiveWrites) = w
  BY DEF Concat
<1> HIDE DEF w, ss
<1> QED BY <1>5, <1>7, <1>8

\* All contradictions.
LEMMA ContrasShape ==
    ASSUME NEW s \in Seq(Ids \X Ids)
    PROVE  LET u == Flatten([i \in 1..Len(s) |-> <<Contradiction(s[i])>>])
           IN  u \in Seq(Writes) /\ OpsIn(u, {"contra"}) /\ Sound(u, {})
<1> DEFINE ss == [i \in 1..Len(s) |-> <<Contradiction(s[i])>>]
           G == {u \in Seq(Writes) : OpsIn(u, {"contra"}) /\ Sound(u, {})}
           w == Flatten(ss)
<1>1. ASSUME NEW n \in 1..Len(s)
      PROVE  ss[n] \in Seq(Writes) /\ OpsIn(ss[n], {"contra"}) /\ Sound(ss[n], {})
  <2> DEFINE c == Contradiction(s[n])
  <2>1. s[n] \in Ids \X Ids
    BY ElementOfSeq
  <2>2. c \in Writes /\ c.op = "contra"
    BY <2>1 DEF Contradiction, Writes
  <2>3. ss[n] = <<c>>
    OBVIOUS
  <2> HIDE DEF c, ss
  <2>4. ss[n] \in Seq(Writes) /\ Len(ss[n]) = 1 /\ ss[n][1] = c
    BY <2>2, <2>3
  <2>5. \A k \in 1..Len(ss[n]) : k = 1
    BY <2>4
  <2> QED BY <2>2, <2>4, <2>5 DEF OpsIn, Sound, VecOps, ArchiveOps
<1>2. ss \in Seq(Seq(Writes)) /\ Len(ss) = Len(s)
  <2>1. \A n \in 1..Len(s) : ss[n] \in Seq(Writes)
    BY <1>1
  <2> QED BY <2>1
<1>3. <<>> \in G
  BY DEF OpsIn, Sound
<1>4. ASSUME NEW u \in Seq(Writes), NEW n \in 1..Len(ss), u \in G PROVE u \o ss[n] \in G
  <2>1. ss[n] \in Seq(Writes) /\ OpsIn(ss[n], {"contra"}) /\ Sound(ss[n], {})
    BY <1>1, <1>2
  <2>2. OpsIn(u, {"contra"}) /\ Sound(u, {}) /\ OpsIn(u, Ops \ ArchiveOps)
    BY <1>4 DEF OpsIn, Ops, ArchiveOps
  <2> HIDE DEF ss
  <2>3. OpsIn(u \o ss[n], {"contra"}) /\ Sound(u \o ss[n], {}) /\ u \o ss[n] \in Seq(Writes)
    BY <2>1, <2>2, OpsConcat, SoundConcat, ConcatAt
  <2> QED BY <2>3
<1>5. w \in Seq(Writes) /\ w \in G
  <2> HIDE DEF ss, G
  <2> QED BY <1>2, <1>3, <1>4, FlattenClosed
<1>6. w \in Seq(Writes) /\ OpsIn(w, {"contra"}) /\ Sound(w, {})
  <2> HIDE DEF w
  <2> QED BY <1>5
<1> QED BY <1>6, Zenon

\* A write of the whole is a write of a part.
LEMMA ConcatParts ==
    ASSUME NEW u \in Seq(Writes), NEW v \in Seq(Writes), NEW k \in 1..Len(u \o v)
    PROVE  \/ \E l \in 1..Len(u) : (u \o v)[k] = u[l]
           \/ \E l \in 1..Len(v) : (u \o v)[k] = v[l]
<1>1. CASE k \in 1..Len(u)
  BY <1>1, ConcatAt
<1>2. ASSUME NEW l \in 1..Len(v), k = Len(u) + l PROVE (u \o v)[k] = v[l]
  BY <1>2, ConcatAt
<1> QED BY <1>1, <1>2, ConcatAt

\* What is pending in a part is pending in the whole.
LEMMA PendingConcat ==
    ASSUME NEW u \in Seq(Writes), NEW v \in Seq(Writes), NEW op, NEW i,
           Pending(u, op, i) \/ Pending(v, op, i)
    PROVE  Pending(u \o v, op, i)
<1>1. ASSUME NEW k \in 1..Len(u), u[k].op = op, u[k].id = i PROVE Pending(u \o v, op, i)
  <2>1. k \in 1..Len(u \o v) /\ (u \o v)[k] = u[k]
    BY ConcatAt
  <2> QED BY <1>1, <2>1 DEF Pending
<1>2. ASSUME NEW k \in 1..Len(v), v[k].op = op, v[k].id = i PROVE Pending(u \o v, op, i)
  <2>1. Len(u) + k \in 1..Len(u \o v) /\ (u \o v)[Len(u) + k] = v[k]
    BY ConcatAt
  <2> QED BY <1>2, <2>1 DEF Pending
<1> QED BY <1>1, <1>2 DEF Pending

\* The plan of a run: everything the draft decides is in it, in an order that is sound
\* for whatever the tables hold.
LEMMA PlanShape ==
    ASSUME NEW d \in Drafts, NEW R \in SUBSET Pairs(d)
    PROVE  LET p == PersistPlan(d, R)
           IN  /\ p \in Seq(Writes) /\ Sound(p, {}) /\ Rooted(p, {})
               /\ \A k \in 1..Len(p) : p[k].op \in ArchiveOps =>
                      \E f \in Values(d.archived) : p[k].id = f.id
               /\ \A f \in Values(d.finals) :
                      Pending(p, "row", f.id) /\ (f.embedded => Pending(p, "vecInsert", f.id))
               /\ \A f \in Values(d.archived) :
                      Pending(p, "archive", f.id) /\ Pending(p, "unindex", f.id)
<1> DEFINE p == PersistPlan(d, R)
           A == Concat(d.finals, FinalWrites)
           B == Concat(d.archived, ArchiveWrites)
           C == Flatten([i \in 1..Len(d.contras) |-> <<Contradiction(d.contras[i])>>])
           T == EdgeSet(Values(d.contras), R)
           E == IF Values(d.contras) = {} /\ R = {} THEN <<>> ELSE <<AddEdges(T)>>
           BC == B \o C
           AB == A \o B
           ABC == AB \o C
<1>1. d.finals \in Seq(Finals) /\ d.archived \in Seq(Archivals) /\ d.contras \in Seq(Ids \X Ids)
  BY DEF Drafts
<1>2. p = ABC \o E
  BY DEF PersistPlan, Concat
<1>3. /\ A \in Seq(Writes) /\ OpsIn(A, FinalOps) /\ Sound(A, {})
      /\ \A n \in 1..Len(d.finals) :
            /\ Pending(A, "row", d.finals[n].id)
            /\ d.finals[n].embedded => Pending(A, "vecInsert", d.finals[n].id)
  BY <1>1, FinalsShape
<1>4. /\ B \in Seq(Writes) /\ OpsIn(B, ArchiveOps) /\ Sound(B, {})
      /\ \A k \in 1..Len(B) : \E n \in 1..Len(d.archived) : B[k].id = d.archived[n].id
      /\ \A n \in 1..Len(d.archived) :
            Pending(B, "archive", d.archived[n].id) /\ Pending(B, "unindex", d.archived[n].id)
  BY <1>1, ArchivalsShape
<1>5. C \in Seq(Writes) /\ OpsIn(C, {"contra"}) /\ Sound(C, {})
  BY <1>1, ContrasShape
<1>6. /\ T \subseteq EdgeTriples
      /\ \A e \in T : e[3] = "related" =>
            /\ \E n \in 1..Len(d.finals) : e[1] = d.finals[n].id
            /\ \E n \in 1..Len(d.finals) : e[2] = d.finals[n].id
  <2>1. \A c \in Values(d.contras) : c \in Ids \X Ids
    BY <1>1, ElementOfSeq DEF Values
  <2>2. ASSUME NEW n \in 1..Len(d.finals) PROVE d.finals[n].id \in Ids
    <3>1. d.finals[n] \in Finals
      BY <1>1, ElementOfSeq
    <3> QED BY <3>1 DEF Finals
  <2>3. \A r \in R : \E n, m \in 1..Len(d.finals) : r = <<d.finals[n].id, d.finals[m].id>>
    BY DEF Pairs
  <2> QED BY <2>1, <2>2, <2>3 DEF EdgeSet, EdgeTriples, Kinds
<1>7. \/ E = <<>>
      \/ Len(E) = 1 /\ E[1].op = "edges" /\ E[1].edges = T
  BY DEF AddEdges
<1>8. E \in Seq(Writes)
  <2>1. AddEdges(T) \in Writes
    BY <1>6 DEF AddEdges, Writes
  <2>2. E = <<>> \/ E = <<AddEdges(T)>>
    BY Zenon
  <2> DEFINE w == AddEdges(T)
  <2>3. <<w>> \in Seq(Writes) /\ <<>> \in Seq(Writes)
    <3> HIDE DEF w, T
    <3> QED BY <2>1 DEF w
  <2> HIDE DEF T, E
  <2> QED BY <2>2, <2>3
<1> HIDE DEF p, A, B, C, T, E
<1>9. OpsIn(E, {"edges"}) /\ Sound(E, {})
  <2>1. CASE E = <<>>
    BY <2>1 DEF OpsIn, Sound
  <2>2. CASE Len(E) = 1 /\ E[1].op = "edges"
    <3>1. \A k \in 1..Len(E) : k = 1
      BY <2>2
    <3> QED BY <2>2, <3>1 DEF OpsIn, Sound, VecOps, ArchiveOps
  <2> QED BY <1>7, <2>1, <2>2
<1>10. AB \in Seq(Writes) /\ Sound(AB, {}) /\ OpsIn(AB, Ops \ {"edges", "contra"})
  <2>1. OpsIn(A, Ops \ ArchiveOps) /\ OpsIn(A, Ops \ {"edges", "contra"})
    BY <1>3 DEF OpsIn, FinalOps, ArchiveOps, Ops
  <2>2. OpsIn(B, Ops \ {"edges", "contra"})
    BY <1>4 DEF OpsIn, ArchiveOps, Ops
  <2> QED BY <1>3, <1>4, <2>1, <2>2, ConcatAt, SoundConcat, OpsConcat
<1> HIDE DEF AB
<1>11. ABC \in Seq(Writes) /\ Sound(ABC, {}) /\ OpsIn(ABC, Ops \ {"edges"})
  <2>1. OpsIn(C, Ops \ FinalOps) /\ OpsIn(C, Ops \ {"edges"})
    BY <1>5 DEF OpsIn, FinalOps, Ops
  <2>2. OpsIn(AB, Ops \ {"edges"})
    BY <1>10 DEF OpsIn
  <2> QED BY <1>5, <1>10, <2>1, <2>2, ConcatAt, SoundConcat, OpsConcat
<1> HIDE DEF ABC
<1>12. p \in Seq(Writes) /\ Sound(p, {})
  <2>1. OpsIn(E, Ops \ FinalOps)
    BY <1>9 DEF OpsIn, FinalOps, Ops
  <2> QED BY <1>2, <1>8, <1>9, <1>11, <2>1, ConcatAt, SoundConcat
<1>13. ASSUME NEW op, NEW i, Pending(A, op, i) \/ Pending(B, op, i)
       PROVE  Pending(ABC, op, i) /\ Pending(p, op, i)
  <2>1. Pending(AB, op, i)
    BY <1>3, <1>4, <1>13, PendingConcat DEF AB
  <2>2. Pending(ABC, op, i)
    BY <1>5, <1>10, <2>1, PendingConcat DEF ABC
  <2> QED BY <1>2, <1>8, <1>11, <2>2, PendingConcat
<1>14. ASSUME NEW k \in 1..Len(p), p[k].op \in ArchiveOps
       PROVE  \E f \in Values(d.archived) : p[k].id = f.id
  <2>1. \A l \in 1..Len(E) : E[l].op \notin ArchiveOps
    BY <1>9 DEF OpsIn, ArchiveOps
  <2>2. \A l \in 1..Len(C) : C[l].op \notin ArchiveOps
    BY <1>5 DEF OpsIn, ArchiveOps
  <2>3. \A l \in 1..Len(A) : A[l].op \notin ArchiveOps
    BY <1>3 DEF OpsIn, FinalOps, ArchiveOps
  <2>4. PICK l \in 1..Len(ABC) : p[k] = ABC[l]
    BY <1>2, <1>8, <1>11, <1>14, <2>1, ConcatParts
  <2>5. PICK m \in 1..Len(AB) : ABC[l] = AB[m]
    <3>1. l \in 1..Len(AB \o C) /\ ABC = AB \o C
      BY DEF ABC
    <3> QED BY <1>5, <1>10, <1>14, <2>2, <2>4, <3>1, ConcatParts
  <2>6. PICK n \in 1..Len(B) : AB[m] = B[n]
    <3>1. m \in 1..Len(A \o B) /\ AB = A \o B
      BY DEF AB
    <3> QED BY <1>3, <1>4, <1>14, <2>3, <2>4, <2>5, <3>1, ConcatParts
  <2> QED BY <1>4, <2>4, <2>5, <2>6 DEF Values
<1>15. Rooted(p, {})
  <2> SUFFICES ASSUME NEW k \in 1..Len(p), p[k].op = "edges", NEW e \in p[k].edges, e[3] = "related"
               PROVE  RowBefore(p, k, e[1]) /\ RowBefore(p, k, e[2])
      BY DEF Rooted
  <2>1. \A l \in 1..Len(ABC) : ABC[l].op # "edges"
    BY <1>11 DEF OpsIn
  <2>2. PICK l \in 1..Len(E) : k = Len(ABC) + l
    BY <1>2, <1>8, <1>11, <2>1, ConcatAt
  <2>3. p[k] = E[l] /\ Len(ABC) \in Nat /\ l \in Nat
    BY <1>2, <1>8, <1>11, <2>2, ConcatAt
  <2>4. E[l].edges = T
    <3>1. E # <<>> /\ Len(E) = 1
      BY <1>7, <2>2
    <3>2. l = 1
      BY <3>1
    <3> QED BY <1>7, <3>1, <3>2
  <2>5. ASSUME NEW n \in 1..Len(d.finals) PROVE RowBefore(p, k, d.finals[n].id)
    <3>1. Pending(ABC, "row", d.finals[n].id)
      BY <1>3, <1>13
    <3>2. PICK j \in 1..Len(ABC) : ABC[j].op = "row" /\ ABC[j].id = d.finals[n].id
      BY <3>1 DEF Pending
    <3>3. j \in 1..Len(p) /\ p[j] = ABC[j] /\ j < k
      BY <1>2, <1>8, <1>11, <2>2, <2>3, ConcatAt
    <3> QED BY <3>2, <3>3 DEF RowBefore
  <2> QED BY <1>6, <2>3, <2>4, <2>5
<1>16. ASSUME NEW f \in Values(d.finals)
       PROVE  Pending(p, "row", f.id) /\ (f.embedded => Pending(p, "vecInsert", f.id))
  BY <1>3, <1>13 DEF Values
<1>17. ASSUME NEW f \in Values(d.archived)
       PROVE  Pending(p, "archive", f.id) /\ Pending(p, "unindex", f.id)
  BY <1>4, <1>13 DEF Values
<1> QED BY <1>12, <1>14, <1>15, <1>16, <1>17 DEF p

-----------------------------------------------------------------------------
(***************************************************************************)
(* The inductive invariant                                                 *)
(***************************************************************************)
Rows == [status : {"none", "active", "archived"}, seen : Nat]
Units == UNION {[S -> SUBSET Ids] : S \in SUBSET Topics}

\* Every variable is what it should be; only a run that writes has something to write.
Types ==
    /\ rows \in [Agents -> [Ids -> Rows]]
    /\ vec \in [Ids -> Agents \cup {Unnamed}]
    /\ contras \in [Agents -> {<<>>} \cup (Ids \X Ids)]
    /\ edges \in [Agents -> SUBSET EdgeTriples]
    /\ stage \in [Agents -> {"idle", "adjudicating", "persisting"}]
    /\ hist \in [Agents -> Units]
    /\ draft \in [Agents -> Drafts]
    /\ plan \in [Agents -> Seq(Writes)]
    /\ runs \in 0..MaxRuns
    /\ failures \in 0..MaxFailures
    /\ \A a \in Agents : stage[a] = "idle" => draft[a] = NoDraft
    /\ \A a \in Agents : stage[a] # "persisting" => plan[a] = <<>>

Active(a) == {i \in Ids : rows[a][i].status = "active"}
Known(a) == {i \in Ids : rows[a][i].status # "none"}

\* Another agent has a point with this id.
Contested(a, i) == \E b \in Agents \ {a} : rows[b][i].status # "none"

\* What is left to write is in order.
Ordered(a) ==
    /\ Sound(plan[a], Active(a))
    /\ Rooted(plan[a], Known(a))
    /\ \A k \in 1..Len(plan[a]) :
           plan[a][k].op \in ArchiveOps => plan[a][k].id \in ArchivedIds(a)

\* A final point is in the tables or still to be written.
FinalsTakeEffect(a) ==
    \A f \in Values(draft[a].finals) : f.id \notin ArchivedIds(a) =>
        /\ Pending(plan[a], "row", f.id) \/ rows[a][f.id].status = "active"
        /\ f.embedded => \/ Pending(plan[a], "vecInsert", f.id)
                         \/ vec[f.id] = a
                         \/ Contested(a, f.id)

\* So is an archival, and once it is written no final point is to come.
ArchivalsTakeEffect(a) ==
    \A i \in ArchivedIds(a) :
        /\ \/ Pending(plan[a], "archive", i)
           \/ rows[a][i].status = "archived" /\ OpsIn(plan[a], Ops \ FinalOps)
        /\ \/ Pending(plan[a], "unindex", i)
           \/ vec[i] # a /\ OpsIn(plan[a], Ops \ FinalOps)

Effect(a) == Ordered(a) /\ FinalsTakeEffect(a) /\ ArchivalsTakeEffect(a)

\* As long as no write has failed, the vector of an archived point is what its
\* run takes out next.
UnindexIsNext ==
    failures = 0 =>
        \A a \in Agents, i \in Ids :
            rows[a][i].status = "archived" /\ vec[i] = a
                => plan[a] # <<>> /\ Head(plan[a]) = Unindex(i)

IInv ==
    /\ Types
    /\ \A a \in Agents : stage[a] = "persisting" => Effect(a)
    /\ IndexedHasRow
    /\ RelatedJoinsPoints
    /\ UnindexIsNext

-----------------------------------------------------------------------------
(***************************************************************************)
(* A write                                                                 *)
(***************************************************************************)

\* What a write does to the tables.
LEMMA WriteTables ==
    ASSUME Types, NEW a \in Agents, Write(a), NEW w, w = Head(plan[a])
    PROVE  /\ plan[a] \in Seq(Writes) /\ plan[a] # <<>> /\ w \in Writes
           /\ plan'[a] = Tail(plan[a]) /\ \A b \in Agents \ {a} : plan'[b] = plan[b]
           /\ \A b \in Agents \ {a} : rows'[b] = rows[b] /\ edges'[b] = edges[b]
           /\ \A i \in Ids : w.op = "row" /\ w.id = i => rows'[a][i].status = "active"
           /\ \A i \in Ids : w.op = "archive" /\ w.id = i => rows'[a][i].status = "archived"
           /\ \A i \in Ids : ~(w.op \in {"row", "archive"} /\ w.id = i) => rows'[a][i] = rows[a][i]
           /\ \A i \in Ids : w.op = "vecDelete" /\ w.id = i => vec'[i] = Unnamed
           /\ \A i \in Ids : w.op = "vecInsert" /\ w.id = i => vec[i] = Unnamed /\ vec'[i] = a
           /\ \A i \in Ids : w.op = "unindex" /\ w.id = i =>
                 vec'[i] # a /\ (vec[i] = a \/ vec'[i] = vec[i]) /\ vec'[i] \in {vec[i], Unnamed}
           /\ \A i \in Ids : ~(w.op \in {"vecDelete", "vecInsert", "unindex"} /\ w.id = i)
                 => vec'[i] = vec[i]
           /\ w.op = "edges" => edges'[a] = edges[a] \cup w.edges
           /\ w.op # "edges" => edges'[a] = edges[a]
           /\ rows' \in [Agents -> [Ids -> Rows]]
           /\ vec' \in [Ids -> Agents \cup {Unnamed}]
           /\ contras' \in [Agents -> {<<>>} \cup (Ids \X Ids)]
           /\ edges' \in [Agents -> SUBSET EdgeTriples]
           /\ plan' \in [Agents -> Seq(Writes)]
           /\ UNCHANGED <<stage, hist, draft, runs, failures>>
<1>1. /\ stage[a] = "persisting" /\ plan[a] # <<>> /\ plan' = [plan EXCEPT ![a] = Tail(@)]
      /\ UNCHANGED <<stage, hist, draft, runs, failures>>
  BY Zenon DEF Write, bounds
<1>2. plan[a] \in Seq(Writes) /\ w \in Writes /\ Tail(plan[a]) \in Seq(Writes)
  <2>1. plan[a] \in Seq(Writes)
    BY DEF Types
  <2> QED BY <1>1, <2>1, TailAt
<1>3. /\ plan'[a] = Tail(plan[a]) /\ \A b \in Agents \ {a} : plan'[b] = plan[b]
      /\ plan' \in [Agents -> Seq(Writes)]
  <2>1. plan \in [Agents -> Seq(Writes)]
    BY DEF Types
  <2> QED BY <1>1, <1>2, <2>1
<1>4. /\ w.op \in Ops
      /\ w.op \in {"row", "archive"} => w.id \in Ids /\ w.seen \in Nat
      /\ w.op \in {"vecDelete", "vecInsert", "unindex"} => w.id \in Ids
      /\ w.op = "contra" => w.pair \in Ids \X Ids
      /\ w.op = "edges" => w.edges \subseteq EdgeTriples
  BY <1>2, WriteFields
<1>5. /\ rows \in [Agents -> [Ids -> Rows]]
      /\ vec \in [Ids -> Agents \cup {Unnamed}]
      /\ contras \in [Agents -> {<<>>} \cup (Ids \X Ids)]
      /\ edges \in [Agents -> SUBSET EdgeTriples]
      /\ a # Unnamed
  BY LearningAssumption DEF Types
<1> HIDE DEF Types
<1>6. CASE w.op = "row"
  <2>1. rows' = [rows EXCEPT ![a][w.id] = [status |-> "active", seen |-> w.seen]]
        /\ UNCHANGED <<vec, contras, edges>>
    BY <1>6 DEF Write, UpsertRow
  <2>2. [status |-> "active", seen |-> w.seen] \in Rows
    BY <1>4, <1>6 DEF Rows
  <2>3. rows' \in [Agents -> [Ids -> Rows]]
    BY <1>4, <1>5, <1>6, <2>1, <2>2
  <2>4. /\ \A b \in Agents \ {a} : rows'[b] = rows[b]
        /\ \A i \in Ids : w.id = i => rows'[a][i].status = "active"
        /\ \A i \in Ids : w.id # i => rows'[a][i] = rows[a][i]
    BY <1>4, <1>5, <1>6, <2>1
  <2> QED BY <1>1, <1>2, <1>3, <1>5, <1>6, <2>1, <2>3, <2>4
<1>7. CASE w.op = "archive"
  <2>1. rows' = [rows EXCEPT ![a][w.id] = [status |-> "archived", seen |-> w.seen]]
        /\ UNCHANGED <<vec, contras, edges>>
    BY <1>7 DEF Write, UpsertRow
  <2>2. [status |-> "archived", seen |-> w.seen] \in Rows
    BY <1>4, <1>7 DEF Rows
  <2>3. rows' \in [Agents -> [Ids -> Rows]]
    BY <1>4, <1>5, <1>7, <2>1, <2>2
  <2>4. /\ \A b \in Agents \ {a} : rows'[b] = rows[b]
        /\ \A i \in Ids : w.id = i => rows'[a][i].status = "archived"
        /\ \A i \in Ids : w.id # i => rows'[a][i] = rows[a][i]
    BY <1>4, <1>5, <1>7, <2>1
  <2> QED BY <1>1, <1>2, <1>3, <1>5, <1>7, <2>1, <2>3, <2>4
<1>8. CASE w.op \in {"vecDelete", "vecInsert", "unindex"}
  <2>1. /\ UNCHANGED <<rows, contras, edges>>
        /\ w.op = "vecDelete" => vec' = [vec EXCEPT ![w.id] = Unnamed]
        /\ w.op = "vecInsert" => vec[w.id] = Unnamed /\ vec' = [vec EXCEPT ![w.id] = a]
        /\ w.op = "unindex" => vec' = [vec EXCEPT ![w.id] = IF @ = a THEN Unnamed ELSE @]
    BY <1>8 DEF Write, VecDelete, VecInsert, VecUnindex
  <2>2. vec' \in [Ids -> Agents \cup {Unnamed}]
    BY <1>4, <1>5, <1>8, <2>1
  <2>3. /\ \A i \in Ids : w.op = "vecDelete" /\ w.id = i => vec'[i] = Unnamed
        /\ \A i \in Ids : w.op = "vecInsert" /\ w.id = i => vec[i] = Unnamed /\ vec'[i] = a
        /\ \A i \in Ids : w.op = "unindex" /\ w.id = i =>
                 vec'[i] # a /\ (vec[i] = a \/ vec'[i] = vec[i]) /\ vec'[i] \in {vec[i], Unnamed}
        /\ \A i \in Ids : w.id # i => vec'[i] = vec[i]
    BY <1>4, <1>5, <1>8, <2>1
  <2> QED BY <1>1, <1>2, <1>3, <1>5, <1>8, <2>1, <2>2, <2>3
<1>9. CASE w.op = "contra"
  <2>1. contras' = [contras EXCEPT ![a] = w.pair] /\ UNCHANGED <<rows, vec, edges>>
    BY <1>9 DEF Write, UpsertContradiction
  <2>2. contras' \in [Agents -> {<<>>} \cup (Ids \X Ids)]
    BY <1>4, <1>5, <1>9, <2>1
  <2> QED BY <1>1, <1>2, <1>3, <1>5, <1>9, <2>1, <2>2
<1>10. CASE w.op = "edges"
  <2>1. edges' = [edges EXCEPT ![a] = @ \cup w.edges] /\ UNCHANGED <<rows, vec, contras>>
    BY <1>10 DEF Write
  <2>2. edges' \in [Agents -> SUBSET EdgeTriples] /\ edges'[a] = edges[a] \cup w.edges
        /\ \A b \in Agents \ {a} : edges'[b] = edges[b]
    BY <1>4, <1>5, <1>10, <2>1
  <2> QED BY <1>1, <1>2, <1>3, <1>5, <1>10, <2>1, <2>2
<1> QED BY <1>4, <1>6, <1>7, <1>8, <1>9, <1>10 DEF Ops

\* What the order of the writes says of the first: a vector is written for a point
\* that is active, an edge between points that exist, an archival for a point the
\* draft archives, and no final point comes behind an archival.
LEMMA FirstWrite ==
    ASSUME NEW a \in Agents, NEW u \in Seq(Writes), u # <<>>, plan[a] = u, Ordered(a),
           NEW w, w = Head(u)
    PROVE  /\ w.op \in VecOps => w.id \in Active(a)
           /\ w.op = "vecDelete" => Pending(Tail(u), "vecInsert", w.id)
           /\ w.op = "archive" => Tail(u) # <<>> /\ Head(Tail(u)) = Unindex(w.id)
           /\ w.op \in ArchiveOps => w.id \in ArchivedIds(a) /\ OpsIn(Tail(u), Ops \ FinalOps)
           /\ w.op = "edges" => \A e \in w.edges : e[3] = "related" =>
                                    e[1] \in Known(a) /\ e[2] \in Known(a)
<1> DEFINE t == Tail(u)
<1>1. /\ t \in Seq(Writes) /\ w = u[1] /\ Len(u) \in Nat /\ 1 \in 1..Len(u)
      /\ Len(t) = Len(u) - 1
      /\ \A k \in 1..Len(t) : k + 1 \in 1..Len(u) /\ t[k] = u[k + 1]
      /\ \A k \in 1..Len(u) : k # 1 => k - 1 \in 1..Len(t) /\ t[k - 1] = u[k]
  BY TailAt
<1>2. /\ Sound(u, Active(a)) /\ Rooted(u, Known(a))
      /\ \A k \in 1..Len(u) : u[k].op \in ArchiveOps => u[k].id \in ArchivedIds(a)
  BY DEF Ordered
<1>3. \A i : ~RowBefore(u, 1, i)
  BY <1>1 DEF RowBefore
<1>4. w.op \in VecOps => w.id \in Active(a)
  BY <1>1, <1>2, <1>3 DEF Sound
<1>5. w.op \in ArchiveOps => w.id \in ArchivedIds(a) /\ OpsIn(t, Ops \ FinalOps)
  BY <1>1, <1>2, NoFinalBehind
<1>6. ASSUME w.op = "edges", NEW e \in w.edges, e[3] = "related"
      PROVE  e[1] \in Known(a) /\ e[2] \in Known(a)
  BY <1>1, <1>2, <1>3, <1>6 DEF Rooted
<1> HIDE DEF t
<1>7. ASSUME w.op = "vecDelete" PROVE Pending(t, "vecInsert", w.id)
  <2>1. 1 + 1 \in 1..Len(u) /\ u[1 + 1].op = "vecInsert" /\ u[1 + 1].id = w.id
    BY <1>1, <1>2, <1>7 DEF Sound
  <2>2. 1 \in 1..Len(t) /\ t[1] = u[1 + 1]
    BY <1>1, <2>1
  <2> QED BY <2>1, <2>2 DEF Pending
<1>8. ASSUME w.op = "archive" PROVE t # <<>> /\ Head(t) = Unindex(w.id)
  <2>1. 1 + 1 \in 1..Len(u) /\ u[1 + 1] = Unindex(w.id)
    BY <1>1, <1>2, <1>8 DEF Sound
  <2>2. 1 \in 1..Len(t) /\ t[1] = u[1 + 1]
    BY <1>1, <2>1
  <2>3. t # <<>>
    BY <2>2
  <2>4. Head(t) = t[1]
    BY <1>1, <2>3, TailAt
  <2> QED BY <2>1, <2>2, <2>3, <2>4
<1> QED BY <1>4, <1>5, <1>6, <1>7, <1>8 DEF t

\* The agent that writes: the rest of its plan is in order and takes effect.
LEMMA WriteEffect ==
    ASSUME Types, NEW a \in Agents, Write(a), Effect(a)
    PROVE  Effect(a)'
<1> DEFINE u == plan[a]  w == Head(u)
<1> USE DEF ArchiveOps, VecOps
<1>1. /\ u \in Seq(Writes) /\ u # <<>> /\ w \in Writes /\ w.op \in Ops
      /\ plan'[a] = Tail(u)
      /\ \A b \in Agents \ {a} : rows'[b] = rows[b]
      /\ \A i \in Ids : w.op = "row" /\ w.id = i => rows'[a][i].status = "active"
      /\ \A i \in Ids : w.op = "archive" /\ w.id = i => rows'[a][i].status = "archived"
      /\ \A i \in Ids : ~(w.op \in {"row", "archive"} /\ w.id = i) => rows'[a][i] = rows[a][i]
      /\ \A i \in Ids : w.op = "vecInsert" /\ w.id = i => vec'[i] = a
      /\ \A i \in Ids : w.op = "vecDelete" /\ w.id = i => vec'[i] = Unnamed
      /\ \A i \in Ids : w.op = "unindex" /\ w.id = i => vec'[i] # a
      /\ \A i \in Ids : ~(w.op \in {"vecDelete", "vecInsert", "unindex"} /\ w.id = i)
                 => vec'[i] = vec[i]
      /\ draft' = draft
  BY WriteTables, WriteFields
<1>2. /\ w.op \in VecOps => w.id \in Active(a)
      /\ w.op = "vecDelete" => Pending(Tail(u), "vecInsert", w.id)
      /\ w.op \in ArchiveOps => w.id \in ArchivedIds(a) /\ OpsIn(Tail(u), Ops \ FinalOps)
  BY <1>1, FirstWrite DEF Effect
<1>3. a # Unnamed /\ draft[a] \in Drafts
  BY LearningAssumption DEF Types
<1>4. /\ Sound(u, Active(a)) /\ Rooted(u, Known(a))
      /\ \A k \in 1..Len(u) : u[k].op \in ArchiveOps => u[k].id \in ArchivedIds(a)
  BY DEF Effect, Ordered
<1> DEFINE AI == ArchivedIds(a)
<1>5. ArchivedIds(a)' = AI /\ AI \subseteq Ids
  <2>1. \A f \in Values(draft[a].archived) : f \in Archivals
    <3>1. draft[a].archived \in Seq(Archivals)
      BY <1>3 DEF Drafts
    <3> QED BY <3>1, ElementOfSeq DEF Values
  <2> QED BY <1>1, <2>1 DEF ArchivedIds, Archivals
<1> HIDE DEF Types, u, w, AI
<1>6. w.op \in FinalOps \cup ArchiveOps => w.id \in Ids
  BY <1>1, WriteFields DEF FinalOps
<1>7. Ordered(a)'
  <2>1. Sound(Tail(u), Active(a)')
    <3>1. w.op \notin ArchiveOps => Active(a) \subseteq Active(a)'
      BY <1>1 DEF Active
    <3>2. w.op = "row" => w.id \in Active(a)'
      BY <1>1, <1>6 DEF Active, FinalOps
    <3> QED BY <1>1, <1>4, <3>1, <3>2, SoundTail DEF w
  <2>2. Rooted(Tail(u), Known(a)')
    <3>1. Known(a) \subseteq Known(a)'
      BY <1>1 DEF Known
    <3>2. w.op = "row" => w.id \in Known(a)'
      BY <1>1, <1>6 DEF Known, FinalOps
    <3> QED BY <1>1, <1>4, <3>1, <3>2, RootedTail DEF w
  <2>3. ASSUME NEW k \in 1..Len(Tail(u)), Tail(u)[k].op \in ArchiveOps
        PROVE  Tail(u)[k].id \in ArchivedIds(a)'
    <3>1. k + 1 \in 1..Len(u) /\ Tail(u)[k] = u[k + 1]
      BY <1>1, TailAt
    <3> QED BY <1>4, <1>5, <2>3, <3>1 DEF AI
  <2> QED BY <1>1, <2>1, <2>2, <2>3 DEF Ordered
<1>8. ASSUME NEW op, NEW i, Pending(u, op, i)
      PROVE  Pending(Tail(u), op, i) \/ (w.op = op /\ w.id = i)
  BY <1>1, <1>8, PendingTail DEF w
<1>9. FinalsTakeEffect(a)'
  <2> SUFFICES ASSUME NEW f \in Values(draft[a].finals), f.id \notin AI
               PROVE  /\ Pending(Tail(u), "row", f.id) \/ rows'[a][f.id].status = "active"
                      /\ f.embedded => \/ Pending(Tail(u), "vecInsert", f.id)
                                       \/ vec'[f.id] = a
                                       \/ Contested(a, f.id)'
      BY <1>1, <1>5 DEF FinalsTakeEffect
  <2>1. f \in Finals /\ f.id \in Ids
    <3>1. draft[a].finals \in Seq(Finals)
      BY <1>3 DEF Drafts
    <3>2. f \in Finals
      BY <3>1, ElementOfSeq DEF Values
    <3> QED BY <3>2 DEF Finals
  <2>2. /\ Pending(u, "row", f.id) \/ rows[a][f.id].status = "active"
        /\ f.embedded => \/ Pending(u, "vecInsert", f.id)
                         \/ vec[f.id] = a
                         \/ Contested(a, f.id)
    BY DEF Effect, FinalsTakeEffect, u, AI
  <2>3. w.op \in ArchiveOps => w.id # f.id
    BY <1>2 DEF AI
  <2>4. Contested(a, f.id) => Contested(a, f.id)'
    BY <1>1 DEF Contested
  <2>5. Pending(Tail(u), "row", f.id) \/ rows'[a][f.id].status = "active"
    BY <1>1, <1>8, <2>1, <2>2, <2>3
  <2>6. f.embedded => \/ Pending(Tail(u), "vecInsert", f.id)
                      \/ vec'[f.id] = a
                      \/ Contested(a, f.id)'
    BY <1>1, <1>2, <1>8, <2>1, <2>2, <2>3, <2>4
  <2> QED BY <2>5, <2>6
<1>10. ArchivalsTakeEffect(a)'
  <2> SUFFICES ASSUME NEW i \in AI
               PROVE  /\ \/ Pending(Tail(u), "archive", i)
                         \/ rows'[a][i].status = "archived" /\ OpsIn(Tail(u), Ops \ FinalOps)
                      /\ \/ Pending(Tail(u), "unindex", i)
                         \/ vec'[i] # a /\ OpsIn(Tail(u), Ops \ FinalOps)
      BY <1>1, <1>5 DEF ArchivalsTakeEffect
  <2>1. /\ \/ Pending(u, "archive", i)
           \/ rows[a][i].status = "archived" /\ OpsIn(u, Ops \ FinalOps)
        /\ \/ Pending(u, "unindex", i)
           \/ vec[i] # a /\ OpsIn(u, Ops \ FinalOps)
    BY DEF Effect, ArchivalsTakeEffect, u, AI
  <2>2. OpsIn(u, Ops \ FinalOps) => OpsIn(Tail(u), Ops \ FinalOps) /\ w.op \notin FinalOps
    <3>1. OpsIn(u, Ops \ FinalOps) => OpsIn(Tail(u), Ops \ FinalOps)
      BY <1>1, OpsTail
    <3>2. OpsIn(u, Ops \ FinalOps) => w.op \notin FinalOps
      BY <1>1, TailAt DEF OpsIn, w
    <3> QED BY <3>1, <3>2
  <2>3. i \in Ids
    BY <1>5
  <2>4. \/ Pending(Tail(u), "archive", i)
        \/ rows'[a][i].status = "archived" /\ OpsIn(Tail(u), Ops \ FinalOps)
    BY <1>1, <1>2, <1>8, <2>1, <2>2, <2>3 DEF FinalOps
  <2>5. \/ Pending(Tail(u), "unindex", i)
        \/ vec'[i] # a /\ OpsIn(Tail(u), Ops \ FinalOps)
    BY <1>1, <1>2, <1>3, <1>8, <2>1, <2>2, <2>3 DEF FinalOps
  <2> QED BY <2>4, <2>5
<1> QED BY <1>7, <1>9, <1>10 DEF Effect

\* The agents that do not write: only their vectors can be taken away, and only
\* by an agent that has a point with the id.
LEMMA OtherEffect ==
    ASSUME Types, NEW a \in Agents, Write(a), Ordered(a), NEW b \in Agents \ {a}, Effect(b)
    PROVE  Effect(b)'
<1> DEFINE w == Head(plan[a])
<1>0. w = Head(plan[a])
  OBVIOUS
<1> HIDE DEF w
<1>1. /\ plan[a] \in Seq(Writes) /\ plan[a] # <<>> /\ w \in Writes
      /\ plan'[b] = plan[b] /\ rows'[b] = rows[b] /\ draft' = draft
      /\ \A i \in Ids : w.op = "row" /\ w.id = i => rows'[a][i].status = "active"
      /\ \A i \in Ids : w.op = "archive" /\ w.id = i => rows'[a][i].status = "archived"
      /\ \A i \in Ids : ~(w.op \in {"row", "archive"} /\ w.id = i) => rows'[a][i] = rows[a][i]
      /\ \A c \in Agents \ {a} : rows'[c] = rows[c]
      /\ \A i \in Ids : w.op = "vecInsert" /\ w.id = i => vec[i] = Unnamed /\ vec'[i] = a
      /\ \A i \in Ids : w.op = "vecDelete" /\ w.id = i => vec'[i] = Unnamed
      /\ \A i \in Ids : w.op = "unindex" /\ w.id = i =>
            (vec[i] = a \/ vec'[i] = vec[i]) /\ vec'[i] \in {vec[i], Unnamed}
      /\ \A i \in Ids : ~(w.op \in {"vecDelete", "vecInsert", "unindex"} /\ w.id = i)
                 => vec'[i] = vec[i]
  BY <1>0, WriteTables
<1>2. w.op \in VecOps => w.id \in Active(a)
  BY <1>0, <1>1, FirstWrite
<1>3. b # Unnamed /\ a # b /\ draft[b] \in Drafts
  BY LearningAssumption DEF Types
<1> HIDE DEF Types
<1>4. ArchivedIds(b)' = ArchivedIds(b) /\ ArchivedIds(b) \subseteq Ids
  <2>1. \A f \in Values(draft[b].archived) : f \in Archivals
    <3>1. draft[b].archived \in Seq(Archivals)
      BY <1>3 DEF Drafts
    <3> QED BY <3>1, ElementOfSeq DEF Values
  <2> QED BY <1>1, <2>1 DEF ArchivedIds, Archivals
<1>5. Active(b)' = Active(b) /\ Known(b)' = Known(b)
  BY <1>1 DEF Active, Known
<1>6. Ordered(b)'
  BY <1>1, <1>4, <1>5 DEF Effect, Ordered
<1>7. ASSUME NEW i \in Ids, Contested(b, i) PROVE Contested(b, i)'
  <2>1. PICK c \in Agents \ {b} : rows[c][i].status # "none"
    BY <1>7 DEF Contested
  <2>2. rows'[c][i].status # "none"
    BY <1>1, <2>1
  <2> QED BY <2>1, <2>2 DEF Contested
<1>8. ASSUME NEW i \in Ids, vec[i] = b PROVE vec'[i] = b \/ Contested(b, i)'
  <2>1. CASE w.op = "vecDelete" /\ w.id = i
    <3>1. rows[a][i].status = "active"
      BY <1>2, <2>1 DEF Active, VecOps
    <3>2. rows'[a][i].status # "none"
      BY <1>1, <2>1, <3>1
    <3> QED BY <1>3, <3>2 DEF Contested
  <2> QED BY <1>1, <1>3, <1>8, <2>1
<1>9. ASSUME NEW i \in Ids, vec[i] # b PROVE vec'[i] # b
  BY <1>1, <1>3, <1>9
<1>10. FinalsTakeEffect(b)'
  <2> SUFFICES ASSUME NEW f \in Values(draft[b].finals), f.id \notin ArchivedIds(b)
               PROVE  /\ Pending(plan[b], "row", f.id) \/ rows[b][f.id].status = "active"
                      /\ f.embedded => \/ Pending(plan[b], "vecInsert", f.id)
                                       \/ vec'[f.id] = b
                                       \/ Contested(b, f.id)'
      BY <1>1, <1>4 DEF FinalsTakeEffect
  <2>1. f \in Finals /\ f.id \in Ids
    <3>1. draft[b].finals \in Seq(Finals)
      BY <1>3 DEF Drafts
    <3>2. f \in Finals
      BY <3>1, ElementOfSeq DEF Values
    <3> QED BY <3>2 DEF Finals
  <2>2. /\ Pending(plan[b], "row", f.id) \/ rows[b][f.id].status = "active"
        /\ f.embedded => \/ Pending(plan[b], "vecInsert", f.id)
                         \/ vec[f.id] = b
                         \/ Contested(b, f.id)
    BY DEF Effect, FinalsTakeEffect
  <2> QED BY <1>7, <1>8, <2>1, <2>2
<1>11. ArchivalsTakeEffect(b)'
  <2> SUFFICES ASSUME NEW i \in ArchivedIds(b)
               PROVE  /\ \/ Pending(plan[b], "archive", i)
                         \/ rows[b][i].status = "archived" /\ OpsIn(plan[b], Ops \ FinalOps)
                      /\ \/ Pending(plan[b], "unindex", i)
                         \/ vec'[i] # b /\ OpsIn(plan[b], Ops \ FinalOps)
      BY <1>1, <1>4 DEF ArchivalsTakeEffect
  <2> QED BY <1>4, <1>9 DEF Effect, ArchivalsTakeEffect
<1> QED BY <1>6, <1>10, <1>11 DEF Effect

\* A write keeps what holds of the tables whatever the runs have still to do.
LEMMA WriteTablesKept ==
    ASSUME Types, NEW a \in Agents, Write(a), Ordered(a),
           IndexedHasRow, RelatedJoinsPoints, UnindexIsNext
    PROVE  IndexedHasRow' /\ RelatedJoinsPoints' /\ UnindexIsNext'
<1> DEFINE w == Head(plan[a])  t == Tail(plan[a])
<1>0. w = Head(plan[a])
  OBVIOUS
<1> HIDE DEF w
<1>1. /\ plan[a] \in Seq(Writes) /\ plan[a] # <<>> /\ w \in Writes
      /\ plan'[a] = Tail(plan[a]) /\ \A b \in Agents \ {a} : plan'[b] = plan[b]
      /\ \A b \in Agents \ {a} : rows'[b] = rows[b] /\ edges'[b] = edges[b]
      /\ \A i \in Ids : w.op = "row" /\ w.id = i => rows'[a][i].status = "active"
      /\ \A i \in Ids : w.op = "archive" /\ w.id = i => rows'[a][i].status = "archived"
      /\ \A i \in Ids : ~(w.op \in {"row", "archive"} /\ w.id = i) => rows'[a][i] = rows[a][i]
      /\ w.op # "edges" => edges'[a] = edges[a]
      /\ failures' = failures
  BY <1>0, WriteTables
<1>9. w.op = "edges" => edges'[a] = edges[a] \cup w.edges
  BY <1>0, WriteTables, Zenon
<1>8. /\ \A i \in Ids : w.op = "vecInsert" /\ w.id = i => vec[i] = Unnamed /\ vec'[i] = a
      /\ \A i \in Ids : w.op = "vecDelete" /\ w.id = i => vec'[i] = Unnamed
      /\ \A i \in Ids : w.op = "unindex" /\ w.id = i =>
            vec'[i] # a /\ (vec[i] = a \/ vec'[i] = vec[i]) /\ vec'[i] \in {vec[i], Unnamed}
      /\ \A i \in Ids : ~(w.op \in {"vecDelete", "vecInsert", "unindex"} /\ w.id = i)
                 => vec'[i] = vec[i]
  BY <1>0, WriteTables
<1>2. /\ w.op \in VecOps => w.id \in Active(a)
      /\ w.op = "archive" => t # <<>> /\ Head(t) = Unindex(w.id)
      /\ w.op = "edges" => \A e \in w.edges : e[3] = "related" => e[1] \in Known(a) /\ e[2] \in Known(a)
  BY <1>0, <1>1, FirstWrite
<1>3. Unnamed \notin Agents /\ edges \in [Agents -> SUBSET EdgeTriples]
  BY LearningAssumption DEF Types
<1> HIDE DEF Types
<1>4. ASSUME NEW b \in Agents, NEW i \in Ids, rows[b][i].status # "none"
      PROVE  rows'[b][i].status # "none"
  BY <1>1, <1>4
<1>5. IndexedHasRow'
  <2> SUFFICES ASSUME NEW i \in Ids, vec'[i] \in Agents PROVE rows'[vec'[i]][i].status # "none"
      BY DEF IndexedHasRow
  <2>1. CASE w.op = "vecInsert" /\ w.id = i
    <3>1. vec'[i] = a /\ rows[a][i].status = "active"
      BY <1>1, <1>8, <1>2, <2>1 DEF Active, VecOps
    <3> QED BY <1>4, <3>1
  <2>2. CASE ~(w.op = "vecInsert" /\ w.id = i)
    <3>1. vec'[i] = vec[i]
      BY <1>1, <1>8, <1>3, <2>2
    <3>2. rows[vec[i]][i].status # "none"
      BY <3>1 DEF IndexedHasRow
    <3> QED BY <1>4, <3>1, <3>2
  <2> QED BY <2>1, <2>2
<1>6. RelatedJoinsPoints'
  <2> SUFFICES ASSUME NEW b \in Agents, NEW e \in edges'[b], e[3] = "related"
               PROVE  rows'[b][e[1]].status # "none" /\ rows'[b][e[2]].status # "none"
      BY DEF RelatedJoinsPoints
  <2>1. CASE e \in edges[b]
    <3>1. rows[b][e[1]].status # "none" /\ rows[b][e[2]].status # "none"
      BY <2>1 DEF RelatedJoinsPoints
    <3>2. e[1] \in Ids /\ e[2] \in Ids
      BY <1>3, <2>1 DEF EdgeTriples
    <3> QED BY <1>4, <3>1, <3>2
  <2>2. CASE e \notin edges[b]
    <3>1. b = a /\ w.op = "edges" /\ e \in w.edges
      BY <1>1, <1>9, <2>2
    <3>2. e[1] \in Known(a) /\ e[2] \in Known(a)
      BY <1>2, <3>1
    <3> QED BY <1>4, <3>1, <3>2 DEF Known
  <2> QED BY <2>1, <2>2
<1>7. UnindexIsNext'
  <2> SUFFICES ASSUME failures = 0, NEW b \in Agents, NEW i \in Ids,
                      rows'[b][i].status = "archived", vec'[i] = b
               PROVE  plan'[b] # <<>> /\ Head(plan'[b]) = Unindex(i)
      BY <1>1 DEF UnindexIsNext
  <2>1. CASE b # a
    <3>1. rows[b][i].status = "archived" /\ vec[i] = b /\ plan'[b] = plan[b]
      BY <1>1, <1>8, <1>3, <2>1
    <3> QED BY <3>1 DEF UnindexIsNext
  <2>2. CASE b = a
    <3>1. CASE w.op = "archive" /\ w.id = i
      BY <1>1, <1>8, <1>2, <2>2, <3>1
    <3>2. CASE ~(w.op = "archive" /\ w.id = i)
      <4>1. rows[a][i].status = "archived" /\ ~(w.op = "row" /\ w.id = i)
        BY <1>1, <2>2, <3>2
      <4>2. ~(w.op = "vecInsert" /\ w.id = i)
        BY <1>2, <4>1 DEF VecOps, Active
      <4>3. vec[i] = a /\ ~(w.op = "unindex" /\ w.id = i)
        BY <1>1, <1>8, <1>3, <2>2, <4>2
      <4>4. w = Unindex(i)
        BY <1>0, <4>1, <4>3 DEF UnindexIsNext
      <4> QED BY <4>3, <4>4 DEF Unindex
    <3> QED BY <3>1, <3>2
  <2> QED BY <2>1, <2>2
<1> QED BY <1>5, <1>6, <1>7

-----------------------------------------------------------------------------
(***************************************************************************)
(* The other steps                                                         *)
(***************************************************************************)

\* Every ordering of a set of pairs of ids is a sequence of them.
LEMMA OrderingIsSeq ==
    ASSUME NEW P \in SUBSET (Ids \X Ids), NEW C \in Orderings(P)
    PROVE  C \in Seq(Ids \X Ids)
<1>1. IsFiniteSet(Ids)
  <2>1. IsFiniteSet(Topics)
    BY LearningAssumption
  <2> QED BY <2>1, FS_AddElement DEF Ids
<1>2. IsFiniteSet(Ids \X Ids)
  BY <1>1, FS_Product
<1>3. Cardinality(P) \in Nat
  BY <1>2, FS_Subset, FS_CardinalityType
<1>4. C \in [1..Cardinality(P) -> P]
  BY DEF Orderings
<1>5. C \in [1..Cardinality(P) -> Ids \X Ids]
  BY <1>4
<1> DEFINE n == Cardinality(P)  Q == Ids \X Ids
<1> HIDE DEF n, Q
<1>6. C \in Seq(Q)
  BY <1>3, <1>5 DEF n, Q
<1> QED BY <1>6 DEF Q

\* The draft grows by what the unit adds, and the rest stays.
LEMMA DraftedTypes ==
    ASSUME Types, NEW a \in Agents, NEW c \in DOMAIN hist[a],
           NEW F \in Seq(Finals), NEW A \in Seq(Archivals), NEW C \in Seq(Ids \X Ids),
           Drafted(a, c, F, A, C)
    PROVE  Types'
<1>1. /\ stage[a] = "adjudicating"
      /\ UNCHANGED <<tables, stage, plan, bounds>>
  BY DEF Drafted
<1>2. draft' \in [Agents -> Drafts] /\ \A b \in Agents \ {a} : draft'[b] = draft[b]
  <2> DEFINE d == [finals |-> draft[a].finals \o F, archived |-> draft[a].archived \o A,
                   contras |-> draft[a].contras \o C]
  <2>1. draft' = [draft EXCEPT ![a] = d]
    BY DEF Drafted
  <2>2. draft[a] \in Drafts
    BY DEF Types
  <2>3. d \in Drafts
    <3>1. draft[a].finals \in Seq(Finals) /\ draft[a].archived \in Seq(Archivals)
          /\ draft[a].contras \in Seq(Ids \X Ids)
      BY <2>2 DEF Drafts
    <3>2. /\ draft[a].finals \o F \in Seq(Finals)
          /\ draft[a].archived \o A \in Seq(Archivals)
          /\ draft[a].contras \o C \in Seq(Ids \X Ids)
      BY <3>1, ConcatProperties
    <3> QED BY <3>2 DEF Drafts
  <2> HIDE DEF d
  <2> QED BY <2>1, <2>3 DEF Types
<1>3. hist' \in [Agents -> Units]
  <2> DEFINE h == [t \in DOMAIN hist[a] \ {c} |-> hist[a][t]]
  <2>1. hist' = [hist EXCEPT ![a] = h]
    BY DEF Drafted
  <2>2. hist[a] \in Units
    BY DEF Types
  <2>3. PICK S \in SUBSET Topics : hist[a] \in [S -> SUBSET Ids]
    BY <2>2 DEF Units
  <2>4. h \in [S \ {c} -> SUBSET Ids] /\ S \ {c} \in SUBSET Topics
    BY <2>3
  <2>5. h \in Units
    BY <2>4 DEF Units
  <2> HIDE DEF h
  <2> QED BY <2>1, <2>5 DEF Types
<1> QED BY <1>1, <1>2, <1>3 DEF Types, tables, bounds

\* A unit has a topic, and resembles points with ids.
LEMMA UnitTypes ==
    ASSUME Types, NEW a \in Agents, NEW c \in DOMAIN hist[a]
    PROVE  c \in Topics /\ c \in Ids /\ hist[a][c] \in SUBSET Ids
<1>1. hist[a] \in Units
  BY DEF Types
<1>2. PICK S \in SUBSET Topics : hist[a] \in [S -> SUBSET Ids]
  BY <1>1 DEF Units
<1> QED BY <1>2 DEF Ids

\* Whatever the LLM answers, the draft is a draft.
LEMMA AdjudicateTypes ==
    ASSUME Types, NEW a \in Agents, Adjudicate(a)
    PROVE  Types' /\ stage[a] = "adjudicating" /\ UNCHANGED <<tables, stage, plan, bounds>>
           /\ \A b \in Agents \ {a} : draft'[b] = draft[b]
<1>1. PICK c \in DOMAIN hist[a] :
        \/ Isolate(a, c)
        \/ Void(a, c)
        \/ \E P \in Sides(a, c) : \E C \in Orderings(P), e \in BOOLEAN, target \in Ids :
            \/ Merge(a, c, target, e, C)
            \/ Ignore(a, c, C)
            \/ \E name \in Topics, key \in {"name", "topic"} :
                \/ \E U \in {<<>>, <<target>>} : Keep(a, c, name, key, U, e, C)
                \/ Archive(a, c, target, name, key, e, C)
  BY DEF Adjudicate
<1>2. c \in Ids /\ hist[a][c] \in SUBSET Ids
  BY UnitTypes
<1>3. \A i \in Ids : rows[a][i].seen \in Nat
  BY DEF Types, Rows
<1>4. \A i \in Ids, e \in BOOLEAN : Created(i, e) \in Finals /\ Updated(a, c, i, e) \in Finals
  BY <1>3 DEF Created, Updated, Finals
<1>5. \A P \in Sides(a, c) : \A C \in Orderings(P) : C \in Seq(Ids \X Ids)
  <2>1. \A P \in Sides(a, c) : P \in SUBSET (Ids \X Ids)
    BY <1>2 DEF Sides
  <2> QED BY <2>1, OrderingIsSeq
<1>6. \E F \in Seq(Finals), A \in Seq(Archivals), C \in Seq(Ids \X Ids) : Drafted(a, c, F, A, C)
  <2>0. /\ \A i \in Ids, e \in BOOLEAN : <<Created(i, e)>> \in Seq(Finals)
        /\ \A i \in Ids, e \in BOOLEAN : <<Updated(a, c, i, e)>> \in Seq(Finals)
        /\ <<>> \in Seq(Finals) /\ <<>> \in Seq(Archivals) /\ <<>> \in Seq(Ids \X Ids)
    BY <1>4
  <2>1. CASE Isolate(a, c)
    BY <1>2, <2>0, <2>1 DEF Isolate
  <2>2. CASE Void(a, c)
    BY <1>2, <2>0, <2>2 DEF Void
  <2>3. ASSUME NEW P \in Sides(a, c), NEW C \in Orderings(P), NEW e \in BOOLEAN, NEW target \in Ids,
               Merge(a, c, target, e, C)
        PROVE  \E F \in Seq(Finals), A \in Seq(Archivals), D \in Seq(Ids \X Ids) : Drafted(a, c, F, A, D)
    <3>1. Drafted(a, c, <<Updated(a, c, target, e)>>, <<>>, C) /\ C \in Seq(Ids \X Ids)
      BY <1>5, <2>3 DEF Merge
    <3> QED BY <2>0, <3>1
  <2>4. ASSUME NEW P \in Sides(a, c), NEW C \in Orderings(P), Ignore(a, c, C)
        PROVE  \E F \in Seq(Finals), A \in Seq(Archivals), D \in Seq(Ids \X Ids) : Drafted(a, c, F, A, D)
    <3>1. Drafted(a, c, <<>>, <<>>, C) /\ C \in Seq(Ids \X Ids)
      BY <1>5, <2>4 DEF Ignore
    <3> QED BY <2>0, <3>1
  <2>5. ASSUME NEW P \in Sides(a, c), NEW C \in Orderings(P), NEW e \in BOOLEAN, NEW target \in Ids,
               NEW name \in Topics, NEW key, NEW U \in {<<>>, <<target>>},
               Keep(a, c, name, key, U, e, C)
        PROVE  \E F \in Seq(Finals), A \in Seq(Archivals), D \in Seq(Ids \X Ids) : Drafted(a, c, F, A, D)
    <3> DEFINE V == [i \in 1..Len(U) |-> Updated(a, c, U[i], e)]
               W == <<Created(Parsed(key, name), e)>>
    <3>1. Drafted(a, c, W \o V, <<>>, C) /\ C \in Seq(Ids \X Ids)
      BY <1>5, <2>5 DEF Keep
    <3>2. W \in Seq(Finals)
      <4>1. Parsed(key, name) \in Ids
        BY DEF Parsed, Ids
      <4> QED BY <2>0, <4>1
    <3>3. V \in Seq(Finals)
      <4>1. U \in Seq(Ids)
        <5>1. <<>> \in Seq(Ids) /\ <<target>> \in Seq(Ids)
          OBVIOUS
        <5>2. U = <<>> \/ U = <<target>>
          BY Zenon
        <5> QED BY <5>1, <5>2, Zenon
      <4>2. Len(U) \in Nat /\ \A i \in 1..Len(U) : U[i] \in Ids
        BY <4>1, ElementOfSeq
      <4>3. \A i \in 1..Len(U) : Updated(a, c, U[i], e) \in Finals
        BY <1>4, <4>2
      <4> QED BY <4>2, <4>3
    <3> HIDE DEF V, W
    <3>4. W \o V \in Seq(Finals)
      BY <3>2, <3>3, ConcatProperties
    <3> QED BY <2>0, <3>1, <3>4
  <2>6. ASSUME NEW P \in Sides(a, c), NEW C \in Orderings(P), NEW e \in BOOLEAN, NEW target \in Ids,
               NEW name \in Topics, NEW key, Archive(a, c, target, name, key, e, C)
        PROVE  \E F \in Seq(Finals), A \in Seq(Archivals), D \in Seq(Ids \X Ids) : Drafted(a, c, F, A, D)
    <3> DEFINE r == [id |-> target, seen |-> rows[a][target].seen]
               A == IF target \in hist[a][c] THEN <<r>> ELSE <<>>
               W == <<Created(Parsed(key, name), e)>>
    <3>1. Drafted(a, c, W, A, C) /\ C \in Seq(Ids \X Ids)
      BY <1>5, <2>6 DEF Archive
    <3>2. W \in Seq(Finals)
      <4>1. Parsed(key, name) \in Ids
        BY DEF Parsed, Ids
      <4> QED BY <2>0, <4>1
    <3>3. A \in Seq(Archivals)
      <4>1. r \in Archivals
        BY <1>3 DEF Archivals
      <4> HIDE DEF r
      <4> QED BY <4>1
    <3> HIDE DEF A, W
    <3> QED BY <3>1, <3>2, <3>3
  <2> QED BY <1>1, <2>1, <2>2, <2>3, <2>4, <2>5, <2>6
<1>7. PICK F \in Seq(Finals), A \in Seq(Archivals), C \in Seq(Ids \X Ids) : Drafted(a, c, F, A, C)
  BY <1>6
<1>8. Types'
  BY <1>7, DraftedTypes
<1>9. stage[a] = "adjudicating" /\ UNCHANGED <<tables, stage, plan, bounds>>
      /\ \A b \in Agents \ {a} : draft'[b] = draft[b]
  <2>1. draft \in [Agents -> Drafts]
    BY DEF Types
  <2> QED BY <1>7, <2>1 DEF Drafted
<1> QED BY <1>8, <1>9

\* Nothing stored, nothing to do.
LEMMA InitIInv == Init => IInv
<1> SUFFICES ASSUME Init PROVE IInv
    OBVIOUS
<1> USE DEF Init
<1>1. <<>> \in Units
  <2>1. <<>> \in [1..0 -> SUBSET Ids] /\ 1..0 = {}
    OBVIOUS
  <2>2. {} \in SUBSET Topics
    OBVIOUS
  <2> QED BY <2>1, <2>2, Zenon DEF Units
<1>2. NoDraft \in Drafts
  BY DEF NoDraft, Drafts
<1>3. NoRow \in Rows
  BY DEF NoRow, Rows
<1>4. Types
  <2>1. /\ rows \in [Agents -> [Ids -> Rows]]
        /\ vec \in [Ids -> Agents \cup {Unnamed}]
        /\ edges \in [Agents -> SUBSET EdgeTriples]
        /\ stage \in [Agents -> {"idle", "adjudicating", "persisting"}]
        /\ hist \in [Agents -> Units]
        /\ draft \in [Agents -> Drafts]
    BY <1>1, <1>2, <1>3
  <2>2. contras \in [Agents -> {<<>>} \cup (Ids \X Ids)]
    BY Zenon
  <2>3. plan \in [Agents -> Seq(Writes)]
    OBVIOUS
  <2>4. runs \in 0..MaxRuns /\ failures \in 0..MaxFailures
    BY LearningAssumption
  <2>5. /\ \A a \in Agents : stage[a] = "idle" => draft[a] = NoDraft
        /\ \A a \in Agents : stage[a] # "persisting" => plan[a] = <<>>
    OBVIOUS
  <2> QED BY <2>1, <2>2, <2>3, <2>4, <2>5 DEF Types
<1>5. IndexedHasRow
  BY LearningAssumption DEF IndexedHasRow
<1>6. RelatedJoinsPoints
  BY DEF RelatedJoinsPoints
<1>7. UnindexIsNext
  BY LearningAssumption DEF UnindexIsNext
<1>8. \A a \in Agents : stage[a] # "persisting"
  OBVIOUS
<1> QED BY <1>4, <1>5, <1>6, <1>7, <1>8 DEF IInv

\* A step that leaves the tables alone and gives nobody a plan to write keeps what
\* holds of the tables, and what a run that goes on still brings about.
LEMMA TablesAlone ==
    ASSUME IInv, Types', UNCHANGED tables,
           \A b \in Agents : stage'[b] = "persisting" =>
               stage[b] = "persisting" /\ plan'[b] = plan[b] /\ draft'[b] = draft[b],
           failures' = 0 => failures = 0 /\ \A b \in Agents : plan'[b] = plan[b] \/
               plan[b] = <<>> \/ Head(plan[b]).op # "unindex"
    PROVE  IInv'
<1>1. UNCHANGED <<rows, vec, contras, edges>>
  BY DEF tables
<1>2. IndexedHasRow' /\ RelatedJoinsPoints'
  BY <1>1 DEF IInv, IndexedHasRow, RelatedJoinsPoints
<1>3. UnindexIsNext'
  <2> SUFFICES ASSUME failures' = 0, NEW a \in Agents, NEW i \in Ids,
                      rows[a][i].status = "archived", vec[i] = a
               PROVE  plan'[a] # <<>> /\ Head(plan'[a]) = Unindex(i)
      BY <1>1 DEF UnindexIsNext
  <2>1. plan[a] # <<>> /\ Head(plan[a]) = Unindex(i)
    BY DEF IInv, UnindexIsNext
  <2>2. Head(plan[a]).op = "unindex"
    BY <2>1 DEF Unindex
  <2>3. plan'[a] = plan[a]
    BY <2>1, <2>2
  <2> QED BY <2>1, <2>3
<1>4. ASSUME NEW b \in Agents, stage'[b] = "persisting" PROVE Effect(b)'
  <2>1. Effect(b) /\ plan'[b] = plan[b] /\ draft'[b] = draft[b]
    BY <1>4 DEF IInv
  <2>2. /\ ArchivedIds(b)' = ArchivedIds(b) /\ Active(b)' = Active(b) /\ Known(b)' = Known(b)
        /\ \A i : Contested(b, i)' = Contested(b, i)
    BY <1>1, <2>1 DEF ArchivedIds, Active, Known, Contested
  <2>3. Ordered(b)'
    BY <2>1, <2>2 DEF Effect, Ordered
  <2>4. FinalsTakeEffect(b)'
    BY <1>1, <2>1, <2>2 DEF Effect, FinalsTakeEffect
  <2>5. ArchivalsTakeEffect(b)'
    BY <1>1, <2>1, <2>2 DEF Effect, ArchivalsTakeEffect
  <2> QED BY <2>3, <2>4, <2>5 DEF Effect
<1> QED BY <1>2, <1>3, <1>4 DEF IInv

\* The plan a run begins with takes effect.
LEMMA BeginPersistEffect ==
    ASSUME Types, NEW a \in Agents, NEW R \in SUBSET Pairs(draft[a]), BeginPersist(a, R)
    PROVE  Effect(a)' /\ plan'[a] \in Seq(Writes)
<1> DEFINE d == draft[a]  p == PersistPlan(d, R)
<1>1. d \in Drafts /\ plan'[a] = p /\ UNCHANGED <<rows, vec, draft>>
  BY DEF Types, BeginPersist, tables
<1>2. /\ p \in Seq(Writes) /\ Sound(p, {}) /\ Rooted(p, {})
      /\ \A k \in 1..Len(p) : p[k].op \in ArchiveOps =>
             \E f \in Values(d.archived) : p[k].id = f.id
      /\ \A f \in Values(d.finals) :
             Pending(p, "row", f.id) /\ (f.embedded => Pending(p, "vecInsert", f.id))
      /\ \A f \in Values(d.archived) :
             Pending(p, "archive", f.id) /\ Pending(p, "unindex", f.id)
  BY <1>1, PlanShape
<1> HIDE DEF p
<1>3. ArchivedIds(a)' = {f.id : f \in Values(d.archived)}
  BY <1>1 DEF ArchivedIds
<1>4. Sound(p, Active(a)') /\ Rooted(p, Known(a)')
  BY <1>2 DEF Sound, Rooted
<1>5. Ordered(a)'
  BY <1>1, <1>2, <1>3, <1>4 DEF Ordered
<1>6. FinalsTakeEffect(a)'
  BY <1>1, <1>2 DEF FinalsTakeEffect
<1>7. ArchivalsTakeEffect(a)'
  BY <1>1, <1>2, <1>3 DEF ArchivalsTakeEffect
<1> QED BY <1>1, <1>2, <1>5, <1>6, <1>7 DEF Effect

\* A run that is over leaves no draft and no plan.
LEMMA EndRunTypes ==
    ASSUME Types, NEW a \in Agents, EndRun(a), failures' \in 0..MaxFailures
    PROVE  /\ Types' /\ UNCHANGED tables /\ stage'[a] = "idle"
           /\ \A b \in Agents \ {a} : plan'[b] = plan[b] /\ draft'[b] = draft[b] /\ stage'[b] = stage[b]
<1>1. /\ stage' = [stage EXCEPT ![a] = "idle"] /\ hist' = [hist EXCEPT ![a] = <<>>]
      /\ draft' = [draft EXCEPT ![a] = NoDraft] /\ plan' = [plan EXCEPT ![a] = <<>>]
      /\ UNCHANGED <<rows, vec, contras, edges, runs>>
  BY DEF EndRun, tables
<1>2. NoDraft \in Drafts /\ <<>> \in Seq(Writes)
  BY DEF NoDraft, Drafts
<1>3. <<>> \in Units
  <2>1. <<>> \in [1..0 -> SUBSET Ids] /\ 1..0 = {} /\ {} \in SUBSET Topics
    OBVIOUS
  <2> QED BY <2>1, Zenon DEF Units
<1>4. /\ stage' \in [Agents -> {"idle", "adjudicating", "persisting"}]
      /\ hist' \in [Agents -> Units] /\ draft' \in [Agents -> Drafts]
      /\ plan' \in [Agents -> Seq(Writes)]
  BY <1>1, <1>2, <1>3 DEF Types
<1>5. \A b \in Agents \ {a} : plan'[b] = plan[b] /\ draft'[b] = draft[b] /\ stage'[b] = stage[b]
  BY <1>1 DEF Types
<1>6. stage'[a] = "idle" /\ draft'[a] = NoDraft /\ plan'[a] = <<>>
  BY <1>1 DEF Types
<1>7. Types'
  BY <1>1, <1>4, <1>5, <1>6 DEF Types
<1> QED BY <1>1, <1>5, <1>6, <1>7 DEF tables

\* Every step keeps the invariant.
LEMMA StepIInv == IInv /\ [Next]_vars => IInv'
<1> SUFFICES ASSUME IInv, [Next]_vars PROVE IInv'
    OBVIOUS
<1>1. Types
  BY DEF IInv
<1>2. ASSUME NEW a \in Agents, NEW S \in SUBSET Topics, NEW H \in [S -> SUBSET Indexed(a)], Begin(a, S, H)
      PROVE  IInv'
  <2>1. /\ stage[a] = "idle" /\ runs < MaxRuns
        /\ stage' = [stage EXCEPT ![a] = "adjudicating"] /\ hist' = [hist EXCEPT ![a] = H]
        /\ runs' = runs + 1 /\ UNCHANGED <<tables, draft, plan, failures>>
    BY <1>2 DEF Begin
  <2>2. H \in [S -> SUBSET Ids]
    BY DEF Indexed
  <2>3. H \in Units
    BY <2>2 DEF Units
  <2>4. runs' \in 0..MaxRuns
    BY <1>1, <2>1, LearningAssumption DEF Types
  <2>5. Types'
    BY <1>1, <2>1, <2>3, <2>4 DEF Types, tables
  <2>6. \A b \in Agents : stage'[b] = "persisting" => stage[b] = "persisting"
    BY <1>1, <2>1 DEF Types
  <2> QED BY <2>1, <2>5, <2>6, TablesAlone
<1>3. ASSUME NEW a \in Agents, Adjudicate(a) PROVE IInv'
  <2>1. Types' /\ stage[a] = "adjudicating" /\ UNCHANGED <<tables, stage, plan, bounds>>
        /\ \A b \in Agents \ {a} : draft'[b] = draft[b]
    BY <1>1, <1>3, AdjudicateTypes
  <2> QED BY <2>1, TablesAlone DEF bounds
<1>4. ASSUME NEW a \in Agents, NEW R \in SUBSET Pairs(draft[a]), BeginPersist(a, R) PROVE IInv'
  <2>1. /\ stage[a] = "adjudicating" /\ stage' = [stage EXCEPT ![a] = "persisting"]
        /\ plan' = [plan EXCEPT ![a] = PersistPlan(draft[a], R)]
        /\ UNCHANGED <<rows, vec, contras, edges, hist, draft, runs, failures>>
    BY <1>4 DEF BeginPersist, tables, bounds
  <2>2. Effect(a)' /\ plan'[a] \in Seq(Writes)
    BY <1>1, <1>4, BeginPersistEffect
  <2>3. \A b \in Agents \ {a} : plan'[b] = plan[b] /\ stage'[b] = stage[b]
    BY <1>1, <2>1 DEF Types
  <2>4. plan' \in [Agents -> Seq(Writes)] /\ stage' \in [Agents -> {"idle", "adjudicating", "persisting"}]
        /\ stage'[a] = "persisting"
    BY <1>1, <2>1, <2>2 DEF Types
  <2>5. Types'
    BY <1>1, <2>1, <2>3, <2>4 DEF Types
  <2>6. ASSUME NEW b \in Agents \ {a}, stage[b] = "persisting" PROVE Effect(b)'
    <3>1. Effect(b) /\ plan'[b] = plan[b]
      BY <2>3, <2>6 DEF IInv
    <3>2. /\ ArchivedIds(b)' = ArchivedIds(b) /\ Active(b)' = Active(b) /\ Known(b)' = Known(b)
          /\ \A i : Contested(b, i)' = Contested(b, i)
      BY <2>1 DEF ArchivedIds, Active, Known, Contested
    <3>3. Ordered(b)'
      BY <3>1, <3>2 DEF Effect, Ordered
    <3>4. FinalsTakeEffect(b)'
      BY <2>1, <3>1, <3>2 DEF Effect, FinalsTakeEffect
    <3>5. ArchivalsTakeEffect(b)'
      BY <2>1, <3>1, <3>2 DEF Effect, ArchivalsTakeEffect
    <3> QED BY <3>3, <3>4, <3>5 DEF Effect
  <2>7. IndexedHasRow' /\ RelatedJoinsPoints'
    BY <2>1 DEF IInv, IndexedHasRow, RelatedJoinsPoints
  <2>8. UnindexIsNext'
    <3>1. plan[a] = <<>>
      BY <1>1, <2>1 DEF Types
    <3> QED BY <2>1, <2>3, <3>1 DEF IInv, UnindexIsNext
  <2> QED BY <2>2, <2>3, <2>5, <2>6, <2>7, <2>8 DEF IInv
<1>5. ASSUME NEW a \in Agents, Write(a) PROVE IInv'
  <2>1. stage[a] = "persisting"
    BY <1>5 DEF Write
  <2>2. Effect(a) /\ Ordered(a) /\ IndexedHasRow /\ RelatedJoinsPoints /\ UnindexIsNext
    BY <2>1 DEF IInv, Effect
  <2>3. Effect(a)'
    BY <1>1, <1>5, <2>2, WriteEffect
  <2>4. ASSUME NEW b \in Agents \ {a}, stage[b] = "persisting" PROVE Effect(b)'
    <3>1. Effect(b)
      BY <2>4 DEF IInv
    <3> QED BY <1>1, <1>5, <2>2, <3>1, OtherEffect
  <2>5. IndexedHasRow' /\ RelatedJoinsPoints' /\ UnindexIsNext'
    BY <1>1, <1>5, <2>2, WriteTablesKept
  <2>6. /\ rows' \in [Agents -> [Ids -> Rows]]
        /\ vec' \in [Ids -> Agents \cup {Unnamed}]
        /\ contras' \in [Agents -> {<<>>} \cup (Ids \X Ids)]
        /\ edges' \in [Agents -> SUBSET EdgeTriples]
        /\ plan' \in [Agents -> Seq(Writes)]
        /\ \A b \in Agents \ {a} : plan'[b] = plan[b]
        /\ UNCHANGED <<stage, hist, draft, runs, failures>>
    <3> DEFINE w == Head(plan[a])
    <3>1. w = Head(plan[a])
      OBVIOUS
    <3> HIDE DEF w
    <3> QED BY <1>1, <1>5, <3>1, WriteTables
  <2>7. Types'
    BY <1>1, <2>1, <2>6 DEF Types
  <2> QED BY <2>3, <2>4, <2>5, <2>6, <2>7 DEF IInv
<1>6. ASSUME NEW a \in Agents, Persisted(a) PROVE IInv'
  <2>1. stage[a] = "persisting" /\ plan[a] = <<>> /\ EndRun(a) /\ failures' = failures
    BY <1>6 DEF Persisted
  <2>2. failures' \in 0..MaxFailures
    BY <1>1, <2>1 DEF Types
  <2>3. /\ Types' /\ UNCHANGED tables /\ stage'[a] = "idle"
        /\ \A b \in Agents \ {a} : plan'[b] = plan[b] /\ draft'[b] = draft[b] /\ stage'[b] = stage[b]
    BY <1>1, <2>1, <2>2, EndRunTypes
  <2> QED BY <2>1, <2>3, TablesAlone
<1>7. ASSUME NEW a \in Agents, Fail(a) PROVE IInv'
  <2>1. stage[a] = "persisting" /\ EndRun(a) /\ failures < MaxFailures /\ failures' = failures + 1
    BY <1>7 DEF Fail
  <2>2. failures' \in 0..MaxFailures /\ failures' # 0
    BY <1>1, <2>1, LearningAssumption DEF Types
  <2>3. /\ Types' /\ UNCHANGED tables /\ stage'[a] = "idle"
        /\ \A b \in Agents \ {a} : plan'[b] = plan[b] /\ draft'[b] = draft[b] /\ stage'[b] = stage[b]
    BY <1>1, <2>1, <2>2, EndRunTypes
  <2> QED BY <2>2, <2>3, TablesAlone
<1>8. ASSUME NEW a \in Agents, Collide(a) PROVE IInv'
  <2>1. Head(plan[a]).op = "vecInsert" /\ EndRun(a) /\ failures' = failures
    BY <1>8 DEF Collide
  <2>2. failures' \in 0..MaxFailures
    BY <1>1, <2>1 DEF Types
  <2>3. /\ Types' /\ UNCHANGED tables /\ stage'[a] = "idle"
        /\ \A b \in Agents \ {a} : plan'[b] = plan[b] /\ draft'[b] = draft[b] /\ stage'[b] = stage[b]
    BY <1>1, <2>1, <2>2, EndRunTypes
  <2> QED BY <2>1, <2>3, TablesAlone
<1>9. CASE UNCHANGED vars
  <2>1. UNCHANGED <<rows, vec, contras, edges, stage, hist, draft, plan, runs, failures>>
    BY <1>9 DEF vars, tables, bounds
  <2>2. Types'
    BY <1>1, <2>1 DEF Types
  <2> QED BY <2>1, <2>2, TablesAlone DEF tables
<1> QED BY <1>2, <1>3, <1>4, <1>5, <1>6, <1>7, <1>8, <1>9 DEF Next

\* Persistence keeps the invariant, however its runs interleave and break off.
THEOREM Invariance == Spec => []IInv
<1>1. Init => IInv
  BY InitIInv
<1>2. IInv /\ [Next]_vars => IInv'
  BY StepIInv
<1> QED BY <1>1, <1>2, PTL DEF Spec

-----------------------------------------------------------------------------
\* What the tables and the runs hold is of its type, whatever the LLM answers.
THEOREM TypeCorrect == Spec => []TypeOK
<1>1. IInv => TypeOK
  <2> SUFFICES ASSUME IInv PROVE TypeOK
      OBVIOUS
  <2>1. Types
    BY DEF IInv
  <2>2. /\ \A a \in Agents, i \in Ids : rows[a][i] \in Rows
        /\ \A i \in Ids : vec[i] \in Agents \cup {Unnamed}
        /\ \A a \in Agents : edges[a] \subseteq EdgeTriples
        /\ \A a \in Agents : stage[a] \in {"idle", "adjudicating", "persisting"}
        /\ \A a \in Agents : stage[a] = "idle" => plan[a] = <<>> /\ draft[a] = NoDraft
        /\ \A a \in Agents : hist[a] \in Units
        /\ runs \in 0..MaxRuns /\ failures \in 0..MaxFailures
    BY <2>1 DEF Types
  <2>3. \A a \in Agents : contras[a] = <<>> \/ contras[a] \in Ids \X Ids
    <3>1. \A a \in Agents : contras[a] \in {<<>>} \cup (Ids \X Ids)
      BY <2>1 DEF Types
    <3> QED BY <3>1, Zenon
  <2> QED BY <2>2, <2>3 DEF TypeOK, Rows, EdgeTriples, Units
<1> QED BY <1>1, Invariance, PTL

\* Whichever runs break off and whichever agents share topics, a vector in the index
\* belongs to a point its agent has: Upsert of sqlitevec.go comes after the row's.
THEOREM HitsHaveRows == Spec => []IndexedHasRow
<1>1. IInv => IndexedHasRow
  BY DEF IInv
<1> QED BY <1>1, Invariance, PTL

\* A related edge never leads to a point that is not there: AddEdgePairs comes last.
THEOREM RelatedEdgesJoin == Spec => []RelatedJoinsPoints
<1>1. IInv => RelatedJoinsPoints
  BY DEF IInv
<1> QED BY <1>1, Invariance, PTL

\* Without a failed write an archived point is out of the index, or its run is just
\* about to take it out (Persist, the loop over the archived points).
THEOREM ArchivedGone == Spec => []ArchivedNotIndexed
<1>1. IInv => ArchivedNotIndexed
  <2> SUFFICES ASSUME IInv, failures = 0, NEW a \in Agents, NEW i \in Ids,
                      rows[a][i].status = "archived", vec[i] = a
               PROVE  Unindex(i) \in Values(plan[a])
      BY DEF ArchivedNotIndexed
  <2>1. plan[a] # <<>> /\ Head(plan[a]) = Unindex(i) /\ plan[a] \in Seq(Writes)
    BY DEF IInv, UnindexIsNext, Types
  <2>2. Head(plan[a]) = plan[a][1] /\ 1 \in 1..Len(plan[a])
    BY <2>1, TailAt
  <2> QED BY <2>1, <2>2 DEF Values
<1> QED BY <1>1, Invariance, PTL

\* A run of Persist that comes to its end has brought about everything its draft
\* decided, whatever earlier runs left half done and other agents did meanwhile.
THEOREM RunTakesEffect == Spec => []CompletedRunTakesEffect
<1>1. IInv => CompletedRunTakesEffect
  <2> SUFFICES ASSUME IInv, NEW a \in Agents, stage[a] = "persisting", plan[a] = <<>>
               PROVE  /\ \A f \in Values(draft[a].finals) : f.id \notin ArchivedIds(a) =>
                            /\ rows[a][f.id].status = "active"
                            /\ f.embedded => vec[f.id] = a \/ Contested(a, f.id)
                      /\ \A i \in ArchivedIds(a) : rows[a][i].status = "archived" /\ vec[i] # a
      BY DEF CompletedRunTakesEffect, Complete, Contested
  <2>1. FinalsTakeEffect(a) /\ ArchivalsTakeEffect(a)
    BY DEF IInv, Effect
  <2>2. \A op, i : ~Pending(plan[a], op, i)
    BY DEF Pending
  <2> QED BY <2>1, <2>2 DEF FinalsTakeEffect, ArchivalsTakeEffect
<1> QED BY <1>1, Invariance, PTL
=============================================================================
