---------------------------- MODULE DataTheorems ----------------------------
(***************************************************************************)
(* Facts about numbers, finite sets and sequences that the proofs of the   *)
(* components share.                                                       *)
(*                                                                         *)
(* Induction is stated over sets: what would be a predicate P(n) is the    *)
(* set of the numbers that satisfy it. It follows from the well-foundedness *)
(* of < on the naturals, whose statement has no operator as a parameter.   *)
(***************************************************************************)
EXTENDS Integers, Sequences, FiniteSets, Functions, Lists, FiniteSetTheorems,
        SequenceTheorems, TLAPS

\* A nonempty set of naturals has a least element.
LEMMA LeastNatural ==
    ASSUME NEW S, S \subseteq Nat, S # {}
    PROVE  \E m \in S : \A n \in S : m <= n
<1> DEFINE R == OpToRel(<, Nat)
<1>1. IsWellFoundedOn(R, Nat)
  BY NatLessThanWellFounded, Zenon
<1>2. R = {ss \in Nat \X Nat : ss[1] < ss[2]}
  BY Zenon DEF OpToRel
<1> HIDE DEF R
<1>3. PICK m \in S : \A n \in S : ~(<<n, m>> \in R)
  BY <1>1, WFMin
<1>4. ASSUME NEW n \in S PROVE m <= n
  <2>1. ~(<<n, m>> \in R) /\ m \in Nat /\ n \in Nat
    BY <1>3
  <2>2. ~(n < m)
    BY <1>2, <2>1
  <2> QED BY <2>1, <2>2
<1> QED BY <1>4

\* A nonempty set of naturals with a bound has a greatest element.
LEMMA GreatestNatural ==
    ASSUME NEW b \in Nat, NEW S, S \subseteq 0..b, S # {}
    PROVE  \E m \in S : \A n \in S : n <= m
<1> DEFINE T == {n \in 0..b : b - n \in S}
<1>1. PICK x \in S : TRUE
  OBVIOUS
<1>2. b - x \in T /\ T \subseteq Nat
  BY <1>1
<1>3. PICK t \in T : \A u \in T : t <= u
  BY <1>2, LeastNatural
<1>4. ASSUME NEW n \in S PROVE n <= b - t
  <2>1. n \in 0..b /\ b - n \in T
    OBVIOUS
  <2>2. t \in 0..b /\ t <= b - n
    BY <1>3, <2>1
  <2> QED BY <2>1, <2>2
<1> QED BY <1>3, <1>4

\* Induction: a set that has 0 and with every number its successor has them all.
LEMMA NaturalInduction ==
    ASSUME NEW S, 0 \in S, \A n \in Nat : n \in S => n + 1 \in S
    PROVE  Nat \subseteq S
<1> SUFFICES ASSUME ~(Nat \subseteq S) PROVE FALSE
    OBVIOUS
<1>1. PICK m \in Nat \ S : \A n \in Nat \ S : m <= n
  BY LeastNatural, Nat \ S \subseteq Nat, Nat \ S # {}
<1>2. m - 1 \in Nat /\ ~(m <= m - 1)
  OBVIOUS
<1> QED BY <1>1, <1>2

\* A finite set with a strict total order can be listed in that order.
LEMMA SortedList ==
    ASSUME NEW S, IsFiniteSet(S), NEW R,
           \A x \in S : <<x, x>> \notin R,
           \A x, y \in S : x # y => <<x, y>> \in R \/ <<y, x>> \in R,
           \A x, y, z \in S : <<x, y>> \in R /\ <<y, z>> \in R => <<x, z>> \in R
    PROVE  \E s \in [1..Cardinality(S) -> S] :
               \A i, j \in 1..Cardinality(S) : i < j => <<s[i], s[j]>> \in R
<1> DEFINE n == Cardinality(S)
           Below(x) == {y \in S : <<y, x>> \in R}
           rank == [x \in S |-> Cardinality(Below(x)) + 1]
<1>1. n \in Nat
  BY FS_CardinalityType
<1>2. ASSUME NEW x \in S
      PROVE  IsFiniteSet(Below(x)) /\ Cardinality(Below(x)) \in Nat /\ rank[x] \in 1..n
  <2>1. IsFiniteSet(S \ {x}) /\ Cardinality(S \ {x}) = n - 1
    BY FS_RemoveElement
  <2>2. Below(x) \in SUBSET (S \ {x})
    OBVIOUS
  <2>3. IsFiniteSet(Below(x)) /\ Cardinality(Below(x)) <= n - 1
    <3> HIDE DEF Below
    <3> QED BY <2>1, <2>2, FS_Subset
  <2>4. Cardinality(Below(x)) \in Nat
    BY <2>3, FS_CardinalityType
  <2>5. Cardinality(Below(x)) + 1 \in 1..n
    BY <1>1, <2>3, <2>4
  <2> QED BY <2>3, <2>4, <2>5
<1>3. ASSUME NEW x \in S, NEW y \in S, <<x, y>> \in R
      PROVE  rank[x] < rank[y]
  <2>1. Below(x) \in SUBSET Below(y) /\ Below(x) # Below(y)
    BY <1>3
  <2>2. Cardinality(Below(x)) <= Cardinality(Below(y)) /\ Cardinality(Below(x)) # Cardinality(Below(y))
    <3> HIDE DEF Below
    <3> QED BY <1>2, <2>1, FS_Subset
  <2>3. Cardinality(Below(x)) \in Nat /\ Cardinality(Below(y)) \in Nat
    BY <1>2
  <2>4. Cardinality(Below(x)) + 1 < Cardinality(Below(y)) + 1
    BY <2>2, <2>3
  <2> QED BY <2>4
<1>4. rank \in Injection(S, 1..n)
  <2>1. rank \in [S -> 1..n]
    BY <1>2
  <2>2. ASSUME NEW x \in S, NEW y \in S, rank[x] = rank[y] PROVE x = y
    <3>1. rank[x] \in 1..n /\ rank[y] \in 1..n
      BY <1>2
    <3>2. ~(rank[x] < rank[y]) /\ ~(rank[y] < rank[x])
      <4> HIDE DEF rank
      <4> QED BY <1>1, <2>2, <3>1
    <3> HIDE DEF rank
    <3> QED BY <1>3, <3>2
  <2> HIDE DEF rank
  <2> QED BY <2>1, <2>2 DEF Injection, IsInjective
<1>5. rank \in Surjection(S, 1..n)
  <2>1. IsFiniteSet(1..n) /\ Cardinality(1..n) = n
    BY <1>1, FS_Interval
  <2> HIDE DEF rank
  <2> QED BY <1>4, <2>1, FS_Injection
<1> DEFINE s == [i \in 1..n |-> CHOOSE x \in S : rank[x] = i]
<1>6. ASSUME NEW i \in 1..n PROVE s[i] \in S /\ rank[s[i]] = i
  <2> HIDE DEF rank
  <2>1. \E x \in S : rank[x] = i
    BY <1>5 DEF Surjection
  <2> QED BY <2>1
<1> HIDE DEF rank, s
<1>7. ASSUME NEW i \in 1..n, NEW j \in 1..n, i < j PROVE <<s[i], s[j]>> \in R
  <2>1. s[i] # s[j]
    BY <1>6, <1>7
  <2>2. <<s[j], s[i]>> \in R => rank[s[j]] < rank[s[i]]
    BY <1>3, <1>6
  <2> QED BY <1>1, <1>6, <1>7, <2>1, <2>2
<1>8. s \in [1..n -> S]
  BY <1>6 DEF s
<1> QED BY <1>7, <1>8

\* Induction up to a bound.
LEMMA BoundedInduction ==
    ASSUME NEW N \in Nat, NEW S, 0 \in S, \A n \in 1..N : n - 1 \in S => n \in S
    PROVE  0..N \subseteq S
<1> DEFINE D == {m \in Nat : m <= N => m \in S}
<1>1. 0 \in D
  OBVIOUS
<1>2. ASSUME NEW m \in Nat, m \in D PROVE m + 1 \in D
  <2> SUFFICES ASSUME m + 1 <= N PROVE m + 1 \in S
      OBVIOUS
  <2>1. m + 1 \in 1..N /\ (m + 1) - 1 = m /\ m \in S
    BY <1>2
  <2>2. m + 1 \in 1..N => (((m + 1) - 1 \in S) => (m + 1 \in S))
    OBVIOUS
  <2> QED BY <2>1, <2>2
<1>3. Nat \subseteq D
  <2> HIDE DEF D
  <2> QED BY <1>1, <1>2, NaturalInduction
<1> QED BY <1>3

-----------------------------------------------------------------------------
\* f[n] is what the steps F make of a and the first n elements of s.
IsFold(f, A, a, s, F) ==
    /\ f \in [0..Len(s) -> A]
    /\ f[0] = a
    /\ \A n \in 1..Len(s) : f[n] = F[f[n - 1]][s[n]]

\* A recursive function over the elements of a sequence exists.
LEMMA FoldExists ==
    ASSUME NEW A, NEW T, NEW a \in A, NEW s \in Seq(T), NEW F \in [A -> [T -> A]]
    PROVE  \E f : IsFold(f, A, a, s, F)
<1> DEFINE N == Len(s)
           Upto(g, m) == g[0] = a /\ \A n \in 1..m : g[n] = F[g[n - 1]][s[n]]
           D == {m \in 0..N : \E g \in [0..m -> A] : Upto(g, m)}
<1>1. N \in Nat
  OBVIOUS
<1>2. 0 \in D
  <2>1. Upto([n \in 0..0 |-> a], 0) /\ [n \in 0..0 |-> a] \in [0..0 -> A]
    OBVIOUS
  <2> HIDE DEF Upto
  <2> QED BY <1>1, <2>1
<1>3. ASSUME NEW m \in 1..N, m - 1 \in D PROVE m \in D
  <2>1. PICK g \in [0..(m - 1) -> A] : Upto(g, m - 1)
    <3> HIDE DEF Upto
    <3> QED BY <1>3
  <2> DEFINE v == F[g[m - 1]][s[m]]
             h == [n \in 0..m |-> IF n < m THEN g[n] ELSE v]
  <2>2. v \in A
    <3>1. g[m - 1] \in A /\ s[m] \in T
      BY <1>1
    <3> QED BY <3>1
  <2>3. \A n \in 0..(m - 1) : h[n] = g[n]
    OBVIOUS
  <2>4. h[m] = v
    OBVIOUS
  <2>5. h \in [0..m -> A]
    <3> HIDE DEF v
    <3> QED BY <2>2
  <2> HIDE DEF h
  <2>6. ASSUME NEW n \in 1..m PROVE h[n] = F[h[n - 1]][s[n]]
    <3>1. n - 1 \in 0..(m - 1) /\ h[n - 1] = g[n - 1]
      BY <2>3
    <3>2. CASE n = m
      BY <2>4, <3>1, <3>2
    <3>3. CASE n \in 1..(m - 1)
      <4>1. g[n] = F[g[n - 1]][s[n]]
        BY <2>1, <3>3
      <4>2. n \in 0..(m - 1)
        BY <3>3
      <4>3. h[n] = g[n]
        BY <2>3, <4>2, Zenon
      <4> QED BY <3>1, <4>1, <4>3, Zenon
    <3>4. n = m \/ n \in 1..(m - 1)
      OBVIOUS
    <3> QED BY <3>2, <3>3, <3>4
  <2>7. h[0] = a
    <3>1. 0 \in 0..(m - 1) /\ g[0] = a
      BY <2>1
    <3> QED BY <2>3, <3>1
  <2>8. Upto(h, m)
    BY <2>6, <2>7
  <2> HIDE DEF Upto
  <2> QED BY <1>1, <2>5, <2>8
<1>4. N \in D
  <2> HIDE DEF D
  <2>1. 0..N \subseteq D
    BY <1>1, <1>2, <1>3, BoundedInduction
  <2> QED BY <1>1, <2>1
<1> QED BY <1>4 DEF IsFold

\* What holds of the first value of a function and is passed on to the next holds of
\* all its values.
LEMMA PassedOn ==
    ASSUME NEW A, NEW N \in Nat, NEW c, c[0] \in A,
           \A n \in 1..N : c[n - 1] \in A => c[n] \in A
    PROVE  \A n \in 0..N : c[n] \in A
<1> DEFINE D == {n \in 0..N : c[n] \in A}
<1>1. 0 \in D
  OBVIOUS
<1>2. ASSUME NEW n \in 1..N, n - 1 \in D PROVE n \in D
  <2>1. c[n - 1] \in A => c[n] \in A
    OBVIOUS
  <2> QED BY <1>2, <2>1
<1>3. 0..N \subseteq D
  <2> HIDE DEF D
  <2> QED BY <1>1, <1>2, BoundedInduction
<1> QED BY <1>3

-----------------------------------------------------------------------------
\* Flatten is the last of the partial concatenations.
LEMMA FlattenSteps ==
    ASSUME NEW S, NEW ss \in Seq(Seq(S))
    PROVE  \E c \in [0..Len(ss) -> Seq(S)] :
               /\ c[0] = <<>>
               /\ \A n \in 1..Len(ss) : c[n] = c[n - 1] \o ss[n]
               /\ Flatten(ss) = c[Len(ss)]
<1> DEFINE N == Len(ss)
           F == [u \in Seq(S) |-> [v \in Seq(S) |-> u \o v]]
           Eq(g) == g = [n \in 0..N |-> IF n = 0 THEN <<>> ELSE g[n - 1] \o ss[n]]
           c == CHOOSE g : Eq(g)
<1>1. N \in Nat /\ \A n \in 1..N : ss[n] \in Seq(S)
  OBVIOUS
<1>2. F \in [Seq(S) -> [Seq(S) -> Seq(S)]] /\ <<>> \in Seq(S)
  OBVIOUS
<1>3. \A u, v \in Seq(S) : F[u][v] = u \o v
  OBVIOUS
<1> HIDE DEF F
<1>4. \E f : IsFold(f, Seq(S), <<>>, ss, F)
  BY <1>2, FoldExists
<1>4a. PICK f \in [0..N -> Seq(S)] : f[0] = <<>> /\ \A n \in 1..N : f[n] = F[f[n - 1]][ss[n]]
  BY <1>4 DEF IsFold
<1>5. \A n \in 1..N : f[n] = f[n - 1] \o ss[n]
  <2> TAKE n \in 1..N
  <2>1. n - 1 \in 0..N /\ ss[n] \in Seq(S)
    <3>1. n - 1 \in 0..N
      BY <1>1
    <3> QED BY <1>1, <3>1
  <2>2. f[n - 1] \in Seq(S)
    <3> HIDE DEF N
    <3> QED BY <1>4a, <2>1
  <2> QED BY <1>4a, <1>3, <2>1, <2>2
<1>6. \A n \in 0..N : n = 0 \/ n \in 1..N
  BY <1>1
<1>7. Eq(f)
  BY <1>4a, <1>5, <1>6
<1>8. Eq(c)
  <2> HIDE DEF Eq
  <2> QED BY <1>7
<1>9. Flatten(ss) = c[N]
  BY Zenon DEF Flatten
<1> HIDE DEF c
<1>10. c = [n \in 0..N |-> c[n]] /\ c[0] = <<>> /\ \A n \in 1..N : c[n] = c[n - 1] \o ss[n]
  <2>1. DOMAIN c = 0..N /\ \A n \in 0..N : c[n] = IF n = 0 THEN <<>> ELSE c[n - 1] \o ss[n]
    BY <1>8, Zenon
  <2>2. c = [n \in 0..N |-> c[n]]
    BY <1>8, <2>1, Zenon
  <2>3. 0 \in 0..N /\ \A n \in 1..N : n \in 0..N /\ n # 0
    BY <1>1
  <2> QED BY <2>1, <2>2, <2>3, Zenon
<1> HIDE DEF Eq
<1>11. \A n \in 1..N : c[n - 1] \in Seq(S) => c[n] \in Seq(S)
  <2> TAKE n \in 1..N
  <2>1. c[n] = c[n - 1] \o ss[n] /\ ss[n] \in Seq(S)
    BY <1>1, <1>10
  <2> QED BY <2>1
<1>12. c[0] \in Seq(S)
  BY <1>2, <1>10
<1>13. \A n \in 0..N : c[n] \in Seq(S)
  <2> HIDE DEF N
  <2> QED BY <1>1, <1>11, <1>12, PassedOn
<1>14. c \in [0..N -> Seq(S)]
  <2> HIDE DEF N
  <2> QED BY <1>10, <1>13
<1> QED BY <1>9, <1>10, <1>14

\* c[n] is what is kept of the first n elements of s.
Keeps(c, s, S) ==
    /\ c[0] = <<>>
    /\ \A n \in 1..Len(s) : s[n] \in S => c[n] = Append(c[n - 1], s[n])
    /\ \A n \in 1..Len(s) : s[n] \notin S => c[n] = c[n - 1]

\* Among is the last of what each element adds.
LEMMA AmongSteps ==
    ASSUME NEW T, NEW s \in Seq(T), NEW S
    PROVE  \E c \in [0..Len(s) -> Seq(T)] : Keeps(c, s, S) /\ Among(s, S) = c[Len(s)]
<1> DEFINE N == Len(s)
           F == [u \in Seq(T) |-> [v \in T |-> IF v \in S THEN Append(u, v) ELSE u]]
           Eq(g) == g = [n \in 0..N |-> IF n = 0 THEN <<>> ELSE IF s[n] \in S THEN Append(g[n - 1], s[n]) ELSE g[n - 1]]
           c == CHOOSE g : Eq(g)
<1>1. N \in Nat /\ \A n \in 1..N : s[n] \in T
  OBVIOUS
<1>2. F \in [Seq(T) -> [T -> Seq(T)]] /\ <<>> \in Seq(T)
  OBVIOUS
<1>3. \A u \in Seq(T), v \in T : F[u][v] = IF v \in S THEN Append(u, v) ELSE u
  OBVIOUS
<1> HIDE DEF F
<1>4. \E f : IsFold(f, Seq(T), <<>>, s, F)
  BY <1>2, FoldExists
<1>4a. PICK f \in [0..N -> Seq(T)] : f[0] = <<>> /\ \A n \in 1..N : f[n] = F[f[n - 1]][s[n]]
  BY <1>4 DEF IsFold
<1>5. \A n \in 1..N : f[n] = IF s[n] \in S THEN Append(f[n - 1], s[n]) ELSE f[n - 1]
  <2> TAKE n \in 1..N
  <2>1. n - 1 \in 0..N /\ s[n] \in T
    <3>1. n - 1 \in 0..N
      BY <1>1
    <3> QED BY <1>1, <3>1
  <2>2. f[n - 1] \in Seq(T)
    <3> HIDE DEF N
    <3> QED BY <1>4a, <2>1
  <2> QED BY <1>4a, <1>3, <2>1, <2>2
<1>6. \A n \in 0..N : n = 0 \/ n \in 1..N
  BY <1>1
<1>7. Eq(f)
  BY <1>4a, <1>5, <1>6
<1>8. Eq(c)
  <2> HIDE DEF Eq
  <2> QED BY <1>7
<1>9. Among(s, S) = c[N]
  BY Zenon DEF Among
<1> HIDE DEF c
<1>10. c = [n \in 0..N |-> c[n]] /\ c[0] = <<>> /\ \A n \in 1..N : c[n] = IF s[n] \in S THEN Append(c[n - 1], s[n]) ELSE c[n - 1]
  <2>1. DOMAIN c = 0..N /\ \A n \in 0..N : c[n] = IF n = 0 THEN <<>> ELSE IF s[n] \in S THEN Append(c[n - 1], s[n]) ELSE c[n - 1]
    BY <1>8, Zenon
  <2>2. c = [n \in 0..N |-> c[n]]
    BY <1>8, <2>1, Zenon
  <2>3. 0 \in 0..N /\ \A n \in 1..N : n \in 0..N /\ n # 0
    BY <1>1
  <2> QED BY <2>1, <2>2, <2>3, Zenon
<1> HIDE DEF Eq
<1>11. \A n \in 1..N : c[n - 1] \in Seq(T) => c[n] \in Seq(T)
  <2> TAKE n \in 1..N
  <2>1. (c[n] = IF s[n] \in S THEN Append(c[n - 1], s[n]) ELSE c[n - 1]) /\ s[n] \in T
    BY <1>1, <1>10
  <2> QED BY <2>1
<1>12. c[0] \in Seq(T)
  BY <1>2, <1>10
<1>13. \A n \in 0..N : c[n] \in Seq(T)
  <2> HIDE DEF N
  <2> QED BY <1>1, <1>11, <1>12, PassedOn
<1>14. c \in [0..N -> Seq(T)]
  <2> HIDE DEF N
  <2> QED BY <1>10, <1>13
<1>15. Keeps(c, s, S)
  BY <1>10 DEF Keeps
<1> QED BY <1>9, <1>14, <1>15

\* A property of sequences that concatenation with each part preserves is a
\* property of the whole: G is the set of the sequences that have it.
LEMMA FlattenClosed ==
    ASSUME NEW S, NEW ss \in Seq(Seq(S)), NEW G,
           <<>> \in G,
           \A u \in Seq(S), n \in 1..Len(ss) : u \in G => u \o ss[n] \in G
    PROVE  Flatten(ss) \in Seq(S) /\ Flatten(ss) \in G
<1> DEFINE N == Len(ss)
<1>1. PICK c \in [0..N -> Seq(S)] :
               /\ c[0] = <<>>
               /\ \A n \in 1..N : c[n] = c[n - 1] \o ss[n]
               /\ Flatten(ss) = c[N]
  BY FlattenSteps
<1>2. N \in Nat
  OBVIOUS
<1> DEFINE D == {m \in Nat : m <= N => c[m] \in G}
<1>3. 0 \in D
  BY <1>1
<1>4. ASSUME NEW m \in Nat, m \in D PROVE m + 1 \in D
  <2> SUFFICES ASSUME m + 1 <= N PROVE c[m + 1] \in G
      OBVIOUS
  <2>1. m + 1 \in 1..N /\ (m + 1) - 1 = m /\ m \in 0..N /\ m <= N
    BY <1>2
  <2>2. c[m + 1] = c[m] \o ss[m + 1] /\ c[m] \in G /\ c[m] \in Seq(S)
    BY <1>1, <1>4, <2>1
  <2>3. c[m] \o ss[m + 1] \in G
    BY <2>1, <2>2
  <2> QED BY <2>2, <2>3, Zenon
<1>5. Nat \subseteq D
  <2> HIDE DEF D
  <2> QED BY <1>3, <1>4, NaturalInduction
<1>6. c[N] \in G /\ c[N] \in Seq(S)
  BY <1>1, <1>2, <1>5
<1> QED BY <1>1, <1>6, Zenon

\* The sequences of a sequence of sequences, one after the other.
LEMMA FlattenType ==
    ASSUME NEW T, NEW ss \in Seq(Seq(T))
    PROVE  Flatten(ss) \in Seq(T)
<1>1. \A u \in Seq(T), k \in 1..Len(ss) : u \o ss[k] \in Seq(T)
  <2> TAKE u \in Seq(T), k \in 1..Len(ss)
  <2>1. ss[k] \in Seq(T)
    BY ElementOfSeq
  <2> QED BY <2>1
<1>2. <<>> \in Seq(T)
  OBVIOUS
<1> QED BY <1>1, <1>2, FlattenClosed

\* Nothing of a part is left out.
LEMMA FlattenHasAll ==
    ASSUME NEW S, NEW ss \in Seq(Seq(S)), NEW n \in 1..Len(ss), NEW i \in 1..Len(ss[n])
    PROVE  \E k \in 1..Len(Flatten(ss)) : Flatten(ss)[k] = ss[n][i]
<1> DEFINE N == Len(ss)
<1>1. PICK c \in [0..N -> Seq(S)] :
               /\ c[0] = <<>>
               /\ \A m \in 1..N : c[m] = c[m - 1] \o ss[m]
               /\ Flatten(ss) = c[N]
  BY FlattenSteps
<1>2. N \in Nat
  OBVIOUS
<1> DEFINE D == {m \in Nat : n + m <= N => \E k \in 1..Len(c[n + m]) : c[n + m][k] = ss[n][i]}
<1>3. 0 \in D
  <2>1. n \in 1..N /\ n - 1 \in 0..N
    OBVIOUS
  <2>2. c[n] = c[n - 1] \o ss[n] /\ c[n - 1] \in Seq(S) /\ ss[n] \in Seq(S)
    <3>1. c[n] = c[n - 1] \o ss[n] /\ c[n - 1] \in Seq(S)
      BY <1>1, <2>1, Zenon
    <3>2. ss[n] \in Seq(S)
      BY ElementOfSeq
    <3> QED BY <3>1, <3>2
  <2> DEFINE u == c[n - 1]  v == ss[n]
  <2> HIDE DEF u, v
  <2>3. u \in Seq(S) /\ v \in Seq(S) /\ c[n] = u \o v /\ i \in 1..Len(v)
    BY <2>2 DEF u, v
  <2>4. Len(u) + i \in 1..Len(u \o v) /\ (u \o v)[Len(u) + i] = v[i]
    BY <2>3
  <2>5. \E k \in 1..Len(c[n]) : c[n][k] = v[i]
    BY <2>3, <2>4, Zenon
  <2>6. n + 0 = n
    OBVIOUS
  <2> QED BY <2>5, <2>6 DEF v
<1>4. ASSUME NEW m \in Nat, m \in D PROVE m + 1 \in D
  <2> SUFFICES ASSUME n + (m + 1) <= N
               PROVE  \E k \in 1..Len(c[n + (m + 1)]) : c[n + (m + 1)][k] = ss[n][i]
      OBVIOUS
  <2> DEFINE o == n + m  u == c[o]  v == ss[o + 1]
  <2>1. o \in 0..N /\ o + 1 \in 1..N /\ (o + 1) - 1 = o /\ n + (m + 1) = o + 1
    BY <1>2
  <2>2. PICK k \in 1..Len(c[o]) : c[o][k] = ss[n][i]
    BY <1>2, <1>4
  <2>3. c[o + 1] = u \o v /\ u \in Seq(S) /\ v \in Seq(S)
    <3>1. c[o + 1] = c[(o + 1) - 1] \o ss[o + 1] /\ c[o] \in Seq(S)
      BY <1>1, <2>1, Zenon
    <3>2. ss[o + 1] \in Seq(S)
      BY <2>1, ElementOfSeq
    <3> QED BY <2>1, <3>1, <3>2, Zenon
  <2> HIDE DEF o
  <2>4. k \in 1..Len(u) /\ u[k] = ss[n][i]
    BY <2>2
  <2> HIDE DEF u, v
  <2>5. k \in 1..Len(u \o v) /\ (u \o v)[k] = u[k]
    BY <2>3, <2>4
  <2>6. k \in 1..Len(c[o + 1]) /\ c[o + 1][k] = ss[n][i]
    BY <2>3, <2>4, <2>5, Zenon
  <2> QED BY <2>1, <2>6, Zenon
<1>5. Nat \subseteq D
  <2> HIDE DEF D
  <2> QED BY <1>3, <1>4, NaturalInduction
<1>6. N - n \in Nat /\ n + (N - n) = N /\ N <= N
  BY <1>2
<1>7. \E k \in 1..Len(c[N]) : c[N][k] = ss[n][i]
  BY <1>5, <1>6
<1> QED BY <1>1, <1>7, Zenon

Ascending(s) == \A i, j \in 1..Len(s) : i < j => s[i] < s[j]
Has(s, x) == \E i \in 1..Len(s) : s[i] = x

\* Of numbers in ascending order, Among keeps those of S, in ascending order.
LEMMA AmongAscending ==
    ASSUME NEW s \in Seq(Int), Ascending(s), NEW S
    PROVE  /\ Among(s, S) \in Seq(Int)
           /\ Ascending(Among(s, S))
           /\ \A x : Has(Among(s, S), x) <=> x \in S /\ Has(s, x)
<1> DEFINE N == Len(s)
           Up(u) == \A i, j \in 1..Len(u) : i < j => u[i] < u[j]
           HasTo(u, n) == \A x : (\E i \in 1..Len(u) : u[i] = x) <=> x \in S /\ \E i \in 1..n : s[i] = x
<1>1. PICK c \in [0..N -> Seq(Int)] :
               /\ c[0] = <<>>
               /\ \A n \in 1..N : s[n] \in S => c[n] = Append(c[n - 1], s[n])
               /\ \A n \in 1..N : s[n] \notin S => c[n] = c[n - 1]
               /\ Among(s, S) = c[N]
  <2>1. \E c \in [0..Len(s) -> Seq(Int)] : Keeps(c, s, S) /\ Among(s, S) = c[Len(s)]
    BY AmongSteps
  <2> QED BY <2>1 DEF Keeps
<1>2. N \in Nat
  OBVIOUS
<1> DEFINE D == {n \in 0..N : Up(c[n]) /\ HasTo(c[n], n)}
<1>3. 0 \in D
  BY <1>1, <1>2
<1>4. ASSUME NEW n \in 1..N, n - 1 \in D PROVE n \in D
  <2> DEFINE u == c[n - 1]  w == c[n]  y == s[n]
  <2>1. u \in Seq(Int) /\ Up(u) /\ HasTo(u, n - 1) /\ y \in Int
    <3>1. n - 1 \in 0..N /\ y \in Int
      BY <1>2
    <3>2. Up(c[n - 1]) /\ HasTo(c[n - 1], n - 1)
      <4> HIDE DEF Up, HasTo
      <4> QED BY <1>4
    <3> QED BY <1>1, <3>1, <3>2
  <2>2. w = IF y \in S THEN Append(u, y) ELSE u
    BY <1>1
  <2>3. \A i \in 1..n : i = n \/ i \in 1..(n - 1)
    OBVIOUS
  <2>4. n \in 1..n /\ \A i \in 1..(n - 1) : i \in 1..n /\ i \in 1..N /\ i < n
    BY <1>2
  <2>5. \A i \in 1..(n - 1) : s[i] < y
    BY <2>4 DEF Ascending
  <2>6. CASE y \notin S
    <3>1. w = u
      BY <2>2, <2>6
    <3>2. HasTo(w, n)
      <4> HIDE DEF u, w
      <4>1. \A x \in S : (\E i \in 1..n : s[i] = x) <=> (\E i \in 1..(n - 1) : s[i] = x)
        BY <2>3, <2>4, <2>6
      <4> QED BY <2>1, <3>1, <4>1
    <3>3. Up(w)
      BY <2>1, <3>1, Zenon
    <3> HIDE DEF Up, HasTo, u
    <3> QED BY <1>2, <3>2, <3>3
  <2>7. CASE y \in S
    <3> DEFINE L == Len(u)
    <3> HIDE DEF u, w
    <3>1. L \in Nat /\ Len(w) = L + 1 /\ w[L + 1] = y /\ \A i \in 1..L : w[i] = u[i]
      BY <2>1, <2>2, <2>7
    <3>2. (\A i \in 1..(L + 1) : i = L + 1 \/ i \in 1..L) /\ (\A i \in 1..L : i \in 1..(L + 1))
          /\ L + 1 \in 1..(L + 1)
      BY <3>1
    <3>3. \A i \in 1..L : u[i] < y /\ u[i] \in Int
      <4> TAKE i \in 1..L
      <4>1. PICK j \in 1..(n - 1) : s[j] = u[i]
        BY <2>1
      <4> QED BY <2>1, <2>5, <4>1
    <3>4. Up(w)
      <4> SUFFICES ASSUME NEW i \in 1..(L + 1), NEW j \in 1..(L + 1), i < j PROVE w[i] < w[j]
          BY <3>1
      <4>1. i \in 1..L
        BY <3>1
      <4>2. CASE j \in 1..L
        BY <2>1, <3>1, <4>1, <4>2
      <4>3. CASE j = L + 1
        BY <3>1, <3>3, <4>1, <4>3
      <4> QED BY <3>2, <4>2, <4>3
    <3>5. HasTo(w, n)
      <4> SUFFICES ASSUME NEW x
                   PROVE  (\E i \in 1..(L + 1) : w[i] = x) <=> x \in S /\ \E i \in 1..n : s[i] = x
          BY <3>1
      <4>1. (\E i \in 1..L : u[i] = x) <=> x \in S /\ \E i \in 1..(n - 1) : s[i] = x
        BY <2>1
      <4>2. (\E i \in 1..(L + 1) : w[i] = x) <=> x = y \/ \E i \in 1..L : u[i] = x
        <5> HIDE DEF L
        <5> QED BY <3>1, <3>2
      <4>3. (\E i \in 1..n : s[i] = x) <=> x = y \/ \E i \in 1..(n - 1) : s[i] = x
        BY <2>3, <2>4
      <4> QED BY <2>7, <4>1, <4>2, <4>3
    <3> HIDE DEF Up, HasTo
    <3> QED BY <1>2, <3>4, <3>5 DEF w
  <2> QED BY <2>6, <2>7
<1>5. N \in D
  <2>1. 0..N \subseteq D
    <3> HIDE DEF D, N
    <3> QED BY <1>2, <1>3, <1>4, BoundedInduction
  <2> HIDE DEF D
  <2> QED BY <1>2, <2>1
<1>6. Among(s, S) \in Seq(Int)
  BY <1>1, <1>2
<1>7. Up(Among(s, S)) /\ HasTo(Among(s, S), N)
  <2> HIDE DEF Up, HasTo
  <2> QED BY <1>1, <1>5
<1> QED BY <1>6, <1>7 DEF Ascending, Has
=============================================================================
