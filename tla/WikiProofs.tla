----------------------------- MODULE WikiProofs -----------------------------
(***************************************************************************)
(* Theorems about WikiLoop for any pages, points and loops, and any number *)
(* of jobs, calls and faults.                                              *)
(***************************************************************************)
EXTENDS WikiLoop, SequenceTheorems, TLAPS

USE WikiAssumption DEF Loops, Ids

-----------------------------------------------------------------------------
(***************************************************************************)
(* The inductive invariant                                                 *)
(***************************************************************************)
Adjacency == (Points \cup Pages) \X Pages \X Kinds

Ops ==
    [op : {"link"}, edges : SUBSET Adjacency]
        \cup [op : {"return", "fill"}, id : Ids]
        \cup [op : {"writeback"}, id : Pages, body : Bodies]

Tables ==
    /\ page \in [Pages -> Bodies \cup {NoPage}]
    /\ edges \subseteq Adjacency
    /\ pending \subseteq Pages \X Pages
    /\ dirty \subseteq Exists

Stages == {"idle", "compile", "rebuild", "reconcile"}
LoopStates == {"out", "waiting", "running", "filling", "done", "failed"}
Works ==
    [unlink : SUBSET Pages, unpend : SUBSET Pages, add : SUBSET Adjacency,
     dead : SUBSET (Pages \X Pages), clear : SUBSET (Pages \X Pages)]

Memory ==
    /\ stage \in Stages
    /\ loop \in [Units -> LoopStates]
    /\ call \in [Loops -> Seq(Ops)]
    /\ touched \in [Units -> Seq(Ids)]
    /\ work \in Works

Counts == jobs \in 0..MaxJobs /\ calls \in 0..MaxCalls /\ faults \in 0..MaxFaults

\* Who is at work when: units in Compile, the reconciling loop after the
\* rebuild, and nobody but RebuildEdges in between.
Turns ==
    /\ stage # "compile" =>
        \A u \in Units : call[u] = <<>> /\ loop[u] \notin {"waiting", "running", "filling"}
    /\ stage # "reconcile" => call[Reconciler] = <<>>
    /\ \A u \in Units : loop[u] \notin {"running", "filling"} => call[u] = <<>>
    /\ stage # "rebuild" => work = NoWork
    /\ stage = "idle" => \A u \in Units : touched[u] = <<>>

\* An edge that a call has still to add joins pages that are there, and a
\* reference edge starts from a page that awaits its rebuild.
SoundOp(o) ==
    /\ o.op = "link" => \A e \in o.edges :
        /\ e[2] \in Exists
        /\ e[1] \in Exists \cup Points
        /\ e[3] = "references" => e[1] \in dirty
    /\ o.op = "writeback" => o.id \in Exists

CallsSound == \A c \in Loops : \A o \in Values(call[c]) : SoundOp(o)

\* The links of p that have a target, and those that wait for one.
Resolved(p, q) == q \in page[p].links \ {p} /\ q \in Exists
Dead(p, q) == q \in page[p].links \ {p} /\ q \notin Exists

\* How far RebuildEdges is: what is in the tables of a page whose old edges are
\* gone and what is still to be added make up its links.
WorkInOrder ==
    /\ work.unlink \subseteq work.unpend
    /\ work.unpend \subseteq Touched
    /\ Touched \ work.unlink \subseteq dirty
    /\ \A e \in work.add : e[1] \in Touched /\ e[2] \in Exists /\ e[3] = "references"
    /\ \A l \in work.dead : l[1] \in Touched
    /\ \A l \in work.clear : l[1] \in Touched /\ l[2] \in Exists

EdgesInOrder ==
    \A p \in Touched, q \in Pages :
        /\ p \notin work.unlink =>
            (Resolved(p, q) <=> Referenced(p, q) \/ <<p, q, "references">> \in work.add)
        /\ p \in work.unlink => (Resolved(p, q) <=> <<p, q, "references">> \in work.add)

PendingInOrder ==
    \A p \in Touched, q \in Pages :
        /\ p \notin work.unpend => (Dead(p, q) <=> Waiting(p, q) \/ <<p, q>> \in work.dead)
        /\ p \in work.unpend => (Dead(p, q) <=> <<p, q>> \in work.dead)

Progress == stage = "rebuild" => WorkInOrder /\ EdgesInOrder /\ PendingInOrder

Types == Tables /\ Memory /\ Counts
Inv == Types /\ Turns /\ CallsSound /\ Progress /\ NoDanglingEdges /\ CleanPagesAccounted

-----------------------------------------------------------------------------
(***************************************************************************)
(* Sequences of operations                                                 *)
(***************************************************************************)

\* The head of a sequence is one of its values, and its tail has no others.
LEMMA HeadTail ==
  ASSUME NEW T, NEW s \in Seq(T), s # <<>>
  PROVE  /\ Head(s) \in T /\ Head(s) \in Values(s)
         /\ Tail(s) \in Seq(T) /\ Values(Tail(s)) \subseteq Values(s)
  <1>1. Len(s) \in Nat \ {0} /\ Head(s) = s[1] /\ s[1] \in T
    OBVIOUS
  <1>2. Tail(s) \in Seq(T) /\ Len(Tail(s)) = Len(s) - 1
    OBVIOUS
  <1>3. \A i \in 1..Len(Tail(s)) : Tail(s)[i] = s[i + 1] /\ i + 1 \in 1..Len(s)
    BY <1>1, <1>2
  <1> QED
    BY <1>1, <1>2, <1>3 DEF Values

\* The only value of a one-element sequence.
LEMMA Single ==
  ASSUME NEW T, NEW x \in T
  PROVE  <<x>> \in Seq(T) /\ Values(<<x>>) = {x}
  BY DEF Values

\* The empty sequence has no values.
LEMMA Empty == Values(<<>>) = {}
  BY DEF Values

\* A concatenation has the values of both parts.
LEMMA Concatenation ==
  ASSUME NEW T, NEW s \in Seq(T), NEW t \in Seq(T)
  PROVE  s \o t \in Seq(T) /\ Values(s \o t) \subseteq Values(s) \cup Values(t)
  <1>1. /\ s \o t \in Seq(T)
        /\ Len(s \o t) = Len(s) + Len(t)
        /\ Len(s) \in Nat /\ Len(t) \in Nat
    OBVIOUS
  <1>2. ASSUME NEW i \in 1..Len(s \o t) PROVE (s \o t)[i] \in Values(s) \cup Values(t)
    <2>1. CASE i <= Len(s)
      <3>1. i \in 1..Len(s) /\ (s \o t)[i] = s[i]
        BY <1>1, <1>2, <2>1
      <3> QED
        BY <3>1 DEF Values
    <2>2. CASE i > Len(s)
      <3>1. i - Len(s) \in 1..Len(t) /\ (s \o t)[i] = t[i - Len(s)]
        BY <1>1, <1>2, <2>2
      <3> QED
        BY <3>1 DEF Values
    <2> QED
      BY <1>1, <2>1, <2>2
  <1> QED
    BY <1>1, <1>2 DEF Values

\* The last element on its own (a call that fails keeps its end).
LEMMA LastOf ==
  ASSUME NEW T, NEW s \in Seq(T), s # <<>>
  PROVE  <<s[Len(s)]>> \in Seq(T) /\ Values(<<s[Len(s)]>>) \subseteq Values(s)
  <1>1. Len(s) \in 1..Len(s) /\ s[Len(s)] \in T
    OBVIOUS
  <1>2. s[Len(s)] \in Values(s)
    BY <1>1 DEF Values
  <1> QED
    BY <1>1, <1>2, Single

\* A sequence made element by element.
LEMMA Mapped ==
  ASSUME NEW T, NEW n \in Nat, NEW f \in [1..n -> T]
  PROVE  f \in Seq(T) /\ \A x \in Values(f) : \E i \in 1..n : x = f[i]
  <1>1. f \in Seq(T)
    OBVIOUS
  <1>2. Len(f) = n
    OBVIOUS
  <1> QED
    BY <1>1, <1>2 DEF Values

-----------------------------------------------------------------------------
(***************************************************************************)
(* The operations of one wiki_write call                                   *)
(***************************************************************************)

\* At most one argument makes a sequence.
LEMMA ArgsAreSeq ==
  ASSUME NEW S, NEW s \in Args(S)
  PROVE  s \in Seq(S) /\ Len(s) \in Nat /\ \A i \in 1..Len(s) : s[i] \in S
  <1>1. s \in Seq(S)
    <2>1. CASE s = <<>>
      BY <2>1
    <2>2. CASE s # <<>>
      <3>1. PICK x \in S : s = <<x>>
        BY <2>2 DEF Args
      <3> QED
        BY <3>1
    <2> QED
      BY <2>1, <2>2
  <1> QED
    BY <1>1

\* What a call on page p adds joins p with pages that are there and with points.
AboutPage(o, p) ==
    /\ o.op \in {"link", "return"}
    /\ o.op = "link" => \A e \in o.edges :
        /\ e[2] \in Exists \cup {p}
        /\ e[1] \in Exists \cup {p} \cup Points
        /\ e[3] = "references" => e[1] = p

\* The edges of one AddEdgePair, in whichever direction.
LEMMA PairSound ==
  ASSUME NEW p \in Pages, NEW s \in Points \cup {p}, NEW t \in Exists \cup {p},
         NEW kind \in Kinds, kind = "references" => s = p,
         kind = "contradicts" => s = p
  PROVE  Link(Pair(s, t, kind)) \in Ops /\ AboutPage(Link(Pair(s, t, kind)), p)
  <1>1. t \in Pages
    BY DEF Exists
  <1>2. ASSUME NEW e \in Pair(s, t, kind)
        PROVE  e = <<s, t, kind>> \/ (kind = "contradicts" /\ e = <<t, s, kind>>)
    BY <1>2 DEF Pair
  <1>3. Pair(s, t, kind) \subseteq Adjacency
    <2>1. ASSUME NEW e \in Pair(s, t, kind) PROVE e \in Adjacency
      BY <1>1, <1>2, <2>1 DEF Adjacency
    <2> QED
      BY <2>1
  <1>4. Link(Pair(s, t, kind)) \in Ops
    BY <1>3 DEF Link, Ops
  <1>5. ASSUME NEW e \in Pair(s, t, kind)
        PROVE  /\ e[2] \in Exists \cup {p}
               /\ e[1] \in Exists \cup {p} \cup Points
               /\ e[3] = "references" => e[1] = p
    BY <1>2, <1>5
  <1> QED
    BY <1>4, <1>5 DEF AboutPage, Link

\* A validated call is made of such operations (validateEdges, then AddEdgePair
\* for every point and every edge).
LEMMA PlanSound ==
  ASSUME NEW p \in Pages, NEW id \in Ids, NEW ips \in Args(Points),
         NEW es \in EdgeArgs, Valid(p, es)
  PROVE  /\ CallPlan(p, id, ips, es) \in Seq(Ops)
         /\ \A o \in Values(CallPlan(p, id, ips, es)) : AboutPage(o, p)
  <1> DEFINE T == {o \in Ops : AboutPage(o, p)}
             f == [i \in 1..Len(ips) |-> Link(Pair(ips[i], p, "has_page"))]
             g == [i \in 1..Len(es) |-> Link(Pair(p, es[i][1], es[i][2]))]
  <1>1. /\ Len(ips) \in Nat /\ \A i \in 1..Len(ips) : ips[i] \in Points
        /\ Len(es) \in Nat /\ \A i \in 1..Len(es) : es[i] \in Pages \X (Kinds \ {"has_page"})
    BY ArgsAreSeq DEF EdgeArgs
  <1>2. ASSUME NEW i \in 1..Len(ips) PROVE Link(Pair(ips[i], p, "has_page")) \in T
    <2>1. ips[i] \in Points \cup {p} /\ "has_page" \in Kinds
      BY <1>1, <1>2 DEF Kinds
    <2> QED
      BY <2>1, PairSound
  <1>3. ASSUME NEW i \in 1..Len(es) PROVE Link(Pair(p, es[i][1], es[i][2])) \in T
    <2>1. es[i][2] \in Kinds
      BY <1>1, <1>3
    <2>2. es[i][1] \in Exists
      BY <1>3 DEF Valid, Values
    <2> QED
      BY <2>1, <2>2, PairSound
  <1>4. f \in Seq(T) /\ g \in Seq(T)
    <2>1. f \in [1..Len(ips) -> T] /\ g \in [1..Len(es) -> T]
      BY <1>2, <1>3
    <2> HIDE DEF f, g, T
    <2> QED
      BY <1>1, <2>1, Mapped
  <1>5. <<Return(id)>> \in Seq(T)
    <2>1. Return(id) \in T
      BY DEF Return, Ops, AboutPage
    <2> HIDE DEF T
    <2> QED
      BY <2>1, Single
  <1>6. CallPlan(p, id, ips, es) = (f \o g) \o <<Return(id)>>
    BY DEF CallPlan
  <1>7. CallPlan(p, id, ips, es) \in Seq(T)
    <2> HIDE DEF f, g, T
    <2> QED
      BY <1>4, <1>5, <1>6, Concatenation
  <1>8. Values(CallPlan(p, id, ips, es)) \subseteq T
    <2> HIDE DEF f, g, T
    <2> QED
      BY <1>7 DEF Values
  <1>9. Seq(T) \subseteq Seq(Ops)
    <2>1. T \subseteq Ops
      OBVIOUS
    <2> HIDE DEF T
    <2> QED
      BY <2>1
  <1> QED
    BY <1>7, <1>8, <1>9

\* The backfill looks at ids only.
LEMMA FillsSound ==
  ASSUME NEW s \in Seq(Ids)
  PROVE  Fills(s) \in Seq(Ops) /\ \A o \in Values(Fills(s)) : o.op = "fill"
  <1> DEFINE T == {o \in Ops : o.op = "fill"}
  <1>1. Len(s) \in Nat /\ \A i \in 1..Len(s) : s[i] \in Ids
    OBVIOUS
  <1>2. \A i \in 1..Len(s) : Fill(s[i]) \in T
    BY <1>1 DEF Fill, Ops
  <1>3. Fills(s) \in [1..Len(s) -> T]
    BY <1>2 DEF Fills
  <1>4. Fills(s) \in Seq(T) /\ Values(Fills(s)) \subseteq T
    <2> HIDE DEF T
    <2>1. Fills(s) \in Seq(T)
      BY <1>1, <1>3, Mapped
    <2> QED
      BY <2>1 DEF Values
  <1>5. Fills(s) \in Seq(Ops)
    <2>1. T \subseteq Ops
      OBVIOUS
    <2> HIDE DEF T
    <2> QED
      BY <1>4, <2>1
  <1> QED
    BY <1>4, <1>5

-----------------------------------------------------------------------------
(***************************************************************************)
(* Frames: what a step keeps that leaves most of the state alone           *)
(***************************************************************************)

\* A loop in the middle of a call has its turn.
Active(c) ==
    /\ c = Reconciler => stage = "reconcile"
    /\ c # Reconciler => stage = "compile" /\ loop[c] \in {"running", "filling"}

\* A loop with operations left to make is active.
LEMMA CallTurn ==
  ASSUME Turns, NEW c \in Loops, call[c] # <<>>
  PROVE  Active(c)
  BY DEF Turns, Active

\* Pages come and never go, dirty ones stay so until the rebuild returns: an
\* operation that was sound stays sound.
LEMMA SoundStays ==
  ASSUME NEW o, SoundOp(o), Exists \subseteq Exists', dirty \subseteq dirty'
  PROVE  SoundOp(o)'
  BY DEF SoundOp

LEMMA CallsStay ==
  ASSUME CallsSound, Exists \subseteq Exists', dirty \subseteq dirty',
         NEW c \in Loops, \A d \in Loops \ {c} : call'[d] = call[d],
         \A o \in Values(call'[c]) : SoundOp(o)'
  PROVE  CallsSound'
  <1>1. ASSUME NEW d \in Loops, d # c, NEW o \in Values(call'[d]) PROVE SoundOp(o)'
    <2>1. SoundOp(o)
      BY <1>1 DEF CallsSound
    <2> QED
      BY <2>1, SoundStays
  <1> QED
    BY <1>1 DEF CallsSound

\* Tables that do not change keep what is said of them.
LEMMA TablesStay ==
  ASSUME Tables, NoDanglingEdges, CleanPagesAccounted, UNCHANGED tables
  PROVE  Tables' /\ NoDanglingEdges' /\ CleanPagesAccounted' /\ Exists' = Exists
  <1>1. UNCHANGED <<page, edges, pending, dirty>>
    BY DEF tables
  <1>2. Exists' = Exists
    BY <1>1 DEF Exists
  <1>3. Tables'
    BY <1>1, <1>2 DEF Tables
  <1>4. NoDanglingEdges'
    BY <1>1, <1>2 DEF NoDanglingEdges
  <1>5. CleanPagesAccounted'
    BY <1>1, <1>2 DEF CleanPagesAccounted, Referenced, Waiting
  <1> QED
    BY <1>2, <1>3, <1>4, <1>5

\* A clean page stays accounted for if its body and its links stay.
LEMMA CleanStay ==
  ASSUME CleanPagesAccounted, dirty \subseteq dirty',
         \A p \in Pages \ dirty' :
            /\ page'[p] = page[p]
            /\ \A q \in Pages : /\ Referenced(p, q)' <=> Referenced(p, q)
                                /\ Waiting(p, q)' <=> Waiting(p, q)
  PROVE  CleanPagesAccounted'
  <1> SUFFICES ASSUME NEW p \in Exists' \ dirty', NEW q \in Pages
               PROVE  /\ (Referenced(p, q) \/ Waiting(p, q) <=> q \in page[p].links \ {p})'
                      /\ ~(Referenced(p, q) /\ Waiting(p, q))'
    BY DEF CleanPagesAccounted
  <1>1. p \in Pages \ dirty' /\ page'[p] = page[p]
    BY DEF Exists
  <1>2. p \in Exists \ dirty
    BY <1>1 DEF Exists
  <1>3. /\ Referenced(p, q) \/ Waiting(p, q) <=> q \in page[p].links \ {p}
        /\ ~(Referenced(p, q) /\ Waiting(p, q))
    BY <1>2 DEF CleanPagesAccounted
  <1>4. (Referenced(p, q)' <=> Referenced(p, q)) /\ (Waiting(p, q)' <=> Waiting(p, q))
    BY <1>1
  <1> QED
    BY <1>1, <1>3, <1>4

\* Nobody rebuilds while a loop makes its calls.
LEMMA NotRebuilding ==
  ASSUME stage' # "rebuild"
  PROVE  Progress'
  BY DEF Progress

\* A loop makes one operation of its call, or begins a call.
LEMMA CallStep ==
  ASSUME Inv, NEW c \in Loops, Active(c), NEW x \in Seq(Ops),
         call' = [call EXCEPT ![c] = x], UNCHANGED <<stage, loop, work>>,
         touched' \in [Units -> Seq(Ids)], Counts',
         Exists \subseteq Exists', dirty \subseteq dirty',
         \A o \in Values(x) : SoundOp(o)',
         Tables', NoDanglingEdges', CleanPagesAccounted'
  PROVE  Inv'
  <1> USE DEF Inv, Types
  <1>1. call \in [Loops -> Seq(Ops)]
    BY DEF Memory
  <1>2. Memory'
    BY <1>1 DEF Memory
  <1>3. stage \in {"compile", "reconcile"}
    BY DEF Active
  <1>4. Turns'
    <2>1. \A d \in Loops \ {c} : call'[d] = call[d]
      BY <1>1
    <2>2. CASE c = Reconciler
      BY <2>1, <2>2 DEF Turns, Active
    <2>3. CASE c # Reconciler
      BY <2>1, <2>3 DEF Turns, Active
    <2> QED
      BY <2>2, <2>3
  <1>5. CallsSound'
    <2>1. call'[c] = x /\ \A d \in Loops \ {c} : call'[d] = call[d]
      BY <1>1
    <2> QED
      BY <2>1, CallsStay
  <1>6. Progress'
    BY <1>3, NotRebuilding
  <1> QED
    BY <1>2, <1>4, <1>5, <1>6

-----------------------------------------------------------------------------
(***************************************************************************)
(* The steps of a loop                                                     *)
(***************************************************************************)

\* A loop that is between two calls or ends one notes an id.
LEMMA NoteTyped ==
  ASSUME Memory, NEW c \in Loops, NEW id \in Ids, Note(c, id)
  PROVE  touched' \in [Units -> Seq(Ids)]
  <1>1. CASE c = Reconciler
    BY <1>1 DEF Memory, Note
  <1>2. CASE c # Reconciler
    <2>1. c \in Units /\ touched[c] \in Seq(Ids)
      BY <1>2 DEF Memory
    <2>2. Append(touched[c], id) \in Seq(Ids)
      BY <2>1
    <2> QED
      BY <1>2, <2>2 DEF Memory, Note
  <1> QED
    BY <1>1, <1>2

\* A loop that can call is active.
LEMMA CallerTurn ==
  ASSUME Turns, NEW c \in Loops, CanCall(c)
  PROVE  Active(c)
  <1>1. CASE c = Reconciler
    BY <1>1 DEF CanCall, Active
  <1>2. CASE c # Reconciler
    BY <1>2 DEF CanCall, Active, Turns
  <1> QED
    BY <1>1, <1>2

\* What comes first of a call, and what is left after it.
LEMMA FirstOp ==
  ASSUME Memory, CallsSound, NEW c \in Loops, call[c] # <<>>
  PROVE  /\ Head(call[c]) \in Ops /\ SoundOp(Head(call[c]))
         /\ Tail(call[c]) \in Seq(Ops)
         /\ \A o \in Values(Tail(call[c])) : SoundOp(o)
  <1>1. call[c] \in Seq(Ops)
    BY DEF Memory
  <1>2. /\ Head(call[c]) \in Ops /\ Head(call[c]) \in Values(call[c])
        /\ Tail(call[c]) \in Seq(Ops) /\ Values(Tail(call[c])) \subseteq Values(call[c])
    BY <1>1, HeadTail
  <1> QED
    BY <1>2 DEF CallsSound

\* The row of a page replaced (wiki_write, or the backfill): the page is there
\* and awaits its rebuild.
LEMMA PageStored ==
  ASSUME Inv, NEW p \in Pages, NEW body \in Bodies,
         page' = [page EXCEPT ![p] = body], dirty' = dirty \cup {p},
         UNCHANGED <<edges, pending>>
  PROVE  /\ Exists' = Exists \cup {p}
         /\ Tables' /\ NoDanglingEdges' /\ CleanPagesAccounted'
  <1> USE DEF Inv, Types
  <1>1. body # NoPage
    BY DEF Bodies
  <1>2. page \in [Pages -> Bodies \cup {NoPage}]
    BY DEF Tables
  <1>3. Exists' = Exists \cup {p}
    BY <1>1, <1>2 DEF Exists
  <1>4. Tables'
    <2>1. page' \in [Pages -> Bodies \cup {NoPage}]
      BY <1>2
    <2>2. dirty' \subseteq Exists'
      BY <1>3 DEF Tables
    <2> QED
      BY <2>1, <2>2 DEF Tables
  <1>5. NoDanglingEdges'
    BY <1>3 DEF NoDanglingEdges
  <1>6. CleanPagesAccounted'
    <2>1. ASSUME NEW q \in Pages \ dirty'
          PROVE  /\ page'[q] = page[q]
                 /\ \A r \in Pages : /\ Referenced(q, r)' <=> Referenced(q, r)
                                     /\ Waiting(q, r)' <=> Waiting(q, r)
      BY <1>2, <2>1 DEF Referenced, Waiting
    <2> QED
      BY <2>1, CleanStay
  <1> QED
    BY <1>3, <1>4, <1>5, <1>6

LEMMA WikiWriteStep ==
  ASSUME Inv, NEW c \in Loops, NEW p \in Pages, NEW id \in Ids, NEW body \in Bodies,
         NEW ips \in Args(Points), NEW es \in EdgeArgs, WikiWrite(c, p, id, body, ips, es)
  PROVE  Inv'
  <1> DEFINE x == CallPlan(p, id, ips, es)
  <1>1. Active(c)
    BY CallerTurn DEF WikiWrite, Inv
  <1>2. /\ x \in Seq(Ops)
        /\ \A o \in Values(x) : AboutPage(o, p)
    BY PlanSound DEF WikiWrite
  <1>3. /\ Exists' = Exists \cup {p} /\ dirty' = dirty \cup {p}
        /\ Tables' /\ NoDanglingEdges' /\ CleanPagesAccounted'
    BY PageStored DEF WikiWrite
  <1>4. \A o \in Values(x) : SoundOp(o)'
    <2> SUFFICES ASSUME NEW o \in Values(x) PROVE SoundOp(o)'
      OBVIOUS
    <2>1. AboutPage(o, p)
      BY <1>2
    <2> HIDE DEF x
    <2> QED
      BY <1>3, <2>1 DEF SoundOp, AboutPage
  <1>5. Counts'
    BY DEF WikiWrite, CanCall, Counts, Inv, Types
  <1>6. /\ call' = [call EXCEPT ![c] = x] /\ UNCHANGED <<stage, loop, work>>
        /\ touched' \in [Units -> Seq(Ids)]
    BY DEF WikiWrite, Inv, Types, Memory
  <1> QED
    <2> HIDE DEF x
    <2> QED
      BY <1>1, <1>2, <1>3, <1>4, <1>5, <1>6, CallStep

LEMMA RefuseStep ==
  ASSUME Inv, NEW c \in Loops, NEW id \in Ids, Refuse(c, id)
  PROVE  Inv'
  <1> USE DEF Inv, Types
  <1>1. Active(c) /\ call[c] = <<>>
    BY CallerTurn DEF Refuse, CanCall
  <1>2. touched' \in [Units -> Seq(Ids)]
    BY NoteTyped DEF Refuse
  <1>3. Tables' /\ NoDanglingEdges' /\ CleanPagesAccounted' /\ Exists' = Exists /\ dirty' = dirty
    BY TablesStay DEF Refuse, tables
  <1>4. Counts'
    BY DEF Refuse, CanCall, Counts
  <1>5. call' = [call EXCEPT ![c] = <<>>] /\ UNCHANGED <<stage, loop, work>>
    BY <1>1 DEF Refuse, Memory
  <1>6. <<>> \in Seq(Ops) /\ \A o \in Values(<<>>) : SoundOp(o)'
    BY Empty
  <1> QED
    BY <1>1, <1>2, <1>3, <1>4, <1>5, <1>6, CallStep

\* AddEdgePair of a call: a reference edge starts from a page that awaits its
\* rebuild.
LEMMA AddLinkStep ==
  ASSUME Inv, NEW c \in Loops, AddLink(c)
  PROVE  Inv'
  <1> USE DEF Inv, Types
  <1> DEFINE o == Head(call[c])
  <1>1. Active(c) /\ call[c] # <<>>
    BY CallTurn DEF AddLink
  <1>2. /\ o \in Ops /\ SoundOp(o) /\ Tail(call[c]) \in Seq(Ops)
        /\ \A y \in Values(Tail(call[c])) : SoundOp(y)
    BY <1>1, FirstOp
  <1>3. o.op = "link" /\ edges' = edges \cup o.edges /\ UNCHANGED <<page, pending, dirty>>
    BY DEF AddLink
  <1>4. Exists' = Exists
    BY <1>3 DEF Exists
  <1>5. o.edges \subseteq Adjacency
    BY <1>2, <1>3 DEF Ops
  <1>6. \A e \in o.edges : /\ e[2] \in Exists /\ e[1] \in Exists \cup Points
                           /\ e[3] = "references" => e[1] \in dirty
    BY <1>2, <1>3 DEF SoundOp
  <1> HIDE DEF o
  <1>7. Tables'
    BY <1>3, <1>4, <1>5 DEF Tables
  <1>8. NoDanglingEdges'
    BY <1>3, <1>4, <1>6 DEF NoDanglingEdges
  <1>9. CleanPagesAccounted'
    <2>1. ASSUME NEW p \in Pages \ dirty', NEW q \in Pages
          PROVE  /\ Referenced(p, q)' <=> Referenced(p, q)
                 /\ Waiting(p, q)' <=> Waiting(p, q)
      <3>1. <<p, q, "references">> \notin o.edges
        BY <1>3, <1>6, <2>1
      <3> QED
        BY <1>3, <3>1 DEF Referenced, Waiting
    <2> QED
      BY <1>3, <2>1, CleanStay
  <1>10. \A y \in Values(Tail(call[c])) : SoundOp(y)'
    BY <1>2, <1>3, <1>4, SoundStays
  <1>11. /\ call' = [call EXCEPT ![c] = Tail(call[c])] /\ UNCHANGED <<stage, loop, work>>
         /\ touched' \in [Units -> Seq(Ids)] /\ Counts'
    BY DEF AddLink, Memory, Counts, bounds
  <1> QED
    BY <1>1, <1>2, <1>3, <1>4, <1>7, <1>8, <1>9, <1>10, <1>11, CallStep

LEMMA EndCallStep ==
  ASSUME Inv, NEW c \in Loops, EndCall(c)
  PROVE  Inv'
  <1> USE DEF Inv, Types
  <1>1. Active(c) /\ call[c] # <<>>
    BY CallTurn DEF EndCall
  <1>2. Head(call[c]) \in Ops /\ Head(call[c]).op = "return"
    BY <1>1, FirstOp DEF EndCall
  <1>3. Head(call[c]).id \in Ids
    BY <1>2 DEF Ops
  <1>4. touched' \in [Units -> Seq(Ids)]
    BY <1>3, NoteTyped DEF EndCall
  <1>5. Tables' /\ NoDanglingEdges' /\ CleanPagesAccounted' /\ Exists' = Exists /\ dirty' = dirty
    BY TablesStay DEF EndCall, tables
  <1>6. /\ call' = [call EXCEPT ![c] = <<>>] /\ UNCHANGED <<stage, loop, work>> /\ Counts'
    BY DEF EndCall, Counts, bounds
  <1>7. <<>> \in Seq(Ops) /\ \A o \in Values(<<>>) : SoundOp(o)'
    BY Empty
  <1> QED
    BY <1>1, <1>4, <1>5, <1>6, <1>7, CallStep

LEMMA CallFailsStep ==
  ASSUME Inv, NEW c \in Loops, CallFails(c)
  PROVE  Inv'
  <1> USE DEF Inv, Types
  <1> DEFINE x == <<call[c][Len(call[c])]>>
  <1>1. Active(c) /\ call[c] # <<>> /\ call[c] \in Seq(Ops)
    BY CallTurn DEF CallFails, Memory
  <1>2. x \in Seq(Ops) /\ Values(x) \subseteq Values(call[c])
    BY <1>1, LastOf
  <1>3. Tables' /\ NoDanglingEdges' /\ CleanPagesAccounted' /\ Exists' = Exists /\ dirty' = dirty
    BY TablesStay DEF CallFails, tables
  <1>4. \A o \in Values(x) : SoundOp(o)'
    <2> HIDE DEF x
    <2>1. \A o \in Values(x) : SoundOp(o)
      BY <1>2 DEF CallsSound
    <2> QED
      BY <1>3, <2>1, SoundStays
  <1>5. Counts'
    BY DEF CallFails, Counts
  <1>6. /\ call' = [call EXCEPT ![c] = x] /\ UNCHANGED <<stage, loop, work>>
        /\ touched' \in [Units -> Seq(Ids)]
    BY DEF CallFails, Memory
  <1> QED
    <2> HIDE DEF x
    <2> QED
      BY <1>1, <1>2, <1>3, <1>4, <1>5, <1>6, CallStep

LEMMA ReadPageStep ==
  ASSUME Inv, NEW u \in Units, ReadPage(u)
  PROVE  Inv'
  <1> USE DEF Inv, Types
  <1> DEFINE id == Head(call[u]).id
             rest == Tail(call[u])
             back == WriteBack(id, page[id])
             x == IF id \in Exists /\ ~page[id].dated THEN <<back>> \o rest ELSE rest
  <1>1. u \in Loops /\ Active(u) /\ call[u] # <<>>
    BY CallTurn DEF ReadPage
  <1>2. rest \in Seq(Ops) /\ \A o \in Values(rest) : SoundOp(o)
    BY <1>1, FirstOp
  <1>3. Tables' /\ NoDanglingEdges' /\ CleanPagesAccounted' /\ Exists' = Exists /\ dirty' = dirty
    BY TablesStay DEF ReadPage, tables
  <1>4. ASSUME id \in Exists
        PROVE  <<back>> \o rest \in Seq(Ops) /\ \A o \in Values(<<back>> \o rest) : SoundOp(o)
    <2>1. id \in Pages /\ page[id] \in Bodies
      BY <1>4 DEF Tables, Exists
    <2>2. back \in Ops /\ SoundOp(back)
      BY <1>4, <2>1 DEF WriteBack, Ops, SoundOp
    <2> HIDE DEF back, rest
    <2>3. <<back>> \in Seq(Ops) /\ Values(<<back>>) = {back}
      BY <2>2, Single
    <2> QED
      BY <1>2, <2>2, <2>3, Concatenation
  <1>5. x \in Seq(Ops) /\ \A o \in Values(x) : SoundOp(o)
    <2> HIDE DEF back, rest
    <2> QED
      BY <1>2, <1>4
  <1>6. /\ call' = [call EXCEPT ![u] = x] /\ UNCHANGED <<stage, loop, work>>
        /\ touched' \in [Units -> Seq(Ids)] /\ Counts'
    BY DEF ReadPage, Memory, Counts, bounds
  <1> QED
    <2> HIDE DEF x
    <2>1. \A o \in Values(x) : SoundOp(o)'
      BY <1>3, <1>5, SoundStays
    <2> QED
      BY <1>1, <1>3, <1>5, <1>6, <2>1, CallStep

LEMMA WritePageBackStep ==
  ASSUME Inv, NEW u \in Units, WritePageBack(u)
  PROVE  Inv'
  <1> USE DEF Inv, Types
  <1> DEFINE o == Head(call[u])
             body == [o.body EXCEPT !.dated = TRUE]
             rest == Tail(call[u])
  <1>1. u \in Loops /\ Active(u) /\ call[u] # <<>>
    BY CallTurn DEF WritePageBack
  <1>2. o \in Ops /\ rest \in Seq(Ops) /\ \A y \in Values(rest) : SoundOp(y)
    BY <1>1, FirstOp
  <1>3. o.id \in Pages /\ o.body \in Bodies
    BY <1>2 DEF WritePageBack, Ops
  <1>4. body \in Bodies
    BY <1>3 DEF Bodies
  <1>5. /\ page' = [page EXCEPT ![o.id] = body] /\ dirty' = dirty \cup {o.id}
        /\ UNCHANGED <<edges, pending>>
    BY DEF WritePageBack
  <1>6. /\ Exists' = Exists \cup {o.id}
        /\ Tables' /\ NoDanglingEdges' /\ CleanPagesAccounted'
    <2> HIDE DEF o, body
    <2> QED
      BY <1>3, <1>4, <1>5, PageStored
  <1>7. /\ call' = [call EXCEPT ![u] = rest] /\ UNCHANGED <<stage, loop, work>>
        /\ touched' \in [Units -> Seq(Ids)] /\ Counts'
    BY DEF WritePageBack, Memory, Counts, bounds
  <1> QED
    <2> HIDE DEF o, body, rest
    <2>1. \A y \in Values(rest) : SoundOp(y)'
      BY <1>2, <1>5, <1>6, SoundStays
    <2> QED
      BY <1>1, <1>2, <1>5, <1>6, <1>7, <2>1, CallStep

LEMMA WriteBackFailsStep ==
  ASSUME Inv, NEW u \in Units, WriteBackFails(u)
  PROVE  Inv'
  <1> USE DEF Inv, Types
  <1> DEFINE rest == Tail(call[u])
  <1>1. u \in Loops /\ Active(u) /\ call[u] # <<>>
    BY CallTurn DEF WriteBackFails
  <1>2. rest \in Seq(Ops) /\ \A o \in Values(rest) : SoundOp(o)
    BY <1>1, FirstOp
  <1>3. Tables' /\ NoDanglingEdges' /\ CleanPagesAccounted' /\ Exists' = Exists /\ dirty' = dirty
    BY TablesStay DEF WriteBackFails, tables
  <1>4. /\ call' = [call EXCEPT ![u] = rest] /\ UNCHANGED <<stage, loop, work>>
        /\ touched' \in [Units -> Seq(Ids)] /\ Counts'
    BY DEF WriteBackFails, Memory, Counts
  <1> QED
    <2> HIDE DEF rest
    <2>1. \A o \in Values(rest) : SoundOp(o)'
      BY <1>2, <1>3, SoundStays
    <2> QED
      BY <1>1, <1>2, <1>3, <1>4, <2>1, CallStep

\* All steps of a loop that writes pages.
LEMMA LoopStepInv ==
  ASSUME Inv, NEW c \in Loops, LoopStep(c)
  PROVE  Inv'
  <1>1. CASE \E p \in Pages, ips \in Args(Points), es \in EdgeArgs, body \in Bodies :
               \E id \in {p, Misspelt} : WikiWrite(c, p, id, body, ips, es)
    BY <1>1, WikiWriteStep
  <1>2. CASE \E id \in Pages : Refuse(c, id)
    BY <1>2, RefuseStep
  <1>3. CASE AddLink(c) \/ EndCall(c) \/ CallFails(c)
    BY <1>3, AddLinkStep, EndCallStep, CallFailsStep
  <1> QED
    BY <1>1, <1>2, <1>3 DEF LoopStep

-----------------------------------------------------------------------------
(***************************************************************************)
(* The steps of Compile                                                    *)
(***************************************************************************)

\* A step outside the rebuild that leaves the tables alone.
LEMMA QuietStep ==
  ASSUME Inv, UNCHANGED tables, Memory', Counts', Turns', CallsSound', stage' # "rebuild"
  PROVE  Inv'
  BY TablesStay, NotRebuilding DEF Inv, Types

\* A unit's goroutine goes on: its state and its operations are all that changes.
LEMMA UnitMoves ==
  ASSUME Inv, NEW u \in Units, NEW state \in LoopStates, NEW x \in Seq(Ops),
         loop[u] \in {"waiting", "running", "filling"},
         loop' = [loop EXCEPT ![u] = state], call' = [call EXCEPT ![u] = x],
         state \notin {"running", "filling"} => x = <<>>,
         \A o \in Values(x) : o.op = "fill",
         UNCHANGED <<tables, stage, work>>, Counts', touched' \in [Units -> Seq(Ids)]
  PROVE  Inv'
  <1> USE DEF Inv, Types
  <1>1. loop \in [Units -> LoopStates] /\ call \in [Loops -> Seq(Ops)] /\ u \in Loops
    BY DEF Memory
  <1>2. Memory'
    BY <1>1 DEF Memory
  <1>3. stage = "compile"
    BY DEF Turns
  <1>4. Turns'
    <2>1. call'[u] = x /\ \A d \in Loops \ {u} : call'[d] = call[d]
      BY <1>1
    <2>2. loop'[u] = state /\ \A v \in Units \ {u} : loop'[v] = loop[v]
      BY <1>1
    <2>3. call'[Reconciler] = call[Reconciler]
      BY <2>1
    <2> QED
      BY <1>3, <2>1, <2>2, <2>3 DEF Turns
  <1>5. CallsSound'
    <2>1. call'[u] = x /\ \A d \in Loops \ {u} : call'[d] = call[d]
      BY <1>1
    <2>2. Exists' = Exists /\ dirty' = dirty
      BY TablesStay DEF tables
    <2>3. \A o \in Values(x) : SoundOp(o)'
      BY DEF SoundOp
    <2> QED
      BY <1>1, <2>1, <2>2, <2>3, CallsStay
  <1> QED
    BY <1>2, <1>3, <1>4, <1>5, QuietStep

LEMMA UnitStepInv ==
  ASSUME Inv, NEW u \in Units, UnitStep(u)
  PROVE  Inv'
  <1> USE DEF Inv, Types
  <1> USE DEF LoopStates
  <1>0. /\ u \in Loops /\ <<>> \in Seq(Ops) /\ Values(<<>>) = {}
        /\ call \in [Loops -> Seq(Ops)] /\ touched \in [Units -> Seq(Ids)]
    BY Empty DEF Memory
  <1>1. CASE StartLoop(u)
    <2>1. call[u] = <<>> /\ loop[u] = "waiting"
      BY <1>1 DEF StartLoop, Turns
    <2>2. call' = [call EXCEPT ![u] = <<>>]
      BY <1>0, <1>1, <2>1 DEF StartLoop
    <2> QED
      BY <1>0, <1>1, <2>1, <2>2, UnitMoves DEF StartLoop, bounds, Counts
  <1>2. CASE LoopStep(u)
    BY <1>0, <1>2, LoopStepInv
  <1>3. CASE EndLoop(u)
    <2>1. touched[u] \in Seq(Ids)
      BY <1>0
    <2> DEFINE x == IF u \in Timed THEN Fills(touched[u]) ELSE <<>>
    <2>2. x \in Seq(Ops) /\ \A o \in Values(x) : o.op = "fill"
      BY <1>0, <2>1, FillsSound
    <2>3. /\ loop[u] = "running" /\ loop' = [loop EXCEPT ![u] = "filling"]
          /\ call' = [call EXCEPT ![u] = x]
          /\ UNCHANGED <<tables, stage, work>> /\ Counts' /\ touched' \in [Units -> Seq(Ids)]
      BY <1>0, <1>3 DEF EndLoop, bounds, Counts
    <2> HIDE DEF x
    <2> QED
      BY <2>2, <2>3, UnitMoves
  <1>4. CASE LoopFails(u)
    <2>1. call' = [call EXCEPT ![u] = <<>>] /\ loop[u] = "running"
      BY <1>0, <1>4 DEF LoopFails
    <2>2. Counts' /\ touched' \in [Units -> Seq(Ids)]
      BY <1>0, <1>4 DEF LoopFails, Counts
    <2> QED
      BY <1>0, <1>4, <2>1, <2>2, UnitMoves DEF LoopFails
  <1>5. CASE ReadPage(u)
    BY <1>5, ReadPageStep
  <1>6. CASE WritePageBack(u)
    BY <1>6, WritePageBackStep
  <1>7. CASE WriteBackFails(u)
    BY <1>7, WriteBackFailsStep
  <1>8. CASE LoopDone(u)
    <2>1. call' = [call EXCEPT ![u] = <<>>] /\ loop[u] = "filling"
      BY <1>0, <1>8 DEF LoopDone
    <2> QED
      BY <1>0, <1>8, <2>1, UnitMoves DEF LoopDone, bounds, Counts
  <1> QED
    BY <1>1, <1>2, <1>3, <1>4, <1>5, <1>6, <1>7, <1>8 DEF UnitStep

LEMMA BeginCompileStep ==
  ASSUME Inv, NEW U \in SUBSET Units, BeginCompile(U)
  PROVE  Inv'
  <1> USE DEF Inv, Types
  <1>1. stage = "idle" /\ stage' = "compile" /\ UNCHANGED <<tables, call, touched, work>>
    BY DEF BeginCompile
  <1>2. \A c \in Loops : call[c] = <<>>
    BY <1>1 DEF Turns
  <1>3. loop' \in [Units -> {"out", "waiting"}]
    BY DEF BeginCompile
  <1>4. Memory'
    BY <1>1, <1>3 DEF Memory, Stages, LoopStates
  <1>5. Counts'
    BY DEF BeginCompile, Counts
  <1>6. Turns'
    BY <1>1, <1>2 DEF Turns
  <1>7. CallsSound'
    BY <1>1, <1>2, Empty DEF CallsSound
  <1> QED
    BY <1>1, <1>4, <1>5, <1>6, <1>7, QuietStep

\* A job ends, well or not, and leaves the tables as they are.
LEMMA EndJobStep ==
  ASSUME Inv, EndJob, UNCHANGED tables, Counts'
  PROVE  Inv'
  <1> USE DEF Inv, Types
  <1>1. \A c \in Loops : call'[c] = <<>>
    BY DEF EndJob
  <1>2. Memory'
    <2>1. stage' \in Stages /\ loop' \in [Units -> LoopStates] /\ work' \in Works
      BY DEF EndJob, Stages, LoopStates, Works, NoWork
    <2>2. call' \in [Loops -> Seq(Ops)] /\ touched' \in [Units -> Seq(Ids)]
      <3>1. <<>> \in Seq(Ops) /\ <<>> \in Seq(Ids)
        OBVIOUS
      <3> QED
        BY <3>1 DEF EndJob
    <2> QED
      BY <2>1, <2>2 DEF Memory
  <1>3. Turns'
    BY <1>1 DEF Turns, EndJob
  <1>4. CallsSound'
    BY <1>1, Empty DEF CallsSound
  <1>5. stage' # "rebuild"
    BY DEF EndJob
  <1> QED
    BY <1>2, <1>3, <1>4, <1>5, QuietStep

\* The pages of a job are pages.
LEMMA TouchedExist == Touched \subseteq Exists /\ Exists \subseteq Pages
  <1>1. Touched \subseteq Exists
    BY DEF Touched
  <1>2. Exists \subseteq Pages
    BY DEF Exists
  <1> QED
    BY <1>1, <1>2

\* What RebuildEdges finds out at its start.
LEMMA WorkTyped ==
  ASSUME Tables
  PROVE  WorkFor(Touched) \in Works
  <1>1. \A l \in LinksOf(Touched) : l \in Pages \X Pages
    <2>1. \A p \in Touched : p \in Pages /\ page[p].links \subseteq Pages
      BY TouchedExist DEF Tables, Exists, Bodies
    <2> QED
      BY <2>1 DEF LinksOf
  <1>2. Touched \subseteq Pages
    BY TouchedExist
  <1>3. \A l \in LinksOf(Touched) : <<l[1], l[2], "references">> \in Adjacency
    BY <1>1 DEF Adjacency, Kinds
  <1> QED
    BY <1>1, <1>2, <1>3 DEF WorkFor, Works

\* The links are those of the bodies.
LEMMA LinksOfPages ==
  ASSUME NEW S, NEW p, NEW q
  PROVE  <<p, q>> \in LinksOf(S) <=> p \in S /\ q \in page[p].links \ {p}
  BY DEF LinksOf

LEMMA LinksArePairs ==
  ASSUME NEW S, NEW l \in LinksOf(S)
  PROVE  l = <<l[1], l[2]>> /\ l[1] \in S
  <1>1. PICK p \in S : l \in {<<p, q>> : q \in page[p].links \ {p}}
    BY DEF LinksOf
  <1>2. PICK q : l = <<p, q>>
    BY <1>1
  <1> QED
    BY <1>2

LEMMA RebuildBegins ==
  ASSUME Inv, stage = "compile", stage' = "rebuild", work' = WorkFor(Touched),
         \A u \in Units : loop[u] \in {"out", "done"},
         UNCHANGED <<loop, call, touched, tables>>, Counts'
  PROVE  Inv'
  <1> USE DEF Inv, Types
  <1> DEFINE W == WorkFor(Touched)
             R == {l \in LinksOf(Touched) : l[2] \in Exists}
  <1>1. Tables' /\ NoDanglingEdges' /\ CleanPagesAccounted' /\ Exists' = Exists
    BY TablesStay
  <1>2. UNCHANGED <<page, edges, pending, dirty, touched>>
    BY DEF tables
  <1>3. Touched' = Touched
    BY <1>1, <1>2 DEF Touched
  <1>4. Memory'
    BY WorkTyped DEF Memory, Stages
  <1>5. Turns'
    BY DEF Turns
  <1>6. CallsSound'
    BY <1>1, <1>2 DEF CallsSound, SoundOp
  <1>7. /\ W.unlink = Touched /\ W.unpend = Touched /\ W.clear = R
        /\ W.add = {<<l[1], l[2], "references">> : l \in R}
        /\ W.dead = LinksOf(Touched) \ R
    BY DEF WorkFor
  <1>8. WorkInOrder'
    <2>1. \A e \in W.add : e[1] \in Touched /\ e[2] \in Exists /\ e[3] = "references"
      BY <1>7, LinksArePairs
    <2>2. \A l \in LinksOf(Touched) : l[1] \in Touched
      BY LinksArePairs
    <2> HIDE DEF W
    <2>3. work' = W
      BY DEF W
    <2> QED
      BY <1>1, <1>2, <1>3, <1>7, <2>1, <2>2, <2>3 DEF WorkInOrder
  <1>9. ASSUME NEW p \in Touched, NEW q \in Pages
        PROVE  /\ Resolved(p, q) <=> <<p, q, "references">> \in W.add
               /\ Dead(p, q) <=> <<p, q>> \in W.dead
    <2>1. <<p, q>> \in LinksOf(Touched) <=> q \in page[p].links \ {p}
      BY LinksOfPages
    <2>2. <<p, q>> \in R <=> Resolved(p, q)
      BY <2>1 DEF Resolved
    <2>3. <<p, q, "references">> \in W.add <=> <<p, q>> \in R
      <3>1. ASSUME NEW l \in R, <<p, q, "references">> = <<l[1], l[2], "references">>
            PROVE  <<p, q>> \in R
        BY <3>1, LinksArePairs
      <3> QED
        BY <1>7, <3>1
    <2>4. <<p, q>> \in W.dead <=> Dead(p, q)
      BY <1>7, <2>1 DEF Dead
    <2> QED
      BY <2>2, <2>3, <2>4
  <1>10. EdgesInOrder' /\ PendingInOrder'
    <2> HIDE DEF W
    <2>1. work' = W
      BY DEF W
    <2>2. \A p, q : (Resolved(p, q)' <=> Resolved(p, q)) /\ (Dead(p, q)' <=> Dead(p, q))
      BY <1>1, <1>2 DEF Resolved, Dead
    <2> QED
      BY <1>3, <1>7, <1>9, <2>1, <2>2 DEF EdgesInOrder, PendingInOrder
  <1> QED
    BY <1>1, <1>4, <1>5, <1>6, <1>8, <1>10 DEF Progress

LEMMA CompileReturnsStep ==
  ASSUME Inv, CompileReturns
  PROVE  Inv'
  <1>1. UNCHANGED tables /\ Counts'
    BY DEF CompileReturns, Inv, Types, Counts, bounds
  <1>2. CASE \E u \in Units : loop[u] = "failed"
    BY <1>1, <1>2, EndJobStep DEF CompileReturns
  <1>3. CASE ~\E u \in Units : loop[u] = "failed"
    BY <1>1, <1>3, RebuildBegins DEF CompileReturns
  <1> QED
    BY <1>2, <1>3

-----------------------------------------------------------------------------
(***************************************************************************)
(* The steps of RebuildEdges                                               *)
(***************************************************************************)

\* Work that is left is left by a rebuild, and no loop is at work meanwhile.
LEMMA AtRebuild ==
  ASSUME Inv, work # NoWork
  PROVE  /\ stage = "rebuild" /\ WorkInOrder /\ EdgesInOrder /\ PendingInOrder
         /\ work \in Works
         /\ Touched \subseteq Exists /\ Exists \subseteq Pages
  BY TouchedExist DEF Inv, Types, Turns, Progress, Memory

\* One statement of the rebuild: what is left to show of it.
LEMMA RebuildStep ==
  ASSUME Inv, stage = "rebuild", UNCHANGED <<page, stage, loop, call, touched, bounds>>,
         work' \in Works, edges' \subseteq Adjacency, pending' \subseteq Pages \X Pages,
         dirty \subseteq dirty', dirty' \subseteq Exists,
         NoDanglingEdges', CleanPagesAccounted',
         WorkInOrder', EdgesInOrder', PendingInOrder'
  PROVE  Inv'
  <1> USE DEF Inv, Types
  <1>1. Exists' = Exists
    BY DEF Exists
  <1>2. Tables'
    BY <1>1 DEF Tables
  <1>3. Memory' /\ Counts'
    BY DEF Memory, Counts, bounds
  <1>4. Turns'
    BY DEF Turns
  <1>5. CallsSound'
    <2>1. \A c \in Loops : call'[c] = <<>>
      BY DEF Turns
    <2> QED
      BY <2>1, Empty DEF CallsSound
  <1>6. Progress'
    BY DEF Progress
  <1> QED
    BY <1>2, <1>3, <1>4, <1>5, <1>6

\* The pages of the job and their links are the same before and after it.
LEMMA SameLinks ==
  ASSUME UNCHANGED <<page, touched>>
  PROVE  /\ Exists' = Exists /\ Touched' = Touched
         /\ \A p, q : (Resolved(p, q)' <=> Resolved(p, q)) /\ (Dead(p, q)' <=> Dead(p, q))
  <1>1. Exists' = Exists
    BY DEF Exists
  <1>2. Touched' = Touched
    BY <1>1 DEF Touched
  <1> QED
    BY <1>1, <1>2 DEF Resolved, Dead

LEMMA DeleteEdgesForStep ==
  ASSUME Inv, NEW p \in Pages, DeleteEdgesFor(p)
  PROVE  Inv'
  <1>1. /\ p \in work.unlink /\ work.unpend = work.unlink
        /\ edges' = {e \in edges : e[1] # p} /\ dirty' = dirty \cup {p}
        /\ UNCHANGED <<page, pending, stage, loop, call, touched, bounds>>
    BY DEF DeleteEdgesFor, OutEdges
  <1>2. /\ stage = "rebuild" /\ WorkInOrder /\ EdgesInOrder /\ PendingInOrder
        /\ work \in Works
        /\ Touched \subseteq Exists /\ Exists \subseteq Pages
    BY <1>1, AtRebuild DEF NoWork
  <1>3. /\ work'.unlink = work.unlink \ {p} /\ work'.unpend = work.unpend
        /\ work'.add = work.add /\ work'.dead = work.dead /\ work'.clear = work.clear
        /\ work' \in Works
    BY <1>2 DEF DeleteEdgesFor, Works
  <1>4. /\ Exists' = Exists /\ Touched' = Touched
        /\ \A r, q : (Resolved(r, q)' <=> Resolved(r, q)) /\ (Dead(r, q)' <=> Dead(r, q))
    BY <1>1, SameLinks
  <1>5. \A r, q : Referenced(r, q)' <=> Referenced(r, q) /\ r # p
    BY <1>1 DEF Referenced
  <1>6. \A r, q : Waiting(r, q)' <=> Waiting(r, q)
    BY <1>1 DEF Waiting
  <1>7. p \in Touched
    BY <1>1, <1>2 DEF WorkInOrder
  <1>8. WorkInOrder'
    BY <1>1, <1>2, <1>3, <1>4 DEF WorkInOrder
  <1>9. EdgesInOrder'
    <2> SUFFICES ASSUME NEW r \in Touched, NEW q \in Pages
                 PROVE  /\ r \notin work'.unlink =>
                            (Resolved(r, q) <=> Referenced(r, q)'
                                                \/ <<r, q, "references">> \in work'.add)
                        /\ r \in work'.unlink =>
                            (Resolved(r, q) <=> <<r, q, "references">> \in work'.add)
      BY <1>4 DEF EdgesInOrder
    <2>1. /\ r \notin work.unlink =>
              (Resolved(r, q) <=> Referenced(r, q) \/ <<r, q, "references">> \in work.add)
          /\ r \in work.unlink => (Resolved(r, q) <=> <<r, q, "references">> \in work.add)
      BY <1>2 DEF EdgesInOrder
    <2>2. Referenced(r, q)' <=> Referenced(r, q) /\ r # p
      BY <1>5
    <2> QED
      BY <1>1, <1>3, <2>1, <2>2
  <1>10. PendingInOrder'
    BY <1>2, <1>3, <1>4, <1>6 DEF PendingInOrder
  <1>11. CleanPagesAccounted'
    BY <1>1, <1>5, <1>6, CleanStay DEF Inv
  <1>12. NoDanglingEdges'
    BY <1>1, <1>4 DEF Inv, NoDanglingEdges
  <1>13. /\ edges' \subseteq Adjacency /\ pending' \subseteq Pages \X Pages
         /\ dirty \subseteq dirty' /\ dirty' \subseteq Exists
    BY <1>1, <1>2, <1>7 DEF Inv, Types, Tables
  <1> QED
    BY <1>1, <1>2, <1>3, <1>8, <1>9, <1>10, <1>11, <1>12, <1>13, RebuildStep

LEMMA DeletePendingLinksForStep ==
  ASSUME Inv, NEW p \in Pages, DeletePendingLinksFor(p)
  PROVE  Inv'
  <1>1. /\ p \in work.unpend \ work.unlink
        /\ pending' = {l \in pending : l[1] # p}
        /\ UNCHANGED <<page, edges, dirty, stage, loop, call, touched, bounds>>
    BY DEF DeletePendingLinksFor
  <1>2. /\ stage = "rebuild" /\ WorkInOrder /\ EdgesInOrder /\ PendingInOrder
        /\ work \in Works
        /\ Touched \subseteq Exists /\ Exists \subseteq Pages
    BY <1>1, AtRebuild DEF NoWork
  <1>3. /\ work'.unlink = work.unlink /\ work'.unpend = work.unpend \ {p}
        /\ work'.add = work.add /\ work'.dead = work.dead /\ work'.clear = work.clear
        /\ work' \in Works
    BY <1>2 DEF DeletePendingLinksFor, Works
  <1>4. /\ Exists' = Exists /\ Touched' = Touched
        /\ \A r, q : (Resolved(r, q)' <=> Resolved(r, q)) /\ (Dead(r, q)' <=> Dead(r, q))
    BY <1>1, SameLinks
  <1>5. \A r, q : Referenced(r, q)' <=> Referenced(r, q)
    BY <1>1 DEF Referenced
  <1>6. \A r, q : Waiting(r, q)' <=> Waiting(r, q) /\ r # p
    BY <1>1 DEF Waiting
  <1>7. p \in Touched /\ p \in dirty
    BY <1>1, <1>2 DEF WorkInOrder
  <1>8. WorkInOrder'
    BY <1>1, <1>2, <1>3, <1>4 DEF WorkInOrder
  <1>9. EdgesInOrder'
    BY <1>2, <1>3, <1>4, <1>5 DEF EdgesInOrder
  <1>10. PendingInOrder'
    <2> SUFFICES ASSUME NEW r \in Touched, NEW q \in Pages
                 PROVE  /\ r \notin work'.unpend =>
                            (Dead(r, q) <=> Waiting(r, q)' \/ <<r, q>> \in work'.dead)
                        /\ r \in work'.unpend => (Dead(r, q) <=> <<r, q>> \in work'.dead)
      BY <1>4 DEF PendingInOrder
    <2>1. /\ r \notin work.unpend => (Dead(r, q) <=> Waiting(r, q) \/ <<r, q>> \in work.dead)
          /\ r \in work.unpend => (Dead(r, q) <=> <<r, q>> \in work.dead)
      BY <1>2 DEF PendingInOrder
    <2>2. Waiting(r, q)' <=> Waiting(r, q) /\ r # p
      BY <1>6
    <2>3. p \in work.unpend
      BY <1>1
    <2> QED
      BY <1>3, <2>1, <2>2, <2>3
  <1>11. CleanPagesAccounted'
    BY <1>1, <1>5, <1>6, <1>7, CleanStay DEF Inv
  <1>12. NoDanglingEdges'
    BY <1>1, <1>4 DEF Inv, NoDanglingEdges
  <1>13. /\ edges' \subseteq Adjacency /\ pending' \subseteq Pages \X Pages
         /\ dirty \subseteq dirty' /\ dirty' \subseteq Exists
    BY <1>1 DEF Inv, Types, Tables
  <1> QED
    BY <1>1, <1>2, <1>3, <1>8, <1>9, <1>10, <1>11, <1>12, <1>13, RebuildStep

LEMMA AddReferencesStep ==
  ASSUME Inv, AddReferences
  PROVE  Inv'
  <1>1. /\ work.unpend = {} /\ work.add # {} /\ edges' = edges \cup work.add
        /\ UNCHANGED <<page, pending, dirty, stage, loop, call, touched, bounds>>
    BY DEF AddReferences
  <1>2. /\ stage = "rebuild" /\ WorkInOrder /\ EdgesInOrder /\ PendingInOrder
        /\ work \in Works
        /\ Touched \subseteq Exists /\ Exists \subseteq Pages
    BY <1>1, AtRebuild DEF NoWork
  <1>3. /\ work'.unlink = work.unlink /\ work'.unpend = work.unpend
        /\ work'.add = {} /\ work'.dead = work.dead /\ work'.clear = work.clear
        /\ work' \in Works
    BY <1>2 DEF AddReferences, Works
  <1>4. /\ Exists' = Exists /\ Touched' = Touched
        /\ \A r, q : (Resolved(r, q)' <=> Resolved(r, q)) /\ (Dead(r, q)' <=> Dead(r, q))
    BY <1>1, SameLinks
  <1>5. \A r, q : Referenced(r, q)' <=> Referenced(r, q) \/ <<r, q, "references">> \in work.add
    BY <1>1 DEF Referenced
  <1>6. \A r, q : Waiting(r, q)' <=> Waiting(r, q)
    BY <1>1 DEF Waiting
  <1>7. work.unlink = {} /\ Touched \subseteq dirty
    BY <1>1, <1>2 DEF WorkInOrder
  <1>8. WorkInOrder'
    BY <1>1, <1>2, <1>3, <1>4 DEF WorkInOrder
  <1>9. EdgesInOrder'
    BY <1>2, <1>3, <1>4, <1>5, <1>7 DEF EdgesInOrder
  <1>10. PendingInOrder'
    BY <1>2, <1>3, <1>4, <1>6 DEF PendingInOrder
  <1>11. CleanPagesAccounted'
    <2>1. ASSUME NEW r \in Pages \ dirty', NEW q \in Pages
          PROVE  <<r, q, "references">> \notin work.add
      BY <1>1, <1>2, <1>7, <2>1 DEF WorkInOrder
    <2> QED
      BY <1>1, <1>5, <1>6, <2>1, CleanStay DEF Inv
  <1>12. NoDanglingEdges'
    <2>1. \A e \in work.add : e[2] \in Exists /\ e[1] \in Exists
      BY <1>2 DEF WorkInOrder
    <2> QED
      BY <1>1, <1>4, <2>1 DEF Inv, NoDanglingEdges
  <1>13. /\ edges' \subseteq Adjacency /\ pending' \subseteq Pages \X Pages
         /\ dirty \subseteq dirty' /\ dirty' \subseteq Exists
    BY <1>1, <1>2 DEF Inv, Types, Tables, Works
  <1> QED
    BY <1>1, <1>2, <1>3, <1>8, <1>9, <1>10, <1>11, <1>12, <1>13, RebuildStep

LEMMA RecordPendingStep ==
  ASSUME Inv, NEW l \in Pages \X Pages, RecordPending(l)
  PROVE  Inv'
  <1>1. /\ work.unpend = {} /\ l \in work.dead /\ pending' = pending \cup {l}
        /\ UNCHANGED <<page, edges, dirty, stage, loop, call, touched, bounds>>
    BY DEF RecordPending
  <1>2. /\ stage = "rebuild" /\ WorkInOrder /\ EdgesInOrder /\ PendingInOrder
        /\ work \in Works
        /\ Touched \subseteq Exists /\ Exists \subseteq Pages
    BY <1>1, AtRebuild DEF NoWork
  <1>3. /\ work'.unlink = work.unlink /\ work'.unpend = work.unpend
        /\ work'.add = work.add /\ work'.dead = work.dead \ {l} /\ work'.clear = work.clear
        /\ work' \in Works
    BY <1>2 DEF RecordPending, Works
  <1>4. /\ Exists' = Exists /\ Touched' = Touched
        /\ \A r, q : (Resolved(r, q)' <=> Resolved(r, q)) /\ (Dead(r, q)' <=> Dead(r, q))
    BY <1>1, SameLinks
  <1>5. \A r, q : Referenced(r, q)' <=> Referenced(r, q)
    BY <1>1 DEF Referenced
  <1>6. \A r, q : Waiting(r, q)' <=> Waiting(r, q) \/ <<r, q>> = l
    BY <1>1 DEF Waiting
  <1>7. l[1] \in dirty
    BY <1>1, <1>2 DEF WorkInOrder
  <1>8. WorkInOrder'
    BY <1>1, <1>2, <1>3, <1>4 DEF WorkInOrder
  <1>9. EdgesInOrder'
    BY <1>2, <1>3, <1>4, <1>5 DEF EdgesInOrder
  <1>10. PendingInOrder'
    BY <1>1, <1>2, <1>3, <1>4, <1>6 DEF PendingInOrder
  <1>11. CleanPagesAccounted'
    <2>1. \A r \in Pages \ dirty', q \in Pages : <<r, q>> # l
      BY <1>1, <1>7
    <2> QED
      BY <1>1, <1>5, <1>6, <2>1, CleanStay DEF Inv
  <1>12. NoDanglingEdges'
    BY <1>1, <1>4 DEF Inv, NoDanglingEdges
  <1>13. /\ edges' \subseteq Adjacency /\ pending' \subseteq Pages \X Pages
         /\ dirty \subseteq dirty' /\ dirty' \subseteq Exists
    BY <1>1 DEF Inv, Types, Tables
  <1> QED
    BY <1>1, <1>2, <1>3, <1>8, <1>9, <1>10, <1>11, <1>12, <1>13, RebuildStep

\* Clearing finds nothing: the pending links of the page are gone before.
LEMMA ClearPendingStep ==
  ASSUME Inv, NEW l \in Pages \X Pages, ClearPending(l)
  PROVE  Inv'
  <1>1. /\ work.unpend = {} /\ work.dead = {} /\ l \in work.clear /\ pending' = pending \ {l}
        /\ UNCHANGED <<page, edges, dirty, stage, loop, call, touched, bounds>>
    BY DEF ClearPending
  <1>2. /\ stage = "rebuild" /\ WorkInOrder /\ EdgesInOrder /\ PendingInOrder
        /\ work \in Works
        /\ Touched \subseteq Exists /\ Exists \subseteq Pages
    BY <1>1, AtRebuild DEF NoWork
  <1>3. /\ work'.unlink = work.unlink /\ work'.unpend = work.unpend
        /\ work'.add = work.add /\ work'.dead = work.dead /\ work'.clear = work.clear \ {l}
        /\ work' \in Works
    BY <1>2 DEF ClearPending, Works
  <1>4. /\ Exists' = Exists /\ Touched' = Touched
        /\ \A r, q : (Resolved(r, q)' <=> Resolved(r, q)) /\ (Dead(r, q)' <=> Dead(r, q))
    BY <1>1, SameLinks
  <1>5. \A r, q : Referenced(r, q)' <=> Referenced(r, q)
    BY <1>1 DEF Referenced
  <1>6. l \notin pending
    <2>1. l[1] \in Touched /\ l[2] \in Exists /\ l[2] \in Pages /\ l = <<l[1], l[2]>>
      BY <1>1, <1>2 DEF WorkInOrder
    <2>2. Dead(l[1], l[2]) <=> Waiting(l[1], l[2])
      BY <1>1, <1>2, <2>1 DEF PendingInOrder
    <2> QED
      BY <2>1, <2>2 DEF Dead, Waiting
  <1>7. pending' = pending /\ \A r, q : Waiting(r, q)' <=> Waiting(r, q)
    BY <1>1, <1>6 DEF Waiting
  <1>8. WorkInOrder'
    BY <1>1, <1>2, <1>3, <1>4 DEF WorkInOrder
  <1>9. EdgesInOrder'
    BY <1>2, <1>3, <1>4, <1>5 DEF EdgesInOrder
  <1>10. PendingInOrder'
    BY <1>2, <1>3, <1>4, <1>7 DEF PendingInOrder
  <1>11. CleanPagesAccounted'
    BY <1>1, <1>5, <1>7, CleanStay DEF Inv
  <1>12. NoDanglingEdges'
    BY <1>1, <1>4 DEF Inv, NoDanglingEdges
  <1>13. /\ edges' \subseteq Adjacency /\ pending' \subseteq Pages \X Pages
         /\ dirty \subseteq dirty' /\ dirty' \subseteq Exists
    BY <1>1, <1>7 DEF Inv, Types, Tables
  <1> QED
    BY <1>1, <1>2, <1>3, <1>8, <1>9, <1>10, <1>11, <1>12, <1>13, RebuildStep

\* With nothing left to do the pages of the job are as their bodies say, and
\* only they are clean from here on.
LEMMA RebuildReturnsStep ==
  ASSUME Inv, RebuildReturns
  PROVE  Inv'
  <1> USE DEF Inv, Types
  <1>1. /\ stage = "rebuild" /\ work = NoWork /\ stage' = "reconcile"
        /\ dirty' = dirty \ Touched
        /\ UNCHANGED <<page, edges, pending, loop, call, touched, work, bounds>>
    BY DEF RebuildReturns
  <1>2. WorkInOrder /\ EdgesInOrder /\ PendingInOrder
    BY <1>1 DEF Progress
  <1>3. Exists' = Exists
    BY <1>1 DEF Exists
  <1>4. Tables' /\ Memory' /\ Counts'
    BY <1>1, <1>3 DEF Tables, Memory, Stages, Counts, bounds
  <1>5. \A c \in Loops : call'[c] = <<>>
    BY <1>1 DEF Turns
  <1>6. Turns'
    BY <1>1, <1>5 DEF Turns
  <1>7. CallsSound'
    BY <1>5, Empty DEF CallsSound
  <1>8. NoDanglingEdges'
    BY <1>1, <1>3 DEF NoDanglingEdges
  <1>9. CleanPagesAccounted
    OBVIOUS
  <1>10. ASSUME NEW p \in Exists \ dirty', NEW q \in Pages
         PROVE  /\ Referenced(p, q) \/ Waiting(p, q) <=> q \in page[p].links \ {p}
                /\ ~(Referenced(p, q) /\ Waiting(p, q))
    <2>1. CASE p \notin dirty
      BY <1>9, <1>10, <2>1 DEF CleanPagesAccounted
    <2>2. CASE p \in dirty
      <3>1. p \in Touched
        BY <1>1, <1>10, <2>2
      <3>2. Resolved(p, q) <=> Referenced(p, q)
        BY <1>1, <1>2, <3>1 DEF EdgesInOrder, NoWork
      <3>3. Dead(p, q) <=> Waiting(p, q)
        BY <1>1, <1>2, <3>1 DEF PendingInOrder, NoWork
      <3> QED
        BY <3>2, <3>3 DEF Resolved, Dead
    <2> QED
      BY <2>1, <2>2
  <1>11. CleanPagesAccounted'
    BY <1>1, <1>3, <1>10 DEF CleanPagesAccounted, Referenced, Waiting
  <1>12. Progress'
    BY <1>1, NotRebuilding
  <1> QED
    BY <1>4, <1>6, <1>7, <1>8, <1>11, <1>12

LEMMA RebuildInv ==
  ASSUME Inv, Rebuild
  PROVE  Inv'
  <1>1. CASE \E p \in Pages : DeleteEdgesFor(p) \/ DeletePendingLinksFor(p)
    BY <1>1, DeleteEdgesForStep, DeletePendingLinksForStep
  <1>2. CASE AddReferences
    BY <1>2, AddReferencesStep
  <1>3. CASE \E l \in Pages \X Pages : RecordPending(l) \/ ClearPending(l)
    BY <1>3, RecordPendingStep, ClearPendingStep
  <1>4. CASE RebuildReturns
    BY <1>4, RebuildReturnsStep
  <1> QED
    BY <1>1, <1>2, <1>3, <1>4 DEF Rebuild

-----------------------------------------------------------------------------
(***************************************************************************)
(* The invariant is inductive, and what follows from it                    *)
(***************************************************************************)

LEMMA InitInv ==
  ASSUME Init
  PROVE  Inv
  <1>1. \A p \in Pages : page[p] = NoPage
    BY DEF Init
  <1>2. Exists = {}
    BY <1>1 DEF Exists
  <1>3. <<>> \in Seq(Ops) /\ <<>> \in Seq(Ids)
    OBVIOUS
  <1>4. Tables
    BY <1>1 DEF Init, Tables
  <1>5. Memory
    BY <1>3 DEF Init, Memory, Stages, LoopStates, Works, NoWork
  <1>6. Counts
    BY DEF Init, Counts
  <1>7. Turns
    BY DEF Init, Turns
  <1>8. CallsSound
    <2>1. \A c \in Loops : call[c] = <<>>
      BY DEF Init
    <2> QED
      BY <2>1, Empty DEF CallsSound
  <1>9. Progress /\ NoDanglingEdges
    BY DEF Init, Progress, NoDanglingEdges
  <1>10. CleanPagesAccounted
    BY <1>2 DEF CleanPagesAccounted
  <1> QED
    BY <1>4, <1>5, <1>6, <1>7, <1>8, <1>9, <1>10 DEF Inv, Types

LEMMA NextInv ==
  ASSUME Inv, [Next]_vars
  PROVE  Inv'
  <1>1. CASE \E U \in SUBSET Units : BeginCompile(U)
    BY <1>1, BeginCompileStep
  <1>2. CASE \E u \in Units : UnitStep(u)
    BY <1>2, UnitStepInv
  <1>3. CASE CompileReturns
    BY <1>3, CompileReturnsStep
  <1>4. CASE Rebuild
    BY <1>4, RebuildInv
  <1>5. CASE LoopStep(Reconciler)
    BY <1>5, LoopStepInv
  <1>6. CASE ReconcileReturns
    <2>1. EndJob /\ UNCHANGED tables /\ Counts'
      BY <1>6 DEF ReconcileReturns, Inv, Types, Counts, bounds
    <2> QED
      BY <2>1, EndJobStep
  <1>7. CASE BreakOff
    <2>1. EndJob /\ UNCHANGED tables /\ Counts'
      BY <1>7 DEF BreakOff, Inv, Types, Counts
    <2> QED
      BY <2>1, EndJobStep
  <1>8. CASE UNCHANGED vars
    <2>1. UNCHANGED <<tables, stage, loop, call, touched, work, jobs, calls, faults>>
      BY <1>8 DEF vars, bounds
    <2>2. Tables' /\ NoDanglingEdges' /\ CleanPagesAccounted' /\ Exists' = Exists
          /\ UNCHANGED <<page, edges, pending, dirty>>
      BY <2>1, TablesStay DEF Inv, Types, tables
    <2>3. Memory' /\ Counts' /\ Turns'
      BY <2>1 DEF Inv, Types, Memory, Counts, Turns
    <2>4. CallsSound'
      BY <2>1, <2>2 DEF Inv, CallsSound, SoundOp
    <2>5. WorkInOrder' <=> WorkInOrder
      BY <2>1, <2>2, SameLinks DEF WorkInOrder
    <2>6. EdgesInOrder' <=> EdgesInOrder
      BY <2>1, <2>2, SameLinks DEF EdgesInOrder, Referenced
    <2>7. PendingInOrder' <=> PendingInOrder
      BY <2>1, <2>2, SameLinks DEF PendingInOrder, Waiting
    <2>8. Progress'
      BY <2>1, <2>5, <2>6, <2>7 DEF Inv, Progress
    <2> QED
      BY <2>2, <2>3, <2>4, <2>8 DEF Inv, Types
  <1> QED
    BY <1>1, <1>2, <1>3, <1>4, <1>5, <1>6, <1>7, <1>8 DEF Next

LEMMA Invariance == Spec => []Inv
  <1>1. Init => Inv
    BY InitInv
  <1>2. Inv /\ [Next]_vars => Inv'
    BY NextInv
  <1> QED
    BY <1>1, <1>2, PTL DEF Spec

-----------------------------------------------------------------------------
(***************************************************************************)
(* Event times: a page that the loops of a job touched and left without a  *)
(* time is the business of some loop until Compile is through              *)
(***************************************************************************)

\* The end of a call is its last operation.
ReturnLast(s) == \A i \in 1..Len(s) : s[i].op = "return" => i = Len(s)
ReturnsLast == \A c \in Loops : ReturnLast(call[c])

\* A page without event time among those that some unit touched.
Late(p) ==
    /\ p \in Exists /\ ~page[p].dated
    /\ \E u \in Units : p \in Values(touched[u])

\* A loop that will come to look at the page: it still runs and has touched it or
\* is about to, or its backfill has not got there.
Owes(u, p) ==
    \/ /\ loop[u] = "running"
       /\ p \in Values(touched[u]) \/ \E o \in Values(call[u]) : o.op = "return" /\ o.id = p
    \/ /\ loop[u] = "filling"
       /\ \E o \in Values(call[u]) : o.op \in {"fill", "writeback"} /\ o.id = p

Caught == \A p \in Pages : Late(p) => \E u \in Units : Owes(u, p)

\* Where the end of a call is in what is left of it.
LEMMA LastOfTail ==
  ASSUME NEW T, NEW s \in Seq(T), s # <<>>, ReturnLast(s)
  PROVE  ReturnLast(Tail(s))
  <1> DEFINE t == Tail(s)
  <1>1. Len(t) = Len(s) - 1 /\ Len(s) \in Nat
    BY HeadTailProperties
  <1>2. \A i \in 1..Len(t) : t[i] = s[i + 1]
    BY HeadTailProperties
  <1> HIDE DEF t
  <1>3. \A i \in 1..Len(t) : t[i].op = "return" => i + 1 = Len(s)
    BY <1>1, <1>2 DEF ReturnLast
  <1>4. ReturnLast(t)
    BY <1>1, <1>3 DEF ReturnLast
  <1> QED
    BY <1>4 DEF t

LEMMA LastOfConcat ==
  ASSUME NEW T, NEW s \in Seq(T), NEW t \in Seq(T), ReturnLast(t),
         \A i \in 1..Len(s) : s[i].op # "return"
  PROVE  ReturnLast(s \o t)
  <1> DEFINE x == s \o t
  <1>1. /\ Len(x) = Len(s) + Len(t) /\ Len(s) \in Nat /\ Len(t) \in Nat
        /\ \A i \in 1..(Len(s) + Len(t)) : x[i] = IF i <= Len(s) THEN s[i] ELSE t[i - Len(s)]
    BY ConcatProperties
  <1> HIDE DEF x
  <1>2. ASSUME NEW i \in 1..Len(x), x[i].op = "return" PROVE i = Len(x)
    <2>1. i > Len(s) /\ x[i] = t[i - Len(s)] /\ i - Len(s) \in 1..Len(t)
      BY <1>1, <1>2
    <2>2. i - Len(s) = Len(t)
      BY <1>2, <2>1 DEF ReturnLast
    <2> QED
      BY <1>1, <2>1, <2>2
  <1>3. ReturnLast(x)
    BY <1>2 DEF ReturnLast
  <1> QED
    BY <1>3 DEF x

\* One more operation ends a sequence that has no end.
LEMMA EndsWith ==
  ASSUME NEW T, NEW s \in Seq(T), NEW o \in T, \A i \in 1..Len(s) : s[i].op # "return"
  PROVE  ReturnLast(s \o <<o>>) /\ o \in Values(s \o <<o>>)
  <1>1. <<o>> \in Seq(T) /\ Len(<<o>>) = 1 /\ <<o>>[1] = o
    OBVIOUS
  <1>2. ReturnLast(<<o>>)
    BY <1>1 DEF ReturnLast
  <1>3. ReturnLast(s \o <<o>>)
    BY <1>1, <1>2, LastOfConcat
  <1>4. /\ Len(s \o <<o>>) = Len(s) + 1 /\ Len(s) \in Nat
        /\ (s \o <<o>>)[Len(s) + 1] = o
    BY <1>1, ConcatProperties
  <1> QED
    BY <1>3, <1>4 DEF Values

LEMMA NoEnd ==
  ASSUME NEW T, NEW s \in Seq(T), NEW t \in Seq(T),
         \A i \in 1..Len(s) : s[i].op # "return", \A i \in 1..Len(t) : t[i].op # "return"
  PROVE  s \o t \in Seq(T) /\ \A i \in 1..Len(s \o t) : (s \o t)[i].op # "return"
  <1> DEFINE x == s \o t
  <1>1. /\ x \in Seq(T) /\ Len(x) = Len(s) + Len(t) /\ Len(s) \in Nat /\ Len(t) \in Nat
        /\ \A i \in 1..(Len(s) + Len(t)) : x[i] = IF i <= Len(s) THEN s[i] ELSE t[i - Len(s)]
    BY ConcatProperties
  <1> HIDE DEF x
  <1>2. ASSUME NEW i \in 1..Len(x) PROVE x[i].op # "return"
    <2>1. CASE i <= Len(s)
      BY <1>1, <2>1
    <2>2. CASE i > Len(s)
      <3>1. x[i] = t[i - Len(s)] /\ i - Len(s) \in 1..Len(t)
        BY <1>1, <2>2
      <3> QED
        BY <3>1
    <2> QED
      BY <1>1, <2>1, <2>2
  <1>3. x \in Seq(T) /\ \A i \in 1..Len(x) : x[i].op # "return"
    BY <1>1, <1>2
  <1> QED
    BY <1>3 DEF x

\* A call ends with its return, and only there.
LEMMA LastOfPlan ==
  ASSUME NEW p, NEW id, NEW ips \in Args(Points), NEW es \in EdgeArgs
  PROVE  /\ ReturnLast(CallPlan(p, id, ips, es))
         /\ Return(id) \in Values(CallPlan(p, id, ips, es))
  <1>1. PICK f : f = [i \in 1..Len(ips) |-> Link(Pair(ips[i], p, "has_page"))]
    OBVIOUS
  <1>2. PICK g : g = [i \in 1..Len(es) |-> Link(Pair(p, es[i][1], es[i][2]))]
    OBVIOUS
  <1>3. PICK T : T = {Return(id)} \cup {f[i] : i \in 1..Len(ips)} \cup {g[i] : i \in 1..Len(es)}
    OBVIOUS
  <1>4. Len(ips) \in Nat /\ Len(es) \in Nat
    BY ArgsAreSeq DEF EdgeArgs
  <1>5. f \in [1..Len(ips) -> T] /\ \A i \in 1..Len(ips) : f[i].op # "return"
    BY <1>1, <1>3 DEF Link
  <1>6. g \in [1..Len(es) -> T] /\ \A i \in 1..Len(es) : g[i].op # "return"
    BY <1>2, <1>3 DEF Link
  <1>7. /\ f \in Seq(T) /\ g \in Seq(T) /\ Return(id) \in T
        /\ Len(f) = Len(ips) /\ Len(g) = Len(es)
    BY <1>3, <1>4, <1>5, <1>6
  <1>8. f \o g \in Seq(T) /\ \A i \in 1..Len(f \o g) : (f \o g)[i].op # "return"
    BY <1>5, <1>6, <1>7, NoEnd
  <1>9. CallPlan(p, id, ips, es) = (f \o g) \o <<Return(id)>>
    BY <1>1, <1>2 DEF CallPlan
  <1>10. PICK s, o : s = f \o g /\ o = Return(id)
    OBVIOUS
  <1>11. s \in Seq(T) /\ o \in T /\ \A i \in 1..Len(s) : s[i].op # "return"
    BY <1>7, <1>8, <1>10
  <1>12. ReturnLast(s \o <<o>>) /\ o \in Values(s \o <<o>>)
    BY <1>11, EndsWith
  <1> QED
    BY <1>9, <1>10, <1>12

\* The backfill looks at every id.
LEMMA FillsAll ==
  ASSUME NEW s \in Seq(Ids)
  PROVE  /\ ReturnLast(Fills(s))
         /\ \A id \in Values(s) : \E o \in Values(Fills(s)) : o.op = "fill" /\ o.id = id
  <1>1. Len(s) \in Nat
    OBVIOUS
  <1>2. /\ DOMAIN Fills(s) = 1..Len(s)
        /\ \A i \in 1..Len(s) : Fills(s)[i].op = "fill" /\ Fills(s)[i].id = s[i]
    BY DEF Fills, Fill
  <1>3. Len(Fills(s)) = Len(s)
    BY <1>1, <1>2, FillsSound
  <1> QED
    BY <1>2, <1>3 DEF ReturnLast, Values

-----------------------------------------------------------------------------
\* One loop's operations replaced.
LEMMA ReturnsStay ==
  ASSUME ReturnsLast, Memory, NEW c \in Loops, NEW x, call' = [call EXCEPT ![c] = x], ReturnLast(x)
  PROVE  ReturnsLast'
  <1>1. call'[c] = x /\ \A d \in Loops \ {c} : call'[d] = call[d]
    BY DEF Memory
  <1> QED
    BY <1>1 DEF ReturnsLast, ReturnLast

\* A step of a loop keeps the end of every call at its end.
LEMMA ReturnsOfLoop ==
  ASSUME Inv, ReturnsLast, NEW c \in Loops, LoopStep(c)
  PROVE  ReturnsLast'
  <1>1. Memory /\ call[c] \in Seq(Ops) /\ ReturnLast(call[c])
    BY DEF Inv, Types, Memory, ReturnsLast
  <1>2. ASSUME NEW p \in Pages, NEW ips \in Args(Points), NEW es \in EdgeArgs, NEW body \in Bodies,
               NEW id \in {p, Misspelt}, WikiWrite(c, p, id, body, ips, es)
        PROVE  ReturnsLast'
    <2>1. call' = [call EXCEPT ![c] = CallPlan(p, id, ips, es)]
      BY <1>2 DEF WikiWrite
    <2> QED
      BY <1>1, <2>1, LastOfPlan, ReturnsStay
  <1>3. ASSUME NEW id \in Pages, Refuse(c, id) PROVE ReturnsLast'
    BY <1>3 DEF Refuse, ReturnsLast
  <1>4. CASE AddLink(c)
    <2>1. call[c] # <<>> /\ call' = [call EXCEPT ![c] = Tail(call[c])]
      BY <1>4 DEF AddLink
    <2> QED
      BY <1>1, <2>1, LastOfTail, ReturnsStay
  <1>5. CASE EndCall(c)
    <2>1. call' = [call EXCEPT ![c] = <<>>]
      BY <1>5 DEF EndCall
    <2>2. ReturnLast(<<>>)
      BY DEF ReturnLast
    <2> QED
      BY <1>1, <2>1, <2>2, ReturnsStay
  <1>6. CASE CallFails(c)
    <2>1. call' = [call EXCEPT ![c] = <<call[c][Len(call[c])]>>]
      BY <1>6 DEF CallFails
    <2>2. ReturnLast(<<call[c][Len(call[c])]>>)
      BY DEF ReturnLast
    <2> QED
      BY <1>1, <2>1, <2>2, ReturnsStay
  <1> QED
    BY <1>2, <1>3, <1>4, <1>5, <1>6 DEF LoopStep

LEMMA ReturnsOfUnit ==
  ASSUME Inv, ReturnsLast, NEW u \in Units, UnitStep(u)
  PROVE  ReturnsLast'
  <1>1. /\ Memory /\ u \in Loops /\ call[u] \in Seq(Ops) /\ ReturnLast(call[u])
        /\ touched[u] \in Seq(Ids) /\ ReturnLast(<<>>)
    BY DEF Inv, Types, Memory, ReturnsLast, ReturnLast
  <1>2. CASE StartLoop(u) \/ LoopFails(u) \/ LoopDone(u)
    BY <1>2 DEF StartLoop, LoopFails, LoopDone, ReturnsLast
  <1>3. CASE LoopStep(u)
    BY <1>1, <1>3, ReturnsOfLoop
  <1>4. CASE EndLoop(u)
    <2>1. call' = [call EXCEPT ![u] = IF u \in Timed THEN Fills(touched[u]) ELSE <<>>]
      BY <1>4 DEF EndLoop
    <2>2. ReturnLast(IF u \in Timed THEN Fills(touched[u]) ELSE <<>>)
      BY <1>1, FillsAll
    <2> QED
      BY <1>1, <2>1, <2>2, ReturnsStay
  <1>5. CASE ReadPage(u)
    <2> DEFINE id == Head(call[u]).id
               back == WriteBack(id, page[id])
    <2>1. call[u] # <<>> /\ Tail(call[u]) \in Seq(Ops) /\ ReturnLast(Tail(call[u]))
      BY <1>1, <1>5, LastOfTail DEF ReadPage
    <2>2. call' = [call EXCEPT ![u] = IF id \in Exists /\ ~page[id].dated
                                        THEN <<back>> \o Tail(call[u]) ELSE Tail(call[u])]
      BY <1>5 DEF ReadPage
    <2>3. Seq(Ops) \subseteq Seq(Ops \cup {back}) /\ back.op # "return"
      BY DEF WriteBack
    <2> HIDE DEF back, id
    <2>4. ReturnLast(<<back>> \o Tail(call[u]))
      <3>1. <<back>> \in Seq(Ops \cup {back}) /\ Len(<<back>>) = 1 /\ <<back>>[1] = back
        OBVIOUS
      <3>2. Tail(call[u]) \in Seq(Ops \cup {back})
        BY <2>1, <2>3
      <3>3. \A i \in 1..Len(<<back>>) : <<back>>[i].op # "return"
        BY <2>3, <3>1
      <3> QED
        BY <2>1, <3>1, <3>2, <3>3, LastOfConcat
    <2> QED
      BY <1>1, <2>1, <2>2, <2>4, ReturnsStay
  <1>6. CASE WritePageBack(u) \/ WriteBackFails(u)
    <2>1. call[u] # <<>> /\ call' = [call EXCEPT ![u] = Tail(call[u])]
      BY <1>6 DEF WritePageBack, WriteBackFails
    <2> QED
      BY <1>1, <2>1, LastOfTail, ReturnsStay
  <1> QED
    BY <1>2, <1>3, <1>4, <1>5, <1>6 DEF UnitStep

LEMMA ReturnsInv ==
  ASSUME Inv, ReturnsLast, [Next]_vars
  PROVE  ReturnsLast'
  <1>1. CASE EndJob
    BY <1>1 DEF EndJob, ReturnsLast, ReturnLast
  <1>2. CASE UNCHANGED call
    BY <1>2 DEF ReturnsLast
  <1>3. CASE Rebuild
    BY <1>2, <1>3 DEF Rebuild, DeleteEdgesFor, DeletePendingLinksFor, AddReferences,
       RecordPending, ClearPending, RebuildReturns
  <1> QED
    BY <1>1, <1>2, <1>3, ReturnsOfLoop, ReturnsOfUnit
    DEF Next, vars, BeginCompile, CompileReturns, ReconcileReturns, BreakOff


-----------------------------------------------------------------------------
\* What the backfill is made of.
FillsOnly ==
    \A u \in Units : loop[u] = "filling" =>
        \A o \in Values(call[u]) : o.op \in {"fill", "writeback"}

LEMMA FillsStay ==
  ASSUME FillsOnly, Memory, NEW c \in Loops, NEW x, call' = [call EXCEPT ![c] = x],
         UNCHANGED loop,
         c \in Units /\ loop[c] = "filling" => \A o \in Values(x) : o.op \in {"fill", "writeback"}
  PROVE  FillsOnly'
  <1>1. call'[c] = x /\ \A d \in Loops \ {c} : call'[d] = call[d]
    BY DEF Memory
  <1> QED
    BY <1>1 DEF FillsOnly

\* The backfill makes no calls.
LEMMA FillsOfLoop ==
  ASSUME Inv, FillsOnly, NEW c \in Loops, LoopStep(c)
  PROVE  FillsOnly'
  <1>1. Memory /\ call[c] \in Seq(Ops)
    BY DEF Inv, Types, Memory
  <1>2. ASSUME NEW p \in Pages, NEW ips \in Args(Points), NEW es \in EdgeArgs, NEW body \in Bodies,
               NEW id \in {p, Misspelt}, WikiWrite(c, p, id, body, ips, es)
        PROVE  FillsOnly'
    <2>1. PICK x : call' = [call EXCEPT ![c] = x]
      BY <1>2 DEF WikiWrite
    <2>2. UNCHANGED loop /\ (c \in Units => loop[c] # "filling")
      BY <1>2 DEF WikiWrite, CanCall
    <2> QED
      BY <1>1, <2>1, <2>2, FillsStay
  <1>3. ASSUME NEW id \in Pages, Refuse(c, id) PROVE FillsOnly'
    BY <1>3 DEF Refuse, FillsOnly
  <1>4. CASE AddLink(c)
    <2>1. call[c] # <<>> /\ call' = [call EXCEPT ![c] = Tail(call[c])] /\ UNCHANGED loop
      BY <1>4 DEF AddLink
    <2>2. Values(Tail(call[c])) \subseteq Values(call[c])
      BY <1>1, <2>1, HeadTail
    <2> QED
      BY <1>1, <2>1, <2>2, FillsStay DEF FillsOnly
  <1>5. CASE EndCall(c)
    <2>1. call' = [call EXCEPT ![c] = <<>>] /\ UNCHANGED loop
      BY <1>5 DEF EndCall
    <2> QED
      BY <1>1, <2>1, Empty, FillsStay
  <1>6. CASE CallFails(c)
    <2>1. call[c] # <<>> /\ UNCHANGED loop /\ call' = [call EXCEPT ![c] = <<call[c][Len(call[c])]>>]
      BY <1>6 DEF CallFails
    <2>2. Values(<<call[c][Len(call[c])]>>) \subseteq Values(call[c])
      BY <1>1, <2>1, LastOf
    <2> QED
      BY <1>1, <2>1, <2>2, FillsStay DEF FillsOnly
  <1> QED
    BY <1>2, <1>3, <1>4, <1>5, <1>6 DEF LoopStep

LEMMA FillsOfUnit ==
  ASSUME Inv, FillsOnly, NEW u \in Units, UnitStep(u)
  PROVE  FillsOnly'
  <1>1. /\ Memory /\ u \in Loops /\ call[u] \in Seq(Ops)
        /\ touched[u] \in Seq(Ids) /\ Values(<<>>) = {}
    BY Empty DEF Inv, Types, Memory
  <1>2. CASE StartLoop(u)
    <2>1. call[u] = <<>>
      BY <1>2 DEF StartLoop, Inv, Turns
    <2> QED
      BY <1>1, <1>2, <2>1 DEF StartLoop, FillsOnly
  <1>3. CASE LoopStep(u)
    BY <1>1, <1>3, FillsOfLoop
  <1>4. CASE EndLoop(u)
    <2> DEFINE x == IF u \in Timed THEN Fills(touched[u]) ELSE <<>>
    <2>1. call' = [call EXCEPT ![u] = x] /\ loop' = [loop EXCEPT ![u] = "filling"]
      BY <1>4 DEF EndLoop
    <2>2. \A o \in Values(x) : o.op = "fill"
      BY <1>1, FillsSound
    <2> HIDE DEF x
    <2>3. call'[u] = x /\ \A v \in Units \ {u} : call'[v] = call[v] /\ loop'[v] = loop[v]
      BY <1>1, <2>1 DEF Memory
    <2> QED
      BY <2>2, <2>3 DEF FillsOnly
  <1>5. CASE LoopFails(u) \/ LoopDone(u)
    <2>1. UNCHANGED call /\ loop'[u] # "filling" /\ \A v \in Units \ {u} : loop'[v] = loop[v]
      BY <1>1, <1>5 DEF LoopFails, LoopDone, Memory
    <2> QED
      BY <2>1 DEF FillsOnly
  <1>6. CASE ReadPage(u)
    <2>1. call[u] # <<>> /\ UNCHANGED loop
      BY <1>6 DEF ReadPage
    <2>2. PICK t : t = Tail(call[u])
      OBVIOUS
    <2>3. t \in Seq(Ops) /\ Values(t) \subseteq Values(call[u])
      BY <1>1, <2>1, <2>2, HeadTail
    <2>6. PICK id, back : id = Head(call[u]).id /\ back = WriteBack(id, page[id])
      OBVIOUS
    <2>4. /\ back.op = "writeback"
          /\ call' = [call EXCEPT ![u] = <<back>> \o t] \/ call' = [call EXCEPT ![u] = t]
      <3>1. call' = [call EXCEPT ![u] = IF id \in Exists /\ ~page[id].dated THEN <<back>> \o t ELSE t]
        BY <1>6, <2>2, <2>6 DEF ReadPage
      <3>2. back.op = "writeback"
        BY <2>6 DEF WriteBack
      <3> QED
        BY <3>1, <3>2
    <2>5. Values(<<back>> \o t) \subseteq {back} \cup Values(t)
      <3>1. t \in Seq(Ops \cup {back}) /\ <<back>> \in Seq(Ops \cup {back}) /\ Values(<<back>>) = {back}
        BY <2>3, Single
      <3> QED
        BY <3>1, Concatenation
    <2> QED
      BY <1>1, <2>1, <2>3, <2>4, <2>5, FillsStay DEF FillsOnly
  <1>7. CASE WritePageBack(u) \/ WriteBackFails(u)
    <2>1. call[u] # <<>> /\ call' = [call EXCEPT ![u] = Tail(call[u])] /\ UNCHANGED loop
      BY <1>7 DEF WritePageBack, WriteBackFails
    <2>2. Values(Tail(call[u])) \subseteq Values(call[u])
      BY <1>1, <2>1, HeadTail
    <2> QED
      BY <1>1, <2>1, <2>2, FillsStay DEF FillsOnly
  <1> QED
    BY <1>2, <1>3, <1>4, <1>5, <1>6, <1>7 DEF UnitStep

LEMMA FillsInv ==
  ASSUME Inv, FillsOnly, [Next]_vars
  PROVE  FillsOnly'
  <1>1. CASE EndJob
    BY <1>1 DEF EndJob, FillsOnly
  <1>2. CASE UNCHANGED <<call, loop>>
    BY <1>2 DEF FillsOnly
  <1>3. CASE Rebuild
    BY <1>2, <1>3 DEF Rebuild, DeleteEdgesFor, DeletePendingLinksFor, AddReferences,
       RecordPending, ClearPending, RebuildReturns
  <1>4. ASSUME NEW U \in SUBSET Units, BeginCompile(U) PROVE FillsOnly'
    BY <1>4 DEF BeginCompile, FillsOnly
  <1> QED
    BY <1>1, <1>2, <1>3, <1>4, FillsOfLoop, FillsOfUnit
    DEF Next, vars, CompileReturns, ReconcileReturns, BreakOff

-----------------------------------------------------------------------------
\* A loop takes a step: the others see to their pages as before, and it must not
\* forget one of its own, or leave one it has just touched.
LEMMA CaughtStays ==
  ASSUME Caught, NEW u \in Units,
         \A v \in Units \ {u} : /\ loop'[v] = loop[v] /\ call'[v] = call[v]
                                /\ touched'[v] = touched[v],
         \A p \in Pages : Late(p)' /\ Owes(u, p) => \E v \in Units : Owes(v, p)',
         \A p \in Pages : Late(p)' /\ ~Late(p) => \E v \in Units : Owes(v, p)'
  PROVE  Caught'
  <1> SUFFICES ASSUME NEW p \in Pages, Late(p)' PROVE \E v \in Units : Owes(v, p)'
    BY DEF Caught
  <1>1. CASE Late(p)
    <2>1. PICK v \in Units : Owes(v, p)
      BY <1>1 DEF Caught
    <2>2. CASE v = u
      BY <2>1, <2>2
    <2>3. CASE v # u
      <3>1. Owes(v, p)'
        BY <2>1, <2>3 DEF Owes
      <3> QED
        BY <3>1
    <2> QED
      BY <2>2, <2>3
  <1>2. CASE ~Late(p)
    BY <1>2
  <1> QED
    BY <1>1, <1>2

\* Nothing new is late if no page is written and nothing is touched.
LEMMA NothingNew ==
  ASSUME UNCHANGED page, \A u \in Units : Values(touched'[u]) \subseteq Values(touched[u])
  PROVE  \A p \in Pages : Late(p)' => Late(p)
  BY DEF Late, Exists

LEMMA AppendedValues ==
  ASSUME NEW T, NEW s \in Seq(T), NEW x \in T
  PROVE  Values(Append(s, x)) = Values(s) \cup {x}
  <1> DEFINE t == Append(s, x)
  <1>1. /\ Len(t) = Len(s) + 1 /\ Len(s) \in Nat
        /\ \A i \in 1..Len(s) : t[i] = s[i]
        /\ t[Len(s) + 1] = x
    BY AppendProperties
  <1> HIDE DEF t
  <1>2. Values(t) = Values(s) \cup {x}
    BY <1>1 DEF Values
  <1> QED
    BY <1>2 DEF t

\* What is not the first of a sequence is in its tail.
LEMMA AfterHead ==
  ASSUME NEW T, NEW s \in Seq(T), s # <<>>, NEW o \in Values(s), o # Head(s)
  PROVE  o \in Values(Tail(s))
  <1>1. PICK i \in 1..Len(s) : o = s[i]
    BY DEF Values
  <1>2. PICK t : t = Tail(s)
    OBVIOUS
  <1>3. /\ Len(t) = Len(s) - 1 /\ Len(s) \in Nat \ {0} /\ Head(s) = s[1]
        /\ \A j \in 1..Len(t) : t[j] = s[j + 1]
    BY <1>2, HeadTailProperties
  <1>4. i # 1
    BY <1>1, <1>3
  <1>5. i - 1 \in 1..Len(t) /\ (i - 1) + 1 = i
    BY <1>3, <1>4
  <1>6. t[i - 1] = o
    BY <1>1, <1>3, <1>5
  <1> QED
    BY <1>2, <1>5, <1>6 DEF Values

LEMMA ConsValues ==
  ASSUME NEW T, NEW s \in Seq(T), NEW o \in T
  PROVE  Values(<<o>> \o s) = {o} \cup Values(s)
  <1>1. <<o>> \in Seq(T) /\ Len(<<o>>) = 1 /\ <<o>>[1] = o
    OBVIOUS
  <1>2. PICK x : x = <<o>> \o s
    OBVIOUS
  <1>3. /\ Len(x) = 1 + Len(s) /\ Len(s) \in Nat
        /\ \A i \in 1..(1 + Len(s)) : x[i] = IF i <= 1 THEN o ELSE s[i - 1]
    BY <1>1, <1>2, ConcatProperties
  <1>4. Values(x) \subseteq {o} \cup Values(s)
    BY <1>3 DEF Values
  <1>5. ASSUME NEW i \in 1..Len(s) PROVE s[i] \in Values(x)
    <2>1. i + 1 \in 1..Len(x) /\ x[i + 1] = s[i]
      BY <1>3
    <2> QED
      BY <2>1 DEF Values
  <1>6. o \in Values(x)
    BY <1>3 DEF Values
  <1>7. Values(s) \subseteq Values(x)
    BY <1>5 DEF Values
  <1> QED
    BY <1>2, <1>4, <1>6, <1>7

\* The steps of a unit that fail nothing and misspell nothing.
LEMMA CaughtInv ==
  ASSUME Inv, ReturnsLast, FillsOnly, Caught, Timed = Units, NEW u \in Units, UnitStep(u),
         faults = 0, faults' = 0
  PROVE  Caught'
  <1> USE DEF Inv, Types
  <1>0. /\ u \in Loops /\ u # Reconciler
        /\ loop \in [Units -> LoopStates] /\ call \in [Loops -> Seq(Ops)]
        /\ touched \in [Units -> Seq(Ids)]
        /\ page \in [Pages -> Bodies \cup {NoPage}]
    BY DEF Memory, Tables
  <1>1. call[u] \in Seq(Ops) /\ touched[u] \in Seq(Ids)
    BY <1>0
  <1>2. CASE StartLoop(u)
    <2>1. loop[u] = "waiting" /\ loop' = [loop EXCEPT ![u] = "running"]
          /\ UNCHANGED <<page, call, touched>>
      BY <1>2 DEF StartLoop, tables
    <2>2. \A p \in Pages : ~Owes(u, p)
      BY <2>1 DEF Owes
    <2>3. \A v \in Units \ {u} : loop'[v] = loop[v] /\ call'[v] = call[v] /\ touched'[v] = touched[v]
      BY <1>0, <2>1
    <2> QED
      BY <2>1, <2>2, <2>3, NothingNew, CaughtStays
  <1>3. ASSUME NEW p \in Pages, NEW ips \in Args(Points), NEW es \in EdgeArgs, NEW body \in Bodies,
               NEW id \in {p, Misspelt}, WikiWrite(u, p, id, body, ips, es)
        PROVE  Caught'
    <2>1. id = p
      BY <1>3 DEF WikiWrite
    <2>2. /\ loop[u] = "running" /\ call[u] = <<>>
          /\ page' = [page EXCEPT ![p] = body]
          /\ call' = [call EXCEPT ![u] = CallPlan(p, id, ips, es)]
          /\ UNCHANGED <<loop, touched>>
      BY <1>0, <1>3 DEF WikiWrite, CanCall
    <2>3. Return(p) \in Values(call'[u])
      BY <1>0, <2>1, <2>2, LastOfPlan
    <2>4. Owes(u, p)'
      BY <2>2, <2>3 DEF Owes, Return
    <2>5. ASSUME NEW q \in Pages, q # p, Late(q)' PROVE Late(q)
      BY <1>0, <2>2, <2>5 DEF Late, Exists
    <2>6. ASSUME NEW q \in Pages, Owes(u, q) PROVE Owes(u, q)'
      <3>1. Values(call[u]) = {}
        BY <2>2, Empty
      <3> QED
        BY <2>2, <2>6, <3>1 DEF Owes
    <2>7. \A v \in Units \ {u} : loop'[v] = loop[v] /\ call'[v] = call[v] /\ touched'[v] = touched[v]
      BY <1>0, <2>2
    <2> QED
      BY <2>4, <2>5, <2>6, <2>7, CaughtStays
  <1>4. ASSUME NEW id \in Ids, Note(u, id), UNCHANGED <<page, loop>>,
               loop[u] = "running", call' = [call EXCEPT ![u] = <<>>],
               \A o \in Values(call[u]) : o.op = "return" => o.id = id
        PROVE  Caught'
    <2>1. touched' = [touched EXCEPT ![u] = Append(touched[u], id)]
      BY <1>0, <1>4 DEF Note
    <2>2. Values(touched'[u]) = Values(touched[u]) \cup {id}
      <3>1. touched'[u] = Append(touched[u], id)
        BY <1>0, <2>1
      <3>2. Values(Append(touched[u], id)) = Values(touched[u]) \cup {id}
        BY <1>1, AppendedValues
      <3> QED
        BY <3>1, <3>2
    <2>3. \A v \in Units \ {u} : loop'[v] = loop[v] /\ call'[v] = call[v] /\ touched'[v] = touched[v]
      BY <1>0, <1>4, <2>1
    <2>4. ASSUME NEW q \in Pages, Owes(u, q) PROVE Owes(u, q)'
      BY <1>4, <2>2, <2>4 DEF Owes
    <2>5. Owes(u, id)'
      BY <1>4, <2>2 DEF Owes
    <2>6. ASSUME NEW q \in Pages, Late(q)', ~Late(q) PROVE q = id
      BY <1>4, <2>2, <2>3, <2>6 DEF Late, Exists
    <2> QED
      BY <2>3, <2>4, <2>5, <2>6, CaughtStays
  <1>5. ASSUME NEW id \in Pages, Refuse(u, id) PROVE Caught'
    <2>1. call[u] = <<>> /\ loop[u] = "running" /\ Note(u, id) /\ UNCHANGED <<page, loop, call>>
      BY <1>0, <1>5 DEF Refuse, CanCall, tables
    <2>2. call' = [call EXCEPT ![u] = <<>>] /\ Values(call[u]) = {}
      BY <1>0, <2>1, Empty
    <2> QED
      BY <1>4, <2>1, <2>2
  <1>6. CASE EndCall(u)
    <2>1. /\ call[u] # <<>> /\ Head(call[u]).op = "return" /\ Note(u, Head(call[u]).id)
          /\ call' = [call EXCEPT ![u] = <<>>] /\ UNCHANGED <<page, loop>>
      BY <1>6 DEF EndCall, tables
    <2>2. Head(call[u]) \in Ops
      BY <1>1, <2>1, HeadTail
    <2>3. Head(call[u]).id \in Ids
      BY <2>1, <2>2 DEF Ops
    <2>4. Len(call[u]) = 1 /\ Head(call[u]) = call[u][1]
      <3>1. Head(call[u]) = call[u][1] /\ Len(call[u]) \in Nat \ {0}
        BY <1>1, <2>1
      <3>2. call[u][1].op = "return" /\ 1 \in 1..Len(call[u])
        BY <2>1, <3>1
      <3> QED
        BY <1>0, <3>1, <3>2 DEF ReturnsLast, ReturnLast
    <2>5. \A o \in Values(call[u]) : o = Head(call[u])
      BY <2>4 DEF Values
    <2>6. loop[u] = "running"
      <3>1. loop[u] \in {"running", "filling"}
        BY <1>0, <2>1 DEF Turns
      <3>2. Head(call[u]) \in Values(call[u])
        BY <1>1, <2>1, HeadTail
      <3> QED
        BY <2>1, <3>1, <3>2 DEF FillsOnly
    <2> QED
      BY <1>4, <2>1, <2>3, <2>5, <2>6
  <1>7. CASE AddLink(u)
    <2>1. /\ call[u] # <<>> /\ Head(call[u]).op = "link"
          /\ call' = [call EXCEPT ![u] = Tail(call[u])] /\ UNCHANGED <<page, loop, touched>>
      BY <1>7 DEF AddLink
    <2>2. ASSUME NEW o \in Values(call[u]), o.op = "return" PROVE o \in Values(Tail(call[u]))
      BY <1>1, <2>1, <2>2, AfterHead
    <2>3. Head(call[u]) \in Values(call[u])
      BY <1>1, <2>1, HeadTail
    <2>4. loop[u] # "filling"
      BY <2>1, <2>3 DEF FillsOnly
    <2>5. call'[u] = Tail(call[u])
      BY <1>0, <2>1
    <2>6. ASSUME NEW q \in Pages, Owes(u, q) PROVE Owes(u, q)'
      BY <2>1, <2>2, <2>4, <2>5, <2>6 DEF Owes
    <2>7. \A v \in Units \ {u} : loop'[v] = loop[v] /\ call'[v] = call[v] /\ touched'[v] = touched[v]
      BY <1>0, <2>1
    <2> QED
      BY <2>1, <2>6, <2>7, NothingNew, CaughtStays
  <1>8. CASE EndLoop(u)
    <2>1. /\ loop[u] = "running" /\ call[u] = <<>> /\ loop' = [loop EXCEPT ![u] = "filling"]
          /\ call' = [call EXCEPT ![u] = Fills(touched[u])] /\ UNCHANGED <<page, touched>>
      BY <1>8 DEF EndLoop, tables
    <2>2. loop'[u] = "filling" /\ call'[u] = Fills(touched[u])
      BY <1>0, <2>1
    <2>3. \A id \in Values(touched[u]) : \E o \in Values(call'[u]) : o.op = "fill" /\ o.id = id
      BY <1>1, <2>2, FillsAll
    <2>4. ASSUME NEW q \in Pages, Owes(u, q) PROVE Owes(u, q)'
      <3>1. q \in Values(touched[u])
        BY <2>1, <2>4, Empty DEF Owes
      <3> QED
        BY <2>2, <2>3, <3>1 DEF Owes
    <2>5. \A v \in Units \ {u} : loop'[v] = loop[v] /\ call'[v] = call[v] /\ touched'[v] = touched[v]
      BY <1>0, <2>1
    <2> QED
      BY <2>1, <2>4, <2>5, NothingNew, CaughtStays
  <1>9. CASE LoopDone(u)
    <2>1. /\ call[u] = <<>> /\ loop[u] = "filling" /\ loop' = [loop EXCEPT ![u] = "done"]
          /\ UNCHANGED <<page, call, touched>>
      BY <1>9 DEF LoopDone, tables
    <2>2. \A p \in Pages : ~Owes(u, p)
      BY <2>1, Empty DEF Owes
    <2>3. \A v \in Units \ {u} : loop'[v] = loop[v] /\ call'[v] = call[v] /\ touched'[v] = touched[v]
      BY <1>0, <2>1
    <2> QED
      BY <2>1, <2>2, <2>3, NothingNew, CaughtStays
  <1>10. CASE ReadPage(u)
    <2>1. PICK id, back, t, x :
            /\ id = Head(call[u]).id /\ back = WriteBack(id, page[id]) /\ t = Tail(call[u])
            /\ x = IF id \in Exists /\ ~page[id].dated THEN <<back>> \o t ELSE t
      OBVIOUS
    <2>2. /\ call[u] # <<>> /\ Head(call[u]).op = "fill"
          /\ call' = [call EXCEPT ![u] = x] /\ UNCHANGED <<page, loop, touched>>
      BY <1>10, <2>1 DEF ReadPage, tables
    <2>3. \A v \in Units \ {u} : loop'[v] = loop[v] /\ call'[v] = call[v] /\ touched'[v] = touched[v]
      BY <1>0, <2>2
    <2>4. call'[u] = x /\ t \in Seq(Ops) /\ \A o \in Values(call[u]) : o = Head(call[u]) \/ o \in Values(t)
      BY <1>0, <1>1, <2>1, <2>2, AfterHead, HeadTail
    <2>5. Values(<<back>> \o t) = {back} \cup Values(t)
      <3>1. t \in Seq(Ops \cup {back}) /\ back \in Ops \cup {back}
        BY <2>4
      <3> QED
        BY <3>1, ConsValues
    <2>6. Values(t) \subseteq Values(x) /\ (id \in Exists /\ ~page[id].dated => back \in Values(x))
      BY <2>1, <2>5
    <2>7. back.op = "writeback" /\ back.id = id
      BY <2>1 DEF WriteBack
    <2>8. ASSUME NEW q \in Pages, Owes(u, q), Late(q)' PROVE Owes(u, q)'
      <3>1. q \in Exists /\ ~page[q].dated
        BY <2>2, <2>8 DEF Late, Exists
      <3>2. CASE loop[u] = "running"
        <4>1. \A o \in Values(call[u]) : o.op = "return" => o \in Values(x)
          BY <2>2, <2>4, <2>6
        <4> QED
          BY <2>2, <2>4, <2>8, <3>2, <4>1 DEF Owes
      <3>3. CASE loop[u] = "filling"
        <4>1. PICK o \in Values(call[u]) : o.op \in {"fill", "writeback"} /\ o.id = q
          BY <2>8, <3>3 DEF Owes
        <4>2. CASE o = Head(call[u])
          <5>1. back \in Values(x) /\ id = q
            BY <2>1, <2>6, <3>1, <4>1, <4>2
          <5> QED
            BY <2>2, <2>4, <2>7, <3>3, <5>1 DEF Owes
        <4>3. CASE o \in Values(t)
          BY <2>2, <2>4, <2>6, <3>3, <4>1, <4>3 DEF Owes
        <4> QED
          BY <2>4, <4>2, <4>3
      <3> QED
        BY <2>8, <3>2, <3>3 DEF Owes
    <2> QED
      BY <2>2, <2>3, <2>8, NothingNew, CaughtStays
  <1>11. CASE WritePageBack(u)
    <2>1. PICK o, t : o = Head(call[u]) /\ t = Tail(call[u])
      OBVIOUS
    <2>2. /\ call[u] # <<>> /\ o.op = "writeback"
          /\ page' = [page EXCEPT ![o.id] = [o.body EXCEPT !.dated = TRUE]]
          /\ call' = [call EXCEPT ![u] = t] /\ UNCHANGED <<loop, touched>>
      BY <1>11, <2>1 DEF WritePageBack
    <2>3. \A v \in Units \ {u} : loop'[v] = loop[v] /\ call'[v] = call[v] /\ touched'[v] = touched[v]
      BY <1>0, <2>2
    <2>4. /\ call'[u] = t /\ o \in Ops
          /\ \A r \in Values(call[u]) : r = o \/ r \in Values(t)
      BY <1>0, <1>1, <2>1, <2>2, AfterHead, HeadTail
    <2>5. o.id \in Pages /\ o.body \in Bodies
      BY <2>2, <2>4 DEF Ops
    <2>6. page'[o.id].dated
      BY <1>0, <2>2, <2>5 DEF Bodies
    <2>7. ASSUME NEW q \in Pages, Late(q)' PROVE Late(q) /\ q # o.id
      <3>1. q # o.id
        BY <2>6, <2>7 DEF Late
      <3>2. page'[q] = page[q]
        BY <1>0, <2>2, <3>1
      <3> QED
        BY <2>2, <2>7, <3>1, <3>2 DEF Late, Exists
    <2>8. ASSUME NEW q \in Pages, Owes(u, q), Late(q)' PROVE Owes(u, q)'
      <3>1. \A r \in Values(call[u]) : r.id = q => r \in Values(t)
        BY <2>4, <2>7, <2>8
      <3> QED
        BY <2>2, <2>4, <2>8, <3>1 DEF Owes
    <2> QED
      BY <2>3, <2>7, <2>8, CaughtStays
  <1>12. CASE CallFails(u) \/ LoopFails(u) \/ WriteBackFails(u)
    BY <1>12 DEF CallFails, LoopFails, WriteBackFails
  <1> QED
    BY <1>2, <1>3, <1>5, <1>6, <1>7, <1>8, <1>9, <1>10, <1>11, <1>12 DEF UnitStep, LoopStep

-----------------------------------------------------------------------------
\* While a job compiles, and what it comes to.
Dating ==
    /\ ReturnsLast /\ FillsOnly
    /\ faults = 0 /\ Timed = Units /\ stage = "compile" => Caught
    /\ CompileDatesPages

LEMMA InitDating ==
  ASSUME Init
  PROVE  Dating
  <1>1. ReturnsLast
    BY DEF Init, ReturnsLast, ReturnLast
  <1> QED
    BY <1>1 DEF Init, Dating, FillsOnly, CompileDatesPages

LEMMA DatingInv ==
  ASSUME Inv, Dating, [Next]_vars
  PROVE  Dating'
  <1>1. ReturnsLast' /\ FillsOnly'
    BY ReturnsInv, FillsInv DEF Dating
  <1>2. faults \in Nat /\ faults' \in Nat /\ (faults' = 0 => faults = 0)
    <2> DEFINE Counted == faults' = faults \/ faults' = faults + 1
    <2>1. ASSUME NEW c, LoopStep(c) PROVE Counted
      <3>1. ASSUME NEW p, NEW ips, NEW es, NEW body, NEW id, WikiWrite(c, p, id, body, ips, es)
            PROVE  Counted
        BY <3>1 DEF WikiWrite
      <3>2. ASSUME NEW id, Refuse(c, id) PROVE Counted
        BY <3>2 DEF Refuse
      <3>3. CASE AddLink(c) \/ EndCall(c) \/ CallFails(c)
        BY <3>3 DEF AddLink, EndCall, CallFails, bounds
      <3> HIDE DEF Counted
      <3> QED
        BY <2>1, <3>1, <3>2, <3>3 DEF LoopStep
    <2>2. ASSUME NEW u, UnitStep(u) PROVE Counted
      <3>1. CASE LoopStep(u)
        BY <2>1, <3>1
      <3>2. CASE ~LoopStep(u)
        BY <2>2, <3>2 DEF UnitStep, StartLoop, EndLoop, LoopFails, ReadPage, WritePageBack,
           WriteBackFails, LoopDone, bounds
      <3> QED
        BY <3>1, <3>2
    <2>3. ASSUME Rebuild PROVE faults' = faults
      <3>1. UNCHANGED bounds
        BY <2>3 DEF Rebuild, DeleteEdgesFor, DeletePendingLinksFor, AddReferences, RecordPending,
           ClearPending, RebuildReturns
      <3> QED
        BY <3>1 DEF bounds
    <2>4. ASSUME NEW U, BeginCompile(U) PROVE Counted
      BY <2>4 DEF BeginCompile
    <2>5. ASSUME CompileReturns \/ ReconcileReturns \/ UNCHANGED vars PROVE faults' = faults
      <3>1. UNCHANGED bounds
        BY <2>5 DEF CompileReturns, ReconcileReturns, vars
      <3> QED
        BY <3>1 DEF bounds
    <2>8. ASSUME BreakOff PROVE Counted
      BY <2>8 DEF BreakOff
    <2>6. Counted
      <3>1. faults' = faults => Counted
        OBVIOUS
      <3> HIDE DEF Counted
      <3> QED
        BY <2>1, <2>2, <2>3, <2>4, <2>5, <2>8, <3>1 DEF Next
    <2>7. faults \in 0..MaxFaults
      BY DEF Inv, Types, Counts
    <2> QED
      BY <2>6, <2>7
  <1>3. ASSUME faults' = 0, Timed = Units, stage' = "compile" PROVE Caught'
    <2>1. CASE \E u \in Units : UnitStep(u)
      <3>1. stage = "compile" /\ Caught
        BY <1>2, <1>3, <2>1 DEF Dating, UnitStep, StartLoop, LoopStep, WikiWrite, Refuse,
           AddLink, EndCall, CallFails, EndLoop, LoopFails, ReadPage, WritePageBack,
           WriteBackFails, LoopDone
      <3> QED
        BY <1>2, <1>3, <2>1, <3>1, CaughtInv DEF Dating
    <2>2. CASE \E U \in SUBSET Units : BeginCompile(U)
      <3>1. stage = "idle" /\ UNCHANGED touched
        BY <2>2 DEF BeginCompile
      <3>2. \A u \in Units : touched[u] = <<>>
        BY <3>1 DEF Inv, Turns
      <3>3. \A u \in Units : Values(touched'[u]) = {}
        BY <3>1, <3>2, Empty
      <3> QED
        BY <3>3 DEF Caught, Late
    <2>3. CASE UNCHANGED vars
      <3>1. UNCHANGED <<page, loop, call, touched>> /\ Caught
        BY <1>2, <1>3, <2>3 DEF vars, tables, Dating, bounds
      <3> QED
        BY <3>1 DEF Caught, Late, Exists, Owes
    <2>4. CASE LoopStep(Reconciler)
      <3>1. stage = "compile" /\ call[Reconciler] = <<>>
        BY <1>3, <2>4 DEF LoopStep, WikiWrite, Refuse, AddLink, EndCall, CallFails, Inv, Turns
      <3> QED
        BY <2>4, <3>1 DEF LoopStep, CanCall, Refuse, AddLink, EndCall, CallFails
    <2>5. CASE CompileReturns \/ Rebuild \/ ReconcileReturns \/ BreakOff
      <3>1. ASSUME Rebuild PROVE stage = "rebuild" /\ stage' \in {"rebuild", "reconcile"}
        BY <3>1, AtRebuild DEF Rebuild, DeleteEdgesFor, DeletePendingLinksFor, AddReferences,
           RecordPending, ClearPending, RebuildReturns, NoWork
      <3> QED
        BY <1>3, <2>5, <3>1 DEF CompileReturns, ReconcileReturns, BreakOff, EndJob
    <2> QED
      BY <2>1, <2>2, <2>3, <2>4, <2>5 DEF Next
  <1>4. ASSUME faults' = 0, Timed = Units, stage' = "rebuild"
        PROVE  \A p \in Touched' : page'[p].dated
    <2>1. faults = 0
      BY <1>2, <1>4
    <2>2. CASE CompileReturns
      <3>1. /\ stage = "compile" /\ UNCHANGED <<page, touched>>
            /\ \A u \in Units : loop[u] \in {"out", "done", "failed"}
        BY <1>4, <2>2 DEF CompileReturns, EndJob, tables
      <3>2. Caught /\ \A u \in Units, p \in Pages : ~Owes(u, p)
        BY <1>4, <2>1, <3>1 DEF Dating, Owes
      <3>3. \A p \in Pages : ~Late(p)
        BY <3>2 DEF Caught
      <3>4. Touched' = Touched /\ Exists \subseteq Pages
        BY <3>1 DEF Touched, Exists
      <3> QED
        BY <3>1, <3>3, <3>4 DEF Late, Touched
    <2>3. CASE Rebuild \/ UNCHANGED vars
      <3>1. stage = "rebuild" /\ UNCHANGED <<page, touched>>
        BY <1>4, <2>3, AtRebuild DEF Rebuild, DeleteEdgesFor, DeletePendingLinksFor,
           AddReferences, RecordPending, ClearPending, RebuildReturns, NoWork, vars, tables
      <3>2. Touched' = Touched
        BY <3>1 DEF Touched, Exists
      <3> QED
        BY <1>4, <2>1, <3>1, <3>2 DEF Dating, CompileDatesPages
    <2>4. ASSUME NEW c \in Loops, c = Reconciler, LoopStep(c) PROVE FALSE
      <3>1. stage = "rebuild" /\ call[c] = <<>>
        BY <1>4, <2>4 DEF LoopStep, WikiWrite, Refuse, AddLink, EndCall, CallFails, Inv, Turns, tables
      <3> QED
        BY <2>4, <3>1 DEF LoopStep, CanCall, Refuse, AddLink, EndCall, CallFails
    <2>5. ASSUME NEW u \in Units, UnitStep(u) PROVE FALSE
      <3>1. stage = "rebuild"
        BY <1>4, <2>5 DEF UnitStep, StartLoop, LoopStep, WikiWrite, Refuse, AddLink, EndCall,
           CallFails, EndLoop, LoopFails, ReadPage, WritePageBack, WriteBackFails, LoopDone, tables
      <3>2. call[u] = <<>> /\ loop[u] \notin {"waiting", "running", "filling"} /\ u # Reconciler
        BY <3>1 DEF Inv, Turns
      <3> QED
        BY <2>5, <3>2 DEF UnitStep, StartLoop, LoopStep, WikiWrite, Refuse, AddLink, EndCall,
           CallFails, EndLoop, LoopFails, ReadPage, WritePageBack, WriteBackFails, LoopDone, CanCall
    <2>6. stage' # "rebuild" \/ ~(ReconcileReturns \/ BreakOff \/ \E U \in SUBSET Units : BeginCompile(U))
      BY DEF ReconcileReturns, BreakOff, BeginCompile, EndJob
    <2> QED
      BY <1>4, <2>2, <2>3, <2>4, <2>5, <2>6 DEF Next
  <1> QED
    BY <1>1, <1>3, <1>4 DEF Dating, CompileDatesPages

-----------------------------------------------------------------------------
(***************************************************************************)
(* Theorems                                                                *)
(***************************************************************************)

\* The tables, the loops' operations and the rebuild's plan are always of their
\* types, and a job leaves nothing in memory (ProcessSession).
THEOREM TypeCorrect == Spec => []TypeOK
  <1>1. Inv => TypeOK
    <2> SUFFICES ASSUME Inv PROVE TypeOK
      OBVIOUS
    <2> USE DEF Inv, Types
    <2>1. \A c \in Loops : \A o \in Values(call[c]) : IsOp(o)
      <3> SUFFICES ASSUME NEW c \in Loops, NEW o \in Values(call[c]) PROVE IsOp(o)
        OBVIOUS
      <3>1. call[c] \in Seq(Ops)
        BY DEF Memory
      <3>2. o \in Ops
        BY <3>1 DEF Values
      <3> QED
        BY <3>2 DEF Ops, IsOp, Adjacency
    <2>2. \A u \in Units : Values(touched[u]) \subseteq Ids
      <3>1. \A u \in Units : touched[u] \in Seq(Ids)
        BY DEF Memory
      <3> QED
        BY <3>1 DEF Values
    <2>3. stage = "idle" => work = NoWork /\ \A u \in Units : touched[u] = <<>>
      BY DEF Turns
    <2> QED
      BY <2>1, <2>2, <2>3
      DEF TypeOK, Tables, Memory, Counts, Adjacency, Stages, LoopStates
  <1> QED
    BY <1>1, Invariance, PTL

\* Once a rebuild has seen a page, each link of its body is a reference edge or
\* a pending link and no other link is, whatever breaks off in between
\* (RebuildEdges).
THEOREM Accounted == Spec => []CleanPagesAccounted
  <1>1. Inv => CleanPagesAccounted
    BY DEF Inv
  <1> QED
    BY <1>1, Invariance, PTL

\* No edge leads to a page that is not there (validateEdges, and the targets
\* RebuildEdges resolves).
THEOREM NoDangling == Spec => []NoDanglingEdges
  <1>1. Inv => NoDanglingEdges
    BY DEF Inv
  <1> QED
    BY <1>1, Invariance, PTL

\* The rebuild takes edges of pages of its own job only (DeleteEdgesFor).
THEOREM Incremental == Spec => OnlyTouchedLoseEdges
  <1>1. ASSUME Inv, [Next]_vars, NEW e \in edges \ edges'
        PROVE  stage = "rebuild" /\ e[1] \in Touched
    <2>1. ASSUME NEW p \in Pages, DeleteEdgesFor(p)
          PROVE  stage = "rebuild" /\ e[1] \in Touched
      <3>1. p \in work.unlink /\ e[1] = p
        BY <1>1, <2>1 DEF DeleteEdgesFor, OutEdges
      <3>2. stage = "rebuild" /\ WorkInOrder
        BY <1>1, <3>1, AtRebuild DEF NoWork
      <3> QED
        BY <3>1, <3>2 DEF WorkInOrder
    <2>2. ASSUME NEW c, LoopStep(c) PROVE edges \subseteq edges'
      BY <2>2 DEF LoopStep, WikiWrite, Refuse, AddLink, EndCall, CallFails, tables
    <2>3. ASSUME NEW u, UnitStep(u) PROVE edges \subseteq edges'
      BY <2>2, <2>3 DEF UnitStep, StartLoop, EndLoop, LoopFails, ReadPage,
         WritePageBack, WriteBackFails, LoopDone, tables
    <2>4. \E p \in Pages : DeleteEdgesFor(p)
      BY <1>1, <2>2, <2>3 DEF Next, BeginCompile, CompileReturns, Rebuild,
         DeletePendingLinksFor, AddReferences, RecordPending, ClearPending,
         RebuildReturns, ReconcileReturns, BreakOff, tables, vars
    <2> QED
      BY <2>1, <2>4
  <1>2. Inv /\ [Next]_vars => [\A e \in edges \ edges' : stage = "rebuild" /\ e[1] \in Touched]_vars
    BY <1>1
  <1> QED
    BY <1>2, Invariance, PTL DEF Spec, OnlyTouchedLoseEdges

\* Without a fault every page that the loops of a job wrote has an event time when
\* Compile is through: whoever writes a page without one has touched it, and its own
\* backfill, or that of whoever writes it after that, is still to come
\* (backfillEventTime).
THEOREM DatesPages == Spec => []CompileDatesPages
  <1>1. Init => Dating
    BY InitDating
  <1>2. Inv /\ Dating /\ [Next]_vars => Dating'
    BY DatingInv
  <1>3. Dating => CompileDatesPages
    BY DEF Dating
  <1> QED
    BY <1>1, <1>2, <1>3, Invariance, PTL DEF Spec
=============================================================================
