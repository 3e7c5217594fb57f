----------------------------- MODULE UsageProofs -----------------------------
(***************************************************************************)
(* The accounting of UsageTracker, proved for any number of days, tokens   *)
(* and exits, with and without a flusher.                                  *)
(*                                                                         *)
(* NothingCountedTwice and OpenDayAccounted become inductive with what     *)
(* they say nothing of: the clock never runs behind the tracker, and days  *)
(* after the tracker's have no tokens yet.                                 *)
(* FlushedStays then follows step by step: rows and failures only grow, and *)
(* what a flush leaves of the open day is all in the row.                  *)
(***************************************************************************)
EXTENDS UsageTracker, TLAPS

\* The tracker's day is never ahead of the clock; in batched mode tokens are
\* accumulated only while dirty; later days are empty.
DayInOrder ==
    /\ today <= clock
    /\ ~Sync /\ ~dirty => acc = 0
    /\ \A d \in Days : d > today => rows[d] = 0 /\ used[d] = 0 /\ lost[d] = 0

\* The inductive invariant.
Inv == TypeOK /\ DayInOrder /\ NothingCountedTwice /\ OpenDayAccounted

-----------------------------------------------------------------------------
LEMMA InitInv == Init => Inv
<1> SUFFICES ASSUME Init PROVE Inv
    OBVIOUS
<1> USE UsageAssumption DEF Init, Days, UsageAssumption
<1>1. TypeOK
  <2>1. flusher \in {"off", "looping", "stopping", "ended"} OBVIOUS
  <2>2. rows \in [Days -> Nat] /\ used \in [Days -> Nat] /\ lost \in [Days -> Nat] OBVIOUS
  <2>3. exits \in 0..MaxExits OBVIOUS
  <2>4. clock \in Days /\ today \in Days OBVIOUS
  <2>5. acc \in Nat /\ dirty \in BOOLEAN OBVIOUS
  <2>6. flushed \in [Days -> Nat] OBVIOUS
  <2> QED BY <2>1, <2>2, <2>3, <2>4, <2>5, <2>6 DEF TypeOK
<1>2. DayInOrder BY DEF DayInOrder
<1>3. NothingCountedTwice BY DEF NothingCountedTwice, Pending
<1>4. OpenDayAccounted BY DEF OpenDayAccounted, Pending
<1> QED BY <1>1, <1>2, <1>3, <1>4 DEF Inv

\* The callback moves n tokens into the row of the day or loses them.
LEMMA PersistEffect ==
    ASSUME TypeOK, NEW d \in Days, NEW n \in Nat, NEW ok \in BOOLEAN, Persist(d, n, ok)
    PROVE  /\ rows' \in [Days -> Nat]
           /\ lost' \in [Days -> Nat]
           /\ \A e \in Days :
                rows'[e] + lost'[e] = IF e = d THEN rows[e] + lost[e] + n ELSE rows[e] + lost[e]
<1>0. rows \in [Days -> Nat] /\ lost \in [Days -> Nat]
  BY DEF TypeOK
<1>1. CASE ok
  <2>1. rows' = [rows EXCEPT ![d] = rows[d] + n] /\ lost' = lost
    BY <1>1 DEF Persist
  <2> QED BY <1>0, <2>1
<1>2. CASE ~ok
  <2>1. lost' = [lost EXCEPT ![d] = lost[d] + n] /\ rows' = rows
    BY <1>2 DEF Persist
  <2> QED BY <1>0, <2>1
<1> QED BY <1>1, <1>2

\* What the invariant says of one day.
LEMMA OfDay ==
    ASSUME Inv, NEW d \in Days
    PROVE  /\ rows[d] \in Nat /\ lost[d] \in Nat /\ used[d] \in Nat /\ acc \in Nat
           /\ rows[d] + Pending(d) + lost[d] <= used[d]
           /\ d = today => rows[d] + Pending(d) + lost[d] = used[d]
           /\ d > today => rows[d] = 0 /\ used[d] = 0 /\ lost[d] = 0
           /\ today <= clock /\ clock \in Days /\ today \in Days
           /\ ~Sync /\ ~dirty => acc = 0
<1>1. rows[d] \in Nat /\ lost[d] \in Nat /\ used[d] \in Nat /\ acc \in Nat
  BY DEF Inv, TypeOK
<1>2. rows[d] + Pending(d) + lost[d] <= used[d]
  BY DEF Inv, NothingCountedTwice
<1>3. d = today => rows[d] + Pending(d) + lost[d] = used[d]
  BY DEF Inv, OpenDayAccounted
<1>4. d > today => rows[d] = 0 /\ used[d] = 0 /\ lost[d] = 0
  BY DEF Inv, DayInOrder
<1>5. today <= clock /\ clock \in Days /\ today \in Days /\ (~Sync /\ ~dirty => acc = 0)
  BY DEF Inv, TypeOK, DayInOrder
<1> QED BY <1>1, <1>2, <1>3, <1>4, <1>5

\* Add, in sync and in batched mode.
LEMMA AddInv ==
    ASSUME Inv, NEW n \in 1..MaxTokens, NEW ok \in BOOLEAN, Add(n, ok)
    PROVE  Inv'
<1> USE UsageAssumption DEF Days, UsageAssumption
<1>a. TypeOK
  BY DEF Inv
<1>b. n \in Nat /\ clock \in Days
  BY <1>a DEF TypeOK
<1>0. TypeOK /\ n \in Nat /\ clock \in Days
  BY <1>a, <1>b
<1>1. TypeOK'
  <2>0. TypeOK BY DEF Inv
  <2>a. ASSUME Sync PROVE rows' \in [Days -> Nat] /\ lost' \in [Days -> Nat]
    BY <1>0, <2>a, PersistEffect DEF Add
  <2>b. ASSUME ~Sync PROVE rows' \in [Days -> Nat] /\ lost' \in [Days -> Nat]
    BY <1>0, <2>b DEF Add, TypeOK
  <2>c. rows' \in [Days -> Nat] /\ lost' \in [Days -> Nat]
    BY <2>a, <2>b
  <2>1. clock' \in Days /\ today' \in Days BY <2>0 DEF TypeOK, Add, Persist
  <2>2. acc' \in Nat /\ dirty' \in BOOLEAN BY <2>0 DEF TypeOK, Add, Persist
  <2>4. used' \in [Days -> Nat] BY <2>0 DEF TypeOK, Add, Persist
  <2>6. flusher' \in {"off", "looping", "stopping", "ended"} BY <2>0 DEF TypeOK, Add, Persist
  <2>7. exits' \in 0..MaxExits BY <2>0 DEF TypeOK, Add, Persist
  <2>8. flushed' \in [Days -> Nat] BY <2>0 DEF TypeOK, Add
  <2> QED BY <2>1, <2>2, <2>c, <2>4, <2>6, <2>7, <2>8 DEF TypeOK
<1>2. DayInOrder'
  <2>1. today' <= clock' /\ (~Sync /\ ~dirty' => acc' = 0)
    BY DEF Inv, TypeOK, Add
  <2>2. ASSUME NEW d \in Days, d > today'
        PROVE  rows'[d] = rows[d] /\ used'[d] = used[d] /\ lost'[d] = lost[d]
    <3>1. /\ rows \in [Days -> Nat] /\ lost \in [Days -> Nat] /\ used \in [Days -> Nat]
          /\ clock \in Nat /\ d # clock
      <4>1. today' = clock BY DEF Add
      <4>2. clock \in Nat BY <1>0
      <4>3. d # clock BY <2>2, <4>1, <4>2
      <4>4. rows \in [Days -> Nat] /\ lost \in [Days -> Nat] /\ used \in [Days -> Nat]
        BY <1>0 DEF TypeOK
      <4> QED BY <4>2, <4>3, <4>4
    <3>2. used'[d] = used[d]
      BY <3>1 DEF Add
    <3>3. CASE Persist(clock, n, ok)
      <4>1. rows' = [rows EXCEPT ![clock] = rows[clock] + n] \/ rows' = rows
        BY <3>3 DEF Persist
      <4>2. lost' = [lost EXCEPT ![clock] = lost[clock] + n] \/ lost' = lost
        BY <3>3 DEF Persist
      <4> QED BY <3>1, <3>2, <4>1, <4>2
    <3>4. CASE UNCHANGED <<rows, lost>>
      BY <3>2, <3>4
    <3> QED BY <3>3, <3>4 DEF Add
  <2>3. ASSUME NEW d \in Days, d > today'
        PROVE  rows[d] = 0 /\ used[d] = 0 /\ lost[d] = 0
    BY <2>3 DEF Inv, TypeOK, DayInOrder, Add
  <2> QED BY <2>1, <2>2, <2>3 DEF DayInOrder
<1>3. ASSUME NEW d \in Days
      PROVE  /\ (rows[d] + Pending(d) + lost[d] <= used[d])'
             /\ d = clock => (rows[d] + Pending(d) + lost[d] = used[d])'
  <2>0. /\ rows[d] \in Nat /\ lost[d] \in Nat /\ used[d] \in Nat /\ acc \in Nat /\ n \in Nat
        /\ rows[d] + Pending(d) + lost[d] <= used[d]
        /\ d = today => rows[d] + Pending(d) + lost[d] = used[d]
        /\ d > today => rows[d] = 0 /\ used[d] = 0 /\ lost[d] = 0
        /\ today <= clock /\ clock \in Days /\ today \in Days
    BY <1>0, OfDay
  <2>1. used'[d] = IF d = clock THEN used[d] + n ELSE used[d]
    BY DEF Inv, TypeOK, Add
  <2>2. CASE Sync
    <3>1. rows'[d] + lost'[d] = IF d = clock THEN rows[d] + lost[d] + n ELSE rows[d] + lost[d]
      BY <1>0, <2>0, <2>2, PersistEffect DEF Add
    <3>2. Pending(d) = 0 /\ Pending(d)' = 0
      BY <2>2 DEF Pending
    <3>3. rows'[d] \in Nat /\ lost'[d] \in Nat /\ used'[d] \in Nat
      BY <1>1 DEF TypeOK
    <3> QED BY <2>0, <2>1, <3>1, <3>2, <3>3
  <2>3. CASE ~Sync
    <3>1. rows' = rows /\ lost' = lost /\ today' = clock
          /\ acc' = IF today = clock THEN acc + n ELSE n
      BY <2>3 DEF Add
    <3>2. Pending(d) = (IF d = today THEN acc ELSE 0) /\ Pending(d)' = (IF d = clock THEN acc' ELSE 0)
      BY <2>3, <3>1 DEF Pending
    <3> QED BY <2>0, <2>1, <3>1, <3>2
  <2> QED BY <2>2, <2>3
<1>4. clock \in Days /\ today' = clock
  BY DEF Inv, TypeOK, Add
<1> QED BY <1>1, <1>2, <1>3, <1>4 DEF Inv, NothingCountedTwice, OpenDayAccounted

\* A flush, the ticker's or the last one.
LEMMA FlushInv ==
    ASSUME Inv, NEW ok \in BOOLEAN, Flush(ok), ~Sync, SawFlush,
           UNCHANGED <<clock, exits, used>>, flusher' \in {"looping", "stopping", "ended"}
    PROVE  Inv' /\ acc' = 0
<1> USE UsageAssumption DEF Days, UsageAssumption
<1>0. acc' = 0
  BY DEF Inv, TypeOK, DayInOrder, Flush
<1>1. TypeOK'
  <2>0. TypeOK BY DEF Inv
  <2>1. clock' \in Days /\ today' \in Days BY <2>0 DEF TypeOK, Flush
  <2>a. dirty' = FALSE
    BY <2>0 DEF TypeOK, Flush
  <2>2. acc' \in Nat /\ dirty' \in BOOLEAN BY <1>0, <2>a
  <2>b. \/ Persist(clock, acc, ok)
        \/ UNCHANGED <<rows, lost>>
    BY DEF Flush
  <2>3. rows' \in [Days -> Nat] /\ lost' \in [Days -> Nat]
    <3>1. CASE Persist(clock, acc, ok)
      <4>1. clock \in Days /\ acc \in Nat BY <2>0 DEF TypeOK
      <4> QED BY <2>0, <3>1, <4>1, PersistEffect
    <3>2. CASE UNCHANGED <<rows, lost>>
      BY <2>0, <3>2 DEF TypeOK
    <3> QED BY <2>b, <3>1, <3>2
  <2>4. used' \in [Days -> Nat] BY <2>0 DEF TypeOK, Flush
  <2>6. flusher' \in {"off", "looping", "stopping", "ended"} BY <2>0 DEF TypeOK, Flush
  <2>7. exits' \in 0..MaxExits BY <2>0 DEF TypeOK, Flush
  <2>8. flushed' \in [Days -> Nat] BY <2>0 DEF TypeOK, SawFlush
  <2> QED BY <2>1, <2>2, <2>3, <2>4, <2>6, <2>7, <2>8 DEF TypeOK
<1>2. DayInOrder'
  <2>1. today <= clock /\ clock \in Days /\ today \in Days
    BY DEF Inv, TypeOK, DayInOrder
  <2>2. today' = today \/ today' = clock
    BY DEF Flush
  <2>3. ASSUME NEW d \in Days, d > today'
        PROVE  rows'[d] = 0 /\ used'[d] = 0 /\ lost'[d] = 0
    <3>1. d > today /\ rows[d] = 0 /\ used[d] = 0 /\ lost[d] = 0
      BY <2>1, <2>2, <2>3, OfDay
    <3>2. CASE dirty /\ today = clock
      <4>1. rows'[d] + lost'[d] = rows[d] + lost[d]
        BY <2>1, <3>1, <3>2, PersistEffect, OfDay DEF Flush, Inv
      <4>2. rows'[d] \in Nat /\ lost'[d] \in Nat
        BY <1>1 DEF TypeOK
      <4> QED BY <3>1, <4>1, <4>2
    <3>3. CASE ~(dirty /\ today = clock)
      BY <3>1, <3>3 DEF Flush
    <3> QED BY <3>2, <3>3
  <2> QED BY <1>0, <2>1, <2>2, <2>3 DEF DayInOrder
<1>3. ASSUME NEW d \in Days
      PROVE  /\ (rows[d] + Pending(d) + lost[d] <= used[d])'
             /\ d = today' => (rows[d] + Pending(d) + lost[d] = used[d])'
  <2>0. /\ rows[d] \in Nat /\ lost[d] \in Nat /\ used[d] \in Nat /\ acc \in Nat
        /\ rows[d] + Pending(d) + lost[d] <= used[d]
        /\ d = today => rows[d] + Pending(d) + lost[d] = used[d]
        /\ d > today => rows[d] = 0 /\ used[d] = 0 /\ lost[d] = 0
        /\ today <= clock /\ clock \in Days /\ today \in Days
    BY OfDay
  <2>1. CASE ~dirty
    BY <2>0, <2>1 DEF Flush, Pending
  <2>2. CASE dirty /\ today = clock
    <3>1. rows'[d] + lost'[d] = IF d = today THEN rows[d] + lost[d] + acc ELSE rows[d] + lost[d]
      <4>1. TypeOK /\ Persist(clock, acc, ok)
        BY <2>2 DEF Inv, Flush
      <4> QED BY <2>0, <2>2, <4>1, PersistEffect
    <3>2. Pending(d) = (IF d = today THEN acc ELSE 0) /\ Pending(d)' = 0
      BY <2>2, <1>0 DEF Pending
    <3>3. rows'[d] \in Nat /\ lost'[d] \in Nat
      BY <1>1 DEF TypeOK
    <3>4. today' = today /\ used' = used
      BY <2>2 DEF Flush
    <3> QED BY <2>0, <3>1, <3>2, <3>3, <3>4
  <2>3. CASE dirty /\ today # clock
    BY <2>0, <2>3 DEF Flush, Pending
  <2> QED BY <2>1, <2>2, <2>3
<1>4. today' \in Days
  BY DEF Inv, TypeOK, Flush
<1> QED BY <1>0, <1>1, <1>2, <1>3, <1>4 DEF Inv, NothingCountedTwice, OpenDayAccounted

LEMMA TodayInv == ASSUME Inv, Today PROVE Inv'
<1> USE UsageAssumption DEF Days, UsageAssumption
<1>1. TypeOK' BY DEF Inv, TypeOK, Today
<1>2. DayInOrder' BY DEF Inv, TypeOK, DayInOrder, Today
<1>3. ASSUME NEW d \in Days
      PROVE  /\ (rows[d] + Pending(d) + lost[d] <= used[d])'
             /\ d = clock => (rows[d] + Pending(d) + lost[d] = used[d])'
  <2>0. /\ rows[d] \in Nat /\ lost[d] \in Nat /\ used[d] \in Nat /\ acc \in Nat
        /\ rows[d] + Pending(d) + lost[d] <= used[d]
        /\ d = today => rows[d] + Pending(d) + lost[d] = used[d]
        /\ d > today => rows[d] = 0 /\ used[d] = 0 /\ lost[d] = 0
        /\ today <= clock /\ clock \in Days /\ today \in Days
    BY OfDay
  <2>1. rows' = rows /\ lost' = lost /\ used' = used
    BY DEF Today
  <2>2. CASE today = clock
    <3>1. Pending(d)' = Pending(d)
      BY <2>2 DEF Pending, Today
    <3> QED BY <2>0, <2>1, <2>2, <3>1
  <2>3. CASE today # clock
    <3>1. Pending(d)' = 0
      BY <2>3 DEF Pending, Today
    <3>2. Pending(d) \in Nat
      BY <2>0 DEF Pending
    <3> QED BY <2>0, <2>1, <2>3, <3>1, <3>2
  <2> QED BY <2>2, <2>3
<1>4. clock \in Days /\ today' = clock BY DEF Inv, TypeOK, Today
<1> QED BY <1>1, <1>2, <1>3, <1>4 DEF Inv, NothingCountedTwice, OpenDayAccounted

LEMMA ExitInv == ASSUME Inv, Exit PROVE Inv'
<1> USE UsageAssumption DEF Days, NewTracker, UsageAssumption
<1>1. TypeOK'
  <2>0. TypeOK BY DEF Inv
  <2>1. clock' \in Days /\ today' \in Days BY <2>0 DEF TypeOK, Exit
  <2>2. acc' = 0 /\ dirty' = FALSE /\ rows' = rows BY DEF Exit
  <2>3. rows \in [Days -> Nat] BY <2>0 DEF TypeOK
  <2>4. used' \in [Days -> Nat] BY <2>0 DEF TypeOK, Exit
  <2>5. lost' \in [Days -> Nat]
    <3>1. lost' = lost \/ lost' = [lost EXCEPT ![today] = lost[today] + acc]
      BY DEF Exit
    <3>2. lost \in [Days -> Nat] /\ today \in Days /\ acc \in Nat
      BY <2>0 DEF TypeOK
    <3>3. lost[today] + acc \in Nat
      BY <3>2
    <3> QED BY <3>1, <3>2, <3>3
  <2>6. flusher' \in {"off", "looping", "stopping", "ended"} BY <2>0 DEF TypeOK, Exit
  <2>7. exits' \in 0..MaxExits BY <2>0 DEF TypeOK, Exit
  <2>8. flushed' \in [Days -> Nat] BY <2>0 DEF TypeOK, Exit
  <2> QED BY <2>1, <2>2, <2>3, <2>4, <2>5, <2>6, <2>7, <2>8 DEF TypeOK
<1>2. DayInOrder'
  <2>1. today <= clock /\ clock \in Days /\ today \in Days /\ lost \in [Days -> Nat]
    BY DEF Inv, TypeOK, DayInOrder
  <2>2. today' = clock /\ clock' = clock /\ acc' = 0 /\ rows' = rows /\ used' = used
    BY DEF Exit
  <2>3. ASSUME NEW d \in Days, d > clock
        PROVE  rows[d] = 0 /\ used[d] = 0 /\ lost'[d] = 0
    <3>1. d > today /\ rows[d] = 0 /\ used[d] = 0 /\ lost[d] = 0
      BY <2>1, <2>3, OfDay
    <3>2. lost' = lost \/ lost' = [lost EXCEPT ![today] = lost[today] + acc]
      BY DEF Exit
    <3> QED BY <2>1, <3>1, <3>2
  <2> QED BY <2>1, <2>2, <2>3 DEF DayInOrder
<1>3. ASSUME NEW d \in Days
      PROVE  /\ (rows[d] + Pending(d) + lost[d] <= used[d])'
             /\ d = clock => (rows[d] + Pending(d) + lost[d] = used[d])'
  <2>0. /\ rows[d] \in Nat /\ lost[d] \in Nat /\ used[d] \in Nat /\ acc \in Nat
        /\ rows[d] + Pending(d) + lost[d] <= used[d]
        /\ d = today => rows[d] + Pending(d) + lost[d] = used[d]
        /\ d > today => rows[d] = 0 /\ used[d] = 0 /\ lost[d] = 0
        /\ today <= clock /\ clock \in Days /\ today \in Days
        /\ ~Sync /\ ~dirty => acc = 0
        /\ lost \in [Days -> Nat]
    BY OfDay DEF Inv, TypeOK
  <2>1. CASE dirty /\ ~Sync /\ d = today
    BY <2>0, <2>1 DEF Exit, Pending
  <2>2. CASE ~(dirty /\ ~Sync /\ d = today)
    BY <2>0, <2>2 DEF Exit, Pending
  <2> QED BY <2>1, <2>2
<1>4. clock \in Days /\ today' = clock BY DEF Inv, TypeOK, Exit
<1> QED BY <1>1, <1>2, <1>3, <1>4 DEF Inv, NothingCountedTwice, OpenDayAccounted

LEMMA MidnightInv == ASSUME Inv, Midnight PROVE Inv'
<1> USE UsageAssumption DEF Days, Midnight, UsageAssumption
<1>1. TypeOK' BY DEF Inv, TypeOK
<1>2. DayInOrder' BY DEF Inv, TypeOK, DayInOrder
<1>3. NothingCountedTwice' BY DEF Inv, NothingCountedTwice, Pending
<1>4. OpenDayAccounted' BY DEF Inv, OpenDayAccounted, Pending
<1> QED BY <1>1, <1>2, <1>3, <1>4 DEF Inv

LEMMA CloseInv == ASSUME Inv, Close PROVE Inv'
<1> USE DEF Close
<1>1. TypeOK' BY DEF Inv, TypeOK
<1>2. DayInOrder' BY DEF Inv, DayInOrder
<1>3. NothingCountedTwice' BY DEF Inv, NothingCountedTwice, Pending
<1>4. OpenDayAccounted' BY DEF Inv, OpenDayAccounted, Pending
<1> QED BY <1>1, <1>2, <1>3, <1>4 DEF Inv

LEMMA StutterInv == ASSUME Inv, UNCHANGED vars PROVE Inv'
<1> USE DEF vars
<1>1. TypeOK' BY DEF Inv, TypeOK
<1>2. DayInOrder' BY DEF Inv, DayInOrder
<1>3. NothingCountedTwice' BY DEF Inv, NothingCountedTwice, Pending
<1>4. OpenDayAccounted' BY DEF Inv, OpenDayAccounted, Pending
<1> QED BY <1>1, <1>2, <1>3, <1>4 DEF Inv

-----------------------------------------------------------------------------
\* There is a flusher exactly in batched mode.
FlusherMatchesMode == Sync <=> flusher = "off"

LEMMA NextMode == FlusherMatchesMode /\ [Next]_vars => FlusherMatchesMode'
<1> USE UsageAssumption DEF FlusherMatchesMode, UsageAssumption
<1> QED BY DEF Next, vars, Add, Tick, Stop, Close, Today, Exit, NewTracker, Midnight

LEMMA NextInv == Inv /\ FlusherMatchesMode /\ [Next]_vars => Inv'
<1> SUFFICES ASSUME Inv, FlusherMatchesMode, [Next]_vars PROVE Inv'
    OBVIOUS
<1>1. ASSUME NEW n \in 1..MaxTokens, NEW ok \in BOOLEAN, Add(n, ok) PROVE Inv'
  BY <1>1, AddInv
<1>2. ASSUME NEW ok \in BOOLEAN, Tick(ok) PROVE Inv'
  BY <1>2, FlushInv, UsageAssumption DEF Tick, FlusherMatchesMode, UsageAssumption
<1>3. ASSUME NEW ok \in BOOLEAN, Stop(ok) PROVE Inv'
  BY <1>3, FlushInv, UsageAssumption DEF Stop, FlusherMatchesMode, UsageAssumption
<1>4. CASE Close BY <1>4, CloseInv
<1>5. CASE Today BY <1>5, TodayInv
<1>6. CASE Exit BY <1>6, ExitInv
<1>7. CASE Midnight BY <1>7, MidnightInv
<1>8. CASE UNCHANGED vars BY <1>8, StutterInv
<1> QED BY <1>1, <1>2, <1>3, <1>4, <1>5, <1>6, <1>7, <1>8 DEF Next

LEMMA Invariance == Spec => [](Inv /\ FlusherMatchesMode)
<1>1. Init => FlusherMatchesMode
  BY UsageAssumption DEF Init, FlusherMatchesMode, UsageAssumption
<1> QED BY <1>1, InitInv, NextInv, NextMode, PTL DEF Spec

\* The tables and the accumulator stay of their types: no row, no count and no
\* loss goes below zero, whatever exits and midnights come between (TypeOK).
THEOREM TypeCorrect == Spec => []TypeOK
<1>1. Inv => TypeOK BY DEF Inv
<1> QED BY <1>1, Invariance, PTL

\* No token is counted twice, whatever the interleaving of Add, the flusher,
\* midnight, Close and exits (UsageTracker: Add, flush, Today).
THEOREM CountedOnce == Spec => []NothingCountedTwice
<1>1. Inv => NothingCountedTwice BY DEF Inv
<1> QED BY <1>1, Invariance, PTL

\* The tracker's current day is complete.
THEOREM OpenDay == Spec => []OpenDayAccounted
<1>1. Inv => OpenDayAccounted BY DEF Inv
<1> QED BY <1>1, Invariance, PTL

-----------------------------------------------------------------------------
\* Nothing leaves a row, and what is counted as lost stays counted.
LEMMA RowsGrow ==
    ASSUME Inv, [Next]_vars, NEW d \in Days
    PROVE  rows[d] + lost[d] <= rows'[d] + lost'[d]
<1>0. /\ TypeOK /\ rows \in [Days -> Nat] /\ lost \in [Days -> Nat] /\ acc \in Nat
      /\ clock \in Days /\ today \in Days
  BY DEF Inv, TypeOK
<1>1. ASSUME NEW n \in Nat, NEW ok \in BOOLEAN, Persist(clock, n, ok)
      PROVE  rows[d] + lost[d] <= rows'[d] + lost'[d]
  <2>1. rows'[d] + lost'[d] = IF d = clock THEN rows[d] + lost[d] + n ELSE rows[d] + lost[d]
    BY <1>0, <1>1, PersistEffect
  <2>2. rows[d] \in Nat /\ lost[d] \in Nat BY <1>0
  <2> QED BY <2>1, <2>2
<1>2. ASSUME UNCHANGED <<rows, lost>> PROVE rows[d] + lost[d] <= rows'[d] + lost'[d]
  BY <1>0, <1>2
<1>3. ASSUME NEW n \in 1..MaxTokens, NEW ok \in BOOLEAN, Add(n, ok)
      PROVE  rows[d] + lost[d] <= rows'[d] + lost'[d]
  <2>1. n \in Nat BY UsageAssumption DEF UsageAssumption
  <2> QED BY <1>1, <1>2, <1>3, <2>1 DEF Add
<1>4. ASSUME NEW ok \in BOOLEAN, Flush(ok) PROVE rows[d] + lost[d] <= rows'[d] + lost'[d]
  BY <1>0, <1>1, <1>2, <1>4 DEF Flush
<1>5. CASE Exit
  <2>1. rows' = rows /\ (lost' = lost \/ lost' = [lost EXCEPT ![today] = lost[today] + acc])
    BY <1>5 DEF Exit
  <2> QED BY <1>0, <2>1
<1> QED BY <1>2, <1>3, <1>4, <1>5 DEF Next, vars, Tick, Stop, Close, Today, Midnight

\* A flush leaves nothing of the day of the clock out of the rows.
LEMMA FlushCovers ==
    ASSUME Inv, Inv', NEW ok \in BOOLEAN, Flush(ok), ~Sync, acc' = 0,
           UNCHANGED <<clock, used>>
    PROVE  used[clock] <= rows'[clock] + lost'[clock]
<1>1. /\ clock \in Days /\ today' \in Days /\ today' <= clock
      /\ rows'[clock] \in Nat /\ lost'[clock] \in Nat /\ used'[clock] \in Nat
  BY DEF Inv, TypeOK, DayInOrder
<1>2. CASE today' = clock
  <2>1. rows'[clock] + acc' + lost'[clock] = used'[clock]
    BY <1>2 DEF Inv, OpenDayAccounted, Pending
  <2> QED BY <1>1, <2>1
<1>3. CASE today' # clock
  <2>1. clock > today'
    BY <1>1, <1>3 DEF Days
  <2>2. used'[clock] = 0
    BY <1>1, <2>1 DEF Inv, DayInOrder
  <2> QED BY <1>1, <2>2
<1> QED BY <1>2, <1>3

LEMMA NextFlushed ==
    Inv /\ Inv' /\ FlusherMatchesMode /\ FlushedStays /\ [Next]_vars => FlushedStays'
<1> SUFFICES ASSUME Inv, Inv', FlusherMatchesMode, FlushedStays, [Next]_vars, NEW d \in Days
             PROVE  flushed'[d] <= rows'[d] + lost'[d]
  BY DEF FlushedStays
<1>0. /\ rows[d] + lost[d] <= rows'[d] + lost'[d] /\ flushed[d] <= rows[d] + lost[d]
      /\ rows[d] \in Nat /\ lost[d] \in Nat /\ flushed[d] \in Nat
      /\ rows'[d] \in Nat /\ lost'[d] \in Nat /\ flushed \in [Days -> Nat] /\ clock \in Days
  BY RowsGrow DEF FlushedStays, Inv, TypeOK
<1>1. ASSUME NEW ok \in BOOLEAN, Tick(ok) \/ Stop(ok)
      PROVE  flushed'[d] <= rows'[d] + lost'[d]
  <2>1. /\ Flush(ok) /\ SawFlush /\ ~Sync /\ UNCHANGED <<clock, exits, used>>
        /\ flusher' \in {"looping", "stopping", "ended"}
    BY <1>1, UsageAssumption DEF Tick, Stop, FlusherMatchesMode, UsageAssumption
  <2>2. acc' = 0
    BY <2>1, FlushInv
  <2>3. used[clock] <= rows'[clock] + lost'[clock]
    BY <2>1, <2>2, FlushCovers
  <2>4. flushed'[d] = IF d = clock THEN used[clock] ELSE flushed[d]
    BY <1>0, <2>1 DEF SawFlush
  <2> QED BY <1>0, <2>3, <2>4
<1>2. ASSUME UNCHANGED flushed PROVE flushed'[d] <= rows'[d] + lost'[d]
  BY <1>0, <1>2
<1> QED BY <1>1, <1>2 DEF Next, vars, Add, Close, Today, Exit, Midnight

\* What a flush has seen stays: the ticker's interval bounds what midnight costs
\* (UsageTracker: flush, Add, Today, Close).
THEOREM FlushedIsKept == Spec => []FlushedStays
<1>1. Init => FlushedStays
  BY DEF Init, FlushedStays
<1>2. Inv /\ FlusherMatchesMode /\ [Next]_vars => Inv'
  BY NextInv
<1> QED BY <1>1, <1>2, NextFlushed, Invariance, PTL DEF Spec
=============================================================================
