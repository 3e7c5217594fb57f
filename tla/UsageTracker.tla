---------------------------- MODULE UsageTracker ----------------------------
(***************************************************************************)
(* Token accounting: the in-memory accumulator of one UTC day, its flusher *)
(* goroutine and the per-day rows of the database.                         *)
(*                                                                         *)
(* Source: src/internal/usage/usage.go and AddUsage of                     *)
(* src/internal/store/usage.go, wired in src/internal/service/service.go.  *)
(* A usage delta is one number here: its three counters are always treated *)
(* alike. Each operation holds t.mu from beginning to end and reads the    *)
(* clock inside, so each is one action.                                    *)
(***************************************************************************)
EXTENDS Naturals

CONSTANTS
    Sync,       \* interval <= 0: Add persists at once and nobody flushes
    MaxDay,     \* bound: the last day of the clock
    MaxTokens,  \* bound: tokens used on a day
    MaxExits    \* bound: process exits explored

ASSUME UsageAssumption ==
    /\ Sync \in BOOLEAN
    /\ MaxDay \in Nat
    /\ MaxTokens \in Nat
    /\ MaxExits \in Nat

VARIABLES
    clock,    \* the UTC day
    rows,     \* database: tokens in the row of each day, 0 when there is none
    today,    \* the day the accumulator belongs to
    acc,      \* tokens accumulated
    dirty,    \* acc has a delta that is not flushed
    flusher,  \* flushLoop: "off" in sync mode, "looping", "stopping", "ended"
    exits,
    used,     \* ghost: tokens reported on each day
    lost,     \* ghost: tokens of each day that a failed persist or an exit dropped
    flushed   \* ghost: tokens reported on each day when a flush last ran on it

vars == <<clock, rows, today, acc, dirty, flusher, exits, used, lost, flushed>>

Days == 0..MaxDay

TypeOK ==
    /\ clock \in Days
    /\ rows \in [Days -> Nat]
    /\ today \in Days
    /\ acc \in Nat
    /\ dirty \in BOOLEAN
    /\ flusher \in {"off", "looping", "stopping", "ended"}
    /\ exits \in 0..MaxExits
    /\ used \in [Days -> Nat]
    /\ lost \in [Days -> Nat]
    /\ flushed \in [Days -> Nat]

-----------------------------------------------------------------------------
\* Faulty variants, one per property: a slip the code could have made.

\* persist replaces the row instead of adding to it.
MutantPersist(d, n, ok) ==
    /\ rows' = IF ok THEN [rows EXCEPT ![d] = n] ELSE rows
    /\ lost' = IF ok THEN lost ELSE [lost EXCEPT ![d] = @ + n]

\* persist is tried again after an error that came after the commit.
MutantPersistTwice(d, n, ok) ==
    /\ rows' = [rows EXCEPT ![d] = @ + (IF ok THEN n ELSE 2 * n)]
    /\ UNCHANGED lost

\* flush does not reset the accumulator after it has persisted it.
MutantFlush(ok) ==
    IF dirty /\ today = clock
      THEN /\ rows' = IF ok THEN [rows EXCEPT ![clock] = @ + acc] ELSE rows
           /\ lost' = IF ok THEN lost ELSE [lost EXCEPT ![clock] = @ + acc]
           /\ dirty' = FALSE
           /\ UNCHANGED <<today, acc>>
      ELSE UNCHANGED <<today, acc, dirty, rows, lost>>

\* Today takes what it has read for flushed.
MutantToday ==
    /\ today' = clock
    /\ acc' = IF today = clock THEN acc ELSE 0
    /\ dirty' = FALSE
    /\ UNCHANGED <<clock, rows, flusher, exits, used, lost, flushed>>

\* NewTracker keys its day by a local time that is ahead of UTC.
MutantNewTracker(day) ==
    /\ today' = day + 1
    /\ acc' = 0
    /\ dirty' = FALSE
    /\ flusher' = IF Sync THEN "off" ELSE "looping"

-----------------------------------------------------------------------------
Init ==
    /\ clock = 0
    /\ rows = [d \in Days |-> 0]
    /\ today = 0
    /\ acc = 0
    /\ dirty = FALSE
    /\ flusher = IF Sync THEN "off" ELSE "looping"
    /\ exits = 0
    /\ used = [d \in Days |-> 0]
    /\ lost = [d \in Days |-> 0]
    /\ flushed = [d \in Days |-> 0]

\* The callback: one upsert that adds to the row of the day. Its error is
\* ignored.
Persist(d, n, ok) ==
    /\ rows' = IF ok THEN [rows EXCEPT ![d] = @ + n] ELSE rows
    /\ lost' = IF ok THEN lost ELSE [lost EXCEPT ![d] = @ + n]

\* Add: on a new day the accumulator starts over, whatever it holds.
Add(n, ok) ==
    /\ used[clock] + n <= MaxTokens
    /\ today' = clock
    /\ acc' = IF today = clock THEN acc + n ELSE n
    /\ dirty' = TRUE
    /\ IF Sync THEN Persist(clock, n, ok) ELSE UNCHANGED <<rows, lost>>
    /\ used' = [used EXCEPT ![clock] = @ + n]
    /\ UNCHANGED <<clock, flusher, exits, flushed>>

\* flush: nothing unless dirty; on a new day the accumulator is dropped;
\* otherwise it is persisted under its day and reset, error or not.
Flush(ok) ==
    IF ~dirty
      THEN UNCHANGED <<today, acc, dirty, rows, lost>>
      ELSE /\ today' = clock
           /\ acc' = 0
           /\ dirty' = FALSE
           /\ IF today = clock THEN Persist(clock, acc, ok) ELSE UNCHANGED <<rows, lost>>

\* A flush has come by.
SawFlush == flushed' = [flushed EXCEPT ![clock] = used[clock]]

\* flushLoop, its ticker case. The select may still take it once stop is closed.
Tick(ok) ==
    /\ flusher \in {"looping", "stopping"}
    /\ Flush(ok)
    /\ SawFlush
    /\ UNCHANGED <<clock, flusher, exits, used>>

\* Close: ask the loop to stop; Close returns once the loop has ended.
Close ==
    /\ flusher = "looping"
    /\ flusher' = "stopping"
    /\ UNCHANGED <<clock, rows, today, acc, dirty, exits, used, lost, flushed>>

\* flushLoop, its stop case: a last flush.
Stop(ok) ==
    /\ flusher = "stopping"
    /\ Flush(ok)
    /\ flusher' = "ended"
    /\ SawFlush
    /\ UNCHANGED <<clock, exits, used>>

\* Today: a read that also starts a new day over.
Today ==
    /\ today' = clock
    /\ acc' = IF today = clock THEN acc ELSE 0
    /\ UNCHANGED <<clock, rows, dirty, flusher, exits, used, lost, flushed>>

NewTracker(day) ==
    /\ today' = day
    /\ acc' = 0
    /\ dirty' = FALSE
    /\ flusher' = IF Sync THEN "off" ELSE "looping"

\* The process exits (killed, or after Close while agent goroutines still
\* report usage) and starts again.
Exit ==
    /\ exits < MaxExits
    /\ exits' = exits + 1
    /\ NewTracker(clock)
    /\ lost' = IF dirty /\ ~Sync THEN [lost EXCEPT ![today] = @ + acc] ELSE lost
    /\ UNCHANGED <<clock, rows, used, flushed>>

Midnight ==
    /\ clock < MaxDay
    /\ clock' = clock + 1
    /\ UNCHANGED <<rows, today, acc, dirty, flusher, exits, used, lost, flushed>>

Next ==
    \/ \E n \in 1..MaxTokens, ok \in BOOLEAN : Add(n, ok)
    \/ \E ok \in BOOLEAN : Tick(ok) \/ Stop(ok)
    \/ Close \/ Today \/ Exit \/ Midnight

Spec == Init /\ [][Next]_vars
-----------------------------------------------------------------------------
\* What the accumulator still owes the row of a day.
Pending(d) == IF ~Sync /\ d = today THEN acc ELSE 0

\* No token is counted twice or under another day, however Add, the ticker,
\* Close, midnight and exits interleave.
NothingCountedTwice == \A d \in Days : rows[d] + Pending(d) + lost[d] <= used[d]

\* The day the tracker is on is complete: every token reported on it is in its
\* row, still accumulated, or dropped by a failed persist or an exit.
OpenDayAccounted ==
    rows[today] + Pending(today) + lost[today] = used[today]

\* What was reported on a day before a flush ran on that day, the ticker's or
\* that of Close, is in the row of the day, unless the persist failed, and stays
\* there whatever happens next: midnight, which drops what is still accumulated
\* (usage.go:74-79), costs no more than what came after the last flush.
FlushedStays == \A d \in Days : flushed[d] <= rows[d] + lost[d]

\* "Close flushes any remainder" (usage.go:42), "persists any pending delta" (:121):
\* the last flush leaves nothing of what is accumulated, of whatever day, in
\* neither the rows nor the failures. UsageMidnight.cfg finds it violated: once midnight
\* has passed, that flush starts the new day over and drops the old one's delta.
CloseFlushes ==
    [][flusher = "stopping" /\ flusher' = "ended" =>
         \A d \in Days : rows'[d] + lost'[d] >= rows[d] + lost[d] + Pending(d)]_vars
=============================================================================
