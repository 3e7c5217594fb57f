------------------------------- MODULE Windows -------------------------------
(***************************************************************************)
(* What the extraction computes: how a transcript is cut into windows,     *)
(* which messages of a window the side LLM sees as turns, how the turns it *)
(* names become message indexes, how candidates for one topic are folded,  *)
(* and which part of the conversation the wiki loop is shown for a range.  *)
(*                                                                         *)
(* Source: src/internal/fork/fork.go, the twins of its helpers in          *)
(* src/internal/interest/merge.go, and dialogSegment in                    *)
(* src/internal/wiki/writer.go.                                            *)
(*                                                                         *)
(* A transcript is the sequence of its roles: ToMessages has dropped empty *)
(* messages and every role but these three. Message indexes count from 0,  *)
(* as in the code, where 0 also means "none". A window is a slice of the   *)
(* transcript, [from, to). A candidate is its normalised topic (NoTopic if *)
(* blank), confidence, range and verdict on a page of its own; its reason, *)
(* its subjectivity and its spelling go with the confidence, tags with it. *)
(***************************************************************************)
EXTENDS Integers, Sequences, SequencesExt, FiniteSetsExt, Lists

CONSTANTS
    UserStep,       \* prefix_step
    MaxWindows,     \* max_windows
    MaxCandidates,  \* max_candidates_per_window
    MinConfidence,  \* min_confidence
    NoTopic         \* a topic that normalizeTopic makes empty

ASSUME WindowsAssumption ==
    /\ UserStep \in Nat \ {0}
    /\ MaxWindows \in Nat \ {0}
    /\ MaxCandidates \in Nat \ {0}
    /\ MinConfidence \in Nat

Roles == {"user", "assistant", "tool"}

-----------------------------------------------------------------------------
\* Windows.

Whole(turns) == [from |-> 0, to |-> Len(turns)]

\* Positions of the user's messages.
UserPositions(turns) ==
    Among([i \in 1..Len(turns) |-> i - 1], {p \in 0..(Len(turns) - 1) : turns[p + 1] = "user"})

\* Where windows end: after every UserStep-th message of the user, and at the
\* end of the transcript.
Boundaries(turns) ==
    LET pos == UserPositions(turns)
    IN  [k \in 1..(Len(pos) \div UserStep) |-> pos[k * UserStep] + 1]
WindowEnds(turns) ==
    LET ends == Boundaries(turns)
    IN  IF ends # <<>> /\ Last(ends) = Len(turns) THEN ends ELSE Append(ends, Len(turns))

\* The cap keeps the last windows.
KeepLast(ws) ==
    IF Len(ws) > MaxWindows THEN SubSeq(ws, Len(ws) - MaxWindows + 1, Len(ws)) ELSE ws

\* Faulty variant: the cap keeps the first windows.
MutantSplitPrefixWindows(turns) ==
    LET ends == WindowEnds(turns)
        all  == [k \in 1..Len(ends) |-> [from |-> 0, to |-> ends[k]]]
    IN  IF turns = <<>> THEN <<>> ELSE SubSeq(all, 1, IF Len(all) < MaxWindows THEN Len(all) ELSE MaxWindows)

\* SplitPrefixWindows: growing prefixes.
SplitPrefixWindows(turns) ==
    LET ends == WindowEnds(turns)
    IN  IF turns = <<>> THEN <<>>
        ELSE KeepLast([k \in 1..Len(ends) |-> [from |-> 0, to |-> ends[k]]])

\* SplitNonPrefixWindows: one after the other.
SplitNonPrefixWindows(turns) ==
    LET ends == WindowEnds(turns)
    IN  IF turns = <<>> THEN <<>>
        ELSE KeepLast([k \in 1..Len(ends) |->
                         [from |-> IF k = 1 THEN 0 ELSE ends[k - 1], to |-> ends[k]]])

\* The windows that Analyze goes through, pass by pass: two passes over the whole
\* transcript in route full2.
WindowsOf(turns, route) ==
    CASE route = "prefix"     -> SplitPrefixWindows(turns)
      [] route = "non_prefix" -> SplitNonPrefixWindows(turns)
      [] route = "full"       -> <<Whole(turns)>>
      [] route = "full2"      -> <<Whole(turns), Whole(turns)>>

-----------------------------------------------------------------------------
\* Ranges.

\* renderIndices: the messages of a window that summarize numbers as turns, as
\* indexes into the slice; tools only in route prefix.
RenderIndices(turns, w, includeTool) ==
    LET n == w.to - w.from
    IN  Among([i \in 1..n |-> i - 1], {p \in 0..(n - 1) : turns[w.from + p + 1] # "tool" \/ includeTool})

Clamp(x, low, high) == IF x < low THEN low ELSE IF x > high THEN high ELSE x

\* Faulty variant: the end of the range is taken for exclusive.
MutantMapTurnRange(range, idx) ==
    LET s == IF range[1] < 1 THEN 1 ELSE range[1]
        e == Clamp(range[2], s, Len(idx))
    IN  IF idx = <<>> \/ range = <<0, 0>> \/ s > Len(idx) THEN range
        ELSE <<idx[s], idx[IF e > s THEN e - 1 ELSE e]>>

\* mapTurnRange: from turn numbers to indexes. "None" stays, and so does a range
\* that begins behind the window.
MapTurnRange(range, idx) ==
    LET s == IF range[1] < 1 THEN 1 ELSE range[1]
        e == Clamp(range[2], s, Len(idx))
    IN  IF idx = <<>> \/ range = <<0, 0>> \/ s > Len(idx) THEN range
        ELSE <<idx[s], idx[e]>>

\* dialogSegment: the messages of the transcript that a range stands for.
DialogSegment(turns, range) ==
    IF range = <<0, 0>> THEN {}
    ELSE {i \in range[1]..range[2] : i < Len(turns) /\ turns[i + 1] # "tool"}

-----------------------------------------------------------------------------
\* Candidates.

\* The end of extract and of extractAdditional: the confident ones, the first
\* MaxCandidates of them, with their ranges mapped.
Extracted(raw, idx) ==
    LET confident == Among(raw, {c \in Range(raw) : c.confidence >= MinConfidence})
        kept == SubSeq(confident, 1, IF Len(confident) > MaxCandidates THEN MaxCandidates ELSE Len(confident))
    IN  [k \in 1..Len(kept) |-> [kept[k] EXCEPT !.range = MapTurnRange(@, idx)]]

\* What becomes of an entry when another candidate for its topic comes.
FoldInto(m, c) ==
    [m EXCEPT
       !.confidence = IF c.confidence > @ THEN c.confidence ELSE @,
       !.range = <<IF c.range[1] > 0 /\ (@[1] = 0 \/ c.range[1] < @[1]) THEN c.range[1] ELSE @[1],
                   IF c.range[2] > @[2] THEN c.range[2] ELSE @[2]>>,
       !.worthy = IF @ = "nil" THEN c.worthy ELSE @]

\* Faulty variant: a later candidate takes the place of an earlier one.
MutantAddCandidate(out, c) ==
    LET same == {i \in 1..Len(out) : out[i].topic = c.topic}
    IN  IF c.topic = NoTopic \/ same = {} THEN Append(out, c)
        ELSE [out EXCEPT ![Min(same)] = c]

AddCandidate(out, c) ==
    LET same == {i \in 1..Len(out) : out[i].topic = c.topic}
    IN  IF c.topic = NoTopic \/ same = {} THEN Append(out, c)
        ELSE [out EXCEPT ![Min(same)] = FoldInto(@, c)]

\* The entries after each candidate.
Entries(cands) ==
    LET out[n \in 0..Len(cands)] ==
          IF n = 0 THEN <<>> ELSE AddCandidate(out[n - 1], cands[n])
    IN  out

\* dedupe of the extraction.
Dedupe(cands) == Entries(cands)[Len(cands)]

\* dedupeCandidates, its twin in the merge.
DedupeCandidates(cands) == Entries(cands)[Len(cands)]

\* Where a span of ranges begins; <<0, 0>> is no range (fork.go:424-425).
RealRanges(ranges) == ranges \ {<<0, 0>>}
SpanStart(ranges) ==
    IF RealRanges(ranges) = {} THEN 0 ELSE Min({r[1] : r \in RealRanges(ranges)})

\* Reference: what Dedupe promises, without the order in which it folds. One entry
\* per topic, in the order in which topics came up; its confidence is the highest, its
\* verdict the first there is, its range goes from the least start to the greatest
\* end. The start is only promised for topics that no range puts at message 0.
IsDedupeOf(out, cands) ==
    LET Of(t) == {i \in 1..Len(cands) : cands[i].topic = t}
        Said == {cands[i].topic : i \in 1..Len(cands)} \ {NoTopic}
        FirstOf(k) == Min(Of(out[k].topic))
    IN  /\ Len(out) = Cardinality(Said) + Cardinality(Of(NoTopic))
        /\ \A t \in Said : \E k \in 1..Len(out) : out[k].topic = t
        /\ \A j, k \in 1..Len(out) :
              (j < k /\ NoTopic \notin {out[j].topic, out[k].topic}) => FirstOf(j) < FirstOf(k)
        /\ \A k \in 1..Len(out) : out[k].topic # NoTopic =>
             LET all == Of(out[k].topic)
                 ranges == {cands[i].range : i \in all}
                 judged == {i \in all : cands[i].worthy # "nil"}
             IN  /\ out[k].confidence = Max({cands[i].confidence : i \in all})
                 /\ (\A r \in RealRanges(ranges) : r[1] # 0) => out[k].range[1] = SpanStart(ranges)
                 /\ out[k].range[2] = Max({cands[i].range[2] : i \in all})
                 /\ out[k].worthy = IF judged = {} THEN "nil" ELSE cands[Min(judged)].worthy
=============================================================================
