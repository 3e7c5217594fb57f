---------------------------- MODULE RecallProofs ----------------------------
(***************************************************************************)
(* Proofs about Recall, for every number of requests, ids, writes and      *)
(* namespaces, every TTL and every store to begin with: types, that no     *)
(* answer has a memory that was not live since the request began, what the *)
(* cache adds to that, and that a substitute succeeds what it stands for.  *)
(*                                                                         *)
(* There are two inductive invariants. Recent: what entityCache holds as   *)
(* active, what is in a half-made answer and what is in the cached text    *)
(* was live since the beginning of the request that read it. It needs to   *)
(* know that recalls keep nothing in entityCache, for a recall that finds  *)
(* a text takes over the beginning of another. Faithful: a walk along the  *)
(* sequels is always at a point that stands behind what succeeds the hit   *)
(* it set out from, whatever jobs add to the chains meanwhile, and a get   *)
(* whose store nobody touches has the row or its successor at every step.  *)
(***************************************************************************)
EXTENDS Recall, TLAPS

Exempt(r, e) == op[r] = "get" /\ e[1] \in Kinds /\ e[2] = asked[r]

\* What holds of one request.
Sound(r) ==
    /\ at[r] = "idle" => memo[r] = Blank /\ got[r] = {}
    /\ at[r] = "lookup" => op[r] = "recall"
    /\ at[r] \in {"point", "page"} => op[r] = "get"
    /\ op[r] = "recall" => memo[r] = Blank
    /\ begun[r] <= now
    /\ \A e \in Entities : memo[r][e] = "active" => WasLive(e, begun[r])
    /\ \A e \in got[r] : WasLive(e, begun[r]) \/ Exempt(r, e)

TextSound ==
    text # Nothing =>
        /\ text.begun <= text.made /\ text.made <= now
        /\ \A e \in text.items : WasLive(e, text.begun)

Recent == TextSound /\ \A r \in Readers : Sound(r)

-----------------------------------------------------------------------------
LEMMA InitType == Init => TypeOK
<1> SUFFICES ASSUME Init PROVE TypeOK
  OBVIOUS
<1>1. StoreOK
  BY RecallAssumption DEF Init, StoreOK, Texts
<1>2. RequestOK
  BY DEF Init, RequestOK, Blank, Stages
<1>3. WalkOK
  BY DEF Init, WalkOK, Walking
<1>. QED BY <1>1, <1>2, <1>3 DEF TypeOK

LEMMA StatusType == ASSUME StoreOK, NEW e \in Entities PROVE Status(e) \in PageStatus
  BY DEF StoreOK, Status, Entities, Kinds, PointStatus, PageStatus

LEMMA SeenType ==
    ASSUME StoreOK, RequestOK, NEW r \in Readers, NEW e \in Entities
    PROVE  Seen(r, e) \in PageStatus
  BY StatusType DEF RequestOK, Seen

\* Jobs leave the requests alone.
LEMMA JobType == TypeOK /\ (Job \/ Tick \/ Evict) => TypeOK'
<1> SUFFICES ASSUME TypeOK, Job \/ Tick \/ Evict PROVE TypeOK'
  OBVIOUS
<1> USE DEF TypeOK
<1>0. UNCHANGED <<at, op, asked, hits, todo, cur, node, memo, got, spare, begun>>
  BY DEF Job, PutPoint, PutPage, LinkPoint, LinkSequel, Unlink, Tick, Evict, Write, request
<1>1. WalkOK'
  BY <1>0 DEF WalkOK
<1>2. RequestOK'
  <2>1. moved' \in [Readers -> BOOLEAN]
    BY DEF RequestOK, Job, PutPoint, PutPage, LinkPoint, LinkSequel, Unlink, Tick, Evict,
           Note, request
  <2>. QED BY <1>0, <2>1 DEF RequestOK
<1>3. ASSUME Write PROVE writes' \in 0..MaxWrites /\ now' \in Nat /\ text' \in Texts \cup {Nothing}
  BY <1>3, RecallAssumption DEF Write, StoreOK
<1>4. ASSUME NEW i \in Ids, NEW s \in PointStatus, PutPoint(i, s) PROVE StoreOK'
  BY <1>3, <1>4 DEF PutPoint, Note, StoreOK, Write
<1>5. ASSUME NEW i \in Ids, NEW s \in PageStatus, PutPage(i, s) PROVE StoreOK'
  BY <1>3, <1>5 DEF PutPage, Note, StoreOK, Write
<1>6. ASSUME NEW x \in Ids, NEW p \in Ids, LinkPoint(x, p) \/ LinkSequel(x, p) \/ Unlink(p)
      PROVE  StoreOK'
  BY <1>3, <1>6 DEF LinkPoint, LinkSequel, Unlink, StoreOK, Write
<1>7. ASSUME Tick PROVE StoreOK'
  <2>1. UNCHANGED <<point, page, hasPage, sequel, everPage, everSequel, gone, writes, text>>
    BY <1>7 DEF Tick, store
  <2>2. now' = now + 1
    BY <1>7 DEF Tick
  <2>. QED BY <2>1, <2>2 DEF StoreOK
<1>8. ASSUME Evict PROVE StoreOK'
  <2>1. UNCHANGED <<point, page, hasPage, sequel, everPage, everSequel, gone, writes, now>>
    BY <1>8 DEF Evict, store
  <2>2. text' = Nothing
    BY <1>8 DEF Evict
  <2>. QED BY <2>1, <2>2 DEF StoreOK
<1>9. StoreOK'
  BY <1>4, <1>5, <1>6, <1>7, <1>8 DEF Job
<1>. QED BY <1>1, <1>2, <1>9


LEMMA OpenType ==
    ASSUME TypeOK, NEW r \in Readers, BeginRecall(r) \/ BeginSearch(r) \/ \E i \in Ids : BeginGet(r, i)
    PROVE  TypeOK'
<1> USE DEF TypeOK
<1>1. PICK o \in {"recall", "search", "get"}, s \in {"lookup", "find", "point"}, i \in Ids \cup {Nothing} :
         Open(r, o, s, i) /\ (s = "point" => i \in Ids)
  BY DEF BeginRecall, BeginSearch, BeginGet
<1>2. StoreOK'
  BY <1>1 DEF Open, known, store, StoreOK
<1>3. RequestOK'
  BY <1>1 DEF Open, RequestOK, StoreOK, Stages
<1>4. WalkOK'
  BY <1>1 DEF Open, RequestOK, WalkOK, Walking
<1>. QED BY <1>2, <1>3, <1>4

LEMMA LookupType == ASSUME TypeOK, NEW r \in Readers, Lookup(r) PROVE TypeOK'
<1> USE DEF TypeOK
<1>1. StoreOK'
  BY DEF Lookup, known, store, StoreOK
<1>2. CASE Fresh(text)
  <2>1. text \in Texts
    BY <1>2 DEF Fresh, StoreOK
  <2>2. text.items \subseteq Entities /\ text.begun \in Nat
    BY <2>1 DEF Texts
  <2>3. RequestOK'
    BY <1>2, <2>2 DEF Lookup, RequestOK, Stages
  <2>4. WalkOK'
    BY <1>2 DEF Lookup, WalkOK, RequestOK, Walking
  <2>. QED BY <1>1, <2>3, <2>4
<1>3. CASE ~Fresh(text)
  <2>1. RequestOK'
    BY <1>3 DEF Lookup, RequestOK, Stages
  <2>2. WalkOK'
    BY <1>3 DEF Lookup, WalkOK, RequestOK, Walking
  <2>. QED BY <1>1, <2>1, <2>2
<1>. QED BY <1>2, <1>3

LEMMA FindType ==
    ASSUME TypeOK, NEW r \in Readers, NEW found \in SUBSET Entities, Find(r, found)
    PROVE  TypeOK'
<1> USE DEF TypeOK
<1>1. StoreOK'
  BY DEF Find, known, store, StoreOK
<1>2. RequestOK'
  BY DEF Find, RequestOK, Stages
<1>3. WalkOK'
  BY DEF Find, WalkOK, RequestOK, Walking
<1>. QED BY <1>1, <1>2, <1>3

LEMMA GetRowType ==
    ASSUME TypeOK, NEW r \in Readers, NEW k \in Kinds, NEW other \in {"page", "next"},
           at[r] \in {"point", "page"}, GetRow(r, k, "next", other)
    PROVE  TypeOK'
<1> DEFINE e == <<k, asked[r]>>
<1> USE DEF TypeOK
<1>1. StoreOK'
  BY DEF GetRow, known, store, StoreOK
<1>2. e \in Entities /\ e # Nothing
  BY RecallAssumption DEF WalkOK, Entities
<1> HIDE DEF e
<1>3. CASE Status(e) = "none"
  <2>1. at' = [at EXCEPT ![r] = other] /\ UNCHANGED <<todo, got, cur, node, memo, spare, request>>
    BY <1>3 DEF GetRow, e
  <2>2. RequestOK'
    BY <2>1 DEF RequestOK, request, Stages
  <2>3. WalkOK'
    BY <2>1 DEF WalkOK, RequestOK, Walking, request
  <2>. QED BY <1>1, <2>2, <2>3
<1>4. CASE Status(e) = "active"
  <2>1. /\ at' = [at EXCEPT ![r] = "next"] /\ todo' = [todo EXCEPT ![r] = {e}]
        /\ UNCHANGED <<got, cur, node, memo, spare, request>>
    BY <1>4 DEF GetRow, e
  <2>2. RequestOK'
    BY <2>1, <1>2 DEF RequestOK, request, Stages
  <2>3. WalkOK'
    BY <2>1 DEF WalkOK, RequestOK, Walking, request
  <2>. QED BY <1>1, <2>2, <2>3
<1>5. CASE Status(e) # "none" /\ Status(e) # "active"
  <2>1. /\ at' = [at EXCEPT ![r] = "row"] /\ got' = [got EXCEPT ![r] = {e}]
        /\ cur' = [cur EXCEPT ![r] = e]
        /\ UNCHANGED <<todo, node, memo, spare, request>>
    BY <1>5 DEF GetRow, e
  <2>2. RequestOK'
    BY <2>1, <1>2 DEF RequestOK, request, Stages
  <2>3. WalkOK'
    BY <2>1, <1>2 DEF WalkOK, RequestOK, Walking, request
  <2>. QED BY <1>1, <2>2, <2>3
<1>. QED BY <1>3, <1>4, <1>5

\* What judging one entity comes to.
LEMMA JudgedType ==
    ASSUME TypeOK, NEW r \in Readers, NEW e \in Entities, Remember(r, e, Seen(r, e)),
           Take(r, e) \/ Drop(r) \/ Replace(r, e),
           todo' \in [Readers -> SUBSET Entities], UNCHANGED <<known, request, node, spare>>
    PROVE  TypeOK'
<1> USE DEF TypeOK
<1>1. StoreOK'
  BY DEF known, store, StoreOK
<1>2. Seen(r, e) \in PageStatus
  BY SeenType
<1>3. memo' \in [Readers -> [Entities -> PageStatus \cup {"unread"}]]
  BY <1>2 DEF Remember, RequestOK
<1>4. e # Nothing
  BY RecallAssumption
<1>5. UNCHANGED <<op, asked, hits, begun, moved, node, spare>>
  BY DEF request
<1>6. CASE Take(r, e)
  <2>1. RequestOK'
    BY <1>3, <1>5, <1>6 DEF Take, RequestOK, Stages
  <2>2. WalkOK'
    BY <1>5, <1>6 DEF Take, RequestOK, WalkOK, Walking
  <2>. QED BY <1>1, <2>1, <2>2
<1>7. CASE Drop(r)
  <2>1. RequestOK'
    BY <1>3, <1>5, <1>7 DEF Drop, RequestOK, Stages
  <2>2. WalkOK'
    BY <1>5, <1>7 DEF Drop, RequestOK, WalkOK, Walking
  <2>. QED BY <1>1, <2>1, <2>2
<1>8. CASE Replace(r, e)
  <2>1. RequestOK'
    BY <1>3, <1>5, <1>8 DEF Replace, RequestOK, Stages
  <2>2. WalkOK'
    BY <1>4, <1>5, <1>8 DEF Replace, RequestOK, WalkOK, Walking
  <2>. QED BY <1>1, <2>1, <2>2
<1>. QED BY <1>6, <1>7, <1>8

LEMMA LoadHitType ==
    ASSUME TypeOK, NEW r \in Readers, NEW e \in Entities, LoadHit(r, e)
    PROVE  TypeOK'
<1>1. todo' \in [Readers -> SUBSET Entities]
  BY DEF LoadHit, TypeOK, RequestOK
<1>2. Take(r, e) \/ Drop(r) \/ Replace(r, e)
  BY DEF LoadHit
<1>. QED BY <1>1, <1>2, JudgedType DEF LoadHit

LEMMA LoadReplacementType ==
    ASSUME TypeOK, NEW r \in Readers, LoadReplacement(r)
    PROVE  TypeOK'
<1>1. cur[r] \in Entities
  BY DEF LoadReplacement, TypeOK, WalkOK
<1>2. todo' \in [Readers -> SUBSET Entities]
  BY DEF LoadReplacement, TypeOK, RequestOK
<1>3. Take(r, cur[r]) \/ Drop(r) \/ Replace(r, cur[r])
  BY DEF LoadReplacement
<1>. QED BY <1>1, <1>2, <1>3, JudgedType DEF LoadReplacement

LEMMA WalkType ==
    ASSUME TypeOK, NEW r \in Readers, NEW s \in {"backing", "sequel", "successor", "pages"},
           NEW i \in Ids, cur[r] # Nothing, Walk(r, s, i)
    PROVE  TypeOK'
<1> USE DEF TypeOK
<1>1. StoreOK'
  BY DEF Walk, known, store, StoreOK
<1>2. RequestOK'
  BY DEF Walk, RequestOK, request, Stages, Walking
<1>3. WalkOK'
  BY DEF Walk, RequestOK, WalkOK, request, Walking
<1>. QED BY <1>1, <1>2, <1>3

LEMMA ResolvedType ==
    ASSUME TypeOK, NEW r \in Readers, NEW e \in Entities \cup {Nothing}, Resolved(r, e)
    PROVE  TypeOK'
<1> USE DEF TypeOK
<1>1. StoreOK'
  BY DEF Resolved, known, store, StoreOK
<1>2. PICK s \in {"next", "again"} :
         /\ at' = [at EXCEPT ![r] = s]
         /\ s = "again" => cur'[r] # Nothing
         /\ cur' \in [Readers -> Entities \cup {Nothing}]
         /\ \A q \in Readers \ {r} : cur'[q] = cur[q]
         /\ spare' \in [Readers -> Entities \cup {Nothing}]
  <2>1. CASE got[r] # {} /\ op[r] = "get"
    <3>1. /\ at' = [at EXCEPT ![r] = "next"] /\ spare' = [spare EXCEPT ![r] = e]
          /\ cur' = [cur EXCEPT ![r] = Nothing]
      BY <2>1 DEF Resolved
    <3>2. /\ cur \in [Readers -> Entities \cup {Nothing}]
          /\ spare \in [Readers -> Entities \cup {Nothing}]
      BY DEF RequestOK, WalkOK
    <3>. QED BY <3>1, <3>2
  <2>2. CASE ~(got[r] # {} /\ op[r] = "get")
    <3>1. CASE e = Nothing
      BY <2>2, <3>1 DEF Resolved, RequestOK, WalkOK
    <3>2. CASE e # Nothing
      BY <2>2, <3>2 DEF Resolved, RequestOK, WalkOK
    <3>. QED BY <3>1, <3>2
  <2>. QED BY <2>1, <2>2
<1>3. RequestOK'
  BY <1>2 DEF Resolved, RequestOK, request, Stages
<1>4. WalkOK'
  BY <1>2 DEF Resolved, RequestOK, WalkOK, request, Walking
<1>. QED BY <1>1, <1>3, <1>4

\* A step of ResolveReplacement goes on or returns.
LEMMA ResolveCases ==
    ASSUME TypeOK, NEW r \in Readers, ResolveStep(r)
    PROVE  /\ cur[r] \in Entities
           /\ \/ \E s \in Walking, i \in Ids : Walk(r, s, i)
              \/ \E e \in Entities \cup {Nothing} : Resolved(r, e)
<1>1. cur[r] \in Entities /\ at[r] \in Walking \cup {"row"}
  BY DEF ResolveStep, ReadRow, ReadBacking, ReadSequel, ReadSuccessor, ReadPages,
         TypeOK, WalkOK, Walking
<1>2. at[r] # "row" => node[r] \in Ids
  BY <1>1 DEF TypeOK, WalkOK
<1>3. CASE ReadRow(r)
  <2>1. at[r] = "row"
    BY <1>3 DEF ReadRow
  <2>2. cur[r][2] \in Ids
    BY <1>1, RecallAssumption DEF Entities
  <2>. QED BY <1>1, <1>3, <2>2 DEF ReadRow, Walking
<1>4. CASE ReadBacking(r)
  BY <1>1, <1>4 DEF ReadBacking, Walking
<1>5. CASE ReadSequel(r)
  BY <1>1, <1>5 DEF ReadSequel, Walking
<1>6. CASE ReadSuccessor(r)
  BY <1>1, <1>2, <1>6 DEF ReadSuccessor, Walking
<1>7. CASE ReadPages(r)
  BY <1>1, <1>2, <1>7 DEF ReadPages, Entities, Kinds
<1>. QED BY <1>1, <1>3, <1>4, <1>5, <1>6, <1>7 DEF ResolveStep

LEMMA ResolveType == ASSUME TypeOK, NEW r \in Readers, ResolveStep(r) PROVE TypeOK'
  BY ResolveCases, WalkType, ResolvedType, RecallAssumption DEF Walking

LEMMA CompleteType == ASSUME TypeOK, NEW r \in Readers, Complete(r) PROVE TypeOK'
<1> USE DEF TypeOK
<1>1. got[r] \in SUBSET Entities /\ begun[r] \in Nat
  BY DEF RequestOK
<1>2. text' \in Texts \cup {Nothing}
  BY <1>1 DEF Complete, Texts, StoreOK
<1>3. StoreOK'
  BY <1>2 DEF Complete, store, StoreOK
<1>4. asked[r] \in Foreign => <<"foreign", asked[r]>> \in Entities
  BY DEF Entities
<1>5. RequestOK'
  BY <1>4 DEF Complete, RequestOK, request, Stages
<1>6. WalkOK'
  BY DEF Complete, RequestOK, WalkOK, request, Walking
<1>. QED BY <1>3, <1>5, <1>6

LEMMA ReturnType == ASSUME TypeOK, NEW r \in Readers, Return(r) PROVE TypeOK'
<1> USE DEF TypeOK
<1>1. StoreOK'
  BY DEF Return, known, store, StoreOK
<1>2. Blank \in [Entities -> PageStatus \cup {"unread"}]
  BY DEF Blank
<1>3. RequestOK'
  BY <1>2 DEF Return, RequestOK, Stages
<1>4. WalkOK'
  BY DEF Return, RequestOK, WalkOK, Walking
<1>. QED BY <1>1, <1>3, <1>4

LEMMA StepType == ASSUME TypeOK, NEW r \in Readers, RequestStep(r) PROVE TypeOK'
<1>1. CASE GetPoint(r) \/ GetPage(r)
  <2>1. asked[r] \in Ids /\ at[r] \in {"point", "page"}
    BY <1>1 DEF GetPoint, GetPage, TypeOK, WalkOK
  <2>. QED BY <1>1, <2>1, GetRowType DEF GetPoint, GetPage, Kinds
<1>. QED BY <1>1, LookupType, FindType, LoadHitType, LoadReplacementType, ResolveType,
            CompleteType, ReturnType DEF RequestStep

LEMMA NextType == TypeOK /\ [Next]_vars => TypeOK'
<1> SUFFICES ASSUME TypeOK, [Next]_vars PROVE TypeOK'
  OBVIOUS
<1>1. CASE UNCHANGED vars
  <2>1. StoreOK'
    BY <1>1 DEF vars, known, store, TypeOK, StoreOK
  <2>2. RequestOK'
    BY <1>1 DEF vars, request, TypeOK, RequestOK
  <2>3. WalkOK'
    BY <1>1 DEF vars, request, TypeOK, WalkOK
  <2>. QED BY <2>1, <2>2, <2>3 DEF TypeOK
<1>. QED BY <1>1, JobType, OpenType, StepType DEF Next

\* The types of Recall, for every store to begin with.
THEOREM TypeCorrect == Spec => []TypeOK
  BY InitType, NextType, PTL DEF Spec

-----------------------------------------------------------------------------
\* While the rows stay as they are, what was live was live.
LEMMA Still ==
    ASSUME UNCHANGED store, NEW e \in Entities, NEW b
    PROVE  WasLive(e, b)' <=> WasLive(e, b)
<1>1. Live' = Live
  BY DEF store, Live, Status
<1>. QED BY <1>1 DEF store, WasLive

\* What was live since b still was when a row is written.
LEMMA Lasts ==
    ASSUME TypeOK, Job \/ Tick \/ Evict, NEW e \in Entities, NEW b \in Nat, b <= now,
           WasLive(e, b)
    PROVE  WasLive(e, b)'
<1>1. ASSUME NEW i \in Ids, Note(i) PROVE WasLive(e, b)'
  BY <1>1 DEF Note, WasLive, TypeOK, StoreOK
<1>2. ASSUME UNCHANGED <<point, page, gone>> PROVE WasLive(e, b)'
  <2>1. Live' = Live
    BY <1>2 DEF Live, Status
  <2>. QED BY <1>2, <2>1 DEF WasLive
<1>3. CASE Job
  BY <1>1, <1>2, <1>3 DEF Job, PutPoint, PutPage, LinkPoint, LinkSequel, Unlink
<1>4. CASE Tick \/ Evict
  BY <1>2, <1>4 DEF Tick, Evict, store
<1>. QED BY <1>3, <1>4

LEMMA JobSound == ASSUME TypeOK, Recent, Job \/ Tick \/ Evict PROVE Recent'
<1>1. /\ UNCHANGED <<at, op, asked, got, memo, begun>>
      /\ now' >= now
  BY DEF Job, PutPoint, PutPage, LinkPoint, LinkSequel, Unlink, Write, Tick, Evict,
         request, TypeOK, StoreOK
<1>2. now' \in Nat /\ now \in Nat
  BY NextType DEF TypeOK, StoreOK, Next
<1>3. ASSUME NEW r \in Readers PROVE Sound(r)'
  <2>1. Sound(r) /\ begun[r] \in Nat /\ got[r] \subseteq Entities
    BY DEF Recent, TypeOK, RequestOK
  <2>2. \A e \in Entities : WasLive(e, begun[r]) => WasLive(e, begun[r])'
    BY <1>1, <2>1, Lasts DEF Sound
  <2>. QED BY <1>1, <1>2, <2>1, <2>2 DEF Sound, Exempt, WasLive
<1>4. TextSound'
  <2>1. text' = text \/ text' = Nothing
    BY DEF Job, PutPoint, PutPage, LinkPoint, LinkSequel, Unlink, Write, Tick, Evict
  <2>2. CASE text' = text /\ text # Nothing
    <3>1. text \in Texts /\ text.begun <= text.made /\ text.made <= now
      BY <2>2 DEF TypeOK, StoreOK, Recent, TextSound
    <3>2. text.begun \in Nat /\ text.made \in Nat /\ text.items \subseteq Entities
      BY <3>1 DEF Texts
    <3>3. \A e \in text.items : WasLive(e, text.begun)
      BY <2>2 DEF Recent, TextSound
    <3>4. \A e \in text.items : WasLive(e, text.begun)'
      BY <2>2, <3>1, <3>2, <3>3, <1>2, Lasts
    <3>. QED BY <1>1, <1>2, <2>2, <3>1, <3>2, <3>4 DEF TextSound
  <2>3. CASE text' = Nothing
    BY <2>3 DEF TextSound
  <2>. QED BY <2>1, <2>2, <2>3 DEF TextSound
<1>. QED BY <1>3, <1>4 DEF Recent

LEMMA InitSound == Init => Recent
<1> SUFFICES ASSUME Init PROVE Recent
  OBVIOUS
<1>1. TextSound
  BY DEF Init, TextSound
<1>2. ASSUME NEW r \in Readers PROVE Sound(r)
  BY DEF Init, Sound, Blank
<1>. QED BY <1>1, <1>2 DEF Recent

\* What r does concerns no other request.
LEMMA OneMoves ==
    ASSUME TypeOK, Recent, NEW r \in Readers, UNCHANGED <<store, now>>,
           \A q \in Readers \ {r} :
               /\ at'[q] = at[q] /\ op'[q] = op[q] /\ asked'[q] = asked[q]
               /\ memo'[q] = memo[q] /\ got'[q] = got[q] /\ begun'[q] = begun[q],
           Sound(r)', TextSound'
    PROVE  Recent'
<1>1. Live' = Live /\ gone' = gone
  BY DEF store, Live, Status
<1>2. ASSUME NEW q \in Readers \ {r} PROVE Sound(q)'
  BY <1>1 DEF Recent, Sound, WasLive, Exempt
<1>. QED BY <1>2 DEF Recent

LEMMA TextKeeps ==
    ASSUME Recent, UNCHANGED <<store, now, text>>
    PROVE  TextSound'
<1>1. Live' = Live /\ gone' = gone
  BY DEF store, Live, Status
<1>. QED BY <1>1 DEF Recent, TextSound, WasLive

\* A step that reads and puts nothing into the answer.
LEMMA QuietSound ==
    ASSUME TypeOK, Recent, NEW r \in Readers, UNCHANGED <<known, op, asked, memo, got, begun>>,
           NEW s \in Stages \ {"idle", "lookup", "point"},
           s = "page" => op[r] = "get", at' = [at EXCEPT ![r] = s]
    PROVE  Recent'
<1>1. Live' = Live /\ gone' = gone /\ UNCHANGED <<store, now, text>>
  BY DEF known, store, Live, Status
<1>2. at'[r] = s /\ s \notin {"idle", "lookup", "point"}
  BY DEF TypeOK, RequestOK, Stages, Walking
<1>3. \A q \in Readers \ {r} : at'[q] = at[q]
  BY DEF TypeOK, RequestOK
<1>4. Sound(r)'
  BY <1>1, <1>2 DEF Recent, Sound, WasLive, Exempt
<1>. QED BY <1>1, <1>3, <1>4, TextKeeps, OneMoves

LEMMA OpenSound ==
    ASSUME TypeOK, Recent, NEW r \in Readers,
           BeginRecall(r) \/ BeginSearch(r) \/ \E i \in Ids : BeginGet(r, i)
    PROVE  Recent'
<1>1. PICK o \in {"recall", "search", "get"}, s \in {"lookup", "find", "point"},
           i \in Ids \cup {Nothing} :
         /\ Open(r, o, s, i)
         /\ s = "lookup" => o = "recall"
         /\ s = "point" => o = "get"
  BY DEF BeginRecall, BeginSearch, BeginGet
<1>2. UNCHANGED <<store, now, text, memo, got>>
  BY <1>1 DEF Open, known
<1>3. /\ at'[r] = s /\ op'[r] = o /\ begun'[r] = now
      /\ memo[r] = Blank /\ got[r] = {}
      /\ \A q \in Readers \ {r} :
           /\ at'[q] = at[q] /\ op'[q] = op[q] /\ asked'[q] = asked[q]
           /\ begun'[q] = begun[q]
  BY <1>1 DEF Open, TypeOK, RequestOK, Recent, Sound
<1>4. now \in Nat /\ now' = now
  BY <1>2 DEF TypeOK, StoreOK
<1>5. Sound(r)'
  BY <1>1, <1>2, <1>3, <1>4 DEF Sound, Blank
<1>. QED BY <1>2, <1>3, <1>5, TextKeeps, OneMoves

LEMMA LookupSound ==
    ASSUME TypeOK, Recent, NEW r \in Readers, Lookup(r)
    PROVE  Recent'
<1>1. UNCHANGED <<store, now, text, op, asked, memo>> /\ Live' = Live /\ gone' = gone
  BY DEF Lookup, known, store, Live, Status
<1>2. op[r] = "recall" /\ memo[r] = Blank /\ at[r] = "lookup"
  BY DEF Lookup, Recent, Sound
<1>3. CASE Fresh(text)
  <2>1. /\ at'[r] = "done" /\ got'[r] = text.items /\ begun'[r] = text.begun
        /\ \A q \in Readers \ {r} :
             at'[q] = at[q] /\ got'[q] = got[q] /\ begun'[q] = begun[q]
    BY <1>3 DEF Lookup, TypeOK, RequestOK
  <2>2. text \in Texts /\ text.begun <= text.made /\ text.made <= now
    BY <1>3 DEF Fresh, TypeOK, StoreOK, Recent, TextSound
  <2>3. text.begun <= now
    BY <2>2 DEF Texts, TypeOK, StoreOK
  <2>4. \A e \in text.items : WasLive(e, text.begun)
    BY <1>3 DEF Fresh, Recent, TextSound
  <2>5. Sound(r)'
    BY <1>1, <1>2, <2>1, <2>3, <2>4 DEF Sound, WasLive, Blank
  <2>. QED BY <1>1, <2>1, <2>5, TextKeeps, OneMoves
<1>4. CASE ~Fresh(text)
  <2>1. at' = [at EXCEPT ![r] = "find"] /\ UNCHANGED <<known, op, asked, memo, got, begun>>
    BY <1>4 DEF Lookup
  <2>. QED BY <2>1, QuietSound DEF Stages
<1>. QED BY <1>3, <1>4

LEMMA FindSound ==
    ASSUME TypeOK, Recent, NEW r \in Readers, NEW found \in SUBSET Entities, Find(r, found)
    PROVE  Recent'
  BY QuietSound DEF Find, Stages

LEMMA GetRowSound ==
    ASSUME TypeOK, Recent, NEW r \in Readers, NEW k \in Kinds, NEW other \in {"page", "next"},
           at[r] \in {"point", "page"}, GetRow(r, k, "next", other)
    PROVE  Recent'
<1> DEFINE e == <<k, asked[r]>>
<1>1. op[r] = "get"
  BY DEF Recent, Sound
<1>2. UNCHANGED <<known, op, asked, begun, memo>>
  BY DEF GetRow, request
<1>3. e \in Entities
  BY DEF TypeOK, WalkOK, Entities
<1> HIDE DEF e
<1>4. CASE Status(e) = "none" \/ Status(e) = "active"
  <2>1. PICK s \in {"page", "next"} : at' = [at EXCEPT ![r] = s] /\ UNCHANGED got
    BY <1>4 DEF GetRow, e
  <2>. QED BY <1>1, <1>2, <2>1, QuietSound DEF Stages
<1>5. CASE Status(e) \notin {"none", "active"}
  <2>1. at' = [at EXCEPT ![r] = "row"] /\ got' = [got EXCEPT ![r] = {e}]
    BY <1>5 DEF GetRow, e
  <2>2. /\ at'[r] = "row" /\ got'[r] = {e}
        /\ \A q \in Readers \ {r} : at'[q] = at[q] /\ got'[q] = got[q]
    BY <2>1 DEF TypeOK, RequestOK
  <2>3. UNCHANGED <<store, now, text>> /\ Live' = Live /\ gone' = gone
    BY <1>2 DEF known, store, Live, Status
  <2>4. \A f \in got'[r] : (WasLive(f, begun[r]) \/ Exempt(r, f))'
    BY <1>1, <1>2, <2>2 DEF Exempt, e
  <2>5. Sound(r)'
    BY <1>1, <1>2, <2>2, <2>3, <2>4 DEF Recent, Sound, WasLive
  <2>. QED BY <1>2, <2>2, <2>3, <2>5, TextKeeps, OneMoves
<1>. QED BY <1>4, <1>5

\* Only what was live when it was read gets into the answer.
LEMMA JudgedSound ==
    ASSUME TypeOK, Recent, NEW r \in Readers, NEW e \in Entities, at[r] \in {"next", "again"},
           Remember(r, e, Seen(r, e)),
           \/ Seen(r, e) = "active" /\ Take(r, e)
           \/ Drop(r) \/ Replace(r, e),
           UNCHANGED <<known, request>>
    PROVE  Recent'
<1>1. /\ UNCHANGED <<store, now, text, op, asked, begun>>
      /\ Live' = Live /\ gone' = gone
  BY DEF known, store, request, Live, Status
<1>2. Seen(r, e) = "active" => WasLive(e, begun[r])
  BY DEF Seen, Recent, Sound, WasLive, Live
<1>3. /\ at'[r] \in {"next", "row"}
      /\ \A q \in Readers \ {r} : at'[q] = at[q] /\ got'[q] = got[q] /\ memo'[q] = memo[q]
  BY DEF Remember, Take, Drop, Replace, TypeOK, RequestOK
<1>4. /\ op[r] = "recall" => memo'[r] = memo[r]
      /\ memo'[r][e] = memo[r][e] \/ memo'[r][e] = Seen(r, e)
      /\ \A f \in Entities \ {e} : memo'[r][f] = memo[r][f]
  BY DEF Remember, TypeOK, RequestOK
<1>5. \A f \in got'[r] : f \in got[r] \/ (f = e /\ Seen(r, e) = "active")
  BY DEF Take, Drop, Replace, TypeOK, RequestOK
<1>6. \A f \in Entities : memo'[r][f] = "active" => WasLive(f, begun[r])'
  BY <1>1, <1>2, <1>4 DEF Recent, Sound, WasLive
<1>7. \A f \in got'[r] : (WasLive(f, begun[r]) \/ Exempt(r, f))'
  BY <1>1, <1>2, <1>5 DEF Recent, Sound, WasLive, Exempt
<1>8. Sound(r)'
  BY <1>1, <1>3, <1>4, <1>6, <1>7 DEF Recent, Sound
<1>. QED BY <1>1, <1>3, <1>8, TextKeeps, OneMoves

LEMMA LoadSound ==
    ASSUME TypeOK, Recent, NEW r \in Readers,
           (\E e \in Entities : LoadHit(r, e)) \/ LoadReplacement(r)
    PROVE  Recent'
<1>1. CASE LoadReplacement(r)
  <2>1. cur[r] \in Entities
    BY <1>1 DEF LoadReplacement, TypeOK, WalkOK
  <2>. QED BY <1>1, <2>1, JudgedSound DEF LoadReplacement
<1>2. ASSUME NEW e \in Entities, LoadHit(r, e) PROVE Recent'
  BY <1>2, JudgedSound DEF LoadHit
<1>. QED BY <1>1, <1>2

LEMMA ResolveSound ==
    ASSUME TypeOK, Recent, NEW r \in Readers, ResolveStep(r)
    PROVE  Recent'
<1>1. PICK s \in Walking \cup {"next", "again"} :
         at' = [at EXCEPT ![r] = s] /\ UNCHANGED <<known, op, asked, memo, got, begun>>
  <2>1. CASE \E s \in Walking, i \in Ids : Walk(r, s, i)
    BY <2>1 DEF Walk, request
  <2>2. CASE \E e \in Entities \cup {Nothing} : Resolved(r, e)
    <3>1. PICK e \in Entities \cup {Nothing} : Resolved(r, e)
      BY <2>2
    <3>2. CASE got[r] # {} /\ op[r] = "get"
      BY <3>1, <3>2 DEF Resolved, request
    <3>3. CASE ~(got[r] # {} /\ op[r] = "get")
      BY <3>1, <3>3 DEF Resolved, request
    <3>. QED BY <3>2, <3>3
  <2>. QED BY <2>1, <2>2, ResolveCases
<1>. QED BY <1>1, QuietSound DEF Walking, Stages

\* The answer is what was read, its text is what was answered.
LEMMA CompleteSound == ASSUME TypeOK, Recent, NEW r \in Readers, Complete(r) PROVE Recent'
<1>1. UNCHANGED <<store, now, op, asked, begun, memo>> /\ Live' = Live /\ gone' = gone
  BY DEF Complete, request, store, Live, Status
<1>2. /\ at'[r] = "done"
      /\ \A q \in Readers \ {r} : at'[q] = at[q] /\ got'[q] = got[q]
  BY DEF Complete, TypeOK, RequestOK
<1>3. \A e \in got'[r] : e \in got[r] \/ (asked[r] \in Foreign /\ e = <<"foreign", asked[r]>>)
  BY DEF Complete, TypeOK, RequestOK
<1>4. asked[r] \in Foreign => <<"foreign", asked[r]>> \in Live
  BY DEF Live, Status, Entities
<1>5. \A e \in got'[r] : (WasLive(e, begun[r]) \/ Exempt(r, e))'
  BY <1>1, <1>3, <1>4 DEF Recent, Sound, WasLive, Exempt
<1>6. Sound(r)'
  BY <1>1, <1>2, <1>5 DEF Recent, Sound, WasLive
<1>7. CASE op[r] = "recall"
  <2>1. text' = [items |-> got[r], begun |-> begun[r], made |-> now]
    BY <1>7 DEF Complete
  <2>2. begun[r] <= now /\ now \in Nat
    BY DEF Recent, Sound, TypeOK, StoreOK
  <2>3. \A e \in got[r] : WasLive(e, begun[r])
    BY <1>7 DEF Recent, Sound, Exempt
  <2>4. TextSound'
    BY <1>1, <2>1, <2>2, <2>3 DEF TextSound, WasLive
  <2>. QED BY <1>1, <1>2, <1>6, <2>4, OneMoves
<1>8. CASE op[r] # "recall"
  <2>1. text' = text
    BY <1>8 DEF Complete
  <2>2. TextSound'
    BY <1>1, <2>1, TextKeeps
  <2>. QED BY <1>1, <1>2, <1>6, <2>2, OneMoves
<1>. QED BY <1>7, <1>8

LEMMA ReturnSound == ASSUME TypeOK, Recent, NEW r \in Readers, Return(r) PROVE Recent'
<1>1. UNCHANGED <<store, now, text>>
  BY DEF Return, known
<1>2. /\ at'[r] = "idle" /\ op'[r] = "none" /\ memo'[r] = Blank
      /\ got'[r] = {} /\ begun'[r] = 0
      /\ \A q \in Readers \ {r} :
           /\ at'[q] = at[q] /\ op'[q] = op[q] /\ asked'[q] = asked[q]
           /\ memo'[q] = memo[q] /\ got'[q] = got[q] /\ begun'[q] = begun[q]
  BY DEF Return, TypeOK, RequestOK
<1>3. now' \in Nat
  BY <1>1 DEF TypeOK, StoreOK
<1>4. Sound(r)'
  BY <1>2, <1>3 DEF Sound, Blank
<1>. QED BY <1>1, <1>2, <1>4, TextKeeps, OneMoves

LEMMA StepSound == ASSUME TypeOK, Recent, NEW r \in Readers, RequestStep(r) PROVE Recent'
<1>1. CASE GetPoint(r) \/ GetPage(r)
  BY <1>1, GetRowSound DEF GetPoint, GetPage, Kinds
<1>. QED BY <1>1, LookupSound, FindSound, LoadSound, ResolveSound, CompleteSound,
            ReturnSound DEF RequestStep

LEMMA NextSound == TypeOK /\ Recent /\ [Next]_vars => Recent'
<1> SUFFICES ASSUME TypeOK, Recent, [Next]_vars PROVE Recent'
  OBVIOUS
<1>1. CASE UNCHANGED vars
  <2>1. UNCHANGED <<store, now, text, at, op, asked, memo, got, begun>>
    BY <1>1 DEF vars, known, request
  <2>2. Live' = Live /\ gone' = gone
    BY <2>1 DEF store, Live, Status
  <2>3. ASSUME NEW r \in Readers PROVE Sound(r)'
    BY <2>1, <2>2 DEF Recent, Sound, WasLive, Exempt
  <2>. QED BY <2>1, <2>3, TextKeeps DEF Recent
<1>. QED BY <1>1, JobSound, OpenSound, StepSound DEF Next

\* What is known of requests and the cached text, with the types.
LEMMA RecentHolds == Spec => [](TypeOK /\ Recent)
  BY InitType, InitSound, NextType, NextSound, PTL DEF Spec

\* Every memory in an answer was live at some time since the reading behind it began,
\* however jobs write between the reads of the request, and however many requests read
\* and share the cached text.
THEOREM AnswersLive == Spec => []AnswersWereLive
<1>1. Recent => AnswersWereLive
  BY DEF Recent, Sound, AnswersWereLive, Exempt
<1>. QED BY <1>1, RecentHolds, PTL

\* The cache serves nothing that was archived longer ago than TTL and the time its own
\* request took, whatever the number of requests that write the text.
THEOREM CacheForgets == Spec => ForgetsInTime
<1> DEFINE Served(r) == at[r] = "lookup" /\ at'[r] = "done"
           Kept(r) == \A e \in got'[r] :
                          e \in Live \/ now < gone[e] + TTL + (text.made - text.begun)
<1>1. ASSUME TypeOK, Recent, [Next]_vars, NEW r \in Readers, Served(r) PROVE Kept(r)
  <2>1. Lookup(r)
    <3>1. at'[r] # at[r]
      BY <1>1
    <3>2. ASSUME NEW q \in Readers, q # r,
                 \/ BeginRecall(q) \/ BeginSearch(q) \/ \E i \in Ids : BeginGet(q, i)
                 \/ RequestStep(q)
          PROVE  FALSE
      BY <1>1, <3>1, <3>2
         DEF BeginRecall, BeginSearch, BeginGet, Open, RequestStep, Lookup, Find, GetPoint,
             GetPage, GetRow, LoadHit, LoadReplacement, Take, Drop, Replace, ResolveStep,
             ReadRow, ReadBacking, ReadSequel, ReadSuccessor, ReadPages, Walk, Resolved,
             Complete, Return, TypeOK, RequestOK
    <3>3. ~(Job \/ Tick \/ Evict)
      BY <3>1 DEF Job, PutPoint, PutPage, LinkPoint, LinkSequel, Unlink, Write, Tick, Evict
    <3>4. ~UNCHANGED vars
      BY <3>1 DEF vars
    <3>5. RequestStep(r)
      BY <1>1, <3>2, <3>3, <3>4 DEF Next, BeginRecall, BeginSearch, BeginGet, Open
    <3>. QED
      BY <1>1, <3>5 DEF RequestStep, Find, GetPoint, GetPage, LoadHit, LoadReplacement,
         ResolveStep, ReadRow, ReadBacking, ReadSequel, ReadSuccessor, ReadPages,
         Complete, Return
  <2>2. Fresh(text) /\ got'[r] = text.items
    BY <1>1, <2>1 DEF Lookup, TypeOK, RequestOK
  <2>3. /\ text \in Texts /\ now < text.made + TTL
        /\ \A e \in text.items : WasLive(e, text.begun)
    BY <1>1, <2>2 DEF Fresh, TypeOK, StoreOK, Recent, TextSound
  <2>4. text.made \in Nat /\ text.begun \in Nat /\ text.items \subseteq Entities
    BY <2>3 DEF Texts
  <2>5. ASSUME NEW e \in text.items PROVE e \in Live \/ now < gone[e] + TTL + (text.made - text.begun)
    <3>1. gone[e] \in Nat /\ now \in Nat /\ TTL \in Nat
      BY <1>1, <2>4, RecallAssumption DEF TypeOK, StoreOK
    <3>2. CASE gone[e] >= text.begun
      BY <2>3, <2>4, <3>1, <3>2
    <3>. QED BY <2>3, <3>2 DEF WasLive
  <2>. QED BY <2>2, <2>5
<1>2. TypeOK /\ Recent /\ [Next]_vars => [\A r \in Readers : Served(r) => Kept(r)]_vars
  BY <1>1
<1>. QED BY <1>2, RecentHolds, PTL DEF ForgetsInTime, Spec

-----------------------------------------------------------------------------
(***************************************************************************)
(* What a request comes to                                                 *)
(***************************************************************************)

\* Edges that were there are remembered; a row stays a row.
Remembered == hasPage \subseteq everPage /\ sequel \subseteq everSequel

\* Only a request that goes through its hits has hits to go through, and they are
\* rows; before, it has no answer; entityCache holds the status of rows, and of foreign points that they are live.
Reads(r) ==
    /\ at[r] \in {"idle", "lookup", "find", "point", "page", "done"} => todo[r] = {}
    /\ at[r] \in {"idle", "lookup", "find"} => got[r] = {}
    /\ \A e \in todo[r] : Status(e) # "none"
    /\ \A e \in Entities : memo[r][e] # "unread" =>
           /\ memo[r][e] # "none" /\ Status(e) # "none"
           /\ e[1] = "foreign" => memo[r][e] = "active"
    /\ at[r] \in Walking \cup {"row"} => cur[r][1] \in Kinds /\ Status(cur[r]) # "none"

\* What succeeds h, and the points from which a sequel leads there.
Later(h) == Chain(Behind(h))
Start(h) == Behind(h) \cup Sharing(Later(h))

\* The walk from cur[r], which succeeds h, is at a point from which it finds
\* nothing but what succeeds h.
OnTheWay(r, h) ==
    /\ Succeeds(cur[r], h)
    /\ at[r] = "backing" => node[r] = cur[r][2]
    /\ at[r] = "sequel" => node[r] \in Start(h)
    /\ at[r] \in {"successor", "pages"} => node[r] \in Later(h)

Succession(r) ==
    op[r] \in {"recall", "search"} =>
        /\ todo[r] \subseteq hits[r]
        /\ \A e \in got[r] : \E h \in hits[r] : Succeeds(e, h)
        /\ at[r] \in Walking \cup {"row", "again"} => \E h \in hits[r] : OnTheWay(r, h)

\* The row GetByID finds, and what it has made of it.
Rowless(i) == point[i] = "none" /\ page[i] = "none"
First(i) == <<IF point[i] # "none" THEN "point" ELSE "page", i>>

Settled(r) ==
    op[r] = "get" /\ ~moved[r] =>
        /\ asked[r] \in Ids /\ at[r] \in {"point", "page", "next", "row", "done"} \cup Walking
        /\ at[r] \in {"point", "page"} => got[r] = {} /\ memo[r] = Blank
        /\ at[r] = "page" => point[asked[r]] = "none"
        /\ at[r] = "next" =>
               \/ todo[r] = {} /\ (Rowless(asked[r]) \/ got[r] = {First(asked[r])})
               \/ /\ todo[r] = {First(asked[r])} /\ got[r] = {} /\ memo[r] = Blank
                  /\ Status(First(asked[r])) = "active"
        /\ at[r] \in Walking \cup {"row"} => todo[r] = {} /\ got[r] = {First(asked[r])}
        /\ at[r] = "done" => Rowless(asked[r]) \/ got[r] = {First(asked[r])}

Faithful == Remembered /\ \A r \in Readers : Reads(r) /\ Succession(r) /\ Settled(r)

\* A sequel leads from where a walk may be to what succeeds the hit, and whatever
\* succeeds the hit is a place to walk on from, itself or through a page it shares.
LEMMA WalkFacts ==
    ASSUME TypeOK, NEW h
    PROVE  /\ Later(h) \subseteq Ids /\ Later(h) \subseteq Start(h)
           /\ \A x \in Start(h), y \in Ids : <<x, y>> \in everSequel => y \in Later(h)
           /\ \A e \in Entities : Succeeds(e, h) =>
                 /\ e[1] = "point" => e[2] \in Start(h)
                 /\ \A x \in Ids : <<x, e[2]>> \in everPage => x \in Start(h)
<1> DEFINE X == Behind(h)  L == Later(h)
<1>1. L \subseteq Ids
  BY DEF Later, Chain
<1>2. ASSUME NEW Y \in SUBSET Ids, Sequels(X) \subseteq Y, Sequels(Sharing(Y)) \subseteq Y
      PROVE  L \subseteq Y
  BY <1>2 DEF Later, Chain
<1>3. ASSUME NEW y \in Ids,
             \A Y \in SUBSET Ids : Sequels(X) \subseteq Y /\ Sequels(Sharing(Y)) \subseteq Y => y \in Y
      PROVE  y \in L
  BY <1>3 DEF Later, Chain
<1> HIDE DEF X, L
<1>4. ASSUME NEW x \in X, NEW y \in Ids, <<x, y>> \in everSequel PROVE y \in L
  <2>1. y \in Sequels(X)
    BY <1>4 DEF Sequels
  <2> QED BY <1>3, <2>1
<1>5. ASSUME NEW x \in Sharing(L), NEW y \in Ids, <<x, y>> \in everSequel PROVE y \in L
  <2> SUFFICES ASSUME NEW Y \in SUBSET Ids, Sequels(X) \subseteq Y, Sequels(Sharing(Y)) \subseteq Y
               PROVE  y \in Y
      BY <1>3
  <2>1. L \subseteq Y
    BY <1>2
  <2>2. x \in Sharing(Y)
    BY <2>1 DEF Sharing
  <2>3. y \in Sequels(Sharing(Y))
    BY <1>5, <2>2 DEF Sequels
  <2> QED BY <2>3
<1>6. L \subseteq Sharing(L)
  BY DEF Sharing
<1>7. ASSUME NEW e \in Entities, Succeeds(e, h)
      PROVE  /\ e[1] = "point" => e[2] \in Start(h)
             /\ \A x \in Ids : <<x, e[2]>> \in everPage => x \in Start(h)
  <2>0. e = <<e[1], e[2]>> /\ e[2] \in Ids
    BY RecallAssumption DEF Entities
  <2>1. CASE e = h
    <3>1. e[1] = "point" => e[2] \in X
      BY <2>0, <2>1 DEF X, Behind
    <3>2. \A x \in Ids : <<x, e[2]>> \in everPage => x \in X
      BY <2>1 DEF X, Behind
    <3> QED BY <3>1, <3>2 DEF Start, X
  <2>2. ASSUME NEW y \in L, e = <<"point", y>>
        PROVE  e[2] \in Start(h) /\ \A x \in Ids : <<x, e[2]>> \in everPage => x \in Start(h)
    <3>1. e[2] = y
      BY <2>2
    <3>2. \A x \in Ids : <<x, y>> \in everPage => x \in Sharing(L)
      BY <1>1 DEF Sharing
    <3> QED BY <1>6, <3>1, <3>2 DEF Start, L
  <2>3. ASSUME NEW y \in L, e[1] = "page", <<y, e[2]>> \in everPage
        PROVE  \A x \in Ids : <<x, e[2]>> \in everPage => x \in Start(h)
    <3>1. \A x \in Ids : <<x, e[2]>> \in everPage => x \in Sharing(L)
      BY <2>0, <2>3 DEF Sharing
    <3> QED BY <3>1 DEF Start, L
  <2> QED BY <1>7, <2>1, <2>2, <2>3 DEF Succeeds, L, Later
<1> QED BY <1>1, <1>4, <1>5, <1>6, <1>7 DEF Start, X, L

\* What succeeds a hit goes on to, for edges are remembered.
LEMMA WalksGrow ==
    ASSUME everPage \subseteq everPage', everSequel \subseteq everSequel', NEW h
    PROVE  /\ Later(h) \subseteq Later(h)' /\ Start(h) \subseteq Start(h)'
           /\ \A e : Succeeds(e, h) => \/ e = h
                                       \/ \E y \in Later(h)' :
                                            e = <<"point", y>> \/ (e[1] = "page" /\ <<y, e[2]>> \in everPage')
<1> DEFINE X == Behind(h)  L == Later(h)  M == Later(h)'  Z == Behind(h)'
<1>1. X \subseteq Z
  BY DEF Behind
<1>2. ASSUME NEW y \in L PROVE y \in M
  <2>1. \A Y \in SUBSET Ids : Sequels(X) \subseteq Y /\ Sequels(Sharing(Y)) \subseteq Y => y \in Y
    BY DEF Later, Chain
  <2> DEFINE Seq2(S) == {z \in Ids : \E x \in S : <<x, z>> \in everSequel'}
             Pages2(S) == {p \in Ids : p \in S \/ \E z \in S : <<z, p>> \in everPage'}
             Share2(S) == S \cup {x \in Ids : \E p \in Pages2(S) : <<x, p>> \in everPage'}
  <2>2. y \in Ids
    BY DEF Later, Chain
  <2>3. M = {z \in Ids : \A Y \in SUBSET Ids : Seq2(Z) \subseteq Y /\ Seq2(Share2(Y)) \subseteq Y => z \in Y}
    BY Zenon DEF Later, Chain, Sequels, Sharing
  <2>4. Sequels(X) \subseteq Seq2(Z)
    BY <1>1 DEF Sequels
  <2>5. ASSUME NEW Y \in SUBSET Ids PROVE Sequels(Sharing(Y)) \subseteq Seq2(Share2(Y))
    BY DEF Sequels, Sharing
  <2> HIDE DEF Seq2, Share2, X, Z, M
  <2>6. ASSUME NEW Y \in SUBSET Ids, Seq2(Z) \subseteq Y, Seq2(Share2(Y)) \subseteq Y PROVE y \in Y
    BY <2>1, <2>4, <2>5, <2>6
  <2> QED BY <2>2, <2>3, <2>6
<1>3. ASSUME NEW y \in Start(h) PROVE y \in Start(h)'
  BY <1>1, <1>2, <1>3 DEF Start, Sharing
<1> QED BY <1>2, <1>3 DEF Succeeds, Later

\* What is known of a request whose own state stays, while jobs write or others read.
LEMMA SameRequest ==
    ASSUME TypeOK, NEW q \in Readers, Reads(q), Succession(q), Settled(q),
           at'[q] = at[q], op'[q] = op[q], asked'[q] = asked[q], hits'[q] = hits[q],
           todo'[q] = todo[q], cur'[q] = cur[q], node'[q] = node[q], memo'[q] = memo[q],
           got'[q] = got[q],
           everPage \subseteq everPage', everSequel \subseteq everSequel',
           \A e \in Entities : Status(e) # "none" => Status(e)' # "none",
           moved'[q] \/ (moved'[q] = moved[q] /\ (asked[q] \in Ids =>
               point'[asked[q]] = point[asked[q]] /\ page'[asked[q]] = page[asked[q]]))
    PROVE  Reads(q)' /\ Succession(q)' /\ Settled(q)'
<1>1. Reads(q)'
  <2>1. \A e \in todo[q] : e \in Entities
    BY DEF TypeOK, RequestOK
  <2>2. at[q] \in Walking \cup {"row"} => cur[q] \in Entities
    BY DEF TypeOK, WalkOK
  <2>3. \A e \in todo[q] : Status(e)' # "none"
    BY <2>1 DEF Reads
  <2>4. \A e \in Entities : memo[q][e] # "unread" =>
           /\ memo[q][e] # "none" /\ Status(e)' # "none"
           /\ e[1] = "foreign" => memo[q][e] = "active"
    BY DEF Reads
  <2>5. ASSUME at[q] \in Walking \cup {"row"} PROVE cur[q][1] \in Kinds /\ Status(cur[q])' # "none"
    <3>1. cur[q] \in Entities
      BY <2>2, <2>5
    <3>2. PICK c \in Entities : c = cur[q]
      BY <3>1
    <3>3. Status(c) # "none" /\ c[1] \in Kinds
      BY <2>5, <3>2 DEF Reads, Status
    <3>4. Status(c)' # "none"
      BY <3>3
    <3> QED BY <3>2, <3>3, <3>4 DEF Status
  <2> QED BY <2>3, <2>4, <2>5 DEF Reads, Status
<1>2. Succession(q)'
  <2> SUFFICES ASSUME op[q] \in {"recall", "search"}
               PROVE  /\ todo[q] \subseteq hits[q]
                      /\ \A e \in got[q] : \E h \in hits[q] : Succeeds(e, h)'
                      /\ at[q] \in Walking \cup {"row", "again"} => \E h \in hits[q] : OnTheWay(q, h)'
      BY DEF Succession, Succeeds
  <2>1. ASSUME NEW e \in got[q] PROVE \E h \in hits[q] : Succeeds(e, h)'
    <3>1. PICK h \in hits[q] : Succeeds(e, h)
      BY DEF Succession
    <3>2. Succeeds(e, h)'
      BY <3>1, WalksGrow DEF Succeeds, Later
    <3> QED BY <3>2
  <2>2. ASSUME at[q] \in Walking \cup {"row", "again"} PROVE \E h \in hits[q] : OnTheWay(q, h)'
    <3>1. PICK h \in hits[q] : OnTheWay(q, h)
      BY <2>2 DEF Succession
    <3>2. Later(h) \subseteq Later(h)' /\ Start(h) \subseteq Start(h)'
      BY WalksGrow
    <3>3. Succeeds(cur[q], h)'
      BY <3>1, WalksGrow DEF Succeeds, OnTheWay, Later
    <3>4. OnTheWay(q, h)'
      BY <3>1, <3>2, <3>3 DEF OnTheWay
    <3> QED BY <3>4
  <2> QED BY <2>1, <2>2 DEF Succession
<1>3. Settled(q)'
  <2> SUFFICES ASSUME op[q] = "get", ~moved'[q] PROVE Settled(q)'
      BY DEF Settled
  <2>1. /\ ~moved[q]
        /\ asked[q] \in Ids => point'[asked[q]] = point[asked[q]] /\ page'[asked[q]] = page[asked[q]]
    OBVIOUS
  <2>2. asked[q] \in Ids
    BY DEF Settled
  <2> QED BY <2>1, <2>2 DEF Settled, Rowless, First, Status
<1> QED BY <1>1, <1>2, <1>3

\* Jobs move the rows of what they write, and time moves nothing.
LEMMA JobFaithful ==
    ASSUME TypeOK, Faithful, Job \/ Tick \/ Evict
    PROVE  Faithful'
<1>1. UNCHANGED <<at, op, asked, hits, todo, cur, node, memo, got>>
  BY DEF Job, PutPoint, PutPage, LinkPoint, LinkSequel, Unlink, Tick, Evict, Write, request
<1>2. /\ everPage \subseteq everPage' /\ everSequel \subseteq everSequel'
      /\ hasPage' \subseteq everPage' /\ sequel' \subseteq everSequel'
  BY DEF Job, PutPoint, PutPage, LinkPoint, LinkSequel, Unlink, Tick, Evict, store,
         Faithful, Remembered
<1>3. \A e \in Entities : Status(e) # "none" => Status(e)' # "none"
  <2>1. ASSUME NEW i \in Ids, NEW s \in PointStatus \ {"none"}, PutPoint(i, s)
        PROVE  page' = page /\ \A x \in Ids : point[x] # "none" => point'[x] # "none"
    BY <2>1 DEF PutPoint, TypeOK, StoreOK
  <2>2. ASSUME NEW i \in Ids, NEW s \in PageStatus \ {"none"}, PutPage(i, s)
        PROVE  point' = point /\ \A x \in Ids : page[x] # "none" => page'[x] # "none"
    BY <2>2 DEF PutPage, TypeOK, StoreOK
  <2>3. /\ \A x \in Ids : point[x] # "none" => point'[x] # "none"
        /\ \A x \in Ids : page[x] # "none" => page'[x] # "none"
    BY <2>1, <2>2 DEF Job, LinkPoint, LinkSequel, Unlink, Tick, Evict, store
  <2>4. \A e \in Entities : e[2] \in Ids
    BY RecallAssumption DEF Entities
  <2> QED BY <2>3, <2>4 DEF Status
<1>4. ASSUME NEW q \in Readers
      PROVE  \/ moved'[q]
             \/ /\ moved'[q] = moved[q]
                /\ asked[q] \in Ids =>
                      point'[asked[q]] = point[asked[q]] /\ page'[asked[q]] = page[asked[q]]
  <2>1. moved[q] \in BOOLEAN /\ moved \in [Readers -> BOOLEAN]
    BY DEF TypeOK, RequestOK
  <2>2. ASSUME NEW i \in Ids, Note(i) PROVE moved'[q] = (moved[q] \/ asked[q] = i)
    BY <2>2 DEF Note
  <2>3. ASSUME NEW i \in Ids, NEW s, PutPoint(i, s), asked[q] \in Ids, asked[q] # i
        PROVE  point'[asked[q]] = point[asked[q]] /\ page'[asked[q]] = page[asked[q]]
    BY <2>3 DEF PutPoint, TypeOK, StoreOK
  <2>4. ASSUME NEW i \in Ids, NEW s, PutPage(i, s), asked[q] \in Ids, asked[q] # i
        PROVE  point'[asked[q]] = point[asked[q]] /\ page'[asked[q]] = page[asked[q]]
    BY <2>4 DEF PutPage, TypeOK, StoreOK
  <2>5. ASSUME NEW i \in Ids, NEW s, PutPoint(i, s) \/ PutPage(i, s)
        PROVE  Note(i)
    BY <2>5 DEF PutPoint, PutPage
  <2>6. ASSUME UNCHANGED <<point, page, moved>>
        PROVE  moved'[q] = moved[q] /\ (asked[q] \in Ids =>
                   point'[asked[q]] = point[asked[q]] /\ page'[asked[q]] = page[asked[q]])
    BY <2>6
  <2>7. \/ \E i \in Ids, s \in PointStatus : PutPoint(i, s)
        \/ \E i \in Ids, s \in PageStatus : PutPage(i, s)
        \/ UNCHANGED <<point, page, moved>>
    BY DEF Job, LinkPoint, LinkSequel, Unlink, Tick, Evict, store, request
  <2>8. ASSUME NEW i \in Ids, NEW s, PutPoint(i, s) \/ PutPage(i, s)
        PROVE  \/ moved'[q]
               \/ /\ moved'[q] = moved[q]
                  /\ asked[q] \in Ids =>
                        point'[asked[q]] = point[asked[q]] /\ page'[asked[q]] = page[asked[q]]
    <3>1. moved'[q] = (moved[q] \/ asked[q] = i)
      BY <2>2, <2>5, <2>8
    <3>2. CASE asked[q] = i
      BY <3>1, <3>2
    <3>3. CASE asked[q] # i
      <4>1. moved'[q] = moved[q]
        BY <2>1, <3>1, <3>3
      <4> QED BY <2>3, <2>4, <2>8, <3>3, <4>1
    <3> QED BY <3>2, <3>3
  <2> QED BY <2>6, <2>7, <2>8
<1>5. ASSUME NEW q \in Readers PROVE Reads(q)' /\ Succession(q)' /\ Settled(q)'
  <2>1. Reads(q) /\ Succession(q) /\ Settled(q)
    BY DEF Faithful
  <2> QED BY <1>1, <1>2, <1>3, <1>4, <2>1, SameRequest
<1> QED BY <1>2, <1>5 DEF Faithful, Remembered

\* What r does concerns no other request.
LEMMA OneFaithful ==
    ASSUME TypeOK, Faithful, NEW r \in Readers, UNCHANGED store,
           \A q \in Readers \ {r} :
               /\ at'[q] = at[q] /\ op'[q] = op[q] /\ asked'[q] = asked[q]
               /\ hits'[q] = hits[q] /\ todo'[q] = todo[q] /\ cur'[q] = cur[q]
               /\ node'[q] = node[q] /\ memo'[q] = memo[q] /\ got'[q] = got[q]
               /\ moved'[q] = moved[q],
           Reads(r)', Succession(r)', Settled(r)'
    PROVE  Faithful'
<1>1. UNCHANGED <<point, page, hasPage, sequel, everPage, everSequel>>
  BY DEF store
<1>2. \A e \in Entities : Status(e)' = Status(e)
  BY <1>1 DEF Status
<1>3. ASSUME NEW q \in Readers \ {r} PROVE Reads(q)' /\ Succession(q)' /\ Settled(q)'
  <2>1. Reads(q) /\ Succession(q) /\ Settled(q)
    BY DEF Faithful
  <2> QED BY <1>1, <1>2, <2>1, SameRequest
<1> QED BY <1>1, <1>3 DEF Faithful, Remembered

\* While nobody writes, what succeeds a hit stays what it is.
LEMMA StillSucceeds ==
    ASSUME UNCHANGED store
    PROVE  /\ \A e : Status(e)' = Status(e)
           /\ \A e, h : Succeeds(e, h)' = Succeeds(e, h)
           /\ \A h : Later(h)' = Later(h) /\ Start(h)' = Start(h)
           /\ \A i : Rowless(i)' = Rowless(i) /\ First(i)' = First(i)
<1>1. UNCHANGED <<point, page, everPage, everSequel>>
  BY DEF store
<1>2. \A h : Later(h)' = Later(h) /\ Start(h)' = Start(h)
  BY <1>1 DEF Later, Start, Chain, Behind, Sequels, Sharing
<1>3. \A e, h : Succeeds(e, h)' = Succeeds(e, h)
  BY <1>1 DEF Succeeds, Chain, Behind, Sequels, Sharing
<1> QED BY <1>1, <1>2, <1>3 DEF Status, Rowless, First

LEMMA OpenFaithful ==
    ASSUME TypeOK, Recent, Faithful, NEW r \in Readers,
           BeginRecall(r) \/ BeginSearch(r) \/ \E i \in Ids : BeginGet(r, i)
    PROVE  Faithful'
<1>1. PICK o \in {"recall", "search", "get"}, s \in {"lookup", "find", "point"},
           i \in Ids \cup {Nothing} :
         /\ Open(r, o, s, i)
         /\ o = "get" => s = "point" /\ i \in Ids
  BY DEF BeginRecall, BeginSearch, BeginGet
<1>2. /\ UNCHANGED <<store, hits, moved, todo, cur, node, memo, got>>
      /\ at'[r] = s /\ op'[r] = o /\ asked'[r] = i
      /\ \A q \in Readers \ {r} : at'[q] = at[q] /\ op'[q] = op[q] /\ asked'[q] = asked[q]
  BY <1>1 DEF Open, known, TypeOK, RequestOK
<1>3. at[r] = "idle" /\ todo[r] = {} /\ got[r] = {} /\ memo[r] = Blank
  BY <1>1 DEF Open, Faithful, Reads, Recent, Sound
<1>4. Reads(r)'
  BY <1>1, <1>2, <1>3 DEF Reads, Walking, Blank
<1>5. Succession(r)'
  BY <1>1, <1>2, <1>3 DEF Succession, Walking
<1>6. Settled(r)'
  BY <1>1, <1>2, <1>3 DEF Settled, Walking
<1> QED BY <1>2, <1>4, <1>5, <1>6, OneFaithful

LEMMA LookupFaithful ==
    ASSUME TypeOK, Recent, Faithful, NEW r \in Readers, Lookup(r)
    PROVE  Faithful'
<1>1. at[r] = "lookup" /\ op[r] = "recall" /\ todo[r] = {} /\ memo[r] = Blank /\ got[r] = {}
  BY DEF Lookup, Recent, Sound, Faithful, Reads
<1>2. /\ UNCHANGED <<store, op, asked, moved, todo, cur, node, memo>>
      /\ \A q \in Readers \ {r} : at'[q] = at[q] /\ got'[q] = got[q] /\ hits'[q] = hits[q]
      /\ \/ at'[r] = "done" /\ got'[r] = hits'[r]
         \/ at'[r] = "find" /\ got'[r] = got[r] /\ hits'[r] = hits[r]
  <2>1. CASE Fresh(text)
    BY <2>1 DEF Lookup, known, TypeOK, RequestOK
  <2>2. CASE ~Fresh(text)
    BY <2>2 DEF Lookup, known, TypeOK, RequestOK
  <2> QED BY <2>1, <2>2
<1>3. Reads(r)'
  BY <1>1, <1>2 DEF Reads, Walking, Blank
<1>4. Succession(r)'
  <2>1. \A e \in got'[r] : \E h \in hits'[r] : Succeeds(e, h)'
    <3>1. CASE got'[r] = hits'[r]
      BY <3>1 DEF Succeeds
    <3>2. CASE got'[r] = got[r] /\ hits'[r] = hits[r]
      BY <1>1, <1>2, <3>2, StillSucceeds DEF Faithful, Succession
    <3> QED BY <1>2, <3>1, <3>2
  <2> QED BY <1>1, <1>2, <2>1 DEF Succession, Succeeds, Walking
<1>5. Settled(r)'
  BY <1>1, <1>2 DEF Settled
<1> QED BY <1>2, <1>3, <1>4, <1>5, OneFaithful

LEMMA FindFaithful ==
    ASSUME TypeOK, Recent, Faithful, NEW r \in Readers, NEW found \in SUBSET Entities, Find(r, found)
    PROVE  Faithful'
<1>1. /\ at[r] = "find" /\ found \subseteq Rows
      /\ UNCHANGED <<store, op, asked, moved, cur, node, memo, got>>
      /\ hits'[r] = found /\ todo'[r] = found /\ (at'[r] = "done" \/ at'[r] = "next")
      /\ at'[r] = "done" => found = {}
      /\ \A q \in Readers \ {r} : at'[q] = at[q] /\ hits'[q] = hits[q] /\ todo'[q] = todo[q]
  BY DEF Find, known, TypeOK, RequestOK
<1>2. memo[r] = memo'[r] /\ got[r] = {} /\ todo[r] = {}
  BY <1>1 DEF Faithful, Reads
<1>3. \A e \in found : Status(e)' # "none"
  BY <1>1, StillSucceeds DEF Rows
<1>4. \A e \in Entities : memo[r][e] # "unread" =>
           /\ memo[r][e] # "none" /\ Status(e)' # "none"
           /\ e[1] = "foreign" => memo[r][e] = "active"
  BY <1>1, StillSucceeds DEF Faithful, Reads
<1>5. Reads(r)'
  BY <1>1, <1>2, <1>3, <1>4 DEF Reads, Walking
<1>6. Succession(r)'
  BY <1>1, <1>2 DEF Succession, Walking
<1>7. Settled(r)'
  BY <1>1 DEF Faithful, Settled, Walking
<1> QED BY <1>1, <1>5, <1>6, <1>7, OneFaithful

\* GetByID reads the row of its id, the point's first.
LEMMA GetRowFaithful ==
    ASSUME TypeOK, Recent, Faithful, NEW r \in Readers, GetPoint(r) \/ GetPage(r)
    PROVE  Faithful'
<1>1. PICK k \in Kinds, other \in {"page", "next"} :
         /\ GetRow(r, k, "next", other)
         /\ at[r] = k
         /\ k = "point" => other = "page"
         /\ k = "page" => other = "next"
  BY DEF GetPoint, GetPage, Kinds
<1> DEFINE e == <<k, asked[r]>>
<1>2. /\ op[r] = "get" /\ k \in {"point", "page"} /\ asked[r] \in Ids /\ e \in Entities
      /\ todo[r] = {} /\ UNCHANGED <<store, request, node, memo>>
  BY <1>1 DEF GetRow, known, Kinds, Recent, Sound, Faithful, Reads, TypeOK, WalkOK, Entities
<1>3. UNCHANGED <<op, asked, hits, moved>>
  BY <1>2 DEF request
<1>4. ~moved[r] => /\ got[r] = {} /\ memo[r] = Blank
                   /\ k = "page" => point[asked[r]] = "none"
  BY <1>1, <1>2 DEF Faithful, Settled
<1>5. /\ Status(e) = (IF k = "point" THEN point[asked[r]] ELSE page[asked[r]])
      /\ e[1] = k /\ e[2] = asked[r] /\ Status(e)' = Status(e)
      /\ \A f : Status(f)' = Status(f)
  BY <1>2, <1>3, StillSucceeds DEF Status
<1>6. ~moved[r] /\ Status(e) # "none" => First(asked[r]) = e
  BY <1>2, <1>4, <1>5 DEF First
<1>7. /\ Rowless(asked[r])' = Rowless(asked[r])
      /\ First(asked[r])' = First(asked[r])
  BY <1>2, <1>3 DEF Rowless, First, store
<1>8. \A f \in Entities : memo[r][f] # "unread" =>
           /\ memo[r][f] # "none" /\ Status(f)' # "none"
           /\ f[1] = "foreign" => memo[r][f] = "active"
  BY <1>5 DEF Faithful, Reads
<1>9. Succession(r)'
  BY <1>2, <1>3 DEF Succession
<1> HIDE DEF e
<1>10. CASE Status(e) = "none"
  <2>1. /\ at'[r] = other /\ UNCHANGED <<todo, got, cur>>
        /\ \A q \in Readers \ {r} : at'[q] = at[q]
    BY <1>1, <1>10 DEF GetRow, e, TypeOK, RequestOK
  <2>2. Reads(r)'
    BY <1>2, <1>8, <2>1 DEF Reads, Walking
  <2>3. ~moved[r] /\ other = "page" => point[asked[r]] = "none"
    BY <1>1, <1>2, <1>4, <1>5, <1>10
  <2>4. ~moved[r] /\ other = "next" => Rowless(asked[r])
    BY <1>1, <1>2, <1>4, <1>5, <1>10 DEF Rowless
  <2>5. point' = point
    BY <1>2 DEF store
  <2>6. Settled(r)'
    BY <1>2, <1>3, <1>4, <1>7, <2>1, <2>3, <2>4, <2>5 DEF Settled, Walking
  <2> QED BY <1>2, <1>3, <1>9, <2>1, <2>2, <2>6, OneFaithful
<1>11. CASE Status(e) = "active"
  <2>1. /\ at'[r] = "next" /\ todo'[r] = {e} /\ UNCHANGED <<got, cur>>
        /\ \A q \in Readers \ {r} : at'[q] = at[q] /\ todo'[q] = todo[q]
    BY <1>1, <1>11 DEF GetRow, e, TypeOK, RequestOK
  <2>2. Reads(r)'
    BY <1>2, <1>5, <1>8, <1>11, <2>1 DEF Reads, Walking
  <2>3. ~moved[r] => Status(First(asked[r]))' = "active"
    BY <1>5, <1>6, <1>7, <1>11
  <2>4. Settled(r)'
    BY <1>2, <1>3, <1>4, <1>6, <1>7, <1>11, <2>1, <2>3 DEF Settled, Walking
  <2> QED BY <1>2, <1>3, <1>9, <2>1, <2>2, <2>4, OneFaithful
<1>12. CASE Status(e) \notin {"none", "active"}
  <2>1. /\ at'[r] = "row" /\ got'[r] = {e} /\ cur'[r] = e /\ UNCHANGED todo
        /\ \A q \in Readers \ {r} : at'[q] = at[q] /\ got'[q] = got[q] /\ cur'[q] = cur[q]
    BY <1>1, <1>12 DEF GetRow, e, TypeOK, RequestOK, WalkOK
  <2>2. Status(cur[r])' # "none"
    BY <1>5, <1>12, <2>1 DEF Status
  <2>3. Reads(r)'
    BY <1>2, <1>5, <1>8, <2>1, <2>2 DEF Reads, Walking, Kinds
  <2>4. Settled(r)'
    BY <1>2, <1>3, <1>6, <1>7, <1>12, <2>1 DEF Settled, Walking
  <2> QED BY <1>2, <1>3, <1>9, <2>1, <2>3, <2>4, OneFaithful
<1> QED BY <1>10, <1>11, <1>12

\* A row that is judged not to be live has a successor sought, and what takes its
\* place succeeds what it succeeds.
LEMMA JudgedFaithful ==
    ASSUME TypeOK, Faithful, NEW r \in Readers, NEW e \in Entities, at[r] \in {"next", "again"},
           Remember(r, e, Seen(r, e)),
           Take(r, e) \/ Drop(r) \/ (Seen(r, e) # "active" /\ Replace(r, e)),
           Seen(r, e) = "none" => ~Replace(r, e),
           op[r] \in {"recall", "search"} => \E h \in hits[r] : Succeeds(e, h),
           todo' \in [Readers -> SUBSET Entities], todo'[r] \subseteq todo[r],
           \A q \in Readers \ {r} : todo'[q] = todo[q],
           UNCHANGED <<known, request, node, spare>>, Settled(r)'
    PROVE  Faithful'
<1>1. UNCHANGED <<store, op, asked, hits, moved, node>>
  BY DEF known, request
<1>2. /\ at'[r] \in {"next", "row"}
      /\ \A q \in Readers \ {r} :
            at'[q] = at[q] /\ got'[q] = got[q] /\ memo'[q] = memo[q] /\ cur'[q] = cur[q]
      /\ \A f \in got'[r] : f \in got[r] \/ f = e
      /\ at'[r] = "row" => cur'[r] = e /\ Seen(r, e) \notin {"active", "none"}
  <2>1. CASE Take(r, e)
    BY <2>1 DEF Remember, Take, TypeOK, RequestOK, WalkOK
  <2>2. CASE Drop(r)
    BY <2>2 DEF Remember, Drop, TypeOK, RequestOK, WalkOK
  <2>3. CASE Seen(r, e) # "active" /\ Replace(r, e)
    BY <2>3 DEF Remember, Replace, TypeOK, RequestOK, WalkOK
  <2> QED BY <2>1, <2>2, <2>3
<1>3. /\ Seen(r, e) # "none" => Status(e) # "none"
      /\ e[1] = "foreign" => Seen(r, e) = "active"
  BY DEF Seen, Faithful, Reads, Status
<1>4. \A f \in Entities : memo'[r][f] = memo[r][f] \/ (f = e /\ memo'[r][f] = Seen(r, e) /\ Seen(r, e) # "none")
  BY DEF Remember, TypeOK, RequestOK
<1>5. \A f : Status(f)' = Status(f)
  BY <1>1, StillSucceeds
<1>6. e[1] # "foreign" => e[1] \in Kinds
  BY RecallAssumption DEF Entities, Kinds
<1>7. \A f \in Entities : memo'[r][f] # "unread" =>
           /\ memo'[r][f] # "none" /\ Status(f)' # "none"
           /\ f[1] = "foreign" => memo'[r][f] = "active"
  BY <1>3, <1>4, <1>5 DEF Faithful, Reads
<1>8. \A f \in todo'[r] : Status(f)' # "none"
  BY <1>5 DEF Faithful, Reads
<1>9. at'[r] = "row" => cur'[r][1] \in Kinds /\ Status(cur[r])' # "none"
  BY <1>2, <1>3, <1>5, <1>6 DEF Status
<1>10. Reads(r)'
  BY <1>2, <1>7, <1>8, <1>9 DEF Reads, Walking
<1>11. ASSUME op[r] \in {"recall", "search"} PROVE Succession(r)'
  <2>1. PICK h \in hits[r] : Succeeds(e, h)
    BY <1>11
  <2>2. \A f, g : Succeeds(f, g)' = Succeeds(f, g)
    BY <1>1, StillSucceeds
  <2>3. \A f \in got'[r] : \E g \in hits'[r] : Succeeds(f, g)'
    BY <1>1, <1>2, <1>11, <2>1, <2>2 DEF Faithful, Succession
  <2>4. todo'[r] \subseteq hits'[r]
    BY <1>1, <1>11 DEF Faithful, Succession
  <2>5. at'[r] = "row" => OnTheWay(r, h)'
    <3>1. Succeeds(e, h)'
      BY <2>1, <2>2
    <3> QED BY <1>2, <3>1 DEF OnTheWay, Succeeds
  <2> QED BY <1>1, <1>2, <2>1, <2>3, <2>4, <2>5 DEF Succession, Succeeds, Walking
<1>12. Succession(r)'
  BY <1>1, <1>11 DEF Succession
<1> QED BY <1>1, <1>2, <1>10, <1>12, OneFaithful

LEMMA LoadFaithful ==
    ASSUME TypeOK, Faithful, NEW r \in Readers,
           (\E e \in Entities : LoadHit(r, e)) \/ LoadReplacement(r)
    PROVE  Faithful'
<1>0. Reads(r) /\ Succession(r) /\ Settled(r)
  BY DEF Faithful
<1>1. CASE LoadReplacement(r)
  <2>1. cur[r] \in Entities /\ at[r] = "again"
    BY <1>1 DEF LoadReplacement, TypeOK, WalkOK
  <2>2. PICK e \in Entities : e = cur[r]
    BY <2>1
  <2>3. op[r] \in {"recall", "search"} => \E h \in hits[r] : Succeeds(e, h)
    BY <1>0, <2>1, <2>2 DEF Succession, OnTheWay, Succeeds
  <2>4. /\ UNCHANGED <<known, request, todo, node, spare>>
        /\ Remember(r, e, Seen(r, e))
        /\ \/ Seen(r, e) = "active" /\ Take(r, e)
           \/ Drop(r)
           \/ Seen(r, e) \notin {"active", "none"} /\ Replace(r, e)
    BY <1>1, <2>2 DEF LoadReplacement
  <2>5. Settled(r)'
    BY <1>0, <2>1, <2>4 DEF Settled, request, Walking
  <2>6. todo' \in [Readers -> SUBSET Entities]
    BY <2>4 DEF TypeOK, RequestOK
  <2>7. Seen(r, e) = "none" => ~Replace(r, e)
    BY <2>1, <2>4 DEF Replace, Take, Drop, TypeOK, RequestOK
  <2> QED BY <2>1, <2>3, <2>4, <2>5, <2>6, <2>7, JudgedFaithful
<1>2. ASSUME NEW e \in Entities, LoadHit(r, e) PROVE Faithful'
  <2>1. /\ at[r] = "next" /\ e \in todo[r] /\ todo' = [todo EXCEPT ![r] = @ \ {e}]
        /\ UNCHANGED <<known, request, node, spare>>
        /\ Remember(r, e, Seen(r, e))
        /\ \/ Seen(r, e) = "active" /\ Take(r, e)
           \/ Seen(r, e) = "none" /\ Drop(r)
           \/ Seen(r, e) # "active" /\ Replace(r, e)
    BY <1>2 DEF LoadHit
  <2>2. Status(e) # "none" /\ Seen(r, e) # "none"
    BY <1>0, <2>1 DEF Reads, Seen
  <2>3. op[r] \in {"recall", "search"} => \E h \in hits[r] : Succeeds(e, h)
    BY <1>0, <2>1 DEF Succession, Succeeds
  <2>4. /\ todo' \in [Readers -> SUBSET Entities] /\ todo'[r] = todo[r] \ {e}
        /\ \A q \in Readers \ {r} : todo'[q] = todo[q]
    BY <2>1 DEF TypeOK, RequestOK
  <2>5. ASSUME op[r] = "get", ~moved[r] PROVE Settled(r)'
    <3>1. /\ todo[r] = {First(asked[r])} /\ got[r] = {} /\ memo[r] = Blank
          /\ Status(First(asked[r])) = "active"
      BY <1>0, <2>1, <2>5 DEF Settled
    <3>2. e = First(asked[r]) /\ Seen(r, e) = "active"
      BY <2>1, <3>1 DEF Seen, Blank, Status
    <3>3. Take(r, e)
      BY <2>1, <3>2
    <3>4. at'[r] = "next" /\ got'[r] = {e} /\ todo'[r] = {}
      BY <2>4, <3>1, <3>2, <3>3 DEF Take, TypeOK, RequestOK
    <3>5. UNCHANGED <<op, asked, moved, store>>
      BY <2>1 DEF request, known
    <3>6. First(asked[r])' = First(asked[r])
      BY <3>5 DEF First, store
    <3> QED BY <1>0, <2>5, <3>2, <3>4, <3>5, <3>6 DEF Settled, Walking
  <2>6. Settled(r)'
    BY <2>1, <2>5 DEF Settled, request
  <2> QED BY <2>1, <2>2, <2>3, <2>4, <2>6, JudgedFaithful
<1> QED BY <1>1, <1>2

\* The walk goes on to a place from which it finds nothing but what succeeds the hit.
LEMMA WalkFaithful ==
    ASSUME TypeOK, Faithful, NEW r \in Readers, NEW s \in Walking, NEW i \in Ids,
           at[r] \in Walking \cup {"row"}, Walk(r, s, i),
           \A h : OnTheWay(r, h) =>
               /\ s = "backing" => i = cur[r][2]
               /\ s = "sequel" => i \in Start(h)
               /\ s \in {"successor", "pages"} => i \in Later(h)
    PROVE  Faithful'
<1>1. /\ UNCHANGED <<store, op, asked, hits, moved, todo, cur, memo, got>>
      /\ at'[r] = s /\ node'[r] = i
      /\ \A q \in Readers \ {r} : at'[q] = at[q] /\ node'[q] = node[q]
  BY DEF Walk, known, request, TypeOK, RequestOK, WalkOK
<1>2. Reads(r) /\ Succession(r) /\ Settled(r)
  BY DEF Faithful
<1>3. s \notin {"idle", "lookup", "find", "point", "page", "next", "row", "done", "again"}
  BY DEF Walking
<1>4. /\ \A f : Status(f)' = Status(f)
      /\ \A f, h : Succeeds(f, h)' = Succeeds(f, h)
      /\ \A h : Later(h)' = Later(h) /\ Start(h)' = Start(h)
      /\ \A x : Rowless(x)' = Rowless(x) /\ First(x)' = First(x)
  BY <1>1, StillSucceeds
<1>5. Reads(r)'
  <2>1. Status(cur[r])' # "none" /\ cur[r][1] \in Kinds
    BY <1>1, <1>2 DEF Reads, Status, store
  <2> QED BY <1>1, <1>2, <1>3, <1>4, <2>1 DEF Reads
<1>6. Succession(r)'
  <2> SUFFICES ASSUME op[r] \in {"recall", "search"} PROVE Succession(r)'
      BY <1>1 DEF Succession
  <2>1. PICK h \in hits[r] : OnTheWay(r, h)
    BY <1>2 DEF Succession
  <2>2. Succeeds(cur[r], h)'
    <3>1. PICK c : c = cur[r]
      OBVIOUS
    <3>2. Succeeds(c, h)
      BY <2>1, <3>1 DEF OnTheWay
    <3>3. Succeeds(c, h)'
      BY <1>4, <3>2, Zenon
    <3>4. c = cur'[r]
      BY <1>1, <3>1
    <3> QED BY <3>3, <3>4 DEF Succeeds
  <2>3. OnTheWay(r, h)'
    BY <1>1, <1>4, <2>1, <2>2 DEF OnTheWay
  <2>4. \A e \in got'[r] : \E g \in hits'[r] : Succeeds(e, g)'
    BY <1>1, <1>2, <1>4 DEF Succession
  <2> QED BY <1>1, <1>2, <2>1, <2>3, <2>4 DEF Succession, Succeeds
<1>7. Settled(r)'
  BY <1>1, <1>2, <1>3, <1>4 DEF Settled
<1> QED BY <1>1, <1>5, <1>6, <1>7, OneFaithful

\* The walk ends with something that succeeds the hit, or with nothing.
LEMMA ResolvedFaithful ==
    ASSUME TypeOK, Faithful, NEW r \in Readers, NEW e \in Entities \cup {Nothing},
           at[r] \in Walking, Resolved(r, e),
           e # Nothing => \A h : OnTheWay(r, h) => Succeeds(e, h)
    PROVE  Faithful'
<1>1. Reads(r) /\ Succession(r) /\ Settled(r)
  BY DEF Faithful
<1>2. /\ UNCHANGED <<store, op, asked, hits, moved, todo, memo, got>>
      /\ \A q \in Readers \ {r} : at'[q] = at[q] /\ node'[q] = node[q] /\ cur'[q] = cur[q]
      /\ at'[r] \in {"next", "again"}
      /\ at'[r] = "again" => e # Nothing /\ cur'[r] = e /\ ~(got[r] # {} /\ op[r] = "get")
  <2>1. CASE got[r] # {} /\ op[r] = "get"
    BY <2>1 DEF Resolved, known, request, TypeOK, RequestOK, WalkOK
  <2>2. CASE ~(got[r] # {} /\ op[r] = "get")
    BY <2>2 DEF Resolved, known, request, TypeOK, RequestOK, WalkOK
  <2> QED BY <2>1, <2>2
<1>3. /\ \A f : Status(f)' = Status(f)
      /\ \A f, h : Succeeds(f, h)' = Succeeds(f, h)
      /\ \A x : Rowless(x)' = Rowless(x) /\ First(x)' = First(x)
  BY <1>2, StillSucceeds
<1>4. Reads(r)'
  BY <1>1, <1>2, <1>3 DEF Reads, Walking
<1>5. Succession(r)'
  <2> SUFFICES ASSUME op[r] \in {"recall", "search"} PROVE Succession(r)'
      BY <1>2 DEF Succession
  <2>1. PICK h \in hits[r] : OnTheWay(r, h)
    BY <1>1 DEF Succession
  <2>2. at'[r] = "again" => Succeeds(e, h)'
    BY <1>2, <1>3, <2>1
  <2>3. at'[r] = "again" => OnTheWay(r, h)'
    BY <1>2, <2>2 DEF OnTheWay, Succeeds
  <2>4. \A f \in got'[r] : \E g \in hits'[r] : Succeeds(f, g)'
    BY <1>1, <1>2, <1>3 DEF Succession
  <2> QED BY <1>1, <1>2, <2>1, <2>3, <2>4 DEF Succession, Succeeds, Walking
<1>6. Settled(r)'
  <2> SUFFICES ASSUME op[r] = "get", ~moved[r] PROVE Settled(r)'
      BY <1>2 DEF Settled
  <2>1. todo[r] = {} /\ got[r] = {First(asked[r])}
    BY <1>1 DEF Settled
  <2>2. at'[r] = "next"
    BY <1>2, <2>1
  <2> QED BY <1>1, <1>2, <1>3, <2>1, <2>2 DEF Settled, Walking
<1> QED BY <1>2, <1>4, <1>5, <1>6, OneFaithful

LEMMA ResolveFaithful == ASSUME TypeOK, Faithful, NEW r \in Readers, ResolveStep(r) PROVE Faithful'
<1>1. cur[r] \in Entities /\ at[r] \in Walking \cup {"row"} /\ (at[r] # "row" => node[r] \in Ids)
      /\ cur[r][2] \in Ids
  <2>1. cur[r] \in Entities /\ at[r] \in Walking \cup {"row"}
    BY DEF ResolveStep, ReadRow, ReadBacking, ReadSequel, ReadSuccessor, ReadPages,
           TypeOK, WalkOK, Walking
  <2> QED BY <2>1, RecallAssumption DEF Entities, TypeOK, WalkOK
<1>2. /\ hasPage \subseteq everPage /\ sequel \subseteq everSequel
      /\ at[r] \in Walking \cup {"row"} => cur[r][1] \in Kinds /\ Status(cur[r]) # "none"
  BY DEF Faithful, Remembered, Reads
<1>3. ASSUME NEW h
      PROVE  /\ Later(h) \subseteq Ids /\ Later(h) \subseteq Start(h)
             /\ \A x \in Start(h), y \in Ids : <<x, y>> \in everSequel => y \in Later(h)
             /\ OnTheWay(r, h) => /\ cur[r][1] = "point" => cur[r][2] \in Start(h)
                                  /\ \A x \in Ids : <<x, cur[r][2]>> \in everPage => x \in Start(h)
  <2>1. OnTheWay(r, h) => Succeeds(cur[r], h)
    BY DEF OnTheWay
  <2> QED BY <1>1, <2>1, WalkFacts
<1>4. CASE ReadRow(r)
  <2> DEFINE i == cur[r][2]
  <2>1. at[r] = "row" /\ (IF page[i] = "none" THEN Walk(r, "sequel", i) ELSE Walk(r, "backing", i))
    BY <1>4 DEF ReadRow
  <2>2. page[i] = "none" => cur[r][1] = "point"
    BY <1>2, <2>1 DEF Status, Kinds
  <2>3. CASE page[i] = "none"
    BY <1>1, <1>3, <2>1, <2>2, <2>3, WalkFaithful DEF Walking
  <2>4. CASE page[i] # "none"
    BY <1>1, <2>1, <2>4, WalkFaithful DEF Walking
  <2> QED BY <2>3, <2>4
<1>5. CASE ReadBacking(r)
  <2>1. at[r] = "backing"
    BY <1>5 DEF ReadBacking
  <2>2. CASE Resolved(r, Nothing)
    BY <2>1, <2>2, ResolvedFaithful DEF Walking
  <2>3. ASSUME NEW x \in Ids, <<x, node[r]>> \in hasPage, Walk(r, "sequel", x) PROVE Faithful'
    <3>1. \A h : OnTheWay(r, h) => x \in Start(h)
      BY <1>2, <1>3, <2>1, <2>3 DEF OnTheWay
    <3> QED BY <2>1, <2>3, <3>1, WalkFaithful DEF Walking
  <2> QED BY <1>5, <2>2, <2>3 DEF ReadBacking
<1>6. CASE ReadSequel(r)
  <2>1. at[r] = "sequel"
    BY <1>6 DEF ReadSequel
  <2>2. CASE Resolved(r, Nothing)
    BY <2>1, <2>2, ResolvedFaithful DEF Walking
  <2>3. ASSUME NEW y \in Ids, <<node[r], y>> \in sequel, Walk(r, "successor", y) PROVE Faithful'
    <3>1. \A h : OnTheWay(r, h) => y \in Later(h)
      BY <1>2, <1>3, <2>1, <2>3 DEF OnTheWay
    <3> QED BY <2>1, <2>3, <3>1, WalkFaithful DEF Walking
  <2> QED BY <1>6, <2>2, <2>3 DEF ReadSequel
<1>7. CASE ReadSuccessor(r)
  <2>1. at[r] = "successor" /\ node[r] \in Ids
    BY <1>1, <1>7 DEF ReadSuccessor
  <2>2. \A h : OnTheWay(r, h) => node[r] \in Later(h) /\ node[r] \in Start(h)
    BY <1>3, <2>1 DEF OnTheWay
  <2>3. CASE Resolved(r, Nothing)
    BY <2>1, <2>3, ResolvedFaithful DEF Walking
  <2>4. ASSUME NEW s \in {"sequel", "pages"}, Walk(r, s, node[r]) PROVE Faithful'
    BY <2>1, <2>2, <2>4, WalkFaithful DEF Walking
  <2> QED BY <1>7, <2>3, <2>4 DEF ReadSuccessor
<1>8. CASE ReadPages(r)
  <2>1. at[r] = "pages" /\ node[r] \in Ids
    BY <1>1, <1>8 DEF ReadPages
  <2>2. \A h : OnTheWay(r, h) => node[r] \in Later(h)
    BY <2>1 DEF OnTheWay
  <2>3. CASE Resolved(r, <<"point", node[r]>>)
    <3>1. \A h : OnTheWay(r, h) => Succeeds(<<"point", node[r]>>, h)
      BY <2>2 DEF Succeeds, Later
    <3>2. <<"point", node[r]>> \in Entities
      BY <2>1 DEF Entities, Kinds
    <3> QED BY <2>1, <2>3, <3>1, <3>2, ResolvedFaithful DEF Walking
  <2>4. ASSUME NEW p \in Ids, <<node[r], p>> \in hasPage, Resolved(r, <<"page", p>>) PROVE Faithful'
    <3>1. \A h : OnTheWay(r, h) => Succeeds(<<"page", p>>, h)
      BY <1>2, <2>2, <2>4 DEF Succeeds, Later
    <3>2. <<"page", p>> \in Entities
      BY DEF Entities, Kinds
    <3> QED BY <2>1, <2>4, <3>1, <3>2, ResolvedFaithful DEF Walking
  <2> QED BY <1>8, <2>3, <2>4 DEF ReadPages
<1> QED BY <1>4, <1>5, <1>6, <1>7, <1>8 DEF ResolveStep

LEMMA CompleteFaithful == ASSUME TypeOK, Faithful, NEW r \in Readers, Complete(r) PROVE Faithful'
<1>1. /\ at[r] = "next" /\ todo[r] = {} /\ at'[r] = "done"
      /\ UNCHANGED <<store, op, asked, hits, moved, todo, cur, node, memo>>
      /\ op[r] # "get" => got'[r] = got[r]
      /\ got[r] # {} => got'[r] = got[r]
      /\ \A q \in Readers \ {r} : at'[q] = at[q] /\ got'[q] = got[q]
  BY DEF Complete, request, TypeOK, RequestOK
<1>2. Reads(r) /\ Succession(r) /\ Settled(r)
  BY DEF Faithful
<1>3. /\ \A f : Status(f)' = Status(f)
      /\ \A f, h : Succeeds(f, h)' = Succeeds(f, h)
      /\ \A x : Rowless(x)' = Rowless(x) /\ First(x)' = First(x)
  BY <1>1, StillSucceeds
<1>4. Reads(r)'
  BY <1>1, <1>2, <1>3 DEF Reads, Walking
<1>5. Succession(r)'
  <2>1. op[r] \in {"recall", "search"} => \A e \in got'[r] : \E g \in hits'[r] : Succeeds(e, g)'
    BY <1>1, <1>2, <1>3 DEF Succession
  <2> QED BY <1>1, <2>1 DEF Succession, Succeeds, Walking
<1>6. Settled(r)'
  BY <1>1, <1>2, <1>3 DEF Settled, Walking
<1> QED BY <1>1, <1>4, <1>5, <1>6, OneFaithful

LEMMA ReturnFaithful == ASSUME TypeOK, Faithful, NEW r \in Readers, Return(r) PROVE Faithful'
<1>1. /\ at[r] = "done" /\ at'[r] = "idle" /\ op'[r] = "none" /\ got'[r] = {} /\ memo'[r] = Blank
      /\ UNCHANGED <<store, todo, cur, node>>
      /\ \A q \in Readers \ {r} :
               /\ at'[q] = at[q] /\ op'[q] = op[q] /\ asked'[q] = asked[q]
               /\ hits'[q] = hits[q] /\ memo'[q] = memo[q] /\ got'[q] = got[q]
               /\ moved'[q] = moved[q]
  BY DEF Return, known, TypeOK, RequestOK
<1>2. todo[r] = {}
  BY <1>1 DEF Faithful, Reads
<1>3. Reads(r)'
  BY <1>1, <1>2 DEF Reads, Walking, Blank
<1>4. Succession(r)' /\ Settled(r)'
  BY <1>1 DEF Succession, Settled
<1> QED BY <1>1, <1>3, <1>4, OneFaithful

LEMMA InitFaithful == Init => Faithful
<1> SUFFICES ASSUME Init PROVE Faithful
    OBVIOUS
<1>1. Remembered
  BY DEF Init, Remembered
<1>2. ASSUME NEW r \in Readers PROVE Reads(r) /\ Succession(r) /\ Settled(r)
  BY DEF Init, Reads, Succession, Settled, Walking, Blank
<1> QED BY <1>1, <1>2 DEF Faithful

LEMMA NextFaithful == TypeOK /\ Recent /\ Faithful /\ [Next]_vars => Faithful'
<1> SUFFICES ASSUME TypeOK, Recent, Faithful, [Next]_vars PROVE Faithful'
    OBVIOUS
<1>1. CASE UNCHANGED vars
  <2>1. UNCHANGED <<store, at, op, asked, hits, todo, cur, node, memo, got, moved>>
    BY <1>1 DEF vars, known, request
  <2>2. UNCHANGED <<point, page, hasPage, sequel, everPage, everSequel>>
    BY <2>1 DEF store
  <2>3. \A e \in Entities : Status(e)' = Status(e)
    BY <2>1, StillSucceeds
  <2>4. ASSUME NEW q \in Readers PROVE Reads(q)' /\ Succession(q)' /\ Settled(q)'
    <3>1. Reads(q) /\ Succession(q) /\ Settled(q)
      BY DEF Faithful
    <3> QED BY <2>1, <2>2, <2>3, <3>1, SameRequest
  <2> QED BY <2>2, <2>4 DEF Faithful, Remembered
<1>2. ASSUME NEW r \in Readers, RequestStep(r) PROVE Faithful'
  BY <1>2, LookupFaithful, FindFaithful, GetRowFaithful, LoadFaithful, ResolveFaithful,
     CompleteFaithful, ReturnFaithful DEF RequestStep
<1> QED BY <1>1, <1>2, JobFaithful, OpenFaithful DEF Next

LEMMA FaithfulHolds == Spec => [](TypeOK /\ Faithful)
<1>1. Init => TypeOK /\ Recent /\ Faithful
  BY InitType, InitSound, InitFaithful
<1>2. TypeOK /\ Recent /\ Faithful /\ [Next]_vars => (TypeOK /\ Recent /\ Faithful)'
  BY NextType, NextSound, NextFaithful
<1> QED BY <1>1, <1>2, PTL DEF Spec

\* GetByID answers an id the agent has with the row of that id, a point before a page,
\* for any number of requests and writers, as long as no job writes its rows meanwhile.
THEOREM GetFinds == Spec => []GetFindsSettled
<1>1. Faithful => GetFindsSettled
  <2> SUFFICES ASSUME Faithful, NEW r \in Readers, at[r] = "done", op[r] = "get", ~moved[r],
                      ~Rowless(asked[r])
               PROVE  got[r] = {First(asked[r])}
      BY DEF GetFindsSettled, Rowless, First, Status, Kinds
  <2> QED BY DEF Faithful, Settled
<1> QED BY <1>1, FaithfulHolds, PTL

\* Whatever ResolveReplacement serves in the place of a hit succeeds the hit along
\* sequels and shared pages, although jobs link and unlink between its reads.
THEOREM Substitutes == Spec => []SubstitutesSucceed
<1>1. Faithful => SubstitutesSucceed
  BY DEF Faithful, Succession, SubstitutesSucceed
<1> QED BY <1>1, FaithfulHolds, PTL
=============================================================================
