------------------------------- MODULE Recall -------------------------------
(***************************************************************************)
(* Requests for memories (Recall, Search, GetByID) while jobs write: what  *)
(* a hit finds archived or superseded is replaced by its live successor    *)
(* (ResolveReplacement), and a recalled text is kept for TTL. A request    *)
(* makes one store call per step and holds no lock between them.           *)
(*                                                                         *)
(* Source: src/internal/recall/recall.go, src/internal/verify/grade.go,    *)
(* src/internal/store/replace.go, src/internal/service/service.go and, for *)
(* the writes, persist.go and tools.go, as Learning and WikiLoop have      *)
(* them. The wiki loop names its pages as it likes, so that one id may     *)
(* have a row of both tables; only so a sequel edge, which wiki_write adds *)
(* between pages, leads from point to point.                               *)
(*                                                                         *)
(* What a query resembles, its options and the order of equal scores are   *)
(* arbitrary, so the hits are any rows. The text is of one query: another  *)
(* one's can only push it out. Another namespace the agent may read holds  *)
(* points that do not change. Store errors are left out.                   *)
(***************************************************************************)
EXTENDS Naturals, FiniteSets

CONSTANTS
    Readers,    \* requests under way
    Ids,        \* ids of points and pages of the agent
    Foreign,    \* ids of points of the other namespace
    Stores,     \* bound: what earlier jobs may have left
    Nothing,    \* no entity, no id, no text
    TopK,       \* opts.TopK
    TTL,        \* recallCacheTTL
    MaxWrites,  \* bound: writes of jobs
    MaxTime     \* bound: time

Kinds == {"point", "page"}
\* <<"foreign", i>> is the point i of the other namespace.
Entities == (Kinds \X Ids) \cup ({"foreign"} \X Foreign)
PointStatus == {"none", "active", "archived"}
PageStatus == {"none", "active", "superseded", "archived"}

ASSUME RecallAssumption ==
    /\ Foreign \subseteq Ids
    /\ Nothing \notin Entities \cup Ids
    /\ Nothing \notin [items : SUBSET Entities, begun : Nat, made : Nat]
    /\ TopK \in Nat /\ TTL \in Nat /\ MaxWrites \in Nat /\ MaxTime \in Nat
    /\ Stores \subseteq [point : [Ids -> PointStatus], page : [Ids -> PageStatus],
                         hasPage : SUBSET (Ids \X Ids), sequel : SUBSET (Ids \X Ids)]

VARIABLES
    point, page,       \* status of each row, "none" without one
    hasPage, sequel,   \* edges of the two kinds
    writes, now,
    text,              \* the cached text, by the entities in it
    gone,              \* ghost: when an entity was last live
    everPage, everSequel, \* ghost: all edges there have been
    at, op,            \* where a request is, and which it is
    asked,             \* the id of GetByID
    hits, todo,        \* what retrieval found, and what of it is still to do
    cur, node,         \* the entity whose successor is sought, where the walk is
    memo,              \* entityCache
    got,               \* the entities of the answer
    spare,             \* Replacement of the answer of GetByID
    begun,             \* ghost: when the reading behind the answer began
    moved              \* ghost: a row of the asked id was written meanwhile

store == <<point, page, hasPage, sequel, everPage, everSequel, gone, writes>>
known == <<store, now, text>>
request == <<op, asked, hits, begun, moved>>
vars == <<known, request, at, todo, cur, node, memo, got, spare>>

Status(e) ==
    IF e[1] = "point" THEN point[e[2]]
    ELSE IF e[1] = "page" THEN page[e[2]] ELSE "active"

Live == {e \in Entities : Status(e) = "active"}
Rows == {e \in Entities : Status(e) # "none"}

\* The entity is live, or was at b or later.
WasLive(e, b) == e \in Live \/ gone[e] >= b

Blank == [e \in Entities |-> "unread"]
Walking == {"backing", "sequel", "successor", "pages"}
Stages == {"idle", "lookup", "find", "point", "page", "next", "again", "row", "done"}
              \cup Walking
Texts == [items : SUBSET Entities, begun : Nat, made : Nat]

-----------------------------------------------------------------------------
Init ==
    /\ \E s \in Stores :
        /\ point = s.point /\ page = s.page
        /\ hasPage = s.hasPage /\ sequel = s.sequel
    /\ everPage = hasPage /\ everSequel = sequel
    /\ writes = 0 /\ now = 1
    /\ text = Nothing
    /\ gone = [e \in Entities |-> 0]
    /\ at = [r \in Readers |-> "idle"] /\ op = [r \in Readers |-> "none"]
    /\ asked = [r \in Readers |-> Nothing]
    /\ hits = [r \in Readers |-> {}] /\ todo = [r \in Readers |-> {}]
    /\ cur = [r \in Readers |-> Nothing] /\ node = [r \in Readers |-> Nothing]
    /\ memo = [r \in Readers |-> Blank]
    /\ got = [r \in Readers |-> {}] /\ spare = [r \in Readers |-> Nothing]
    /\ begun = [r \in Readers |-> 0] /\ moved = [r \in Readers |-> FALSE]

-----------------------------------------------------------------------------
\* Jobs. Writes that change nothing are left out.

Write ==
    /\ writes < MaxWrites
    /\ writes' = writes + 1
    /\ UNCHANGED <<now, text, at, op, asked, hits, todo, cur, node, memo, got, spare, begun>>

\* After a row is written. A live entity's entry in gone means nothing.
Note(i) ==
    /\ gone' = [e \in Entities |->
                  IF e \in Live /\ e \notin Live' THEN now ELSE gone[e]]
    /\ moved' = [r \in Readers |-> moved[r] \/ asked[r] = i]

\* UpsertInterestPoint of Persist: a final point, or an archived one.
PutPoint(i, status) ==
    /\ Write
    /\ status # point[i] /\ (status = "archived" => point[i] = "active")
    /\ point' = [point EXCEPT ![i] = status]
    /\ UNCHANGED <<page, hasPage, sequel, everPage, everSequel>>
    /\ Note(i)

\* UpsertPage of wiki_write, or of the reconciler for a replaced page.
PutPage(i, status) ==
    /\ Write
    /\ status # page[i]
    /\ page' = [page EXCEPT ![i] = status]
    /\ UNCHANGED <<point, hasPage, sequel, everPage, everSequel>>
    /\ Note(i)

\* The edges of wiki_write.
LinkPoint(x, p) ==
    /\ Write
    /\ page[p] # "none"
    /\ hasPage' = hasPage \cup {<<x, p>>} /\ everPage' = everPage \cup {<<x, p>>}
    /\ UNCHANGED <<point, page, sequel, everSequel, gone, moved>>

LinkSequel(p, q) ==
    /\ Write
    /\ p # q /\ page[p] # "none" /\ page[q] # "none"
    /\ sequel' = sequel \cup {<<p, q>>} /\ everSequel' = everSequel \cup {<<p, q>>}
    /\ UNCHANGED <<point, page, hasPage, everPage, gone, moved>>

\* DeleteEdgesFor of RebuildEdges.
Unlink(p) ==
    /\ Write
    /\ page[p] # "none"
    /\ hasPage' = {e \in hasPage : e[1] # p}
    /\ sequel' = {e \in sequel : e[1] # p}
    /\ UNCHANGED <<point, page, everPage, everSequel, gone, moved>>

Tick ==
    /\ now < MaxTime
    /\ now' = now + 1
    /\ UNCHANGED <<store, text, request, at, todo, cur, node, memo, got, spare>>

\* Texts of other queries push the text out of the LRU.
Evict ==
    /\ text # Nothing
    /\ text' = Nothing
    /\ UNCHANGED <<store, now, request, at, todo, cur, node, memo, got, spare>>

-----------------------------------------------------------------------------
\* ResolveReplacement for the entity cur.

\* Faulty variant: that there may be none is forgotten.
MutantResolved(r, e) ==
    /\ UNCHANGED spare
    /\ at' = [at EXCEPT ![r] = "again"]
    /\ cur' = [cur EXCEPT ![r] = e]
    /\ node' = [node EXCEPT ![r] = Nothing]
    /\ UNCHANGED <<known, request, todo, memo, got>>

\* It returns e: the answer of GetByID is there already and gets it attached;
\* otherwise e is loaded in the place of cur.
Resolved(r, e) ==
    /\ IF got[r] # {} /\ op[r] = "get"
         THEN /\ spare' = [spare EXCEPT ![r] = e]
              /\ at' = [at EXCEPT ![r] = "next"]
              /\ cur' = [cur EXCEPT ![r] = Nothing]
         ELSE /\ UNCHANGED spare
              /\ at' = [at EXCEPT ![r] = IF e = Nothing THEN "next" ELSE "again"]
              /\ cur' = [cur EXCEPT ![r] = e]
    /\ node' = [node EXCEPT ![r] = Nothing]
    /\ UNCHANGED <<known, request, todo, memo, got>>

Walk(r, stage, i) ==
    /\ at' = [at EXCEPT ![r] = stage]
    /\ node' = [node EXCEPT ![r] = i]
    /\ UNCHANGED <<known, request, todo, cur, memo, got, spare>>

\* Is the id a page's?
ReadRow(r) ==
    /\ at[r] = "row"
    /\ LET i == cur[r][2]
       IN  IF page[i] = "none" THEN Walk(r, "sequel", i) ELSE Walk(r, "backing", i)

\* Faulty variant: a page without a point stands for itself.
MutantReadBacking(r) ==
    /\ at[r] = "backing"
    /\ LET backing == {x \in Ids : <<x, node[r]>> \in hasPage}
       IN  IF backing = {} THEN Walk(r, "sequel", node[r])
                           ELSE \E x \in backing : Walk(r, "sequel", x)

\* The point behind a page: the source of any has_page edge, of equal weight all.
ReadBacking(r) ==
    /\ at[r] = "backing"
    /\ LET backing == {x \in Ids : <<x, node[r]>> \in hasPage}
       IN  IF backing = {} THEN Resolved(r, Nothing)
                           ELSE \E x \in backing : Walk(r, "sequel", x)

ReadSequel(r) ==
    /\ at[r] = "sequel"
    /\ LET next == {y \in Ids : <<node[r], y>> \in sequel}
       IN  IF next = {} THEN Resolved(r, Nothing)
                        ELSE \E y \in next : Walk(r, "successor", y)

\* Faulty variant: the walk does not go on from the archived successor.
MutantReadSuccessor(r) ==
    /\ at[r] = "successor"
    /\ \/ point[node[r]] = "none" /\ Resolved(r, Nothing)
       \/ point[node[r]] = "archived" /\ Walk(r, "sequel", cur[r][2])
       \/ point[node[r]] = "active" /\ Walk(r, "pages", node[r])

ReadSuccessor(r) ==
    /\ at[r] = "successor"
    /\ \/ point[node[r]] = "none" /\ Resolved(r, Nothing)
       \/ point[node[r]] = "archived" /\ Walk(r, "sequel", node[r])
       \/ point[node[r]] = "active" /\ Walk(r, "pages", node[r])

\* Any page of the live successor, whatever its status, else the successor.
ReadPages(r) ==
    /\ at[r] = "pages"
    /\ LET pages == {p \in Ids : <<node[r], p>> \in hasPage /\ page[p] # "none"}
       IN  IF pages = {} THEN Resolved(r, <<"point", node[r]>>)
                         ELSE \E p \in pages : Resolved(r, <<"page", p>>)

-----------------------------------------------------------------------------
\* One hit: loadEntity of the grader for Recall, resultFor for the others.

\* A request reads an entity once, but for one that is not there.
Seen(r, e) == IF memo[r][e] = "unread" THEN Status(e) ELSE memo[r][e]

Remember(r, e, status) ==
    memo' = IF op[r] = "recall" \/ status = "none" THEN memo
                                                  ELSE [memo EXCEPT ![r][e] = status]

Take(r, e) ==
    /\ got' = [got EXCEPT ![r] = @ \cup {e}]
    /\ at' = [at EXCEPT ![r] = "next"]
    /\ cur' = [cur EXCEPT ![r] = Nothing]

Drop(r) ==
    /\ at' = [at EXCEPT ![r] = "next"]
    /\ cur' = [cur EXCEPT ![r] = Nothing]
    /\ UNCHANGED got

Replace(r, e) ==
    /\ at' = [at EXCEPT ![r] = "row"]
    /\ cur' = [cur EXCEPT ![r] = e]
    /\ UNCHANGED got

\* The grader looks for a successor of what is archived or not there.
LoadHit(r, e) ==
    /\ at[r] = "next"
    /\ e \in todo[r]
    /\ todo' = [todo EXCEPT ![r] = @ \ {e}]
    /\ Remember(r, e, Seen(r, e))
    /\ \/ Seen(r, e) = "active" /\ Take(r, e)
       \/ Seen(r, e) = "none" /\ op[r] # "recall" /\ Drop(r)
       \/ Seen(r, e) # "active" /\ (Seen(r, e) = "none" => op[r] = "recall") /\ Replace(r, e)
    /\ UNCHANGED <<known, request, node, spare>>

\* Faulty variant: the grader does not look at the replacement again.
MutantLoadReplacement(r) ==
    /\ at[r] = "again"
    /\ Remember(r, cur[r], Seen(r, cur[r]))
    /\ \/ (Seen(r, cur[r]) = "active" \/ op[r] = "recall") /\ Take(r, cur[r])
       \/ Seen(r, cur[r]) = "none" /\ op[r] # "recall" /\ Drop(r)
       \/ Seen(r, cur[r]) \notin {"active", "none"} /\ op[r] # "recall" /\ Replace(r, cur[r])
    /\ UNCHANGED <<known, request, todo, node, spare>>

\* The grader drops a replacement that is not live; resultFor looks for its
\* successor in turn.
LoadReplacement(r) ==
    /\ at[r] = "again"
    /\ Remember(r, cur[r], Seen(r, cur[r]))
    /\ \/ Seen(r, cur[r]) = "active" /\ Take(r, cur[r])
       \/ Seen(r, cur[r]) # "active" /\ (Seen(r, cur[r]) = "none" \/ op[r] = "recall") /\ Drop(r)
       \/ Seen(r, cur[r]) \notin {"active", "none"} /\ op[r] # "recall" /\ Replace(r, cur[r])
    /\ UNCHANGED <<known, request, todo, node, spare>>

-----------------------------------------------------------------------------
\* Requests.

Open(r, o, stage, i) ==
    /\ at[r] = "idle"
    /\ at' = [at EXCEPT ![r] = stage]
    /\ op' = [op EXCEPT ![r] = o]
    /\ asked' = [asked EXCEPT ![r] = i]
    /\ begun' = [begun EXCEPT ![r] = now]
    /\ UNCHANGED <<known, hits, moved, todo, cur, node, memo, got, spare>>

BeginRecall(r) == Open(r, "recall", "lookup", Nothing)
BeginSearch(r) == Open(r, "search", "find", Nothing)
BeginGet(r, i) == Open(r, "get", "point", i)

\* Faulty variant: the age of the text is not looked at.
MutantFresh(t) == t # Nothing

Fresh(t) == t # Nothing /\ now < t.made + TTL

Lookup(r) ==
    /\ at[r] = "lookup"
    /\ IF Fresh(text)
         THEN /\ at' = [at EXCEPT ![r] = "done"]
              /\ got' = [got EXCEPT ![r] = text.items]
              /\ hits' = [hits EXCEPT ![r] = text.items]
              /\ begun' = [begun EXCEPT ![r] = text.begun]
         ELSE /\ at' = [at EXCEPT ![r] = "find"]
              /\ UNCHANGED <<got, hits, begun>>
    /\ UNCHANGED <<known, op, asked, moved, todo, cur, node, memo, spare>>

\* Vector search in each visible namespace, or full text if it finds nothing:
\* archived rows are found while their vectors are there.
Find(r, found) ==
    /\ at[r] = "find"
    /\ found \subseteq Rows /\ Cardinality(found) <= TopK
    /\ hits' = [hits EXCEPT ![r] = found]
    /\ todo' = [todo EXCEPT ![r] = found]
    /\ at' = [at EXCEPT ![r] = IF found = {} THEN "done" ELSE "next"]
    /\ UNCHANGED <<known, op, asked, begun, moved, cur, node, memo, got, spare>>

\* Faulty variant: an archived row is replaced as in Search.
MutantGetRow(r, kind, live, other) ==
    LET e == <<kind, asked[r]>>
    IN  /\ at' = [at EXCEPT ![r] = IF Status(e) = "none" THEN other ELSE live]
        /\ todo' = [todo EXCEPT ![r] = IF Status(e) = "none" THEN @ ELSE {e}]
        /\ UNCHANGED <<known, request, node, memo, spare, got, cur>>

\* getByIDIn: a live row goes through resultFor, another is the answer.
GetRow(r, kind, live, other) ==
    LET e == <<kind, asked[r]>>
    IN  /\ \/ /\ Status(e) = "none"
              /\ at' = [at EXCEPT ![r] = other]
              /\ UNCHANGED <<todo, got, cur>>
           \/ /\ Status(e) = "active"
              /\ at' = [at EXCEPT ![r] = live]
              /\ todo' = [todo EXCEPT ![r] = {e}]
              /\ UNCHANGED <<got, cur>>
           \/ /\ Status(e) \notin {"none", "active"}
              /\ at' = [at EXCEPT ![r] = "row"]
              /\ got' = [got EXCEPT ![r] = {e}]
              /\ cur' = [cur EXCEPT ![r] = e]
              /\ UNCHANGED todo
        /\ UNCHANGED <<known, request, node, memo, spare>>

GetPoint(r) == at[r] = "point" /\ GetRow(r, "point", "next", "page")
GetPage(r) == at[r] = "page" /\ GetRow(r, "page", "next", "next")

\* All hits are done. Recall caches its text; GetByID without an answer goes on
\* to the other namespace.
Complete(r) ==
    /\ at[r] = "next"
    /\ todo[r] = {}
    /\ at' = [at EXCEPT ![r] = "done"]
    /\ text' = IF op[r] = "recall"
                 THEN [items |-> got[r], begun |-> begun[r], made |-> now] ELSE text
    /\ got' = IF op[r] = "get" /\ got[r] = {} /\ asked[r] \in Foreign
                THEN [got EXCEPT ![r] = {<<"foreign", asked[r]>>}] ELSE got
    /\ UNCHANGED <<store, now, request, todo, cur, node, memo, spare>>

Return(r) ==
    /\ at[r] = "done"
    /\ at' = [at EXCEPT ![r] = "idle"]
    /\ op' = [op EXCEPT ![r] = "none"]
    /\ asked' = [asked EXCEPT ![r] = Nothing]
    /\ hits' = [hits EXCEPT ![r] = {}]
    /\ memo' = [memo EXCEPT ![r] = Blank]
    /\ got' = [got EXCEPT ![r] = {}]
    /\ spare' = [spare EXCEPT ![r] = Nothing]
    /\ begun' = [begun EXCEPT ![r] = 0]
    /\ moved' = [moved EXCEPT ![r] = FALSE]
    /\ UNCHANGED <<known, todo, cur, node>>

-----------------------------------------------------------------------------
ResolveStep(r) ==
    ReadRow(r) \/ ReadBacking(r) \/ ReadSequel(r) \/ ReadSuccessor(r) \/ ReadPages(r)

RequestStep(r) ==
    \/ Lookup(r)
    \/ \E found \in SUBSET Entities : Find(r, found)
    \/ GetPoint(r) \/ GetPage(r)
    \/ \E e \in Entities : LoadHit(r, e)
    \/ LoadReplacement(r)
    \/ ResolveStep(r)
    \/ Complete(r)
    \/ Return(r)

Job ==
    \/ \E i \in Ids, s \in PointStatus \ {"none"} : PutPoint(i, s)
    \/ \E i \in Ids, s \in PageStatus \ {"none"} : PutPage(i, s)
    \/ \E x, p \in Ids : LinkPoint(x, p) \/ LinkSequel(x, p)
    \/ \E p \in Ids : Unlink(p)

Next ==
    \/ Job \/ Tick \/ Evict
    \/ \E r \in Readers :
        \/ BeginRecall(r) \/ BeginSearch(r) \/ \E i \in Ids : BeginGet(r, i)
        \/ RequestStep(r)

\* A handler runs on until it has answered.
Spec == Init /\ [][Next]_vars /\ \A r \in Readers : WF_vars(RequestStep(r))

-----------------------------------------------------------------------------
StoreOK ==
    /\ point \in [Ids -> PointStatus] /\ page \in [Ids -> PageStatus]
    /\ hasPage \subseteq Ids \X Ids /\ sequel \subseteq Ids \X Ids
    /\ everPage \subseteq Ids \X Ids /\ everSequel \subseteq Ids \X Ids
    /\ writes \in 0..MaxWrites /\ now \in Nat
    /\ gone \in [Entities -> Nat]
    /\ text \in Texts \cup {Nothing}

RequestOK ==
    /\ at \in [Readers -> Stages]
    /\ op \in [Readers -> {"none", "recall", "search", "get"}]
    /\ asked \in [Readers -> Ids \cup {Nothing}]
    /\ hits \in [Readers -> SUBSET Entities] /\ todo \in [Readers -> SUBSET Entities]
    /\ memo \in [Readers -> [Entities -> PageStatus \cup {"unread"}]]
    /\ got \in [Readers -> SUBSET Entities]
    /\ spare \in [Readers -> Entities \cup {Nothing}]
    /\ begun \in [Readers -> Nat] /\ moved \in [Readers -> BOOLEAN]

\* Where the walk is there is something to find a successor of.
WalkOK ==
    /\ cur \in [Readers -> Entities \cup {Nothing}]
    /\ node \in [Readers -> Ids \cup {Nothing}]
    /\ \A r \in Readers : /\ at[r] \in Walking \cup {"row", "again"} => cur[r] # Nothing
                          /\ at[r] \in Walking => node[r] \in Ids
                          /\ at[r] \in {"point", "page"} => asked[r] \in Ids

TypeOK == StoreOK /\ RequestOK /\ WalkOK

\* Every memory in an answer was live at some time since the reading behind it began,
\* a replacement too, although it is resolved in several reads and the entity may be
\* archived between any two of them. What GetByID returns under the asked id is exempt:
\* it comes with its status.
AnswersWereLive ==
    \A r \in Readers : at[r] = "done" =>
        \A e \in got[r] :
            WasLive(e, begun[r]) \/ (op[r] = "get" /\ e[1] \in Kinds /\ e[2] = asked[r])

\* The cache serves nothing that was archived longer ago than TTL and the time that the
\* request took which wrote the text: a slow request may keep an old text alive, by no
\* more than it was slow, and texts written out of order do not add up.
ForgetsInTime ==
    [][\A r \in Readers : at[r] = "lookup" /\ at'[r] = "done" =>
          \A e \in got'[r] :
              e \in Live \/ now < gone[e] + TTL + (text.made - text.begun)]_vars

\* GetByID finds an id of the agent under that id, point before page, if no job writes
\* its rows meanwhile. (If one does, the row may be archived between the two reads and
\* the answer be its successor, another agent's entity or nothing.)
GetFindsSettled ==
    \A r \in Readers :
        LET rows == {k \in Kinds : Status(<<k, asked[r]>>) # "none"}
        IN  at[r] = "done" /\ op[r] = "get" /\ ~moved[r] /\ rows # {} =>
              got[r] = {<<IF "point" \in rows THEN "point" ELSE "page", asked[r]>>}

\* GetByID returns archived entities "with their status and a replacement ref [...] (unlike
\* Search, which silently substitutes the replacement)" (recall.go:608-611), so what it
\* returns has the asked id. RecallGet.cfg finds it violated: a row that a job archives after
\* getByIDIn has looked at it and before resultFor loads it is substituted silently.
GetNeverSubstitutes ==
    \A r \in Readers : at[r] = "done" /\ op[r] = "get" => \A e \in got[r] : e[2] = asked[r]

\* Points behind an entity, and what sequels lead to from a point; the point walked
\* on from may share a page with the one arrived at.
Behind(e) == {x \in Ids : e = <<"point", x>> \/ <<x, e[2]>> \in everPage}
Sequels(X) == {y \in Ids : \E x \in X : <<x, y>> \in everSequel}
Sharing(Y) ==
    LET pages == {p \in Ids : p \in Y \/ \E y \in Y : <<y, p>> \in everPage}
    IN  Y \cup {x \in Ids : \E p \in pages : <<x, p>> \in everPage}
\* The least set that has the sequels of X and the sequels of what shares with it.
Chain(X) ==
    {y \in Ids : \A Y \in SUBSET Ids :
        Sequels(X) \subseteq Y /\ Sequels(Sharing(Y)) \subseteq Y => y \in Y}

Succeeds(e, h) ==
    \/ e = h
    \/ \E y \in Chain(Behind(h)) :
         e = <<"point", y>> \/ (e[1] = "page" /\ <<y, e[2]>> \in everPage)

\* What is served in the place of a hit succeeds it: a chain of sequels leads from a
\* point behind the hit to it or to the point it is a page of. Nothing else gets into
\* an answer, whatever jobs link and unlink during the walk.
SubstitutesSucceed ==
    \A r \in Readers : at[r] = "done" /\ op[r] \in {"recall", "search"} =>
        \A e \in got[r] : \E h \in hits[r] : Succeeds(e, h)

\* Replacements that lead round: in some set of points each has a sequel that is in
\* the set again or shares a page with a point of it.
Circular ==
    \E X \in SUBSET Ids \ {{}} : \A x \in X :
        \E y \in Sequels({x}) : Sharing({y}) \cap X # {}

\* Every request is answered, unless replacements lead in a circle: then the walk, or
\* the recursion of resultFor, goes round for ever.
RequestsEnd == \A r \in Readers : at[r] # "idle" ~> (at[r] = "idle" \/ Circular)

\* ResolveReplacement "returns its live successor, or nil when no sequel edge leads
\* onward" (replace.go:18-20), so it returns. RecallCircle.cfg finds it violated: round a
\* circle of archived points a sequel always leads onward, and no successor is live.
ResolveReturns == \A r \in Readers : at[r] \in Walking ~> at[r] \notin Walking
=============================================================================
