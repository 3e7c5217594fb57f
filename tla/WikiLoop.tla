------------------------------ MODULE WikiLoop ------------------------------
(***************************************************************************)
(* The wiki stage of a job: agent loops write pages through the wiki_write *)
(* tool, up to MaxConcurrency of them at a time; then RebuildEdges makes   *)
(* the adjacency of the pages they touched from the links in the bodies,   *)
(* and one more loop reconciles related pages. Every store call is atomic  *)
(* (a mutex per agent) and commits on its own. Jobs of an agent are serial *)
(* and the pages are per agent, so there is one agent here.                *)
(*                                                                         *)
(* Source: src/internal/wiki/writer.go, tools.go, reconcile.go,            *)
(* src/internal/store/edges.go, pending_links.go, interest_pages.go.       *)
(*                                                                         *)
(* A body is the set of pages it links to, as RebuildEdges normalises      *)
(* them. Ratings, claims, logs, tags and vectors are left out: a write of  *)
(* those that fails ends the call like the next write of a link would.     *)
(***************************************************************************)
EXTENDS Naturals, Sequences, FiniteSets

CONSTANTS
    Pages,           \* page ids in normal form
    Misspelt,        \* an id that normalizeID changes, as the loop spelled it
    Points,          \* ids a loop may name as points that drive a page
    Units,           \* the loops of Compile: clusters and isolated points
    Timed,           \* the units with a point that has an event time
    Reconciler,      \* the loop of ReconcileRelated
    NoPage,          \* what GetPage returns for an unknown id
    MaxConcurrency,  \* maxCompileConcurrency
    MaxJobs,         \* bound: jobs
    MaxCalls,        \* bound: wiki_write calls
    MaxFaults        \* bound: errors, exits and misspelt ids

ASSUME WikiAssumption ==
    /\ Misspelt \notin Pages
    /\ Pages \cap Points = {}
    /\ NoPage \notin [links : SUBSET Pages, dated : BOOLEAN]
    /\ Reconciler \notin Units
    /\ Timed \subseteq Units
    /\ MaxConcurrency \in Nat \ {0}
    /\ MaxJobs \in Nat /\ MaxCalls \in Nat /\ MaxFaults \in Nat

VARIABLES
    page,      \* wiki_pages
    edges,     \* edges: source, target, kind
    pending,   \* pending_links: source, target
    dirty,     \* ghost: pages whose body no completed rebuild has seen
    stage,     \* "idle", "compile", "rebuild", "reconcile"
    loop,      \* what each unit's goroutine does
    call,      \* the store operations a loop has still to make
    touched,   \* ids for which a loop saw wiki_write end
    work,      \* what RebuildEdges has still to do
    jobs, calls, faults

tables == <<page, edges, pending, dirty>>
bounds == <<jobs, calls, faults>>
vars == <<tables, stage, loop, call, touched, work, bounds>>

Loops == Units \cup {Reconciler}
Kinds == {"has_page", "references", "related", "contradicts"}
Bodies == [links : SUBSET Pages, dated : BOOLEAN]
Ids == Pages \cup {Misspelt}

Exists == {p \in Pages : page[p] # NoPage}

\* The values a sequence takes.
Values(s) == {s[i] : i \in 1..Len(s)}

\* The pages of the job: ids of finished loops that GetPagesByIDs finds.
Touched == (UNION {Values(touched[u]) : u \in Units}) \cap Exists

NoWork == [unlink |-> {}, unpend |-> {}, add |-> {}, dead |-> {}, clear |-> {}]

\* The operations of a loop: add the edges of one AddEdgePair, end the tool
\* call, look whether a page needs its event time, write such a page back.
Link(E) == [op |-> "link", edges |-> E]
Return(id) == [op |-> "return", id |-> id]
Fill(id) == [op |-> "fill", id |-> id]
WriteBack(p, body) == [op |-> "writeback", id |-> p, body |-> body]

IsOp(o) ==
    \/ o.op = "link" /\ o.edges \subseteq (Points \cup Pages) \X Pages \X Kinds
    \/ o.op \in {"return", "fill"} /\ o.id \in Ids
    \/ o.op = "writeback" /\ o.id \in Pages /\ o.body \in Bodies

-----------------------------------------------------------------------------
\* AddEdgePair: the edge and, for a contradiction, the reverse one.
Pair(s, t, kind) ==
    {<<s, t, kind>>} \cup IF kind = "contradicts" THEN {<<t, s, kind>>} ELSE {}

\* Faulty variant: the target is not looked up.
MutantValid(p, es) == \A e \in Values(es) : e[1] # p

\* validateEdges: no edge to the page itself, targets exist.
Valid(p, es) == \A e \in Values(es) : e[1] # p /\ e[1] \in Exists

\* What wiki_write does after the page is stored: has_page edges one by one,
\* then the edges of the arguments one by one.
CallPlan(p, id, ips, es) ==
    [i \in 1..Len(ips) |-> Link(Pair(ips[i], p, "has_page"))]
        \o [i \in 1..Len(es) |-> Link(Pair(p, es[i][1], es[i][2]))]
        \o <<Return(id)>>

\* Faulty variant: a page is looked at once, not after each of the calls.
MutantFills(s) == IF s = <<>> THEN <<>> ELSE <<Fill(s[1])>>

\* backfillEventTime: every id in the order of the calls.
Fills(s) == [i \in 1..Len(s) |-> Fill(s[i])]

\* The links RebuildEdges collects of the pages of S.
LinksOf(S) == UNION {{<<p, q>> : q \in page[p].links \ {p}} : p \in S}

\* Faulty variant: the old pending links stay.
MutantWorkFor(S) ==
    LET resolved == {l \in LinksOf(S) : l[2] \in Exists}
    IN  [unlink |-> S, unpend |-> S,
         add |-> {<<l[1], l[2], "references">> : l \in resolved},
         dead |-> {}, clear |-> resolved]

\* RebuildEdges for the pages of S: links and existing targets are read at
\* the start, nobody else writes pages meanwhile.
WorkFor(S) ==
    LET resolved == {l \in LinksOf(S) : l[2] \in Exists}
    IN  [unlink |-> S, unpend |-> S,
         add |-> {<<l[1], l[2], "references">> : l \in resolved},
         dead |-> LinksOf(S) \ resolved, clear |-> resolved]

\* Faulty variant: the edges to the page go as well.
MutantOutEdges(p) == {e \in edges : p \in {e[1], e[2]}}

\* DeleteEdgesFor: all edges from a page, of whatever kind.
OutEdges(p) == {e \in edges : e[1] = p}

-----------------------------------------------------------------------------
Init ==
    /\ page = [p \in Pages |-> NoPage]
    /\ edges = {}
    /\ pending = {}
    /\ dirty = {}
    /\ stage = "idle"
    /\ loop = [u \in Units |-> "out"]
    /\ call = [c \in Loops |-> <<>>]
    /\ touched = [u \in Units |-> <<>>]
    /\ work = NoWork
    /\ jobs = 0 /\ calls = 0 /\ faults = 0

\* Compile starts a goroutine for every unit; a job that only archives has none.
BeginCompile(U) ==
    /\ stage = "idle"
    /\ jobs < MaxJobs
    /\ jobs' = jobs + 1
    /\ stage' = "compile"
    /\ loop' = [u \in Units |-> IF u \in U THEN "waiting" ELSE "out"]
    /\ UNCHANGED <<tables, call, touched, work, calls, faults>>

\* The goroutine gets a place in the semaphore, which it keeps to its end.
StartLoop(u) ==
    /\ loop[u] = "waiting"
    /\ Cardinality({v \in Units : loop[v] \in {"running", "filling"}}) < MaxConcurrency
    /\ loop' = [loop EXCEPT ![u] = "running"]
    /\ UNCHANGED <<tables, stage, call, touched, work, bounds>>

\* A loop is between two calls. The reconciling one runs only if there are
\* related pages; what it writes is up to it.
CanCall(c) ==
    /\ call[c] = <<>>
    /\ IF c = Reconciler THEN stage = "reconcile" /\ Exists # {} ELSE loop[c] = "running"
    /\ calls < MaxCalls

\* wiki_write up to UpsertPage, which replaces the whole row: id is the page's
\* as the loop spelled it.
WikiWrite(c, p, id, body, ips, es) ==
    /\ CanCall(c)
    /\ calls' = calls + 1
    /\ id = Misspelt => faults < MaxFaults
    /\ faults' = IF id = Misspelt THEN faults + 1 ELSE faults
    /\ Valid(p, es)
    /\ page' = [page EXCEPT ![p] = body]
    /\ dirty' = dirty \cup {p}
    /\ call' = [call EXCEPT ![c] = CallPlan(p, id, ips, es)]
    /\ UNCHANGED <<edges, pending, stage, loop, touched, work, jobs>>

\* The event of a call's end is the same for a call that returned an error.
Note(c, id) ==
    touched' = IF c = Reconciler THEN touched
                                 ELSE [touched EXCEPT ![c] = Append(@, id)]

\* wiki_write refuses its arguments, or fails before the page is stored.
Refuse(c, id) ==
    /\ CanCall(c)
    /\ calls' = calls + 1
    /\ Note(c, id)
    /\ UNCHANGED <<tables, stage, loop, call, work, jobs, faults>>

AddLink(c) ==
    /\ call[c] # <<>>
    /\ Head(call[c]).op = "link"
    /\ edges' = edges \cup Head(call[c]).edges
    /\ call' = [call EXCEPT ![c] = Tail(@)]
    /\ UNCHANGED <<page, pending, dirty, stage, loop, touched, work, bounds>>

EndCall(c) ==
    /\ call[c] # <<>>
    /\ Head(call[c]).op = "return"
    /\ Note(c, Head(call[c]).id)
    /\ call' = [call EXCEPT ![c] = <<>>]
    /\ UNCHANGED <<tables, stage, loop, work, bounds>>

\* A store error ends the call, what is written stays. The end of the call is
\* the last of its operations.
CallFails(c) ==
    /\ call[c] # <<>>
    /\ Head(call[c]).op = "link"
    /\ faults < MaxFaults
    /\ faults' = faults + 1
    /\ call' = [call EXCEPT ![c] = <<@[Len(@)]>>]
    /\ UNCHANGED <<tables, stage, loop, touched, work, jobs, calls>>

\* The loop ends well, and backfillEventTime begins if there is a time to give.
EndLoop(u) ==
    /\ loop[u] = "running"
    /\ call[u] = <<>>
    /\ loop' = [loop EXCEPT ![u] = "filling"]
    /\ call' = [call EXCEPT ![u] = IF u \in Timed THEN Fills(touched[u]) ELSE <<>>]
    /\ UNCHANGED <<tables, stage, touched, work, bounds>>

\* The loop ends with an error or at its deadline: its ids are dropped.
LoopFails(u) ==
    /\ loop[u] = "running"
    /\ call[u] = <<>>
    /\ faults < MaxFaults
    /\ faults' = faults + 1
    /\ loop' = [loop EXCEPT ![u] = "failed"]
    /\ touched' = [touched EXCEPT ![u] = <<>>]
    /\ UNCHANGED <<tables, stage, call, work, jobs, calls>>

\* GetPage of the backfill: a page without event time is to be written back.
ReadPage(u) ==
    /\ call[u] # <<>>
    /\ Head(call[u]).op = "fill"
    /\ LET id == Head(call[u]).id IN
        call' = [call EXCEPT ![u] =
                    IF id \in Exists /\ ~page[id].dated
                      THEN <<WriteBack(id, page[id])>> \o Tail(@)
                      ELSE Tail(@)]
    /\ UNCHANGED <<tables, stage, loop, touched, work, bounds>>

\* UpsertPage of the backfill: the row as it was read, with the event time.
WritePageBack(u) ==
    /\ call[u] # <<>>
    /\ Head(call[u]).op = "writeback"
    /\ page' = [page EXCEPT ![Head(call[u]).id] = [Head(call[u]).body EXCEPT !.dated = TRUE]]
    /\ dirty' = dirty \cup {Head(call[u]).id}
    /\ call' = [call EXCEPT ![u] = Tail(@)]
    /\ UNCHANGED <<edges, pending, stage, loop, touched, work, bounds>>

\* The error of that UpsertPage is ignored.
WriteBackFails(u) ==
    /\ call[u] # <<>>
    /\ Head(call[u]).op = "writeback"
    /\ faults < MaxFaults
    /\ faults' = faults + 1
    /\ call' = [call EXCEPT ![u] = Tail(@)]
    /\ UNCHANGED <<tables, stage, loop, touched, work, jobs, calls>>

LoopDone(u) ==
    /\ loop[u] = "filling"
    /\ call[u] = <<>>
    /\ loop' = [loop EXCEPT ![u] = "done"]
    /\ UNCHANGED <<tables, stage, call, touched, work, bounds>>

\* Faulty variant: what was touched is kept for the next job.
MutantEndJob ==
    /\ stage' = "idle"
    /\ loop' = [u \in Units |-> "out"]
    /\ call' = [c \in Loops |-> <<>>]
    /\ work' = NoWork
    /\ UNCHANGED touched

\* ProcessSession returns.
EndJob ==
    /\ stage' = "idle"
    /\ loop' = [u \in Units |-> "out"]
    /\ call' = [c \in Loops |-> <<>>]
    /\ touched' = [u \in Units |-> <<>>]
    /\ work' = NoWork

\* wg.Wait is over. With an error of any unit ProcessSession gives up;
\* otherwise RebuildEdges reads the pages and their targets.
CompileReturns ==
    /\ stage = "compile"
    /\ \A u \in Units : loop[u] \in {"out", "done", "failed"}
    /\ IF \E u \in Units : loop[u] = "failed"
         THEN EndJob
         ELSE /\ stage' = "rebuild"
              /\ work' = WorkFor(Touched)
              /\ UNCHANGED <<loop, call, touched>>
    /\ UNCHANGED <<tables, bounds>>

\* For each page: DeleteEdgesFor, then DeletePendingLinksFor.
DeleteEdgesFor(p) ==
    /\ p \in work.unlink
    /\ work.unpend = work.unlink
    /\ edges' = edges \ OutEdges(p)
    /\ dirty' = dirty \cup {p}
    /\ work' = [work EXCEPT !.unlink = @ \ {p}]
    /\ UNCHANGED <<page, pending, stage, loop, call, touched, bounds>>

DeletePendingLinksFor(p) ==
    /\ p \in work.unpend \ work.unlink
    /\ pending' = {l \in pending : l[1] # p}
    /\ work' = [work EXCEPT !.unpend = @ \ {p}]
    /\ UNCHANGED <<page, edges, dirty, stage, loop, call, touched, bounds>>

\* AddEdgePairs: all reference edges in one transaction.
AddReferences ==
    /\ work.unpend = {}
    /\ work.add # {}
    /\ edges' = edges \cup work.add
    /\ work' = [work EXCEPT !.add = {}]
    /\ UNCHANGED <<page, pending, dirty, stage, loop, call, touched, bounds>>

\* RecordPendingLinks and ClearPendingLinks: one statement per link.
RecordPending(l) ==
    /\ work.unpend = {} /\ work.add = {}
    /\ l \in work.dead
    /\ pending' = pending \cup {l}
    /\ work' = [work EXCEPT !.dead = @ \ {l}]
    /\ UNCHANGED <<page, edges, dirty, stage, loop, call, touched, bounds>>

ClearPending(l) ==
    /\ work.unpend = {} /\ work.add = {} /\ work.dead = {}
    /\ l \in work.clear
    /\ pending' = pending \ {l}
    /\ work' = [work EXCEPT !.clear = @ \ {l}]
    /\ UNCHANGED <<page, edges, dirty, stage, loop, call, touched, bounds>>

RebuildReturns ==
    /\ stage = "rebuild"
    /\ work = NoWork
    /\ stage' = "reconcile"
    /\ dirty' = dirty \ Touched
    /\ UNCHANGED <<page, edges, pending, loop, call, touched, work, bounds>>

\* The reconciling loop is through, if there was anything to reconcile.
ReconcileReturns ==
    /\ stage = "reconcile"
    /\ call[Reconciler] = <<>>
    /\ EndJob
    /\ UNCHANGED <<tables, bounds>>

\* An error of RebuildEdges or ReconcileRelated, or the process exits.
BreakOff ==
    /\ stage # "idle"
    /\ faults < MaxFaults
    /\ faults' = faults + 1
    /\ EndJob
    /\ UNCHANGED <<tables, jobs, calls>>

-----------------------------------------------------------------------------
\* The arguments of a call: at most one driving point and one edge (sequel, and
\* has_page between pages, would be two more kinds like related).
Args(S) == {<<>>} \cup {<<x>> : x \in S}
EdgeArgs == Args(Pages \X (Kinds \ {"has_page"}))

LoopStep(c) ==
    \/ /\ CanCall(c)
       /\ \E p \in Pages, ips \in Args(Points), es \in EdgeArgs, body \in Bodies :
            \E id \in {p, Misspelt} : WikiWrite(c, p, id, body, ips, es)
    \/ \E id \in Pages : Refuse(c, id)
    \/ AddLink(c) \/ EndCall(c) \/ CallFails(c)

UnitStep(u) ==
    \/ StartLoop(u) \/ LoopStep(u) \/ EndLoop(u) \/ LoopFails(u)
    \/ ReadPage(u) \/ WritePageBack(u) \/ WriteBackFails(u) \/ LoopDone(u)

Rebuild ==
    \/ \E p \in Pages : DeleteEdgesFor(p) \/ DeletePendingLinksFor(p)
    \/ AddReferences
    \/ \E l \in Pages \X Pages : RecordPending(l) \/ ClearPending(l)
    \/ RebuildReturns

Next ==
    \/ \E U \in SUBSET Units : BeginCompile(U)
    \/ \E u \in Units : UnitStep(u)
    \/ CompileReturns
    \/ Rebuild
    \/ LoopStep(Reconciler)
    \/ ReconcileReturns
    \/ BreakOff

Spec == Init /\ [][Next]_vars

-----------------------------------------------------------------------------
(***************************************************************************)
(* Properties                                                              *)
(***************************************************************************)

\* The tables and the memory of a job hold what they are meant to hold, and
\* nothing of a job outlives it.
TypeOK ==
    /\ page \in [Pages -> Bodies \cup {NoPage}]
    /\ edges \subseteq (Points \cup Pages) \X Pages \X Kinds
    /\ pending \subseteq Pages \X Pages
    /\ dirty \subseteq Exists
    /\ stage \in {"idle", "compile", "rebuild", "reconcile"}
    /\ loop \in [Units -> {"out", "waiting", "running", "filling", "done", "failed"}]
    /\ \A c \in Loops : \A o \in Values(call[c]) : IsOp(o)
    /\ \A u \in Units : Values(touched[u]) \subseteq Ids
    /\ stage = "idle" => work = NoWork /\ \A u \in Units : touched[u] = <<>>
    /\ jobs \in 0..MaxJobs /\ calls \in 0..MaxCalls /\ faults \in 0..MaxFaults

Referenced(p, q) == <<p, q, "references">> \in edges
Waiting(p, q) == <<p, q>> \in pending

\* "dead links are visible instead of silently dropped" (PendingLink): once a
\* rebuild has seen the body of a page, and whatever breaks off or is created
\* later, each of its links is either a reference edge or pending, never both,
\* and neither table holds a link that is no longer in the body.
CleanPagesAccounted ==
    \A p \in Exists \ dirty : \A q \in Pages :
        /\ Referenced(p, q) \/ Waiting(p, q) <=> q \in page[p].links \ {p}
        /\ ~(Referenced(p, q) /\ Waiting(p, q))

\* Wherever a call or a rebuild breaks off, an edge leads to a page that exists,
\* and comes from one if it comes from a page.
NoDanglingEdges ==
    \A e \in edges : e[2] \in Exists /\ e[1] \in Exists \cup Points

\* The rebuild is incremental: edges of pages that this job has not touched, and
\* the has_page edges of points, stay.
OnlyTouchedLoseEdges ==
    [][\A e \in edges \ edges' : stage = "rebuild" /\ e[1] \in Touched]_vars

\* Between jobs a contradiction is there in both directions, "enforcing the
\* EnsureContradictPair invariant" (AddEdgePair, edges.go:29-31). WikiContradicts.cfg finds it
\* violated: DeleteEdgesFor takes the edges that start from a touched page, of every
\* kind, and leaves the reverse one, which starts from the other page.
ContradictsBothWays ==
    stage = "idle" => \A e \in edges : e[3] = "contradicts" => <<e[2], e[1], e[3]>> \in edges

\* While nothing has failed and all units know a time, every page the loops wrote
\* has an event time when Compile is through, although loops that write the same
\* page put it back and forth.
CompileDatesPages ==
    faults = 0 /\ Timed = Units /\ stage = "rebuild" => \A p \in Touched : page[p].dated
=============================================================================
