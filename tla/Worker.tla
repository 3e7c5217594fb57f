------------------------------- MODULE Worker -------------------------------
(***************************************************************************)
(* The ingest path of the service: the HTTP requests that save a session   *)
(* transcript and enqueue a job for it, the per-agent queues and their     *)
(* goroutines, the in-memory job table, shutdown and restart.              *)
(*                                                                         *)
(* Source: src/internal/worker/worker.go, the /sessions, /fork and         *)
(* /jobs/{id} handlers of src/internal/httpapi/server.go, the transcript   *)
(* statements of src/internal/store/interest_pages.go and the shutdown     *)
(* sequence of src/cmd/server/main.go.                                     *)
(*                                                                         *)
(* Every request that reaches the worker creates exactly one job, so a     *)
(* job's id also names the request (an HTTP goroutine) that carries it and *)
(* the agent goroutine it may spawn.                                       *)
(***************************************************************************)
EXTENDS Naturals, Sequences, FiniteSets

CONSTANTS
    Agents,       \* namespaces
    Sessions,     \* session ids
    Jobs,         \* job ids; each is drawn once by newJobID
    NoKey,        \* the target of a request that has not arrived
    QueueCap,     \* capacity of an agent's channel (64 in the code)
    MaxJobs,      \* size the job table is pruned to (1000 in the code)
    MaxRestarts   \* bound: process exits explored

ASSUME WorkerAssumption ==
    /\ NoKey \notin Agents \X Sessions
    /\ QueueCap \in Nat \ {0}
    /\ MaxJobs \in Nat \ {0}
    /\ MaxRestarts \in Nat

VARIABLES
    received,   \* database: received_at of a transcript, 0 when it has no row
    marked,     \* database: processed_at is set
    learned,    \* ghost: received_at of the newest text a finished pipeline read
    saves,      \* transcripts saved so far, the clock of received_at
    finishes,   \* jobs finished so far, the clock of DoneAt
    pc,         \* where each request is
    target,     \* the <<agent, session>> a request is about
    pushed,     \* ghost: the received_at the request wrote, 0 for /fork
    status,     \* job table: a job's status, "none" when it is not in the table
    doneAt,     \* job table: DoneAt, 0 when nil
    chan,       \* queues: has the agent a channel, is it closed
    queue,      \* the channel's buffer
    parked,     \* the channel's blocked senders, first come first served
    rpc,        \* where each agent goroutine is, named after the job that spawned it
    rjob,       \* the job it processes
    loaded,     \* received_at of the transcript it read
    closing,    \* how far Close has come
    restarts

clocks == <<saves, finishes>>
dbVars == <<received, marked, learned>>
reqVars == <<pc, target, pushed>>
tableVars == <<status, doneAt>>
chanVars == <<chan, queue, parked>>
runVars == <<rpc, rjob, loaded>>
procVars == <<closing, restarts>>
vars == <<dbVars, clocks, reqVars, tableVars, chanVars, runVars, procVars>>

Keys == Agents \X Sessions
Terminal == {"done", "failed"}
Statuses == {"none", "queued", "running"} \cup Terminal
RequestPC == {"idle", "saved", "inserted", "sending", "parked", "sent",
              "dropped", "panicked", "gone"}
RunnerPC == {"none", "idle", "start", "load", "process", "mark",
             "reportDone", "reportFailed", "exited"}

AgentOf(j) == target[j][1]

-----------------------------------------------------------------------------
(***************************************************************************)
(* Faulty variants of the definitions below, one per property: each is what *)
(* a plausible slip in the code would make of the definition it is named    *)
(* after, and the property must notice.                                     *)
(***************************************************************************)

\* The queue of an agent has no capacity.
MutantSend(j) ==
    /\ pc[j] = "sending"
    /\ chan[target[j][1]] = "open"
    /\ queue' = [queue EXCEPT ![target[j][1]] = Append(@, j)]
    /\ pc' = [pc EXCEPT ![j] = "sent"]
    /\ UNCHANGED <<dbVars, clocks, target, pushed, tableVars, chan, parked,
                   runVars, procVars>>

\* EnqueueItem sends while it holds w.mu.
MutantLockFree == closing # "closing" /\ \A j \in Jobs : pc[j] # "parked"

\* The upsert ignores a conflicting row.
MutantSaveTranscript(k) ==
    /\ received' = [received EXCEPT ![k] = IF @ = 0 THEN saves + 1 ELSE @]
    /\ UNCHANGED marked

\* Any job may be pruned.
MutantPrunable(j) == status[j] # "none"

\* The newest terminal job goes first.
MutantOlder(i, j) == doneAt[i] > doneAt[j]

\* Every item gets a goroutine of its own.
MutantNeedsRunner(a) == chan[a] \in {"none", "open"}

\* The newest item goes first, and a blocked sender is never let in.
MutantReceive(g) ==
    LET a == AgentOf(g) IN
    /\ rpc[g] = "idle"
    /\ queue[a] # <<>>
    /\ rpc' = [rpc EXCEPT ![g] = "start"]
    /\ rjob' = [rjob EXCEPT ![g] = queue[a][Len(queue[a])]]
    /\ queue' = [queue EXCEPT ![a] = SubSeq(@, 1, Len(@) - 1)]
    /\ UNCHANGED <<dbVars, clocks, reqVars, tableVars, chan, parked, loaded,
                   procVars>>

\* A failed pipeline still marks the transcript.
MutantProcessSession(g, ok) ==
    LET k == target[rjob[g]] IN
    /\ rpc[g] = "process"
    /\ rpc' = [rpc EXCEPT ![g] = "mark"]
    /\ learned' = IF ok /\ loaded[g] > learned[k]
                    THEN [learned EXCEPT ![k] = loaded[g]] ELSE learned
    /\ UNCHANGED <<received, marked, clocks, reqVars, tableVars, chanVars, rjob,
                   loaded, procVars>>

\* The queues are closed before done.
MutantBeginClose ==
    /\ closing = "no"
    /\ closing' = "closing"
    /\ UNCHANGED <<dbVars, clocks, reqVars, tableVars, chanVars, runVars, restarts>>

\* Close returns before it has closed every queue.
MutantCloseReturn ==
    /\ closing = "closing"
    /\ closing' = "closed"
    /\ UNCHANGED <<dbVars, clocks, reqVars, tableVars, chanVars, runVars, restarts>>

-----------------------------------------------------------------------------
\* w.mu: Close is the one holder that takes several steps; every other
\* critical section is one action.
LockFree == closing # "closing"

InTable == {j \in Jobs : status[j] # "none"}

TypeOK ==
    /\ received \in [Keys -> Nat]
    /\ marked \in [Keys -> BOOLEAN]
    /\ learned \in [Keys -> Nat]
    /\ saves \in Nat
    /\ finishes \in Nat
    /\ pc \in [Jobs -> RequestPC]
    /\ target \in [Jobs -> Keys \cup {NoKey}]
    /\ pushed \in [Jobs -> Nat]
    /\ status \in [Jobs -> Statuses]
    /\ doneAt \in [Jobs -> Nat]
    /\ chan \in [Agents -> {"none", "open", "closed"}]
    /\ queue \in [Agents -> Seq(Jobs)]
    /\ parked \in [Agents -> Seq(Jobs)]
    /\ \A a \in Agents : Len(queue[a]) <= QueueCap
    /\ rpc \in [Jobs -> RunnerPC]
    /\ rjob \in [Jobs -> Jobs]
    /\ loaded \in [Jobs -> Nat]
    /\ closing \in {"no", "closing", "closed"}
    /\ restarts \in 0..MaxRestarts

(***************************************************************************)
(* What New builds in memory and an exit of the process loses: the table t *)
(* with its completion times d, the channels c with their buffers q and    *)
(* senders p, the goroutines r with their jobs b and transcripts l.        *)
(***************************************************************************)
Fresh(t, d, c, q, p, r, b, l) ==
    /\ t = [j \in Jobs |-> "none"]
    /\ d = [j \in Jobs |-> 0]
    /\ c = [a \in Agents |-> "none"]
    /\ q = [a \in Agents |-> <<>>]
    /\ p = [a \in Agents |-> <<>>]
    /\ r = [j \in Jobs |-> "none"]
    /\ b = [j \in Jobs |-> j]
    /\ l = [j \in Jobs |-> 0]

Init ==
    /\ received = [k \in Keys |-> 0]
    /\ marked = [k \in Keys |-> FALSE]
    /\ learned = [k \in Keys |-> 0]
    /\ saves = 0
    /\ finishes = 0
    /\ pc = [j \in Jobs |-> "idle"]
    /\ target = [j \in Jobs |-> NoKey]
    /\ pushed = [j \in Jobs |-> 0]
    /\ Fresh(status, doneAt, chan, queue, parked, rpc, rjob, loaded)
    /\ closing = "no"
    /\ restarts = 0

-----------------------------------------------------------------------------
(***************************************************************************)
(* Requests                                                                *)
(***************************************************************************)

\* The upsert: a conflicting row gets the new text and received_at and keeps
\* its processed_at.
SaveTranscript(k) ==
    /\ received' = [received EXCEPT ![k] = saves + 1]
    /\ UNCHANGED marked

\* POST /sessions: the transcript is saved before the worker hears of it.
HandleSessions(j, k) ==
    /\ pc[j] = "idle"
    /\ SaveTranscript(k)
    /\ saves' = saves + 1
    /\ pc' = [pc EXCEPT ![j] = "saved"]
    /\ target' = [target EXCEPT ![j] = k]
    /\ pushed' = [pushed EXCEPT ![j] = saves + 1]
    /\ UNCHANGED <<learned, finishes, tableVars, chanVars, runVars, procVars>>

Unprocessed(a) == {k \in Keys : k[1] = a /\ received[k] > 0 /\ ~marked[k]}

\* POST /fork: ForkManual reads the oldest unprocessed transcript of the agent.
HandleFork(j, k) ==
    /\ pc[j] = "idle"
    /\ k \in Unprocessed(k[1])
    /\ \A u \in Unprocessed(k[1]) : received[k] <= received[u]
    /\ pc' = [pc EXCEPT ![j] = "saved"]
    /\ target' = [target EXCEPT ![j] = k]
    /\ UNCHANGED <<dbVars, clocks, pushed, tableVars, chanVars, runVars, procVars>>

Prunable(j) == status[j] \in Terminal /\ doneAt[j] # 0

Older(i, j) == doneAt[i] < doneAt[j]

\* How many jobs pruneLocked must delete once the table has n of them.
Excess(n) == IF n > MaxJobs THEN n - MaxJobs ELSE 0

\* pruneLocked: the jobs deleted are the oldest terminal ones, as many as the
\* excess or as there are.
PruneSet(E) ==
    LET terms == {t \in Jobs : Prunable(t)}
        excess == Excess(Cardinality(InTable) + 1)
    IN  /\ E \subseteq terms
        /\ \A e \in E, t \in terms \ E : ~Older(t, e)
        /\ Cardinality(E) = IF excess < Cardinality(terms)
                              THEN excess ELSE Cardinality(terms)

\* Enqueue, its critical section: insert the job, prune.
Enqueue(j) ==
    /\ pc[j] = "saved"
    /\ LockFree
    /\ \E E \in SUBSET Jobs :
        /\ PruneSet(E)
        /\ status' = [i \in Jobs |-> IF i = j THEN "queued"
                                     ELSE IF i \in E THEN "none" ELSE status[i]]
        /\ doneAt' = [i \in Jobs |-> IF i \in E THEN 0 ELSE doneAt[i]]
    /\ pc' = [pc EXCEPT ![j] = "inserted"]
    /\ UNCHANGED <<dbVars, clocks, target, pushed, chanVars, runVars, procVars>>

NeedsRunner(a) == chan[a] = "none"

\* enqueueItem, its critical section: nothing once closed, otherwise find or
\* make the agent's channel and goroutine.
EnqueueItem(j) ==
    /\ pc[j] = "inserted"
    /\ LockFree
    /\ IF closing # "no"
         THEN /\ pc' = [pc EXCEPT ![j] = "dropped"]
              /\ UNCHANGED <<chan, rpc>>
         ELSE /\ pc' = [pc EXCEPT ![j] = "sending"]
              /\ chan' = [chan EXCEPT ![AgentOf(j)] = "open"]
              /\ rpc' = IF NeedsRunner(AgentOf(j))
                          THEN [rpc EXCEPT ![j] = "idle"] ELSE rpc
    /\ UNCHANGED <<dbVars, clocks, target, pushed, tableVars, queue, parked,
                   rjob, loaded, procVars>>

\* The select of enqueueItem, outside the lock. With both cases ready Go takes
\* either; a send on a closed channel is ready and panics (net/http recovers
\* the handler, the item is lost).
Send(j) ==
    /\ pc[j] = "sending"
    /\ chan[AgentOf(j)] = "open"
    /\ Len(queue[AgentOf(j)]) < QueueCap
    /\ queue' = [queue EXCEPT ![AgentOf(j)] = Append(@, j)]
    /\ pc' = [pc EXCEPT ![j] = "sent"]
    /\ UNCHANGED <<dbVars, clocks, target, pushed, tableVars, chan, parked,
                   runVars, procVars>>

Park(j) ==
    /\ pc[j] = "sending"
    /\ closing = "no"
    /\ Len(queue[AgentOf(j)]) = QueueCap
    /\ parked' = [parked EXCEPT ![AgentOf(j)] = Append(@, j)]
    /\ pc' = [pc EXCEPT ![j] = "parked"]
    /\ UNCHANGED <<dbVars, clocks, target, pushed, tableVars, chan, queue,
                   runVars, procVars>>

DropOnDone(j) ==
    /\ pc[j] = "sending"
    /\ closing # "no"
    /\ pc' = [pc EXCEPT ![j] = "dropped"]
    /\ UNCHANGED <<dbVars, clocks, target, pushed, tableVars, chanVars, runVars,
                   procVars>>

PanicOnClosed(j) ==
    /\ pc[j] = "sending"
    /\ chan[AgentOf(j)] = "closed"
    /\ pc' = [pc EXCEPT ![j] = "panicked"]
    /\ UNCHANGED <<dbVars, clocks, target, pushed, tableVars, chanVars, runVars,
                   procVars>>

-----------------------------------------------------------------------------
(***************************************************************************)
(* The agent goroutines                                                    *)
(***************************************************************************)

\* range ch: take the oldest item; the first blocked sender's item moves into
\* the space this leaves. A closed channel still yields what it holds.
Receive(g) ==
    LET a == AgentOf(g)
        first == Head(queue[a])
        rest == Tail(queue[a])
    IN  /\ rpc[g] = "idle"
        /\ queue[a] # <<>>
        /\ rpc' = [rpc EXCEPT ![g] = "start"]
        /\ rjob' = [rjob EXCEPT ![g] = first]
        /\ IF parked[a] = <<>>
             THEN /\ queue' = [queue EXCEPT ![a] = rest]
                  /\ UNCHANGED <<pc, parked>>
             ELSE /\ queue' = [queue EXCEPT ![a] = Append(rest, Head(parked[a]))]
                  /\ parked' = [parked EXCEPT ![a] = Tail(@)]
                  /\ pc' = [pc EXCEPT ![Head(parked[a])] = "sent"]
        /\ UNCHANGED <<dbVars, clocks, target, pushed, tableVars, chan, loaded,
                       procVars>>

\* The loop ends when the channel is closed and drained.
RunnerExit(g) ==
    /\ rpc[g] = "idle"
    /\ queue[AgentOf(g)] = <<>>
    /\ chan[AgentOf(g)] = "closed"
    /\ rpc' = [rpc EXCEPT ![g] = "exited"]
    /\ UNCHANGED <<dbVars, clocks, reqVars, tableVars, chanVars, rjob, loaded,
                   procVars>>

\* setStatus: a job that is not in the table is left alone; only a terminal
\* status carries DoneAt.
SetStatus(j, s) ==
    IF status[j] = "none"
      THEN UNCHANGED <<status, doneAt, finishes>>
      ELSE /\ status' = [status EXCEPT ![j] = s]
           /\ doneAt' = [doneAt EXCEPT ![j] = IF s \in Terminal THEN finishes + 1 ELSE 0]
           /\ finishes' = IF s \in Terminal THEN finishes + 1 ELSE finishes

\* process: the job is marked running.
SetRunning(g) ==
    /\ rpc[g] = "start"
    /\ LockFree
    /\ SetStatus(rjob[g], "running")
    /\ rpc' = [rpc EXCEPT ![g] = "load"]
    /\ UNCHANGED <<dbVars, saves, reqVars, chanVars, rjob, loaded, procVars>>

\* process: read the transcript as it is now; an error or a missing row fails
\* the job.
GetTranscript(g, ok) ==
    /\ rpc[g] = "load"
    /\ ok => received[target[rjob[g]]] # 0
    /\ rpc' = [rpc EXCEPT ![g] = IF ok THEN "process" ELSE "reportFailed"]
    /\ loaded' = [loaded EXCEPT ![g] = IF ok THEN received[target[rjob[g]]] ELSE 0]
    /\ UNCHANGED <<dbVars, clocks, reqVars, tableVars, chanVars, rjob, procVars>>

\* process: the pipeline succeeds, or fails (the job timeout included) and the
\* transcript is left unprocessed.
ProcessSession(g, ok) ==
    LET k == target[rjob[g]] IN
    /\ rpc[g] = "process"
    /\ rpc' = [rpc EXCEPT ![g] = IF ok THEN "mark" ELSE "reportFailed"]
    /\ learned' = IF ok /\ loaded[g] > learned[k]
                    THEN [learned EXCEPT ![k] = loaded[g]] ELSE learned
    /\ UNCHANGED <<received, marked, clocks, reqVars, tableVars, chanVars, rjob,
                   loaded, procVars>>

\* process: record that the transcript has been processed; an error fails the
\* job after all.
MarkProcessed(g, ok) ==
    /\ rpc[g] = "mark"
    /\ marked' = IF ok THEN [marked EXCEPT ![target[rjob[g]]] = TRUE] ELSE marked
    /\ rpc' = [rpc EXCEPT ![g] = IF ok THEN "reportDone" ELSE "reportFailed"]
    /\ UNCHANGED <<received, learned, clocks, reqVars, tableVars, chanVars, rjob,
                   loaded, procVars>>

\* process: the last setStatus; the goroutine is back at its channel.
Report(g) ==
    /\ rpc[g] \in {"reportDone", "reportFailed"}
    /\ LockFree
    /\ SetStatus(rjob[g], IF rpc[g] = "reportDone" THEN "done" ELSE "failed")
    /\ rpc' = [rpc EXCEPT ![g] = "idle"]
    /\ rjob' = [rjob EXCEPT ![g] = g]
    /\ loaded' = [loaded EXCEPT ![g] = 0]
    /\ UNCHANGED <<dbVars, saves, reqVars, chanVars, procVars>>

-----------------------------------------------------------------------------
(***************************************************************************)
(* Shutdown and restart                                                    *)
(***************************************************************************)

\* Close takes the lock, sets closed and closes done, which wakes every parked
\* sender in its done case.
BeginClose ==
    /\ closing = "no"
    /\ closing' = "closing"
    /\ pc' = [j \in Jobs |-> IF pc[j] = "parked" THEN "dropped" ELSE pc[j]]
    /\ parked' = [a \in Agents |-> <<>>]
    /\ UNCHANGED <<dbVars, clocks, target, pushed, tableVars, chan, queue,
                   runVars, restarts>>

\* close(ch): a sender still parked on this channel would panic.
CloseQueue(a) ==
    /\ closing = "closing"
    /\ chan[a] = "open"
    /\ chan' = [chan EXCEPT ![a] = "closed"]
    /\ pc' = [j \in Jobs |-> IF pc[j] = "parked" /\ AgentOf(j) = a
                               THEN "panicked" ELSE pc[j]]
    /\ parked' = [parked EXCEPT ![a] = <<>>]
    /\ UNCHANGED <<dbVars, clocks, target, pushed, tableVars, queue, runVars,
                   procVars>>

CloseReturn ==
    /\ closing = "closing"
    /\ \A a \in Agents : chan[a] # "open"
    /\ closing' = "closed"
    /\ UNCHANGED <<dbVars, clocks, reqVars, tableVars, chanVars, runVars, restarts>>

\* The process ends, because main returned after Close or because it was
\* killed, and starts again: requests, jobs, queues and goroutines are gone, the
\* transcripts stay. Nothing is enqueued on start.
Restart ==
    /\ restarts < MaxRestarts
    /\ restarts' = restarts + 1
    /\ pc' = [j \in Jobs |-> IF pc[j] = "idle" THEN "idle" ELSE "gone"]
    /\ Fresh(status', doneAt', chan', queue', parked', rpc', rjob', loaded')
    /\ closing' = "no"
    /\ UNCHANGED <<dbVars, clocks, target, pushed>>

-----------------------------------------------------------------------------
Arrive(j) == \E k \in Keys : HandleSessions(j, k) \/ HandleFork(j, k)

Sender(j) ==
    \/ Enqueue(j) \/ EnqueueItem(j)
    \/ Send(j) \/ Park(j) \/ DropOnDone(j) \/ PanicOnClosed(j)

Runner(g) ==
    \/ Receive(g) \/ RunnerExit(g) \/ SetRunning(g) \/ Report(g)
    \/ \E ok \in BOOLEAN :
        GetTranscript(g, ok) \/ ProcessSession(g, ok) \/ MarkProcessed(g, ok)

FinishClose == (\E a \in Agents : CloseQueue(a)) \/ CloseReturn

Next ==
    \/ \E j \in Jobs : Arrive(j) \/ Sender(j) \/ Runner(j)
    \/ BeginClose \/ FinishClose \/ Restart

Spec == Init /\ [][Next]_vars

\* The Go scheduler runs every goroutine that can run, and ProcessSession ends
\* because its context has a deadline. Nobody has to send a request, to stop
\* the process or to start it again.
Fairness ==
    /\ \A j \in Jobs : WF_vars(Sender(j)) /\ WF_vars(Runner(j))
    /\ WF_vars(FinishClose)

FairSpec == Spec /\ Fairness
-----------------------------------------------------------------------------
(***************************************************************************)
(* Properties                                                              *)
(***************************************************************************)

Busy(g) == rpc[g] \notin {"none", "idle", "exited"}

\* Somebody is going to run the job: its request is on the way to the channel,
\* it waits there, or a goroutine has it.
Held(j) ==
    \/ pc[j] \in {"inserted", "sending", "parked"}
    \/ \E a \in Agents : \E i \in 1..Len(queue[a]) : queue[a][i] = j
    \/ \E g \in Jobs : Busy(g) /\ rjob[g] = j

\* Pushes of one agent are processed one at a time, whichever requests race to
\* create the agent's goroutine (Worker: "cannot interleave").
SerialPerAgent ==
    \A g, h \in Jobs : Busy(g) /\ Busy(h) /\ AgentOf(g) = AgentOf(h) => g = h

\* The table and the queues agree: a job that somebody will still run is never
\* evicted nor shown as finished, and a job that was handed over and is shown as
\* queued or running is held by somebody (GET /jobs/{id} against pruneLocked).
JobTableMatchesQueues ==
    \A j \in Jobs :
        /\ Held(j) => status[j] \in {"queued", "running"}
        /\ pc[j] = "sent" /\ status[j] \in {"queued", "running"} => Held(j)

\* A job reported done has processed a text at least as new as the one its
\* request saved, and the transcript is marked, whatever other pushes of the
\* session came between.
DoneCoversPush ==
    \A j \in Jobs : status[j] = "done" =>
        /\ learned[target[j]] >= pushed[j]
        /\ marked[target[j]]

\* processed_at is set only for a session some version of which went through
\* the pipeline to the end, across failures and restarts.
MarkedMeansLearned ==
    \A k \in Keys : marked[k] => learned[k] > 0

\* A sender blocked on a full queue when Close runs unblocks instead of
\* panicking on the closed channel.
ParkedSendersSurviveClose ==
    [][\A j \in Jobs : pc[j] = "parked" => pc'[j] # "panicked"]_vars

\* Only a finished job leaves the table, the oldest first, and only when the
\* table is over its bound.
EvictsOldestTerminal ==
    [][\A e \in Jobs :
        status[e] # "none" /\ status'[e] = "none" /\ restarts' = restarts =>
            /\ status[e] \in Terminal
            /\ \A t \in Jobs : status'[t] \in Terminal => doneAt[e] <= doneAt'[t]
            /\ Cardinality(InTable') >= MaxJobs]_vars

\* Every accepted request comes to an end: its job finishes (and may then be
\* evicted), or the request is turned away by a shutdown. A full queue, the one
\* mutex and Close never leave it waiting for good.
JobsSettle ==
    \A j \in Jobs : pc[j] = "saved" ~>
        \/ pc[j] \in {"dropped", "panicked", "gone"}
        \/ status[j] \in Terminal
        \/ pc[j] = "sent" /\ status[j] = "none"

\* Close stops all agent goroutines, after the items they still hold.
CloseStopsRunners ==
    closing = "closing" ~>
        \/ closing = "no"
        \/ closing = "closed" /\ \A g \in Jobs : rpc[g] \in {"none", "exited"}

(***************************************************************************)
(* The worker implements the job service.                                  *)
(***************************************************************************)
ServiceState(j) ==
    IF pc[j] = "gone" THEN "gone"
    ELSE IF \E g \in Jobs : Busy(g) /\ rjob[g] = j THEN "running"
    ELSE IF status[j] # "none" THEN status[j]
    ELSE IF pc[j] \in {"idle", "saved"} THEN "none" ELSE "gone"

Service == INSTANCE JobService WITH
    state <- [j \in Jobs |-> ServiceState(j)],
    line <- [a \in Agents |-> queue[a] \o parked[a]],
    processed <- {k \in Keys : marked[k]}

\* Per agent first come first served and one at a time, a job done only after
\* its session is marked, no job lost while it waits or runs: the promise of
\* JobService, kept through full queues, evictions, shutdown and restart.
ImplementsJobService == Service!Spec

\* What a comment and two tests of the repository say and the code does not do:
\* "Keep transcript unprocessed so a retry can pick it up" (worker.go): after
\* a failed job the transcript whose text was not processed is unprocessed.
FailedPushStaysUnprocessed ==
    \A j \in Jobs :
        status[j] = "failed" /\ learned[target[j]] < pushed[j] => ~marked[target[j]]
=============================================================================
