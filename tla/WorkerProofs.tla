---------------------------- MODULE WorkerProofs ----------------------------
(***************************************************************************)
(* Theorems about Worker for every set of agents, sessions and jobs, every *)
(* channel capacity and every table bound.                                 *)
(*                                                                         *)
(* Inv is the inductive invariant for what a push becomes: an agent has    *)
(* one goroutine, and what is stored, learned, marked and reported goes in *)
(* that order. Placed says on top of it where each job is, and is what the *)
(* job table, Close and the refinement of JobService rest on.              *)
(***************************************************************************)
EXTENDS Worker, FiniteSetTheorems, SequenceTheorems, TLAPS

USE WorkerAssumption DEF AgentOf, LockFree, dbVars, clocks, reqVars, tableVars,
    chanVars, runVars, procVars

\* Whatever the worker handles belongs to a request that has arrived, so its
\* target is a session and no later request changes it.
AllArrived(s, p) == \A i \in 1..Len(s) : p[s[i]] # "idle"

ServedArrived ==
    /\ \A j \in Jobs : pc[j] # "idle" => target[j] \in Keys
    /\ \A j \in Jobs : pc[j] = "idle" => rpc[j] = "none" /\ status[j] = "none"
    /\ \A g \in Jobs : Busy(g) => pc[rjob[g]] # "idle"

WaitingArrived ==
    \A a \in Agents : AllArrived(queue[a], pc) /\ AllArrived(parked[a], pc)

Arrived == ServedArrived /\ WaitingArrived

\* A goroutine exists only beside a channel of its agent, and an agent has one:
\* the two are made together, under the lock.
OneRunner ==
    /\ \A g \in Jobs : rpc[g] # "none" => chan[AgentOf(g)] # "none"
    /\ \A g, h \in Jobs :
        rpc[g] # "none" /\ rpc[h] # "none" /\ AgentOf(g) = AgentOf(h) => g = h

\* How a push travels: from the saved row to what the goroutine read, to what
\* the pipeline learned, to the processed mark and the job's status.
RowFlow ==
    /\ \A k \in Keys : learned[k] <= received[k] /\ received[k] <= saves
    /\ \A k \in Keys : marked[k] => learned[k] > 0
    /\ \A j \in Jobs : pc[j] = "idle" => pushed[j] = 0
    /\ \A j \in Jobs : pc[j] # "idle" => pushed[j] <= received[target[j]]

RunnerFlow(g) ==
    /\ rpc[g] \in {"process", "mark"} =>
        /\ 0 < loaded[g]
        /\ pushed[rjob[g]] <= loaded[g]
        /\ loaded[g] <= received[target[rjob[g]]]
    /\ rpc[g] = "mark" => loaded[g] <= learned[target[rjob[g]]]
    /\ rpc[g] = "reportDone" =>
        /\ pushed[rjob[g]] <= learned[target[rjob[g]]]
        /\ marked[target[rjob[g]]]

DoneFlow(j) ==
    status[j] = "done" => pushed[j] <= learned[target[j]] /\ marked[target[j]]

Flow ==
    /\ RowFlow
    /\ \A g \in Jobs : RunnerFlow(g)
    /\ \A j \in Jobs : DoneFlow(j)

\* What no step changes of a request that has arrived.
Unmoved ==
    \A j \in Jobs : pc[j] # "idle" =>
        pc'[j] # "idle" /\ target'[j] = target[j] /\ pushed'[j] = pushed[j]

Inv == TypeOK /\ Arrived /\ OneRunner /\ Flow

\* The agent of a request that has arrived is an agent.
LEMMA AgentType ==
  ASSUME TypeOK, Arrived, NEW j \in Jobs, pc[j] # "idle"
  PROVE  AgentOf(j) \in Agents /\ target[j] \in Keys
  BY DEF TypeOK, Arrived, ServedArrived, Keys

\* So is the agent of a goroutine and of the job it has.
LEMMA RunnerType ==
  ASSUME TypeOK, Arrived, NEW g \in Jobs, rpc[g] # "none"
  PROVE  /\ AgentOf(g) \in Agents
         /\ Busy(g) => rjob[g] \in Jobs /\ target[rjob[g]] \in Keys
  BY DEF TypeOK, Arrived, ServedArrived, Keys, Busy

\* setStatus writes a status and a time, whatever job it is given.
LEMMA SetStatusType ==
  ASSUME TypeOK, NEW j \in Jobs, NEW s \in Statuses, SetStatus(j, s)
  PROVE  status' \in [Jobs -> Statuses] /\ doneAt' \in [Jobs -> Nat] /\ finishes' \in Nat
  <1>1. CASE status[j] = "none"
    BY <1>1 DEF SetStatus, TypeOK
  <1>2. CASE status[j] # "none"
    <2>1. /\ status' = [status EXCEPT ![j] = s]
          /\ doneAt' = [doneAt EXCEPT ![j] = IF s \in Terminal THEN finishes + 1 ELSE 0]
          /\ finishes' = IF s \in Terminal THEN finishes + 1 ELSE finishes
      BY <1>2 DEF SetStatus
    <2> QED
      BY <2>1 DEF TypeOK
  <1> QED
    BY <1>1, <1>2

\* Every step keeps the variables in their types and every channel within its
\* capacity (worker.go: make(chan jobItem, 64)).
LEMMA TypeStep == TypeOK /\ Arrived /\ [Next]_vars => TypeOK'
  <1> SUFFICES ASSUME TypeOK /\ Arrived, [Next]_vars PROVE TypeOK'
    OBVIOUS
  <1>1. ASSUME NEW j \in Jobs, NEW k \in Keys, HandleSessions(j, k) PROVE TypeOK'
    BY <1>1 DEF HandleSessions, SaveTranscript, TypeOK, RequestPC, RunnerPC, Statuses, Terminal
  <1>2. ASSUME NEW j \in Jobs, NEW k \in Keys, HandleFork(j, k) PROVE TypeOK'
    BY <1>2 DEF HandleFork, TypeOK, RequestPC, RunnerPC, Statuses, Terminal
  <1>3. ASSUME NEW j \in Jobs, Enqueue(j) PROVE TypeOK'
    BY <1>3 DEF Enqueue, TypeOK, RequestPC, RunnerPC, Statuses, Terminal
  <1>4. ASSUME NEW j \in Jobs, EnqueueItem(j) PROVE TypeOK'
    BY <1>4 DEF EnqueueItem, TypeOK, RequestPC, RunnerPC, Statuses, Terminal
  <1>5. ASSUME NEW j \in Jobs, Send(j) PROVE TypeOK'
    <2>1. AgentOf(j) \in Agents
      BY <1>5, AgentType DEF Send
    <2>2. queue' \in [Agents -> Seq(Jobs)]
      BY <1>5, <2>1 DEF Send, TypeOK
    <2>3. \A a \in Agents : Len(queue'[a]) <= QueueCap
      BY <1>5, <2>1 DEF Send, TypeOK
    <2> QED
      BY <1>5, <2>2, <2>3 DEF Send, TypeOK, RequestPC, RunnerPC, Statuses, Terminal
  <1>6. ASSUME NEW j \in Jobs, Park(j) PROVE TypeOK'
    <2>1. AgentOf(j) \in Agents
      BY <1>6, AgentType DEF Park
    <2>2. parked' \in [Agents -> Seq(Jobs)]
      BY <1>6, <2>1 DEF Park, TypeOK
    <2> QED
      BY <1>6, <2>2 DEF Park, TypeOK, RequestPC, RunnerPC, Statuses, Terminal
  <1>7. ASSUME NEW j \in Jobs, DropOnDone(j) PROVE TypeOK'
    BY <1>7 DEF DropOnDone, TypeOK, RequestPC, RunnerPC, Statuses, Terminal
  <1>8. ASSUME NEW j \in Jobs, PanicOnClosed(j) PROVE TypeOK'
    BY <1>8 DEF PanicOnClosed, TypeOK, RequestPC, RunnerPC, Statuses, Terminal
  <1>9. ASSUME NEW g \in Jobs, Receive(g) PROVE TypeOK'
    <2> DEFINE a == AgentOf(g)
    <2>1. a \in Agents
      BY <1>9, RunnerType DEF Receive
    <2>2. queue[a] \in Seq(Jobs) /\ queue[a] # <<>> /\ parked[a] \in Seq(Jobs)
      BY <1>9, <2>1 DEF Receive, TypeOK
    <2>3. /\ Head(queue[a]) \in Jobs
          /\ Tail(queue[a]) \in Seq(Jobs)
          /\ Len(Tail(queue[a])) = Len(queue[a]) - 1
          /\ Len(queue[a]) \in Nat /\ Len(queue[a]) <= QueueCap
      BY <2>1, <2>2 DEF TypeOK
    <2>4. rpc' \in [Jobs -> RunnerPC] /\ rjob' \in [Jobs -> Jobs]
      BY <1>9, <2>3 DEF Receive, TypeOK, RunnerPC
    <2>5. CASE parked[a] = <<>>
      <3>0. queue' = [queue EXCEPT ![a] = Tail(queue[a])] /\ pc' = pc /\ parked' = parked
        BY <1>9, <2>5 DEF Receive
      <3>1. queue' \in [Agents -> Seq(Jobs)] /\ \A b \in Agents : Len(queue'[b]) <= QueueCap
        BY <2>1, <2>3, <3>0 DEF TypeOK
      <3> QED
        BY <1>9, <2>4, <3>0, <3>1 DEF Receive, TypeOK
    <2>6. CASE parked[a] # <<>>
      <3>1. Head(parked[a]) \in Jobs /\ Tail(parked[a]) \in Seq(Jobs)
        BY <2>2, <2>6
      <3>2. /\ queue' = [queue EXCEPT ![a] = Append(Tail(queue[a]), Head(parked[a]))]
            /\ parked' = [parked EXCEPT ![a] = Tail(parked[a])]
            /\ pc' = [pc EXCEPT ![Head(parked[a])] = "sent"]
        BY <1>9, <2>6 DEF Receive
      <3>3. /\ Append(Tail(queue[a]), Head(parked[a])) \in Seq(Jobs)
            /\ Len(Append(Tail(queue[a]), Head(parked[a]))) = Len(queue[a])
        BY <2>3, <3>1
      <3>4. queue' \in [Agents -> Seq(Jobs)] /\ \A b \in Agents : Len(queue'[b]) <= QueueCap
        BY <2>1, <2>3, <3>2, <3>3 DEF TypeOK
      <3>5. parked' \in [Agents -> Seq(Jobs)] /\ pc' \in [Jobs -> RequestPC]
        BY <2>1, <3>1, <3>2 DEF TypeOK, RequestPC
      <3> QED
        BY <1>9, <2>4, <3>4, <3>5 DEF Receive, TypeOK
    <2> QED
      BY <2>5, <2>6
  <1>10. ASSUME NEW g \in Jobs, RunnerExit(g) PROVE TypeOK'
    BY <1>10 DEF RunnerExit, TypeOK, RequestPC, RunnerPC, Statuses, Terminal
  <1>11. ASSUME NEW g \in Jobs, SetRunning(g) PROVE TypeOK'
    <2>1. rjob[g] \in Jobs /\ rpc' \in [Jobs -> RunnerPC]
      BY <1>11 DEF SetRunning, TypeOK, RunnerPC
    <2>2. status' \in [Jobs -> Statuses] /\ doneAt' \in [Jobs -> Nat] /\ finishes' \in Nat
      BY <1>11, <2>1, SetStatusType DEF SetRunning, Statuses
    <2> QED
      BY <1>11, <2>1, <2>2 DEF SetRunning, TypeOK
  <1>12. ASSUME NEW g \in Jobs, Report(g) PROVE TypeOK'
    <2>1. rjob[g] \in Jobs /\ rpc' \in [Jobs -> RunnerPC] /\ rjob' \in [Jobs -> Jobs]
          /\ loaded' \in [Jobs -> Nat]
      BY <1>12 DEF Report, TypeOK, RunnerPC
    <2>2. PICK s \in Statuses : SetStatus(rjob[g], s)
      BY <1>12 DEF Report, Statuses, Terminal
    <2>3. status' \in [Jobs -> Statuses] /\ doneAt' \in [Jobs -> Nat] /\ finishes' \in Nat
      BY <2>1, <2>2, SetStatusType
    <2> QED
      BY <1>12, <2>1, <2>3 DEF Report, TypeOK
  <1>13. ASSUME NEW g \in Jobs, NEW ok \in BOOLEAN, GetTranscript(g, ok) PROVE TypeOK'
    <2>1. Busy(g)
      BY <1>13 DEF GetTranscript, Busy
    <2>2. received[target[rjob[g]]] \in Nat
      BY <1>13, <2>1, RunnerType DEF GetTranscript, TypeOK
    <2> QED
      BY <1>13, <2>2 DEF GetTranscript, TypeOK, RequestPC, RunnerPC, Statuses, Terminal
  <1>14. ASSUME NEW g \in Jobs, NEW ok \in BOOLEAN, ProcessSession(g, ok) PROVE TypeOK'
    BY <1>14 DEF ProcessSession, TypeOK, RequestPC, RunnerPC, Statuses, Terminal
  <1>15. ASSUME NEW g \in Jobs, NEW ok \in BOOLEAN, MarkProcessed(g, ok) PROVE TypeOK'
    BY <1>15 DEF MarkProcessed, TypeOK, RequestPC, RunnerPC, Statuses, Terminal
  <1>16. CASE BeginClose
    BY <1>16 DEF BeginClose, TypeOK, RequestPC, RunnerPC, Statuses, Terminal
  <1>17. ASSUME NEW a \in Agents, CloseQueue(a) PROVE TypeOK'
    BY <1>17 DEF CloseQueue, TypeOK, RequestPC, RunnerPC, Statuses, Terminal
  <1>18. CASE CloseReturn
    BY <1>18 DEF CloseReturn, TypeOK, RequestPC, RunnerPC, Statuses, Terminal
  <1>19. CASE Restart
    BY <1>19 DEF Restart, Fresh, TypeOK, RequestPC, RunnerPC, Statuses, Terminal
  <1>20. CASE UNCHANGED vars
    BY <1>20 DEF vars, TypeOK, RequestPC, RunnerPC, Statuses, Terminal
  <1>21. QED
    BY <1>1, <1>2, <1>3, <1>4, <1>5, <1>6, <1>7, <1>8, <1>9, <1>10,
       <1>11, <1>12, <1>13, <1>14, <1>15, <1>16, <1>17, <1>18, <1>19, <1>20
       DEF Next, Arrive, Sender, Runner, FinishClose

\* A request that has arrived keeps its target, its push, and never becomes a
\* request that has not arrived.
LEMMA UnmovedStep == TypeOK /\ Arrived /\ [Next]_vars => Unmoved
  <1> SUFFICES ASSUME TypeOK /\ Arrived, [Next]_vars PROVE Unmoved
    OBVIOUS
  <1>1. ASSUME NEW j \in Jobs, NEW k \in Keys, HandleSessions(j, k) PROVE Unmoved
    BY <1>1 DEF HandleSessions, SaveTranscript, Unmoved, TypeOK, RequestPC
  <1>2. ASSUME NEW j \in Jobs, NEW k \in Keys, HandleFork(j, k) PROVE Unmoved
    BY <1>2 DEF HandleFork, Unmoved, TypeOK, RequestPC
  <1>3. ASSUME NEW j \in Jobs, Enqueue(j) PROVE Unmoved
    BY <1>3 DEF Enqueue, Unmoved, TypeOK, RequestPC
  <1>4. ASSUME NEW j \in Jobs, EnqueueItem(j) PROVE Unmoved
    BY <1>4 DEF EnqueueItem, Unmoved, TypeOK, RequestPC
  <1>5. ASSUME NEW j \in Jobs, Send(j) PROVE Unmoved
    BY <1>5 DEF Send, Unmoved, TypeOK, RequestPC
  <1>6. ASSUME NEW j \in Jobs, Park(j) PROVE Unmoved
    BY <1>6 DEF Park, Unmoved, TypeOK, RequestPC
  <1>7. ASSUME NEW j \in Jobs, DropOnDone(j) PROVE Unmoved
    BY <1>7 DEF DropOnDone, Unmoved, TypeOK, RequestPC
  <1>8. ASSUME NEW j \in Jobs, PanicOnClosed(j) PROVE Unmoved
    BY <1>8 DEF PanicOnClosed, Unmoved, TypeOK, RequestPC
  <1>9. ASSUME NEW g \in Jobs, Receive(g) PROVE Unmoved
    <2>1. AgentOf(g) \in Agents
      BY <1>9, RunnerType DEF Receive
    <2> QED
      BY <1>9, <2>1 DEF Receive, Unmoved, TypeOK, RequestPC
  <1>10. ASSUME NEW g \in Jobs, RunnerExit(g) PROVE Unmoved
    BY <1>10 DEF RunnerExit, Unmoved, TypeOK, RequestPC
  <1>11. ASSUME NEW g \in Jobs, SetRunning(g) PROVE Unmoved
    BY <1>11 DEF SetRunning, SetStatus, Unmoved, TypeOK, RequestPC
  <1>12. ASSUME NEW g \in Jobs, Report(g) PROVE Unmoved
    BY <1>12 DEF Report, SetStatus, Unmoved, TypeOK, RequestPC
  <1>13. ASSUME NEW g \in Jobs, NEW ok \in BOOLEAN, GetTranscript(g, ok) PROVE Unmoved
    BY <1>13 DEF GetTranscript, Unmoved, TypeOK, RequestPC
  <1>14. ASSUME NEW g \in Jobs, NEW ok \in BOOLEAN, ProcessSession(g, ok) PROVE Unmoved
    BY <1>14 DEF ProcessSession, Unmoved, TypeOK, RequestPC
  <1>15. ASSUME NEW g \in Jobs, NEW ok \in BOOLEAN, MarkProcessed(g, ok) PROVE Unmoved
    BY <1>15 DEF MarkProcessed, Unmoved, TypeOK, RequestPC
  <1>16. CASE BeginClose
    BY <1>16 DEF BeginClose, Unmoved, TypeOK, RequestPC
  <1>17. ASSUME NEW a \in Agents, CloseQueue(a) PROVE Unmoved
    BY <1>17 DEF CloseQueue, Unmoved, TypeOK, RequestPC
  <1>18. CASE CloseReturn
    BY <1>18 DEF CloseReturn, Unmoved, TypeOK, RequestPC
  <1>19. CASE Restart
    BY <1>19 DEF Restart, Fresh, Unmoved, TypeOK, RequestPC
  <1>20. CASE UNCHANGED vars
    BY <1>20 DEF vars, Unmoved, TypeOK, RequestPC
  <1>21. QED
    BY <1>1, <1>2, <1>3, <1>4, <1>5, <1>6, <1>7, <1>8, <1>9, <1>10,
       <1>11, <1>12, <1>13, <1>14, <1>15, <1>16, <1>17, <1>18, <1>19, <1>20
       DEF Next, Arrive, Sender, Runner, FinishClose

\* Requests that have arrived stay arrived, so a queue that is not touched goes
\* on holding only such requests; so does one that loses its head or gains one
\* more of them.
LEMMA AllArrivedKept ==
  ASSUME TypeOK, Unmoved, NEW s \in Seq(Jobs), AllArrived(s, pc)
  PROVE  AllArrived(s, pc')
  BY DEF TypeOK, Unmoved, AllArrived

LEMMA AllArrivedAppend ==
  ASSUME NEW s \in Seq(Jobs), AllArrived(s, pc'), NEW j \in Jobs, pc'[j] # "idle"
  PROVE  AllArrived(Append(s, j), pc')
  BY DEF AllArrived

LEMMA AllArrivedTail ==
  ASSUME NEW s \in Seq(Jobs), s # <<>>, AllArrived(s, pc')
  PROVE  /\ AllArrived(Tail(s), pc')
         /\ pc'[Head(s)] # "idle"
  BY DEF AllArrived

LEMMA WaitingKept ==
  ASSUME TypeOK, Unmoved, WaitingArrived, NEW a \in Agents
  PROVE  /\ queue[a] \in Seq(Jobs) /\ AllArrived(queue[a], pc')
         /\ parked[a] \in Seq(Jobs) /\ AllArrived(parked[a], pc')
  <1>1. queue[a] \in Seq(Jobs) /\ parked[a] \in Seq(Jobs)
    BY DEF TypeOK
  <1> QED
    BY <1>1, AllArrivedKept DEF WaitingArrived


\* Whatever waits in a channel or before it goes on belonging to requests that
\* have arrived.
LEMMA WaitingStep == TypeOK /\ Arrived /\ [Next]_vars => WaitingArrived'
  <1> SUFFICES ASSUME TypeOK /\ Arrived, [Next]_vars PROVE WaitingArrived'
    OBVIOUS
  <1>0. TypeOK /\ Unmoved /\ WaitingArrived
    BY UnmovedStep DEF Arrived
  <1>1. ASSUME NEW j \in Jobs, NEW k \in Keys, HandleSessions(j, k) PROVE WaitingArrived'
    <2>1. queue' = queue /\ parked' = parked
      BY <1>1 DEF HandleSessions, SaveTranscript
    <2> QED
      BY <1>0, <2>1, WaitingKept DEF WaitingArrived
  <1>2. ASSUME NEW j \in Jobs, NEW k \in Keys, HandleFork(j, k) PROVE WaitingArrived'
    <2>1. queue' = queue /\ parked' = parked
      BY <1>2 DEF HandleFork
    <2> QED
      BY <1>0, <2>1, WaitingKept DEF WaitingArrived
  <1>3. ASSUME NEW j \in Jobs, Enqueue(j) PROVE WaitingArrived'
    <2>1. queue' = queue /\ parked' = parked
      BY <1>3 DEF Enqueue
    <2> QED
      BY <1>0, <2>1, WaitingKept DEF WaitingArrived
  <1>4. ASSUME NEW j \in Jobs, EnqueueItem(j) PROVE WaitingArrived'
    <2>1. queue' = queue /\ parked' = parked
      BY <1>4 DEF EnqueueItem
    <2> QED
      BY <1>0, <2>1, WaitingKept DEF WaitingArrived
  <1>5. ASSUME NEW j \in Jobs, Send(j) PROVE WaitingArrived'
    <2> DEFINE a == AgentOf(j)
    <2>1. /\ a \in Agents /\ pc'[j] # "idle"
          /\ queue' = [queue EXCEPT ![a] = Append(queue[a], j)] /\ parked' = parked
      BY <1>5, AgentType DEF Send, TypeOK
    <2>2. AllArrived(Append(queue[a], j), pc')
      BY <1>0, <2>1, WaitingKept, AllArrivedAppend DEF Arrived
    <2>3. ASSUME NEW b \in Agents PROVE queue'[b] = queue[b] \/ queue'[b] = Append(queue[a], j)
      BY <2>1 DEF TypeOK
    <2> QED
      BY <1>0, <2>1, <2>2, <2>3, WaitingKept DEF Arrived, WaitingArrived
  <1>6. ASSUME NEW j \in Jobs, Park(j) PROVE WaitingArrived'
    <2> DEFINE a == AgentOf(j)
    <2>1. /\ a \in Agents /\ pc'[j] # "idle"
          /\ parked' = [parked EXCEPT ![a] = Append(parked[a], j)] /\ queue' = queue
      BY <1>6, AgentType DEF Park, TypeOK
    <2>2. AllArrived(Append(parked[a], j), pc')
      BY <1>0, <2>1, WaitingKept, AllArrivedAppend DEF Arrived
    <2>3. ASSUME NEW b \in Agents PROVE parked'[b] = parked[b] \/ parked'[b] = Append(parked[a], j)
      BY <2>1 DEF TypeOK
    <2> QED
      BY <1>0, <2>1, <2>2, <2>3, WaitingKept DEF Arrived, WaitingArrived
  <1>7. ASSUME NEW j \in Jobs, DropOnDone(j) PROVE WaitingArrived'
    <2>1. queue' = queue /\ parked' = parked
      BY <1>7 DEF DropOnDone
    <2> QED
      BY <1>0, <2>1, WaitingKept DEF WaitingArrived
  <1>8. ASSUME NEW j \in Jobs, PanicOnClosed(j) PROVE WaitingArrived'
    <2>1. queue' = queue /\ parked' = parked
      BY <1>8 DEF PanicOnClosed
    <2> QED
      BY <1>0, <2>1, WaitingKept DEF WaitingArrived
  <1>9. ASSUME NEW g \in Jobs, Receive(g) PROVE WaitingArrived'
    <2> DEFINE a == AgentOf(g)
    <2>1. a \in Agents /\ queue[a] # <<>>
      BY <1>9, RunnerType DEF Receive
    <2>2. /\ queue[a] \in Seq(Jobs) /\ AllArrived(queue[a], pc')
          /\ parked[a] \in Seq(Jobs) /\ AllArrived(parked[a], pc')
      BY <1>0, <2>1, WaitingKept DEF Arrived
    <2>3. AllArrived(Tail(queue[a]), pc') /\ Tail(queue[a]) \in Seq(Jobs)
      BY <2>1, <2>2, AllArrivedTail
    <2>4. CASE parked[a] = <<>>
      <3>1. queue' = [queue EXCEPT ![a] = Tail(queue[a])] /\ parked' = parked
        BY <1>9, <2>4 DEF Receive
      <3>2. ASSUME NEW b \in Agents PROVE queue'[b] = queue[b] \/ queue'[b] = Tail(queue[a])
        BY <3>1 DEF TypeOK
      <3> QED
        BY <1>0, <2>3, <3>1, <3>2, WaitingKept DEF Arrived, WaitingArrived
    <2>5. CASE parked[a] # <<>>
      <3> DEFINE h == Head(parked[a])
                 q == Append(Tail(queue[a]), h)
      <3>1. queue' = [queue EXCEPT ![a] = q] /\ parked' = [parked EXCEPT ![a] = Tail(parked[a])]
        BY <1>9, <2>5 DEF Receive
      <3>2. AllArrived(Tail(parked[a]), pc') /\ pc'[h] # "idle" /\ h \in Jobs
        BY <2>2, <2>5, AllArrivedTail
      <3>3. AllArrived(q, pc')
        BY <2>3, <3>2, AllArrivedAppend
      <3>4. ASSUME NEW b \in Agents
            PROVE  /\ queue'[b] = queue[b] \/ queue'[b] = q
                   /\ parked'[b] = parked[b] \/ parked'[b] = Tail(parked[a])
        BY <3>1 DEF TypeOK
      <3> HIDE DEF q
      <3> QED
        BY <1>0, <3>2, <3>3, <3>4, WaitingKept DEF Arrived, WaitingArrived
    <2> QED
      BY <2>4, <2>5
  <1>10. ASSUME NEW g \in Jobs, RunnerExit(g) PROVE WaitingArrived'
    <2>1. queue' = queue /\ parked' = parked
      BY <1>10 DEF RunnerExit
    <2> QED
      BY <1>0, <2>1, WaitingKept DEF WaitingArrived
  <1>11. ASSUME NEW g \in Jobs, SetRunning(g) PROVE WaitingArrived'
    <2>1. queue' = queue /\ parked' = parked
      BY <1>11 DEF SetRunning, SetStatus
    <2> QED
      BY <1>0, <2>1, WaitingKept DEF WaitingArrived
  <1>12. ASSUME NEW g \in Jobs, Report(g) PROVE WaitingArrived'
    <2>1. queue' = queue /\ parked' = parked
      BY <1>12 DEF Report, SetStatus
    <2> QED
      BY <1>0, <2>1, WaitingKept DEF WaitingArrived
  <1>13. ASSUME NEW g \in Jobs, NEW ok \in BOOLEAN, GetTranscript(g, ok) PROVE WaitingArrived'
    <2>1. queue' = queue /\ parked' = parked
      BY <1>13 DEF GetTranscript
    <2> QED
      BY <1>0, <2>1, WaitingKept DEF WaitingArrived
  <1>14. ASSUME NEW g \in Jobs, NEW ok \in BOOLEAN, ProcessSession(g, ok) PROVE WaitingArrived'
    <2>1. queue' = queue /\ parked' = parked
      BY <1>14 DEF ProcessSession
    <2> QED
      BY <1>0, <2>1, WaitingKept DEF WaitingArrived
  <1>15. ASSUME NEW g \in Jobs, NEW ok \in BOOLEAN, MarkProcessed(g, ok) PROVE WaitingArrived'
    <2>1. queue' = queue /\ parked' = parked
      BY <1>15 DEF MarkProcessed
    <2> QED
      BY <1>0, <2>1, WaitingKept DEF WaitingArrived
  <1>16. CASE BeginClose
    <2>1. AllArrived(<<>>, pc')
      BY DEF AllArrived
    <2>2. ASSUME NEW b \in Agents
          PROVE  queue'[b] \in {queue[b], <<>>} /\ parked'[b] \in {parked[b], <<>>}
      BY <1>16 DEF BeginClose, TypeOK
    <2> QED
      BY <1>0, <2>1, <2>2, WaitingKept DEF Arrived, WaitingArrived
  <1>17. ASSUME NEW a \in Agents, CloseQueue(a) PROVE WaitingArrived'
    <2>1. AllArrived(<<>>, pc')
      BY DEF AllArrived
    <2>2. ASSUME NEW b \in Agents
          PROVE  queue'[b] \in {queue[b], <<>>} /\ parked'[b] \in {parked[b], <<>>}
      BY <1>17 DEF CloseQueue, TypeOK
    <2> QED
      BY <1>0, <2>1, <2>2, WaitingKept DEF Arrived, WaitingArrived
  <1>18. CASE CloseReturn
    <2>1. queue' = queue /\ parked' = parked
      BY <1>18 DEF CloseReturn
    <2> QED
      BY <1>0, <2>1, WaitingKept DEF WaitingArrived
  <1>19. CASE Restart
    <2>1. AllArrived(<<>>, pc')
      BY DEF AllArrived
    <2>2. ASSUME NEW b \in Agents
          PROVE  queue'[b] \in {queue[b], <<>>} /\ parked'[b] \in {parked[b], <<>>}
      BY <1>19 DEF Restart, Fresh, TypeOK
    <2> QED
      BY <1>0, <2>1, <2>2, WaitingKept DEF Arrived, WaitingArrived
  <1>20. CASE UNCHANGED vars
    <2>1. queue' = queue /\ parked' = parked
      BY <1>20 DEF vars
    <2> QED
      BY <1>0, <2>1, WaitingKept DEF WaitingArrived
  <1>21. QED
    BY <1>1, <1>2, <1>3, <1>4, <1>5, <1>6, <1>7, <1>8, <1>9, <1>10,
       <1>11, <1>12, <1>13, <1>14, <1>15, <1>16, <1>17, <1>18, <1>19, <1>20
       DEF Next, Arrive, Sender, Runner, FinishClose

\* A receive lets in a sender that had arrived, and nobody else moves.
LEMMA ReceiveArrivals ==
  ASSUME TypeOK, Arrived, NEW g \in Jobs, Receive(g)
  PROVE  \A j \in Jobs : pc'[j] # "idle" <=> pc[j] # "idle"
  <1> DEFINE a == AgentOf(g)
  <1>1. a \in Agents
    BY RunnerType DEF Receive
  <1>2. CASE parked[a] = <<>>
    BY <1>2 DEF Receive
  <1>3. CASE parked[a] # <<>>
    <2>1. pc' = [pc EXCEPT ![Head(parked[a])] = "sent"]
      BY <1>3 DEF Receive
    <2>2. parked[a] \in Seq(Jobs) /\ AllArrived(parked[a], pc)
      BY <1>1 DEF TypeOK, Arrived, WaitingArrived
    <2>3. Head(parked[a]) \in Jobs /\ pc[Head(parked[a])] # "idle"
      BY <1>3, <2>2 DEF AllArrived
    <2> QED
      BY <2>1, <2>3 DEF TypeOK
  <1> QED
    BY <1>2, <1>3

\* Whatever a goroutine has goes on belonging to a request that has arrived.
LEMMA ServedStep == TypeOK /\ Arrived /\ [Next]_vars => ServedArrived'
  <1> SUFFICES ASSUME TypeOK /\ Arrived, [Next]_vars PROVE ServedArrived'
    OBVIOUS
  <1>1. ASSUME NEW j \in Jobs, NEW k \in Keys, HandleSessions(j, k) PROVE ServedArrived'
    BY <1>1 DEF HandleSessions, SaveTranscript, Arrived, ServedArrived, TypeOK, Busy
  <1>2. ASSUME NEW j \in Jobs, NEW k \in Keys, HandleFork(j, k) PROVE ServedArrived'
    BY <1>2 DEF HandleFork, Arrived, ServedArrived, TypeOK, Busy
  <1>3. ASSUME NEW j \in Jobs, Enqueue(j) PROVE ServedArrived'
    BY <1>3 DEF Enqueue, Arrived, ServedArrived, TypeOK, Busy
  <1>4. ASSUME NEW j \in Jobs, EnqueueItem(j) PROVE ServedArrived'
    <2>1. /\ pc[j] = "inserted" /\ pc' \in {[pc EXCEPT ![j] = "dropped"], [pc EXCEPT ![j] = "sending"]}
          /\ rpc' \in {rpc, [rpc EXCEPT ![j] = "idle"]}
          /\ UNCHANGED <<target, status, rjob>>
      BY <1>4 DEF EnqueueItem
    <2> QED
      BY <2>1 DEF Arrived, ServedArrived, TypeOK, Busy
  <1>5. ASSUME NEW j \in Jobs, Send(j) PROVE ServedArrived'
    BY <1>5 DEF Send, Arrived, ServedArrived, TypeOK, Busy
  <1>6. ASSUME NEW j \in Jobs, Park(j) PROVE ServedArrived'
    BY <1>6 DEF Park, Arrived, ServedArrived, TypeOK, Busy
  <1>7. ASSUME NEW j \in Jobs, DropOnDone(j) PROVE ServedArrived'
    BY <1>7 DEF DropOnDone, Arrived, ServedArrived, TypeOK, Busy
  <1>8. ASSUME NEW j \in Jobs, PanicOnClosed(j) PROVE ServedArrived'
    BY <1>8 DEF PanicOnClosed, Arrived, ServedArrived, TypeOK, Busy
  <1>9. ASSUME NEW g \in Jobs, Receive(g) PROVE ServedArrived'
    <2>1. /\ AgentOf(g) \in Agents /\ rpc[g] # "none"
          /\ queue[AgentOf(g)] \in Seq(Jobs) /\ queue[AgentOf(g)] # <<>>
          /\ AllArrived(queue[AgentOf(g)], pc)
      BY <1>9, RunnerType DEF Receive, TypeOK, Arrived, WaitingArrived
    <2>2. Head(queue[AgentOf(g)]) \in Jobs /\ pc[Head(queue[AgentOf(g)])] # "idle"
      BY <2>1 DEF AllArrived
    <2>4. /\ rpc' = [rpc EXCEPT ![g] = "start"] /\ rjob' = [rjob EXCEPT ![g] = Head(queue[AgentOf(g)])]
          /\ status' = status /\ target' = target
      BY <1>9 DEF Receive
    <2>5. \A j \in Jobs : pc'[j] # "idle" <=> pc[j] # "idle"
      BY <1>9, ReceiveArrivals
    <2> QED
      BY <2>1, <2>2, <2>4, <2>5 DEF Arrived, ServedArrived, TypeOK, Busy
  <1>10. ASSUME NEW g \in Jobs, RunnerExit(g) PROVE ServedArrived'
    BY <1>10 DEF RunnerExit, Arrived, ServedArrived, TypeOK, Busy
  <1>11. ASSUME NEW g \in Jobs, SetRunning(g) PROVE ServedArrived'
    BY <1>11 DEF SetRunning, SetStatus, Arrived, ServedArrived, TypeOK, Busy
  <1>12. ASSUME NEW g \in Jobs, Report(g) PROVE ServedArrived'
    BY <1>12 DEF Report, SetStatus, Arrived, ServedArrived, TypeOK, Busy
  <1>13. ASSUME NEW g \in Jobs, NEW ok \in BOOLEAN, GetTranscript(g, ok) PROVE ServedArrived'
    BY <1>13 DEF GetTranscript, Arrived, ServedArrived, TypeOK, Busy
  <1>14. ASSUME NEW g \in Jobs, NEW ok \in BOOLEAN, ProcessSession(g, ok) PROVE ServedArrived'
    BY <1>14 DEF ProcessSession, Arrived, ServedArrived, TypeOK, Busy
  <1>15. ASSUME NEW g \in Jobs, NEW ok \in BOOLEAN, MarkProcessed(g, ok) PROVE ServedArrived'
    BY <1>15 DEF MarkProcessed, Arrived, ServedArrived, TypeOK, Busy
  <1>16. CASE BeginClose
    BY <1>16 DEF BeginClose, Arrived, ServedArrived, TypeOK, Busy
  <1>17. ASSUME NEW a \in Agents, CloseQueue(a) PROVE ServedArrived'
    BY <1>17 DEF CloseQueue, Arrived, ServedArrived, TypeOK, Busy
  <1>18. CASE CloseReturn
    BY <1>18 DEF CloseReturn, Arrived, ServedArrived, TypeOK, Busy
  <1>19. CASE Restart
    BY <1>19 DEF Restart, Fresh, Arrived, ServedArrived, TypeOK, Busy
  <1>20. CASE UNCHANGED vars
    BY <1>20 DEF vars, Arrived, ServedArrived, TypeOK, Busy
  <1>21. QED
    BY <1>1, <1>2, <1>3, <1>4, <1>5, <1>6, <1>7, <1>8, <1>9, <1>10,
       <1>11, <1>12, <1>13, <1>14, <1>15, <1>16, <1>17, <1>18, <1>19, <1>20
       DEF Next, Arrive, Sender, Runner, FinishClose

\* No goroutine appears and no channel disappears.
NoneSpawned ==
    /\ \A g \in Jobs : rpc'[g] # "none" => rpc[g] # "none"
    /\ \A a \in Agents : chan[a] # "none" => chan'[a] # "none"

LEMMA OneRunnerKept ==
  ASSUME TypeOK, Arrived, Unmoved, OneRunner, NoneSpawned
  PROVE  OneRunner'
  <1>1. ASSUME NEW g \in Jobs, rpc'[g] # "none"
        PROVE  rpc[g] # "none" /\ target'[g] = target[g] /\ AgentOf(g) \in Agents
    <2>1. rpc[g] # "none"
      BY <1>1 DEF NoneSpawned
    <2>2. pc[g] # "idle"
      BY <2>1 DEF Arrived, ServedArrived
    <2> QED
      BY <2>1, <2>2, AgentType DEF Unmoved
  <1> QED
    BY <1>1 DEF OneRunner, NoneSpawned


\* An agent never gets a second goroutine.
LEMMA OneRunnerStep == TypeOK /\ Arrived /\ OneRunner /\ [Next]_vars => OneRunner'
  <1> SUFFICES ASSUME TypeOK /\ Arrived /\ OneRunner, [Next]_vars PROVE OneRunner'
    OBVIOUS
  <1>0. TypeOK /\ Arrived /\ Unmoved /\ OneRunner
    BY UnmovedStep
  <1>1. ASSUME NEW j \in Jobs, NEW k \in Keys, HandleSessions(j, k) PROVE OneRunner'
    <2>1. NoneSpawned
      BY <1>1 DEF HandleSessions, SaveTranscript, NoneSpawned, TypeOK
    <2> QED
      BY <1>0, <2>1, OneRunnerKept
  <1>2. ASSUME NEW j \in Jobs, NEW k \in Keys, HandleFork(j, k) PROVE OneRunner'
    <2>1. NoneSpawned
      BY <1>2 DEF HandleFork, NoneSpawned, TypeOK
    <2> QED
      BY <1>0, <2>1, OneRunnerKept
  <1>3. ASSUME NEW j \in Jobs, Enqueue(j) PROVE OneRunner'
    <2>1. NoneSpawned
      BY <1>3 DEF Enqueue, NoneSpawned, TypeOK
    <2> QED
      BY <1>0, <2>1, OneRunnerKept
  <1>4. ASSUME NEW j \in Jobs, EnqueueItem(j) PROVE OneRunner'
    <2> DEFINE a == AgentOf(j)
    <2>1. pc[j] # "idle" /\ a \in Agents /\ target' = target
      BY <1>4, AgentType DEF EnqueueItem
    <2>2. CASE UNCHANGED <<chan, rpc>>
      <3>1. NoneSpawned
        BY <2>2 DEF NoneSpawned
      <3> QED
        BY <1>0, <3>1, OneRunnerKept
    <2>3. CASE /\ chan' = [chan EXCEPT ![a] = "open"]
               /\ rpc' = IF NeedsRunner(a) THEN [rpc EXCEPT ![j] = "idle"] ELSE rpc
      <3>1. CASE chan[a] # "none"
        <4>1. NoneSpawned
          BY <2>1, <2>3, <3>1 DEF NeedsRunner, NoneSpawned, TypeOK
        <4> QED
          BY <1>0, <4>1, OneRunnerKept
      <3>2. CASE chan[a] = "none"
        <4>1. \A g \in Jobs : rpc[g] # "none" => AgentOf(g) # a /\ AgentOf(g) \in Agents
          BY <3>2, RunnerType DEF OneRunner
        <4>2. rpc' = [rpc EXCEPT ![j] = "idle"]
          BY <2>3, <3>2 DEF NeedsRunner
        <4> QED
          BY <2>1, <2>3, <4>1, <4>2 DEF OneRunner, TypeOK
      <3> QED
        BY <3>1, <3>2
    <2> QED
      BY <1>4, <2>2, <2>3 DEF EnqueueItem
  <1>5. ASSUME NEW j \in Jobs, Send(j) PROVE OneRunner'
    <2>1. NoneSpawned
      BY <1>5 DEF Send, NoneSpawned, TypeOK
    <2> QED
      BY <1>0, <2>1, OneRunnerKept
  <1>6. ASSUME NEW j \in Jobs, Park(j) PROVE OneRunner'
    <2>1. NoneSpawned
      BY <1>6 DEF Park, NoneSpawned, TypeOK
    <2> QED
      BY <1>0, <2>1, OneRunnerKept
  <1>7. ASSUME NEW j \in Jobs, DropOnDone(j) PROVE OneRunner'
    <2>1. NoneSpawned
      BY <1>7 DEF DropOnDone, NoneSpawned, TypeOK
    <2> QED
      BY <1>0, <2>1, OneRunnerKept
  <1>8. ASSUME NEW j \in Jobs, PanicOnClosed(j) PROVE OneRunner'
    <2>1. NoneSpawned
      BY <1>8 DEF PanicOnClosed, NoneSpawned, TypeOK
    <2> QED
      BY <1>0, <2>1, OneRunnerKept
  <1>9. ASSUME NEW g \in Jobs, Receive(g) PROVE OneRunner'
    <2>1. NoneSpawned
      BY <1>9 DEF Receive, NoneSpawned, TypeOK
    <2> QED
      BY <1>0, <2>1, OneRunnerKept
  <1>10. ASSUME NEW g \in Jobs, RunnerExit(g) PROVE OneRunner'
    <2>1. NoneSpawned
      BY <1>10 DEF RunnerExit, NoneSpawned, TypeOK
    <2> QED
      BY <1>0, <2>1, OneRunnerKept
  <1>11. ASSUME NEW g \in Jobs, SetRunning(g) PROVE OneRunner'
    <2>1. NoneSpawned
      BY <1>11 DEF SetRunning, SetStatus, NoneSpawned, TypeOK
    <2> QED
      BY <1>0, <2>1, OneRunnerKept
  <1>12. ASSUME NEW g \in Jobs, Report(g) PROVE OneRunner'
    <2>1. NoneSpawned
      BY <1>12 DEF Report, SetStatus, NoneSpawned, TypeOK
    <2> QED
      BY <1>0, <2>1, OneRunnerKept
  <1>13. ASSUME NEW g \in Jobs, NEW ok \in BOOLEAN, GetTranscript(g, ok) PROVE OneRunner'
    <2>1. NoneSpawned
      BY <1>13 DEF GetTranscript, NoneSpawned, TypeOK
    <2> QED
      BY <1>0, <2>1, OneRunnerKept
  <1>14. ASSUME NEW g \in Jobs, NEW ok \in BOOLEAN, ProcessSession(g, ok) PROVE OneRunner'
    <2>1. NoneSpawned
      BY <1>14 DEF ProcessSession, NoneSpawned, TypeOK
    <2> QED
      BY <1>0, <2>1, OneRunnerKept
  <1>15. ASSUME NEW g \in Jobs, NEW ok \in BOOLEAN, MarkProcessed(g, ok) PROVE OneRunner'
    <2>1. NoneSpawned
      BY <1>15 DEF MarkProcessed, NoneSpawned, TypeOK
    <2> QED
      BY <1>0, <2>1, OneRunnerKept
  <1>16. CASE BeginClose
    <2>1. NoneSpawned
      BY <1>16 DEF BeginClose, NoneSpawned, TypeOK
    <2> QED
      BY <1>0, <2>1, OneRunnerKept
  <1>17. ASSUME NEW a \in Agents, CloseQueue(a) PROVE OneRunner'
    <2>1. NoneSpawned
      BY <1>17 DEF CloseQueue, NoneSpawned, TypeOK
    <2> QED
      BY <1>0, <2>1, OneRunnerKept
  <1>18. CASE CloseReturn
    <2>1. NoneSpawned
      BY <1>18 DEF CloseReturn, NoneSpawned, TypeOK
    <2> QED
      BY <1>0, <2>1, OneRunnerKept
  <1>19. CASE Restart
    BY <1>19 DEF Restart, Fresh, OneRunner
  <1>20. CASE UNCHANGED vars
    <2>1. NoneSpawned
      BY <1>20 DEF vars, NoneSpawned, TypeOK
    <2> QED
      BY <1>0, <2>1, OneRunnerKept
  <1>21. QED
    BY <1>1, <1>2, <1>3, <1>4, <1>5, <1>6, <1>7, <1>8, <1>9, <1>10,
       <1>11, <1>12, <1>13, <1>14, <1>15, <1>16, <1>17, <1>18, <1>19, <1>20
       DEF Next, Arrive, Sender, Runner, FinishClose

\* What is stored only grows.
Grows ==
    /\ saves <= saves'
    /\ \A k \in Keys : /\ received[k] <= received'[k]
                       /\ learned[k] <= learned'[k]
                       /\ marked[k] => marked'[k]

\* Rows are never dropped, unlearned or unmarked, restarts included.
LEMMA GrowsStep == TypeOK /\ Arrived /\ Flow /\ [Next]_vars => Grows
  <1> SUFFICES ASSUME TypeOK /\ Arrived /\ Flow, [Next]_vars PROVE Grows
    OBVIOUS
  <1>0. ASSUME UNCHANGED <<received, marked, learned, saves>> PROVE Grows
    BY <1>0 DEF Grows, TypeOK
  <1>1. ASSUME NEW j \in Jobs, NEW k \in Keys, HandleSessions(j, k) PROVE Grows
    BY <1>1 DEF HandleSessions, SaveTranscript, Grows, Flow, RowFlow, TypeOK
  <1>2. ASSUME NEW j \in Jobs, NEW k \in Keys, HandleFork(j, k) PROVE Grows
    BY <1>0, <1>2 DEF HandleFork, dbVars, clocks
  <1>3. ASSUME NEW j \in Jobs, Enqueue(j) PROVE Grows
    BY <1>0, <1>3 DEF Enqueue, dbVars, clocks
  <1>4. ASSUME NEW j \in Jobs, EnqueueItem(j) PROVE Grows
    BY <1>0, <1>4 DEF EnqueueItem, dbVars, clocks
  <1>5. ASSUME NEW j \in Jobs, Send(j) PROVE Grows
    BY <1>0, <1>5 DEF Send, dbVars, clocks
  <1>6. ASSUME NEW j \in Jobs, Park(j) PROVE Grows
    BY <1>0, <1>6 DEF Park, dbVars, clocks
  <1>7. ASSUME NEW j \in Jobs, DropOnDone(j) PROVE Grows
    BY <1>0, <1>7 DEF DropOnDone, dbVars, clocks
  <1>8. ASSUME NEW j \in Jobs, PanicOnClosed(j) PROVE Grows
    BY <1>0, <1>8 DEF PanicOnClosed, dbVars, clocks
  <1>9. ASSUME NEW g \in Jobs, Receive(g) PROVE Grows
    BY <1>0, <1>9 DEF Receive, dbVars, clocks
  <1>10. ASSUME NEW g \in Jobs, RunnerExit(g) PROVE Grows
    BY <1>0, <1>10 DEF RunnerExit, dbVars, clocks
  <1>11. ASSUME NEW g \in Jobs, SetRunning(g) PROVE Grows
    BY <1>0, <1>11 DEF SetRunning, SetStatus, dbVars, clocks
  <1>12. ASSUME NEW g \in Jobs, Report(g) PROVE Grows
    BY <1>0, <1>12 DEF Report, SetStatus, dbVars, clocks
  <1>13. ASSUME NEW g \in Jobs, NEW ok \in BOOLEAN, GetTranscript(g, ok) PROVE Grows
    BY <1>0, <1>13 DEF GetTranscript, dbVars, clocks
  <1>14. ASSUME NEW g \in Jobs, NEW ok \in BOOLEAN, ProcessSession(g, ok) PROVE Grows
    BY <1>14 DEF ProcessSession, Grows, TypeOK
  <1>15. ASSUME NEW g \in Jobs, NEW ok \in BOOLEAN, MarkProcessed(g, ok) PROVE Grows
    BY <1>15 DEF MarkProcessed, Grows, TypeOK
  <1>16. CASE BeginClose
    BY <1>0, <1>16 DEF BeginClose, dbVars, clocks
  <1>17. ASSUME NEW a \in Agents, CloseQueue(a) PROVE Grows
    BY <1>0, <1>17 DEF CloseQueue, dbVars, clocks
  <1>18. CASE CloseReturn
    BY <1>0, <1>18 DEF CloseReturn, dbVars, clocks
  <1>19. CASE Restart
    BY <1>0, <1>19 DEF Restart, Fresh, dbVars, clocks
  <1>20. CASE UNCHANGED vars
    BY <1>0, <1>20 DEF vars, dbVars, clocks
  <1>21. QED
    BY <1>1, <1>2, <1>3, <1>4, <1>5, <1>6, <1>7, <1>8, <1>9, <1>10,
       <1>11, <1>12, <1>13, <1>14, <1>15, <1>16, <1>17, <1>18, <1>19, <1>20
       DEF Next, Arrive, Sender, Runner, FinishClose

LEMMA RunnerFlowKept ==
  ASSUME TypeOK, TypeOK', Arrived, Unmoved, Grows, NEW g \in Jobs, RunnerFlow(g),
         rpc'[g] = rpc[g], rjob'[g] = rjob[g], loaded'[g] = loaded[g]
  PROVE  RunnerFlow(g)'
  <1>1. CASE Busy(g)
    <2>1. rjob[g] \in Jobs /\ target[rjob[g]] \in Keys
      BY <1>1, RunnerType DEF Busy
    <2>2. target'[rjob[g]] = target[rjob[g]] /\ pushed'[rjob[g]] = pushed[rjob[g]]
      BY <1>1, <2>1 DEF Arrived, ServedArrived, Unmoved
    <2> QED
      BY <2>1, <2>2 DEF RunnerFlow, Grows, TypeOK
  <1>2. CASE ~Busy(g)
    BY <1>2 DEF RunnerFlow, Busy
  <1> QED
    BY <1>1, <1>2

LEMMA DoneFlowKept ==
  ASSUME TypeOK, TypeOK', Arrived, Unmoved, Grows, NEW j \in Jobs, DoneFlow(j),
         status'[j] = "done" => status[j] = "done"
  PROVE  DoneFlow(j)'
  <1>1. CASE status[j] = "done"
    <2>1. pc[j] # "idle"
      BY <1>1 DEF Arrived, ServedArrived
    <2>2. target[j] \in Keys /\ target'[j] = target[j] /\ pushed'[j] = pushed[j]
      BY <2>1, AgentType DEF Unmoved
    <2> QED
      BY <1>1, <2>2 DEF DoneFlow, Grows, TypeOK
  <1>2. CASE status[j] # "done"
    BY <1>2 DEF DoneFlow
  <1> QED
    BY <1>1, <1>2

\* A row's text is learned only after it was received, and marked only after a
\* text of it was learned.
LEMMA RowFlowStep == TypeOK /\ Arrived /\ Flow /\ [Next]_vars => RowFlow'
  <1> SUFFICES ASSUME TypeOK /\ Arrived /\ Flow, [Next]_vars PROVE RowFlow'
    OBVIOUS
  <1>0. TypeOK /\ TypeOK' /\ Arrived /\ Unmoved /\ Grows /\ Flow
    BY TypeStep, UnmovedStep, GrowsStep
  <1>1. ASSUME NEW j \in Jobs, NEW k \in Keys, HandleSessions(j, k) PROVE RowFlow'
    BY <1>1 DEF HandleSessions, SaveTranscript, RowFlow, Flow, TypeOK
  <1>2. ASSUME NEW j \in Jobs, NEW k \in Keys, HandleFork(j, k) PROVE RowFlow'
    BY <1>2 DEF HandleFork, RowFlow, Flow, TypeOK
  <1>3. ASSUME NEW j \in Jobs, Enqueue(j) PROVE RowFlow'
    BY <1>3 DEF Enqueue, RowFlow, Flow, TypeOK
  <1>4. ASSUME NEW j \in Jobs, EnqueueItem(j) PROVE RowFlow'
    BY <1>4 DEF EnqueueItem, RowFlow, Flow, TypeOK
  <1>5. ASSUME NEW j \in Jobs, Send(j) PROVE RowFlow'
    BY <1>5 DEF Send, RowFlow, Flow, TypeOK
  <1>6. ASSUME NEW j \in Jobs, Park(j) PROVE RowFlow'
    BY <1>6 DEF Park, RowFlow, Flow, TypeOK
  <1>7. ASSUME NEW j \in Jobs, DropOnDone(j) PROVE RowFlow'
    BY <1>7 DEF DropOnDone, RowFlow, Flow, TypeOK
  <1>8. ASSUME NEW j \in Jobs, PanicOnClosed(j) PROVE RowFlow'
    BY <1>8 DEF PanicOnClosed, RowFlow, Flow, TypeOK
  <1>9. ASSUME NEW g \in Jobs, Receive(g) PROVE RowFlow'
    <2>1. /\ UNCHANGED <<learned, received, saves, marked, pushed, target>>
          /\ \A j \in Jobs : pc'[j] # "idle" <=> pc[j] # "idle"
      BY <1>9, ReceiveArrivals DEF Receive
    <2> QED
      BY <1>0, <2>1 DEF RowFlow, Flow, TypeOK
  <1>10. ASSUME NEW g \in Jobs, RunnerExit(g) PROVE RowFlow'
    BY <1>10 DEF RunnerExit, RowFlow, Flow, TypeOK
  <1>11. ASSUME NEW g \in Jobs, SetRunning(g) PROVE RowFlow'
    BY <1>11 DEF SetRunning, SetStatus, RowFlow, Flow, TypeOK
  <1>12. ASSUME NEW g \in Jobs, Report(g) PROVE RowFlow'
    BY <1>12 DEF Report, SetStatus, RowFlow, Flow, TypeOK
  <1>13. ASSUME NEW g \in Jobs, NEW ok \in BOOLEAN, GetTranscript(g, ok) PROVE RowFlow'
    BY <1>13 DEF GetTranscript, RowFlow, Flow, TypeOK
  <1>14. ASSUME NEW g \in Jobs, NEW ok \in BOOLEAN, ProcessSession(g, ok) PROVE RowFlow'
    <2> DEFINE k == target[rjob[g]]
    <2>1. k \in Keys /\ rjob[g] \in Jobs
      BY <1>14, RunnerType DEF ProcessSession, Busy
    <2>2. loaded[g] \in Nat /\ 0 < loaded[g] /\ loaded[g] <= received[k]
      BY <1>0, <1>14 DEF ProcessSession, Flow, RunnerFlow, TypeOK
    <2> QED
      BY <1>0, <1>14, <2>1, <2>2 DEF ProcessSession, RowFlow, Flow, TypeOK
  <1>15. ASSUME NEW g \in Jobs, NEW ok \in BOOLEAN, MarkProcessed(g, ok) PROVE RowFlow'
    <2> DEFINE k == target[rjob[g]]
    <2>1. k \in Keys /\ rjob[g] \in Jobs
      BY <1>15, RunnerType DEF MarkProcessed, Busy
    <2>2. loaded[g] \in Nat /\ 0 < loaded[g] /\ loaded[g] <= received[k] /\ loaded[g] <= learned[k]
      BY <1>0, <1>15 DEF MarkProcessed, Flow, RunnerFlow, TypeOK
    <2> QED
      BY <1>0, <1>15, <2>1, <2>2 DEF MarkProcessed, RowFlow, Flow, TypeOK
  <1>16. CASE BeginClose
    BY <1>16 DEF BeginClose, RowFlow, Flow, TypeOK
  <1>17. ASSUME NEW a \in Agents, CloseQueue(a) PROVE RowFlow'
    BY <1>17 DEF CloseQueue, RowFlow, Flow, TypeOK
  <1>18. CASE CloseReturn
    BY <1>18 DEF CloseReturn, RowFlow, Flow, TypeOK
  <1>19. CASE Restart
    BY <1>19 DEF Restart, Fresh, RowFlow, Flow, TypeOK
  <1>20. CASE UNCHANGED vars
    BY <1>20 DEF vars, RowFlow, Flow, TypeOK
  <1>21. QED
    BY <1>1, <1>2, <1>3, <1>4, <1>5, <1>6, <1>7, <1>8, <1>9, <1>10,
       <1>11, <1>12, <1>13, <1>14, <1>15, <1>16, <1>17, <1>18, <1>19, <1>20
       DEF Next, Arrive, Sender, Runner, FinishClose

\* A goroutine processes a text at least as new as the push of its job, and
\* reports done only what was learned and marked.
LEMMA RunnerFlowStep == TypeOK /\ Arrived /\ Flow /\ [Next]_vars => (\A h \in Jobs : RunnerFlow(h)')
  <1> SUFFICES ASSUME TypeOK /\ Arrived /\ Flow, [Next]_vars PROVE (\A h \in Jobs : RunnerFlow(h)')
    OBVIOUS
  <1>0. TypeOK /\ TypeOK' /\ Arrived /\ Unmoved /\ Grows /\ Flow
    BY TypeStep, UnmovedStep, GrowsStep
  <1>1. ASSUME NEW j \in Jobs, NEW k \in Keys, HandleSessions(j, k) PROVE (\A h \in Jobs : RunnerFlow(h)')
    <2> SUFFICES ASSUME NEW h \in Jobs PROVE RunnerFlow(h)'
      OBVIOUS
    <2>1. rpc'[h] = rpc[h] /\ rjob'[h] = rjob[h] /\ loaded'[h] = loaded[h]
      BY <1>1 DEF HandleSessions, SaveTranscript
    <2> QED
      BY <1>0, <2>1, RunnerFlowKept DEF Flow
  <1>2. ASSUME NEW j \in Jobs, NEW k \in Keys, HandleFork(j, k) PROVE (\A h \in Jobs : RunnerFlow(h)')
    <2> SUFFICES ASSUME NEW h \in Jobs PROVE RunnerFlow(h)'
      OBVIOUS
    <2>1. rpc'[h] = rpc[h] /\ rjob'[h] = rjob[h] /\ loaded'[h] = loaded[h]
      BY <1>2 DEF HandleFork
    <2> QED
      BY <1>0, <2>1, RunnerFlowKept DEF Flow
  <1>3. ASSUME NEW j \in Jobs, Enqueue(j) PROVE (\A h \in Jobs : RunnerFlow(h)')
    <2> SUFFICES ASSUME NEW h \in Jobs PROVE RunnerFlow(h)'
      OBVIOUS
    <2>1. rpc'[h] = rpc[h] /\ rjob'[h] = rjob[h] /\ loaded'[h] = loaded[h]
      BY <1>3 DEF Enqueue
    <2> QED
      BY <1>0, <2>1, RunnerFlowKept DEF Flow
  <1>4. ASSUME NEW j \in Jobs, EnqueueItem(j) PROVE (\A h \in Jobs : RunnerFlow(h)')
    <2> SUFFICES ASSUME NEW h \in Jobs PROVE RunnerFlow(h)'
      OBVIOUS
    <2>1. rjob'[h] = rjob[h] /\ loaded'[h] = loaded[h] /\ rpc'[h] \in {rpc[h], "idle"}
      BY <1>4 DEF EnqueueItem, TypeOK
    <2>2. CASE rpc'[h] = rpc[h]
      BY <1>0, <2>1, <2>2, RunnerFlowKept DEF Flow
    <2>3. CASE rpc'[h] = "idle"
      BY <2>3 DEF RunnerFlow
    <2> QED
      BY <2>1, <2>2, <2>3
  <1>5. ASSUME NEW j \in Jobs, Send(j) PROVE (\A h \in Jobs : RunnerFlow(h)')
    <2> SUFFICES ASSUME NEW h \in Jobs PROVE RunnerFlow(h)'
      OBVIOUS
    <2>1. rpc'[h] = rpc[h] /\ rjob'[h] = rjob[h] /\ loaded'[h] = loaded[h]
      BY <1>5 DEF Send
    <2> QED
      BY <1>0, <2>1, RunnerFlowKept DEF Flow
  <1>6. ASSUME NEW j \in Jobs, Park(j) PROVE (\A h \in Jobs : RunnerFlow(h)')
    <2> SUFFICES ASSUME NEW h \in Jobs PROVE RunnerFlow(h)'
      OBVIOUS
    <2>1. rpc'[h] = rpc[h] /\ rjob'[h] = rjob[h] /\ loaded'[h] = loaded[h]
      BY <1>6 DEF Park
    <2> QED
      BY <1>0, <2>1, RunnerFlowKept DEF Flow
  <1>7. ASSUME NEW j \in Jobs, DropOnDone(j) PROVE (\A h \in Jobs : RunnerFlow(h)')
    <2> SUFFICES ASSUME NEW h \in Jobs PROVE RunnerFlow(h)'
      OBVIOUS
    <2>1. rpc'[h] = rpc[h] /\ rjob'[h] = rjob[h] /\ loaded'[h] = loaded[h]
      BY <1>7 DEF DropOnDone
    <2> QED
      BY <1>0, <2>1, RunnerFlowKept DEF Flow
  <1>8. ASSUME NEW j \in Jobs, PanicOnClosed(j) PROVE (\A h \in Jobs : RunnerFlow(h)')
    <2> SUFFICES ASSUME NEW h \in Jobs PROVE RunnerFlow(h)'
      OBVIOUS
    <2>1. rpc'[h] = rpc[h] /\ rjob'[h] = rjob[h] /\ loaded'[h] = loaded[h]
      BY <1>8 DEF PanicOnClosed
    <2> QED
      BY <1>0, <2>1, RunnerFlowKept DEF Flow
  <1>9. ASSUME NEW g \in Jobs, Receive(g) PROVE (\A h \in Jobs : RunnerFlow(h)')
    <2> SUFFICES ASSUME NEW h \in Jobs PROVE RunnerFlow(h)'
      OBVIOUS
    <2>1. CASE h # g
      <3>1. rpc'[h] = rpc[h] /\ rjob'[h] = rjob[h] /\ loaded'[h] = loaded[h]
        BY <1>9, <2>1 DEF Receive, TypeOK
      <3> QED
        BY <1>0, <3>1, RunnerFlowKept DEF Flow
    <2>2. CASE h = g
      BY <1>9, <2>2 DEF Receive, RunnerFlow, TypeOK
    <2> QED
      BY <2>1, <2>2
  <1>10. ASSUME NEW g \in Jobs, RunnerExit(g) PROVE (\A h \in Jobs : RunnerFlow(h)')
    <2> SUFFICES ASSUME NEW h \in Jobs PROVE RunnerFlow(h)'
      OBVIOUS
    <2>1. CASE h # g
      <3>1. rpc'[h] = rpc[h] /\ rjob'[h] = rjob[h] /\ loaded'[h] = loaded[h]
        BY <1>10, <2>1 DEF RunnerExit, TypeOK
      <3> QED
        BY <1>0, <3>1, RunnerFlowKept DEF Flow
    <2>2. CASE h = g
      BY <1>10, <2>2 DEF RunnerExit, RunnerFlow, TypeOK
    <2> QED
      BY <2>1, <2>2
  <1>11. ASSUME NEW g \in Jobs, SetRunning(g) PROVE (\A h \in Jobs : RunnerFlow(h)')
    <2> SUFFICES ASSUME NEW h \in Jobs PROVE RunnerFlow(h)'
      OBVIOUS
    <2>1. CASE h # g
      <3>1. rpc'[h] = rpc[h] /\ rjob'[h] = rjob[h] /\ loaded'[h] = loaded[h]
        BY <1>11, <2>1 DEF SetRunning, SetStatus, TypeOK
      <3> QED
        BY <1>0, <3>1, RunnerFlowKept DEF Flow
    <2>2. CASE h = g
      BY <1>11, <2>2 DEF SetRunning, SetStatus, RunnerFlow, TypeOK
    <2> QED
      BY <2>1, <2>2
  <1>12. ASSUME NEW g \in Jobs, Report(g) PROVE (\A h \in Jobs : RunnerFlow(h)')
    <2> SUFFICES ASSUME NEW h \in Jobs PROVE RunnerFlow(h)'
      OBVIOUS
    <2>1. CASE h # g
      <3>1. rpc'[h] = rpc[h] /\ rjob'[h] = rjob[h] /\ loaded'[h] = loaded[h]
        BY <1>12, <2>1 DEF Report, SetStatus, TypeOK
      <3> QED
        BY <1>0, <3>1, RunnerFlowKept DEF Flow
    <2>2. CASE h = g
      BY <1>12, <2>2 DEF Report, SetStatus, RunnerFlow, TypeOK
    <2> QED
      BY <2>1, <2>2
  <1>13. ASSUME NEW g \in Jobs, NEW ok \in BOOLEAN, GetTranscript(g, ok) PROVE (\A h \in Jobs : RunnerFlow(h)')
    <2> SUFFICES ASSUME NEW h \in Jobs PROVE RunnerFlow(h)'
      OBVIOUS
    <2>1. CASE h # g
      <3>1. rpc'[h] = rpc[h] /\ rjob'[h] = rjob[h] /\ loaded'[h] = loaded[h]
        BY <1>13, <2>1 DEF GetTranscript, TypeOK
      <3> QED
        BY <1>0, <3>1, RunnerFlowKept DEF Flow
    <2>2. CASE h = g
      <3> DEFINE k == target[rjob[g]]
      <3>1. k \in Keys /\ rjob[g] \in Jobs /\ pc[rjob[g]] # "idle"
        BY <1>13, RunnerType DEF GetTranscript, Busy, Arrived, ServedArrived
      <3> QED
        BY <1>0, <1>13, <2>2, <3>1 DEF GetTranscript, RunnerFlow, Flow, RowFlow, TypeOK
    <2> QED
      BY <2>1, <2>2
  <1>14. ASSUME NEW g \in Jobs, NEW ok \in BOOLEAN, ProcessSession(g, ok) PROVE (\A h \in Jobs : RunnerFlow(h)')
    <2> SUFFICES ASSUME NEW h \in Jobs PROVE RunnerFlow(h)'
      OBVIOUS
    <2>1. CASE h # g
      <3>1. rpc'[h] = rpc[h] /\ rjob'[h] = rjob[h] /\ loaded'[h] = loaded[h]
        BY <1>14, <2>1 DEF ProcessSession, TypeOK
      <3> QED
        BY <1>0, <3>1, RunnerFlowKept DEF Flow
    <2>2. CASE h = g
      <3> DEFINE k == target[rjob[g]]
      <3>1. k \in Keys /\ rjob[g] \in Jobs /\ pc[rjob[g]] # "idle"
        BY <1>14, RunnerType DEF ProcessSession, Busy, Arrived, ServedArrived
      <3> QED
        BY <1>0, <1>14, <2>2, <3>1 DEF ProcessSession, RunnerFlow, Flow, RowFlow, TypeOK
    <2> QED
      BY <2>1, <2>2
  <1>15. ASSUME NEW g \in Jobs, NEW ok \in BOOLEAN, MarkProcessed(g, ok) PROVE (\A h \in Jobs : RunnerFlow(h)')
    <2> SUFFICES ASSUME NEW h \in Jobs PROVE RunnerFlow(h)'
      OBVIOUS
    <2>1. CASE h # g
      <3>1. rpc'[h] = rpc[h] /\ rjob'[h] = rjob[h] /\ loaded'[h] = loaded[h]
        BY <1>15, <2>1 DEF MarkProcessed, TypeOK
      <3> QED
        BY <1>0, <3>1, RunnerFlowKept DEF Flow
    <2>2. CASE h = g
      <3> DEFINE k == target[rjob[g]]
      <3>1. k \in Keys /\ rjob[g] \in Jobs /\ pc[rjob[g]] # "idle"
        BY <1>15, RunnerType DEF MarkProcessed, Busy, Arrived, ServedArrived
      <3> QED
        BY <1>0, <1>15, <2>2, <3>1 DEF MarkProcessed, RunnerFlow, Flow, RowFlow, TypeOK
    <2> QED
      BY <2>1, <2>2
  <1>16. CASE BeginClose
    <2> SUFFICES ASSUME NEW h \in Jobs PROVE RunnerFlow(h)'
      OBVIOUS
    <2>1. rpc'[h] = rpc[h] /\ rjob'[h] = rjob[h] /\ loaded'[h] = loaded[h]
      BY <1>16 DEF BeginClose
    <2> QED
      BY <1>0, <2>1, RunnerFlowKept DEF Flow
  <1>17. ASSUME NEW a \in Agents, CloseQueue(a) PROVE (\A h \in Jobs : RunnerFlow(h)')
    <2> SUFFICES ASSUME NEW h \in Jobs PROVE RunnerFlow(h)'
      OBVIOUS
    <2>1. rpc'[h] = rpc[h] /\ rjob'[h] = rjob[h] /\ loaded'[h] = loaded[h]
      BY <1>17 DEF CloseQueue
    <2> QED
      BY <1>0, <2>1, RunnerFlowKept DEF Flow
  <1>18. CASE CloseReturn
    <2> SUFFICES ASSUME NEW h \in Jobs PROVE RunnerFlow(h)'
      OBVIOUS
    <2>1. rpc'[h] = rpc[h] /\ rjob'[h] = rjob[h] /\ loaded'[h] = loaded[h]
      BY <1>18 DEF CloseReturn
    <2> QED
      BY <1>0, <2>1, RunnerFlowKept DEF Flow
  <1>19. CASE Restart
    BY <1>19 DEF Restart, Fresh, RunnerFlow
  <1>20. CASE UNCHANGED vars
    <2> SUFFICES ASSUME NEW h \in Jobs PROVE RunnerFlow(h)'
      OBVIOUS
    <2>1. rpc'[h] = rpc[h] /\ rjob'[h] = rjob[h] /\ loaded'[h] = loaded[h]
      BY <1>20 DEF vars
    <2> QED
      BY <1>0, <2>1, RunnerFlowKept DEF Flow
  <1>21. QED
    BY <1>1, <1>2, <1>3, <1>4, <1>5, <1>6, <1>7, <1>8, <1>9, <1>10,
       <1>11, <1>12, <1>13, <1>14, <1>15, <1>16, <1>17, <1>18, <1>19, <1>20
       DEF Next, Arrive, Sender, Runner, FinishClose

\* Done means learned and marked.
LEMMA DoneFlowStep == TypeOK /\ Arrived /\ Flow /\ [Next]_vars => (\A i \in Jobs : DoneFlow(i)')
  <1> SUFFICES ASSUME TypeOK /\ Arrived /\ Flow, [Next]_vars PROVE (\A i \in Jobs : DoneFlow(i)')
    OBVIOUS
  <1>0. TypeOK /\ TypeOK' /\ Arrived /\ Unmoved /\ Grows /\ Flow
    BY TypeStep, UnmovedStep, GrowsStep
  <1>1. ASSUME NEW j \in Jobs, NEW k \in Keys, HandleSessions(j, k) PROVE (\A i \in Jobs : DoneFlow(i)')
    <2> SUFFICES ASSUME NEW i \in Jobs PROVE DoneFlow(i)'
      OBVIOUS
    <2>1. status'[i] = "done" => status[i] = "done"
      BY <1>1 DEF HandleSessions, SaveTranscript, TypeOK
    <2> QED
      BY <1>0, <2>1, DoneFlowKept DEF Flow
  <1>2. ASSUME NEW j \in Jobs, NEW k \in Keys, HandleFork(j, k) PROVE (\A i \in Jobs : DoneFlow(i)')
    <2> SUFFICES ASSUME NEW i \in Jobs PROVE DoneFlow(i)'
      OBVIOUS
    <2>1. status'[i] = "done" => status[i] = "done"
      BY <1>2 DEF HandleFork, TypeOK
    <2> QED
      BY <1>0, <2>1, DoneFlowKept DEF Flow
  <1>3. ASSUME NEW j \in Jobs, Enqueue(j) PROVE (\A i \in Jobs : DoneFlow(i)')
    <2> SUFFICES ASSUME NEW i \in Jobs PROVE DoneFlow(i)'
      OBVIOUS
    <2>1. status'[i] = "done" => status[i] = "done"
      BY <1>3 DEF Enqueue, TypeOK
    <2> QED
      BY <1>0, <2>1, DoneFlowKept DEF Flow
  <1>4. ASSUME NEW j \in Jobs, EnqueueItem(j) PROVE (\A i \in Jobs : DoneFlow(i)')
    <2> SUFFICES ASSUME NEW i \in Jobs PROVE DoneFlow(i)'
      OBVIOUS
    <2>1. status'[i] = "done" => status[i] = "done"
      BY <1>4 DEF EnqueueItem, TypeOK
    <2> QED
      BY <1>0, <2>1, DoneFlowKept DEF Flow
  <1>5. ASSUME NEW j \in Jobs, Send(j) PROVE (\A i \in Jobs : DoneFlow(i)')
    <2> SUFFICES ASSUME NEW i \in Jobs PROVE DoneFlow(i)'
      OBVIOUS
    <2>1. status'[i] = "done" => status[i] = "done"
      BY <1>5 DEF Send, TypeOK
    <2> QED
      BY <1>0, <2>1, DoneFlowKept DEF Flow
  <1>6. ASSUME NEW j \in Jobs, Park(j) PROVE (\A i \in Jobs : DoneFlow(i)')
    <2> SUFFICES ASSUME NEW i \in Jobs PROVE DoneFlow(i)'
      OBVIOUS
    <2>1. status'[i] = "done" => status[i] = "done"
      BY <1>6 DEF Park, TypeOK
    <2> QED
      BY <1>0, <2>1, DoneFlowKept DEF Flow
  <1>7. ASSUME NEW j \in Jobs, DropOnDone(j) PROVE (\A i \in Jobs : DoneFlow(i)')
    <2> SUFFICES ASSUME NEW i \in Jobs PROVE DoneFlow(i)'
      OBVIOUS
    <2>1. status'[i] = "done" => status[i] = "done"
      BY <1>7 DEF DropOnDone, TypeOK
    <2> QED
      BY <1>0, <2>1, DoneFlowKept DEF Flow
  <1>8. ASSUME NEW j \in Jobs, PanicOnClosed(j) PROVE (\A i \in Jobs : DoneFlow(i)')
    <2> SUFFICES ASSUME NEW i \in Jobs PROVE DoneFlow(i)'
      OBVIOUS
    <2>1. status'[i] = "done" => status[i] = "done"
      BY <1>8 DEF PanicOnClosed, TypeOK
    <2> QED
      BY <1>0, <2>1, DoneFlowKept DEF Flow
  <1>9. ASSUME NEW g \in Jobs, Receive(g) PROVE (\A i \in Jobs : DoneFlow(i)')
    <2> SUFFICES ASSUME NEW i \in Jobs PROVE DoneFlow(i)'
      OBVIOUS
    <2>1. status'[i] = "done" => status[i] = "done"
      BY <1>9 DEF Receive, TypeOK
    <2> QED
      BY <1>0, <2>1, DoneFlowKept DEF Flow
  <1>10. ASSUME NEW g \in Jobs, RunnerExit(g) PROVE (\A i \in Jobs : DoneFlow(i)')
    <2> SUFFICES ASSUME NEW i \in Jobs PROVE DoneFlow(i)'
      OBVIOUS
    <2>1. status'[i] = "done" => status[i] = "done"
      BY <1>10 DEF RunnerExit, TypeOK
    <2> QED
      BY <1>0, <2>1, DoneFlowKept DEF Flow
  <1>11. ASSUME NEW g \in Jobs, SetRunning(g) PROVE (\A i \in Jobs : DoneFlow(i)')
    <2> SUFFICES ASSUME NEW i \in Jobs PROVE DoneFlow(i)'
      OBVIOUS
    <2>1. status'[i] = "done" => status[i] = "done"
      BY <1>11 DEF SetRunning, SetStatus, TypeOK
    <2> QED
      BY <1>0, <2>1, DoneFlowKept DEF Flow
  <1>12. ASSUME NEW g \in Jobs, Report(g) PROVE (\A i \in Jobs : DoneFlow(i)')
    <2> SUFFICES ASSUME NEW i \in Jobs PROVE DoneFlow(i)'
      OBVIOUS
    <2>1. CASE status'[i] = "done" => status[i] = "done"
      BY <1>0, <2>1, DoneFlowKept DEF Flow
    <2>2. CASE status'[i] = "done" /\ status[i] # "done"
      <3>1. rjob[g] \in Jobs /\ i = rjob[g] /\ rpc[g] = "reportDone"
        BY <1>12, <2>2 DEF Report, SetStatus, TypeOK
      <3>2. /\ pushed[i] <= learned[target[i]] /\ marked[target[i]]
            /\ UNCHANGED <<pushed, learned, target, marked>>
        BY <1>0, <1>12, <3>1 DEF Report, Flow, RunnerFlow
      <3> QED
        BY <3>2 DEF DoneFlow
    <2> QED
      BY <2>1, <2>2
  <1>13. ASSUME NEW g \in Jobs, NEW ok \in BOOLEAN, GetTranscript(g, ok) PROVE (\A i \in Jobs : DoneFlow(i)')
    <2> SUFFICES ASSUME NEW i \in Jobs PROVE DoneFlow(i)'
      OBVIOUS
    <2>1. status'[i] = "done" => status[i] = "done"
      BY <1>13 DEF GetTranscript, TypeOK
    <2> QED
      BY <1>0, <2>1, DoneFlowKept DEF Flow
  <1>14. ASSUME NEW g \in Jobs, NEW ok \in BOOLEAN, ProcessSession(g, ok) PROVE (\A i \in Jobs : DoneFlow(i)')
    <2> SUFFICES ASSUME NEW i \in Jobs PROVE DoneFlow(i)'
      OBVIOUS
    <2>1. status'[i] = "done" => status[i] = "done"
      BY <1>14 DEF ProcessSession, TypeOK
    <2> QED
      BY <1>0, <2>1, DoneFlowKept DEF Flow
  <1>15. ASSUME NEW g \in Jobs, NEW ok \in BOOLEAN, MarkProcessed(g, ok) PROVE (\A i \in Jobs : DoneFlow(i)')
    <2> SUFFICES ASSUME NEW i \in Jobs PROVE DoneFlow(i)'
      OBVIOUS
    <2>1. status'[i] = "done" => status[i] = "done"
      BY <1>15 DEF MarkProcessed, TypeOK
    <2> QED
      BY <1>0, <2>1, DoneFlowKept DEF Flow
  <1>16. CASE BeginClose
    <2> SUFFICES ASSUME NEW i \in Jobs PROVE DoneFlow(i)'
      OBVIOUS
    <2>1. status'[i] = "done" => status[i] = "done"
      BY <1>16 DEF BeginClose, TypeOK
    <2> QED
      BY <1>0, <2>1, DoneFlowKept DEF Flow
  <1>17. ASSUME NEW a \in Agents, CloseQueue(a) PROVE (\A i \in Jobs : DoneFlow(i)')
    <2> SUFFICES ASSUME NEW i \in Jobs PROVE DoneFlow(i)'
      OBVIOUS
    <2>1. status'[i] = "done" => status[i] = "done"
      BY <1>17 DEF CloseQueue, TypeOK
    <2> QED
      BY <1>0, <2>1, DoneFlowKept DEF Flow
  <1>18. CASE CloseReturn
    <2> SUFFICES ASSUME NEW i \in Jobs PROVE DoneFlow(i)'
      OBVIOUS
    <2>1. status'[i] = "done" => status[i] = "done"
      BY <1>18 DEF CloseReturn, TypeOK
    <2> QED
      BY <1>0, <2>1, DoneFlowKept DEF Flow
  <1>19. CASE Restart
    <2> SUFFICES ASSUME NEW i \in Jobs PROVE DoneFlow(i)'
      OBVIOUS
    <2>1. status'[i] = "done" => status[i] = "done"
      BY <1>19 DEF Restart, Fresh, TypeOK
    <2> QED
      BY <1>0, <2>1, DoneFlowKept DEF Flow
  <1>20. CASE UNCHANGED vars
    <2> SUFFICES ASSUME NEW i \in Jobs PROVE DoneFlow(i)'
      OBVIOUS
    <2>1. status'[i] = "done" => status[i] = "done"
      BY <1>20 DEF vars, TypeOK
    <2> QED
      BY <1>0, <2>1, DoneFlowKept DEF Flow
  <1>21. QED
    BY <1>1, <1>2, <1>3, <1>4, <1>5, <1>6, <1>7, <1>8, <1>9, <1>10,
       <1>11, <1>12, <1>13, <1>14, <1>15, <1>16, <1>17, <1>18, <1>19, <1>20
       DEF Next, Arrive, Sender, Runner, FinishClose

-----------------------------------------------------------------------------
\* The inductive invariant holds at the start and every step keeps it.
LEMMA InitInv == Init => Inv
  BY DEF Init, Inv, TypeOK, Fresh, RequestPC, RunnerPC, Statuses, Arrived,
     ServedArrived, WaitingArrived, AllArrived, Busy, OneRunner, Flow, RowFlow,
     RunnerFlow, DoneFlow

LEMMA NextInv == Inv /\ [Next]_vars => Inv'
  <1> SUFFICES ASSUME Inv, [Next]_vars PROVE Inv'
    OBVIOUS
  <1>1. TypeOK /\ Arrived /\ OneRunner /\ Flow
    BY DEF Inv
  <1>2. TypeOK'
    BY <1>1, TypeStep
  <1>3. Arrived'
    BY <1>1, ServedStep, WaitingStep DEF Arrived
  <1>4. OneRunner'
    BY <1>1, OneRunnerStep
  <1>5. Flow'
    BY <1>1, RowFlowStep, RunnerFlowStep, DoneFlowStep DEF Flow
  <1> QED
    BY <1>2, <1>3, <1>4, <1>5 DEF Inv

\* The worker's requests, runners, timers and exits keep the invariant.
THEOREM Invariance == Spec => []Inv
  BY InitInv, NextInv, PTL DEF Spec

\* The state of the worker is well typed in every reachable state and no
\* channel holds more than its capacity.
THEOREM TypeCorrect == Spec => []TypeOK
  <1>1. Inv => TypeOK
    BY DEF Inv
  <1> QED
    BY <1>1, Invariance, PTL

\* The pushes of one agent are processed one at a time: however many requests
\* race to create the agent's goroutine, it gets one (worker.go: "concurrent
\* EndSession pushes for the same agent cannot interleave").
THEOREM Serial == Spec => []SerialPerAgent
  <1>1. Inv => SerialPerAgent
    BY DEF Inv, OneRunner, SerialPerAgent, Busy
  <1> QED
    BY <1>1, Invariance, PTL

\* processed_at is set only for a session of which some text went through the
\* whole pipeline, whatever fails and however often the process exits.
THEOREM MarkedAfterLearning == Spec => []MarkedMeansLearned
  <1>1. Inv => MarkedMeansLearned
    BY DEF Inv, Flow, RowFlow, MarkedMeansLearned
  <1> QED
    BY <1>1, Invariance, PTL

\* A job reported done has processed a text at least as new as its own push.
THEOREM DoneIsCovered == Spec => []DoneCoversPush
  <1>1. Inv => DoneCoversPush
    BY DEF Inv, Flow, DoneFlow, DoneCoversPush, TypeOK, Arrived, ServedArrived
  <1> QED
    BY <1>1, Invariance, PTL

-----------------------------------------------------------------------------
(***************************************************************************)
(* Where every job is. The table, the channels and the goroutines are      *)
(* written under three different disciplines (the lock, the channel's own, *)
(* none); Placed says how they go together.                                *)
(***************************************************************************)
Waits(j, s) == \E i \in 1..Len(s) : s[i] = j
Distinct(s) == \A i, k \in 1..Len(s) : s[i] = s[k] => i = k
Taken(j) == \E g \in Jobs : Busy(g) /\ rjob[g] = j

\* Who waits in a channel or before it: no job twice, and senders are blocked only
\* at a full channel.
Lined(a) ==
    /\ \A j \in Jobs : Waits(j, queue[a]) =>
          pc[j] = "sent" /\ AgentOf(j) = a /\ status[j] = "queued"
    /\ \A j \in Jobs : Waits(j, parked[a]) => pc[j] = "parked" /\ AgentOf(j) = a
    /\ Distinct(queue[a]) /\ Distinct(parked[a])
    /\ parked[a] # <<>> => Len(queue[a]) = QueueCap

\* What a goroutine works on has left the channel of its agent.
Served(g) ==
    Busy(g) =>
        /\ pc[rjob[g]] = "sent" /\ AgentOf(rjob[g]) = AgentOf(g)
        /\ rpc[g] = "start" => status[rjob[g]] = "queued"
        /\ rpc[g] # "start" => status[rjob[g]] = "running"
        /\ ~Waits(rjob[g], queue[AgentOf(g)])

Tabled(j) ==
    /\ pc[j] \in {"idle", "saved", "gone"} => status[j] = "none"
    /\ pc[j] \in {"inserted", "sending", "parked", "dropped", "panicked"} => status[j] = "queued"
    /\ pc[j] = "parked" => closing = "no"
    /\ pc[j] = "sent" /\ status[j] \in {"queued", "running"} =>
          Waits(j, queue[AgentOf(j)]) \/ Taken(j)
    /\ status[j] \in Terminal => doneAt[j] # 0

Placed ==
    /\ \A a \in Agents : Lined(a)
    /\ \A g \in Jobs : Served(g)
    /\ \A j \in Jobs : Tabled(j)

\* Joining the end of a line.
LEMMA JoinLine ==
    ASSUME NEW s \in Seq(Jobs), NEW j \in Jobs
    PROVE  /\ \A x : Waits(x, Append(s, j)) <=> Waits(x, s) \/ x = j
           /\ Distinct(s) /\ ~Waits(j, s) => Distinct(Append(s, j))
<1>1. /\ Len(Append(s, j)) = Len(s) + 1 /\ Len(s) \in Nat
      /\ \A i \in 1..Len(s) : Append(s, j)[i] = s[i]
      /\ Append(s, j)[Len(s) + 1] = j
      /\ 1..(Len(s) + 1) = 1..Len(s) \cup {Len(s) + 1}
  OBVIOUS
<1>2. ASSUME NEW x PROVE Waits(x, Append(s, j)) <=> Waits(x, s) \/ x = j
  BY <1>1 DEF Waits
<1>3. Distinct(s) /\ ~Waits(j, s) => Distinct(Append(s, j))
  BY <1>1 DEF Waits, Distinct
<1> QED BY <1>2, <1>3

\* Leaving its head.
LEMMA LeaveLine ==
    ASSUME NEW s \in Seq(Jobs), s # <<>>
    PROVE  /\ Head(s) \in Jobs /\ Tail(s) \in Seq(Jobs)
           /\ \A x : Waits(x, s) <=> x = Head(s) \/ Waits(x, Tail(s))
           /\ Distinct(s) => Distinct(Tail(s)) /\ ~Waits(Head(s), Tail(s))
<1>1. /\ Len(s) \in Nat \ {0} /\ Len(Tail(s)) = Len(s) - 1
      /\ Head(s) = s[1] /\ \A i \in 1..(Len(s) - 1) : Tail(s)[i] = s[i + 1]
      /\ Head(s) \in Jobs /\ Tail(s) \in Seq(Jobs)
  OBVIOUS
<1>2. ASSUME NEW x, Waits(x, s) PROVE x = Head(s) \/ Waits(x, Tail(s))
  <2>1. PICK i \in 1..Len(s) : s[i] = x
    BY <1>2 DEF Waits
  <2>2. CASE i = 1
    BY <1>1, <2>1, <2>2
  <2>3. CASE i # 1
    <3>1. i - 1 \in 1..(Len(s) - 1) /\ Tail(s)[i - 1] = s[i]
      BY <1>1, <2>3
    <3> QED BY <1>1, <2>1, <3>1 DEF Waits
  <2> QED BY <2>2, <2>3
<1>3. ASSUME NEW x, x = Head(s) \/ Waits(x, Tail(s)) PROVE Waits(x, s)
  <2>1. CASE x = Head(s)
    BY <1>1, <2>1 DEF Waits
  <2>2. CASE Waits(x, Tail(s))
    <3>1. PICK i \in 1..(Len(s) - 1) : Tail(s)[i] = x
      BY <1>1, <2>2 DEF Waits
    <3>2. i + 1 \in 1..Len(s) /\ s[i + 1] = x
      BY <1>1, <3>1
    <3> QED BY <3>2 DEF Waits
  <2> QED BY <1>3, <2>1, <2>2
<1>4. ASSUME Distinct(s) PROVE Distinct(Tail(s)) /\ ~Waits(Head(s), Tail(s))
  <2>1. ASSUME NEW i \in 1..(Len(s) - 1), NEW k \in 1..(Len(s) - 1), Tail(s)[i] = Tail(s)[k]
        PROVE  i = k
    <3>1. i + 1 \in 1..Len(s) /\ k + 1 \in 1..Len(s) /\ s[i + 1] = s[k + 1]
      BY <1>1, <2>1
    <3>2. i + 1 = k + 1
      BY <1>4, <3>1 DEF Distinct
    <3> QED BY <3>2
  <2>2. ASSUME NEW i \in 1..(Len(s) - 1) PROVE Tail(s)[i] # Head(s)
    <3>1. i + 1 \in 1..Len(s) /\ 1 \in 1..Len(s) /\ i + 1 # 1
      BY <1>1
    <3> QED BY <1>1, <1>4, <3>1 DEF Distinct
  <2> QED BY <1>1, <2>1, <2>2 DEF Distinct, Waits
<1> QED BY <1>1, <1>2, <1>3, <1>4

\* A goroutine knows its agent, and two busy ones never have the same job.
LEMMA TakenOnce ==
    ASSUME Inv, Placed, NEW g \in Jobs, NEW h \in Jobs, Busy(g), Busy(h), rjob[g] = rjob[h]
    PROVE  g = h
  BY DEF Inv, Placed, Served, OneRunner, Busy

\* Senders are blocked only while nobody closes.
LEMMA NoneParked ==
    ASSUME Inv, Placed, closing # "no"
    PROVE  /\ \A a \in Agents : parked[a] = <<>>
           /\ \A j \in Jobs : pc[j] # "parked"
<1>1. \A j \in Jobs : pc[j] # "parked"
  BY DEF Placed, Tabled
<1>2. ASSUME NEW a \in Agents, parked[a] # <<>> PROVE FALSE
  <2>1. parked[a] \in Seq(Jobs)
    BY DEF Inv, TypeOK
  <2>2. Head(parked[a]) \in Jobs /\ Waits(Head(parked[a]), parked[a])
    BY <1>2, <2>1, LeaveLine
  <2> QED BY <1>1, <2>2 DEF Placed, Lined
<1> QED BY <1>1, <1>2

\* Goroutines keep their jobs and none begins another.
KeepsBusy ==
    \A g \in Jobs : /\ Busy(g)' <=> Busy(g)
                    /\ Busy(g) => rjob'[g] = rjob[g] /\ (rpc'[g] = "start" <=> rpc[g] = "start")

\* A step that touches neither the channels nor what waits in them, nor what the
\* goroutines have.
Apart ==
    /\ UNCHANGED <<queue, parked>>
    /\ \A j \in Jobs : /\ pc[j] \in {"sent", "parked"} => pc'[j] = pc[j]
                       /\ status[j] \in {"queued", "running"} => status'[j] = status[j]
    /\ KeepsBusy

LEMMA LinesKept ==
    ASSUME Inv, Placed, Unmoved, Apart
    PROVE  /\ \A a \in Agents : Lined(a)'
           /\ \A g \in Jobs : Served(g)'
           /\ \A j \in Jobs : pc[j] # "idle" => (Taken(j)' <=> Taken(j)) /\ AgentOf(j)' = AgentOf(j)
<1>1. \A j \in Jobs : pc[j] # "idle" => AgentOf(j)' = AgentOf(j)
  BY DEF Unmoved
<1>2. \A j \in Jobs : pc[j] # "idle" => (Taken(j)' <=> Taken(j))
  BY DEF Taken, Apart, KeepsBusy
<1>3. ASSUME NEW a \in Agents PROVE Lined(a)'
  <2>1. Lined(a)
    BY DEF Placed
  <2>2. queue'[a] = queue[a] /\ parked'[a] = parked[a]
    BY DEF Apart
  <2>3. \A j \in Jobs : Waits(j, queue[a]) =>
            pc'[j] = "sent" /\ AgentOf(j)' = a /\ status'[j] = "queued"
    BY <1>1, <2>1 DEF Lined, Apart
  <2>4. \A j \in Jobs : Waits(j, parked[a]) => pc'[j] = "parked" /\ AgentOf(j)' = a
    BY <1>1, <2>1 DEF Lined, Apart
  <2> QED BY <2>1, <2>2, <2>3, <2>4 DEF Lined
<1>4. ASSUME NEW g \in Jobs PROVE Served(g)'
  <2>1. SUFFICES ASSUME Busy(g)' PROVE Served(g)'
    BY DEF Served
  <2>2. Busy(g) /\ Served(g) /\ rjob[g] \in Jobs /\ rjob'[g] = rjob[g]
    BY <2>1 DEF Placed, Apart, KeepsBusy, Inv, TypeOK
  <2>3. pc[g] # "idle" /\ pc[rjob[g]] = "sent"
    BY <2>2 DEF Inv, Arrived, ServedArrived, Served, Busy
  <2>4. AgentOf(g)' = AgentOf(g) /\ AgentOf(rjob[g])' = AgentOf(rjob[g])
    BY <1>1, <2>2, <2>3, Zenon
  <2>5. pc'[rjob[g]] = "sent" /\ target'[rjob[g]][1] = target'[g][1]
    BY <2>2, <2>3, <2>4 DEF Served, Apart, KeepsBusy
  <2>6. /\ rpc'[g] = "start" => status'[rjob[g]] = "queued"
        /\ rpc'[g] # "start" => status'[rjob[g]] = "running"
    BY <2>2 DEF Served, Apart, KeepsBusy
  <2>7. ~Waits(rjob[g], queue'[AgentOf(g)])
    BY <2>2 DEF Served, Apart, KeepsBusy
  <2> QED BY <2>2, <2>4, <2>5, <2>6, <2>7 DEF Served
<1> QED BY <1>1, <1>2, <1>3, <1>4

\* A job such a step does not move, in the table or on its way, is where it was.
LEMMA TabledKept ==
    ASSUME Inv, Placed, Unmoved, Apart, NEW j \in Jobs,
           pc'[j] = pc[j], status'[j] = status[j], doneAt'[j] = doneAt[j],
           pc[j] = "parked" => closing' = closing
    PROVE  Tabled(j)'
<1>1. Tabled(j)
  BY DEF Placed
<1>2. pc[j] = "sent" => AgentOf(j)' = AgentOf(j) /\ (Taken(j)' <=> Taken(j))
  BY LinesKept
<1>3. pc[j] = "sent" => (Waits(j, queue[AgentOf(j)])' <=> Waits(j, queue[AgentOf(j)]))
  BY <1>2 DEF Waits, Apart
<1> QED BY <1>1, <1>2, <1>3 DEF Tabled

LEMMA ArrivePlaced ==
    ASSUME Inv, Placed, Unmoved, NEW j \in Jobs, NEW k \in Keys,
           HandleSessions(j, k) \/ HandleFork(j, k)
    PROVE  Placed'
<1>1. /\ pc[j] = "idle" /\ pc' = [pc EXCEPT ![j] = "saved"]
      /\ UNCHANGED <<status, doneAt, queue, parked, rpc, rjob, closing>>
  BY DEF HandleSessions, HandleFork
<1>2. pc'[j] = "saved" /\ \A i \in Jobs : i # j => pc'[i] = pc[i]
  BY <1>1 DEF Inv, TypeOK
<1>3. Apart
  BY <1>1, <1>2 DEF Apart, KeepsBusy, Busy
<1>4. ASSUME NEW i \in Jobs, i # j PROVE Tabled(i)'
  BY <1>1, <1>2, <1>3, <1>4, TabledKept
<1>5. Tabled(j)'
  BY <1>1, <1>2 DEF Placed, Tabled, Terminal
<1> QED BY <1>3, <1>4, <1>5, LinesKept DEF Placed

LEMMA EnqueuePlaced ==
    ASSUME Inv, Placed, Unmoved, NEW j \in Jobs, Enqueue(j)
    PROVE  Placed'
<1>1. PICK E \in SUBSET Jobs :
        /\ PruneSet(E)
        /\ status' = [i \in Jobs |-> IF i = j THEN "queued"
                                     ELSE IF i \in E THEN "none" ELSE status[i]]
        /\ doneAt' = [i \in Jobs |-> IF i \in E THEN 0 ELSE doneAt[i]]
  BY DEF Enqueue
<1>2. /\ pc[j] = "saved" /\ pc' = [pc EXCEPT ![j] = "inserted"]
      /\ UNCHANGED <<queue, parked, rpc, rjob, closing>>
  BY DEF Enqueue
<1>3. pc'[j] = "inserted" /\ \A i \in Jobs : i # j => pc'[i] = pc[i]
  BY <1>2 DEF Inv, TypeOK
<1>4. \A i \in E : status[i] \in Terminal
  BY <1>1 DEF PruneSet, Prunable
<1>5. status[j] = "none"
  BY <1>2 DEF Placed, Tabled
<1>6. Apart
  <2>1. ASSUME NEW i \in Jobs, status[i] \in {"queued", "running"} PROVE status'[i] = status[i]
    BY <1>1, <1>4, <1>5, <2>1 DEF Terminal
  <2> QED BY <1>2, <1>3, <2>1 DEF Apart, KeepsBusy, Busy
<1>7. ASSUME NEW i \in Jobs, i # j, i \notin E PROVE Tabled(i)'
  <2>1. status'[i] = status[i] /\ doneAt'[i] = doneAt[i]
    BY <1>1, <1>7
  <2> QED BY <1>2, <1>3, <1>6, <1>7, <2>1, TabledKept
<1>8. ASSUME NEW i \in E, i # j PROVE Tabled(i)'
  <2>1. status'[i] = "none" /\ status[i] \in Terminal /\ pc'[i] = pc[i] /\ Tabled(i)
    BY <1>1, <1>3, <1>4, <1>8 DEF Placed
  <2> QED BY <1>2, <2>1 DEF Tabled, Terminal
<1>9. Tabled(j)'
  <2>1. status'[j] = "queued"
    BY <1>1
  <2> QED BY <1>3, <2>1 DEF Tabled, Terminal
<1> QED BY <1>6, <1>7, <1>8, <1>9, LinesKept DEF Placed

\* What does not touch the lines, seen from the request that does it.
LEMMA LeavingPlaced ==
    ASSUME Inv, Placed, Unmoved, NEW j \in Jobs,
           EnqueueItem(j) \/ DropOnDone(j) \/ PanicOnClosed(j)
    PROVE  Placed'
<1>1. /\ pc[j] \in {"inserted", "sending"}
      /\ UNCHANGED <<status, doneAt, queue, parked, rjob, closing>>
      /\ rpc' = rpc \/ rpc' = [rpc EXCEPT ![j] = "idle"]
  BY DEF EnqueueItem, DropOnDone, PanicOnClosed
<1>2. \/ pc' = [pc EXCEPT ![j] = "sending"]
      \/ pc' = [pc EXCEPT ![j] = "dropped"]
      \/ pc' = [pc EXCEPT ![j] = "panicked"]
  BY DEF EnqueueItem, DropOnDone, PanicOnClosed
<1>3. pc'[j] \in {"sending", "dropped", "panicked"} /\ \A i \in Jobs : i # j => pc'[i] = pc[i]
  BY <1>2 DEF Inv, TypeOK
<1>4. \A g \in Jobs : Busy(g)' <=> Busy(g)
  <2>1. CASE rpc' = rpc
    BY <2>1 DEF Busy
  <2>2. CASE rpc' = [rpc EXCEPT ![j] = "idle"] /\ rpc' # rpc
    <3>1. rpc[j] = "none"
      BY <2>2 DEF EnqueueItem, DropOnDone, PanicOnClosed, NeedsRunner, Inv, OneRunner
    <3> QED BY <2>2, <3>1 DEF Busy, Inv, TypeOK
  <2> QED BY <1>1, <2>1, <2>2
<1>5. \A g \in Jobs : Busy(g) => rpc'[g] = rpc[g]
  BY <1>1, <1>4 DEF Busy, Inv, TypeOK
<1>6. Apart
  BY <1>1, <1>3, <1>4, <1>5 DEF Apart, KeepsBusy
<1>7. ASSUME NEW i \in Jobs, i # j PROVE Tabled(i)'
  BY <1>1, <1>3, <1>6, <1>7, TabledKept
<1>8. Tabled(j)'
  BY <1>1, <1>3 DEF Placed, Tabled, Terminal
<1> QED BY <1>6, <1>7, <1>8, LinesKept DEF Placed

\* Steps of a goroutine between the status it reports first and the one it reports last,
\* its end, and the end of Close.
LEMMA ApartPlaced ==
    ASSUME Inv, Placed, Unmoved, UNCHANGED <<pc, target, status, doneAt, queue, parked>>,
           closing' = closing \/ closing # "no", KeepsBusy
    PROVE  Placed'
<1>1. Apart
  <2>1. UNCHANGED <<queue, parked>> /\ \A j \in Jobs : pc'[j] = pc[j] /\ status'[j] = status[j]
    OBVIOUS
  <2> QED BY <2>1 DEF Apart
<1>2. ASSUME NEW i \in Jobs PROVE Tabled(i)'
  BY <1>1, TabledKept, NoneParked
<1> QED BY <1>1, <1>2, LinesKept DEF Placed

LEMMA SendPlaced ==
    ASSUME Inv, Placed, Unmoved, NEW j \in Jobs, Send(j) \/ Park(j)
    PROVE  Placed'
<1> DEFINE a == AgentOf(j)
<1>1. /\ pc[j] = "sending" /\ a \in Agents /\ status[j] = "queued"
      /\ UNCHANGED <<target, status, doneAt, rpc, rjob, closing>>
  BY AgentType DEF Send, Park, Inv, Placed, Tabled
<1>2. queue[a] \in Seq(Jobs) /\ parked[a] \in Seq(Jobs) /\ Lined(a)
      /\ ~Waits(j, queue[a]) /\ ~Waits(j, parked[a])
  BY <1>1 DEF Inv, TypeOK, Placed, Lined
<1>3. \A g \in Jobs : (Busy(g)' <=> Busy(g)) /\ (Busy(g) => rjob[g] # j)
  BY <1>1 DEF Busy, Placed, Served
<1>4. CASE Send(j)
  <2>1. /\ queue'[a] = Append(queue[a], j) /\ parked' = parked /\ parked[a] = <<>>
        /\ \A b \in Agents : b # a => queue'[b] = queue[b]
        /\ pc'[j] = "sent" /\ \A i \in Jobs : i # j => pc'[i] = pc[i]
    BY <1>1, <1>2, <1>4 DEF Send, Inv, TypeOK, Lined
  <2>2. ASSUME NEW b \in Agents PROVE Lined(b)'
    <3>1. CASE b # a
      <4>1. queue'[b] = queue[b] /\ parked'[b] = parked[b] /\ Lined(b)
        BY <2>1, <3>1 DEF Placed
      <4>2. \A i \in Jobs : Waits(i, queue[b]) \/ Waits(i, parked[b]) => i # j
        BY <1>1, <4>1 DEF Lined
      <4> QED BY <1>1, <2>1, <4>1, <4>2 DEF Lined
    <3>2. CASE b = a
      <4>1. \A i \in Jobs : Waits(i, queue'[a]) <=> Waits(i, queue[a]) \/ i = j
        BY <1>2, <2>1, JoinLine
      <4>2. Distinct(queue'[a]) /\ parked'[a] = <<>>
        BY <1>2, <2>1, JoinLine DEF Lined
      <4>3. \A i \in Jobs : Waits(i, queue'[a]) =>
                pc'[i] = "sent" /\ AgentOf(i) = a /\ status'[i] = "queued"
        BY <1>1, <1>2, <2>1, <4>1 DEF Lined
      <4>4. \A i \in Jobs : ~Waits(i, parked'[a]) /\ Distinct(parked'[a])
        BY <4>2 DEF Waits, Distinct
      <4> QED BY <1>1, <3>2, <4>2, <4>3, <4>4 DEF Lined
    <3> QED BY <3>1, <3>2
  <2>3. ASSUME NEW g \in Jobs PROVE Served(g)'
    <3>1. SUFFICES ASSUME Busy(g) PROVE Served(g)'
      BY <1>3 DEF Served
    <3>2. Served(g) /\ rjob[g] \in Jobs /\ rjob[g] # j /\ AgentOf(g) \in Agents
      BY <1>3, <3>1, RunnerType DEF Placed, Inv, TypeOK, Busy
    <3>3. ~Waits(rjob[g], queue'[AgentOf(g)])
      <4>1. Waits(rjob[g], queue'[a]) <=> Waits(rjob[g], queue[a]) \/ rjob[g] = j
        BY <1>2, <2>1, JoinLine
      <4> QED BY <2>1, <3>1, <3>2, <4>1 DEF Served
    <3> QED BY <1>1, <2>1, <3>1, <3>2, <3>3 DEF Served, Busy
  <2>4. ASSUME NEW i \in Jobs PROVE Tabled(i)'
    <3>1. CASE i = j
      <4>1. Waits(j, queue'[a])
        BY <1>2, <2>1, JoinLine
      <4> QED BY <1>1, <2>1, <3>1, <4>1 DEF Tabled, Terminal
    <3>2. CASE i # j
      <4>1. Tabled(i) /\ pc'[i] = pc[i]
        BY <2>1, <3>2 DEF Placed
      <4>2. Taken(i)' <=> Taken(i)
        BY <1>1, <1>3 DEF Taken
      <4>3. pc[i] = "sent" /\ Waits(i, queue[AgentOf(i)]) => Waits(i, queue'[AgentOf(i)])
        <5>1. pc[i] = "sent" => AgentOf(i) \in Agents
          BY AgentType DEF Inv
        <5>2. Waits(i, queue'[a]) <=> Waits(i, queue[a]) \/ i = j
          BY <1>2, <2>1, JoinLine
        <5> QED BY <2>1, <5>1, <5>2
      <4> QED BY <1>1, <4>1, <4>2, <4>3 DEF Tabled
    <3> QED BY <3>1, <3>2
  <2> QED BY <2>2, <2>3, <2>4 DEF Placed
<1>5. CASE Park(j)
  <2>1. /\ parked'[a] = Append(parked[a], j) /\ queue' = queue /\ Len(queue[a]) = QueueCap
        /\ \A b \in Agents : b # a => parked'[b] = parked[b]
        /\ pc'[j] = "parked" /\ \A i \in Jobs : i # j => pc'[i] = pc[i]
        /\ closing = "no"
    BY <1>1, <1>2, <1>5 DEF Park, Inv, TypeOK, Lined
  <2>2. ASSUME NEW b \in Agents PROVE Lined(b)'
    <3>0. \A i \in Jobs : Waits(i, queue[b]) => i # j
      BY <1>1 DEF Placed, Lined
    <3>1. CASE b # a
      <4>1. queue'[b] = queue[b] /\ parked'[b] = parked[b] /\ Lined(b)
        BY <2>1, <3>1 DEF Placed
      <4>2. \A i \in Jobs : Waits(i, queue[b]) \/ Waits(i, parked[b]) => i # j
        BY <1>1, <4>1 DEF Lined
      <4> QED BY <1>1, <2>1, <4>1, <4>2 DEF Lined
    <3>2. CASE b = a
      <4>1. \A i \in Jobs : Waits(i, parked'[a]) <=> Waits(i, parked[a]) \/ i = j
        BY <1>2, <2>1, JoinLine
      <4>2. Distinct(parked'[a])
        BY <1>2, <2>1, JoinLine DEF Lined
      <4> QED BY <1>1, <1>2, <2>1, <3>0, <3>2, <4>1, <4>2 DEF Lined
    <3> QED BY <3>1, <3>2
  <2>3. ASSUME NEW g \in Jobs PROVE Served(g)'
    <3>1. SUFFICES ASSUME Busy(g) PROVE Served(g)'
      BY <1>3 DEF Served
    <3>2. Served(g) /\ rjob[g] \in Jobs /\ rjob[g] # j
      BY <1>3, <3>1 DEF Placed, Inv, TypeOK
    <3> QED BY <1>1, <2>1, <3>1, <3>2 DEF Served
  <2>4. ASSUME NEW i \in Jobs PROVE Tabled(i)'
    <3>1. Tabled(i) /\ (Taken(i)' <=> Taken(i))
      BY <1>1, <1>3 DEF Taken, Placed
    <3> QED BY <1>1, <2>1, <3>1 DEF Tabled, Terminal
  <2> QED BY <2>2, <2>3, <2>4 DEF Placed
<1> QED BY <1>4, <1>5

\* The goroutine takes the head of its channel; the first blocked sender moves up.
LEMMA ReceiveFacts ==
    ASSUME Inv, Placed, NEW g \in Jobs, Receive(g), NEW a, a = AgentOf(g)
    PROVE  /\ a \in Agents /\ rpc[g] = "idle" /\ ~Busy(g)
           /\ queue[a] \in Seq(Jobs) /\ queue[a] # <<>> /\ parked[a] \in Seq(Jobs)
           /\ rpc' = [rpc EXCEPT ![g] = "start"] /\ rjob' = [rjob EXCEPT ![g] = Head(queue[a])]
           /\ UNCHANGED <<target, status, doneAt, closing>>
           /\ \A b \in Agents : b # a => queue'[b] = queue[b] /\ parked'[b] = parked[b]
           /\ \/ parked[a] = <<>> /\ parked'[a] = <<>> /\ queue'[a] = Tail(queue[a]) /\ pc' = pc
              \/ /\ parked[a] # <<>>
                 /\ parked'[a] = Tail(parked[a])
                 /\ queue'[a] = Append(Tail(queue[a]), Head(parked[a]))
                 /\ pc' = [pc EXCEPT ![Head(parked[a])] = "sent"]
<1>1. a \in Agents /\ rpc[g] = "idle" /\ ~Busy(g)
  BY RunnerType DEF Receive, Busy, Inv
<1>2. queue[a] \in Seq(Jobs) /\ queue[a] # <<>> /\ parked[a] \in Seq(Jobs)
  BY <1>1 DEF Receive, Inv, TypeOK
<1>3. /\ rpc' = [rpc EXCEPT ![g] = "start"] /\ rjob' = [rjob EXCEPT ![g] = Head(queue[a])]
      /\ UNCHANGED <<target, status, doneAt, closing>>
  BY DEF Receive
<1>4. CASE parked[a] = <<>>
  <2>1. queue' = [queue EXCEPT ![a] = Tail(queue[a])] /\ pc' = pc /\ parked' = parked
    BY <1>4 DEF Receive
  <2> QED BY <1>1, <1>2, <1>3, <1>4, <2>1 DEF Inv, TypeOK
<1>5. CASE parked[a] # <<>>
  <2>1. /\ queue' = [queue EXCEPT ![a] = Append(Tail(queue[a]), Head(parked[a]))]
        /\ parked' = [parked EXCEPT ![a] = Tail(parked[a])]
        /\ pc' = [pc EXCEPT ![Head(parked[a])] = "sent"]
    BY <1>5 DEF Receive
  <2> QED BY <1>1, <1>2, <1>3, <1>5, <2>1 DEF Inv, TypeOK
<1> QED BY <1>4, <1>5

\* Who waits where after that.
LEMMA ReceiveLine ==
    ASSUME Inv, Placed, NEW g \in Jobs, Receive(g), NEW a, a = AgentOf(g),
           NEW f, f = Head(queue[a])
    PROVE  /\ f \in Jobs /\ AgentOf(f) = a /\ pc[f] = "sent" /\ status[f] = "queued"
           /\ ~Waits(f, queue'[a]) /\ pc'[f] = "sent"
           /\ Distinct(queue'[a]) /\ Distinct(parked'[a])
           /\ parked'[a] # <<>> => Len(queue'[a]) = QueueCap
           /\ \A i \in Jobs : Waits(i, queue[a]) /\ i # f => Waits(i, queue'[a])
           /\ \A i \in Jobs : Waits(i, queue'[a]) =>
                 i # f /\ pc'[i] = "sent" /\ AgentOf(i) = a /\ status[i] = "queued"
           /\ \A i \in Jobs : Waits(i, parked'[a]) => pc'[i] = "parked" /\ AgentOf(i) = a
           /\ \A i \in Jobs : pc'[i] # pc[i] =>
                 /\ pc[i] = "parked" /\ AgentOf(i) = a
                 /\ pc'[i] = "sent" /\ Waits(i, queue'[a]) /\ status[i] = "queued"
<1>1. /\ a \in Agents /\ Lined(a)
      /\ queue[a] \in Seq(Jobs) /\ queue[a] # <<>> /\ parked[a] \in Seq(Jobs)
  BY ReceiveFacts DEF Placed
<1>2. /\ f \in Jobs /\ Waits(f, queue[a]) /\ Tail(queue[a]) \in Seq(Jobs)
      /\ \A i \in Jobs : Waits(i, queue[a]) <=> i = f \/ Waits(i, Tail(queue[a]))
      /\ Distinct(Tail(queue[a])) /\ ~Waits(f, Tail(queue[a]))
  BY <1>1, LeaveLine DEF Lined
<1>3. AgentOf(f) = a /\ pc[f] = "sent" /\ status[f] = "queued"
  BY <1>1, <1>2 DEF Lined
<1>4. CASE parked[a] = <<>> /\ parked'[a] = <<>> /\ queue'[a] = Tail(queue[a]) /\ pc' = pc
  <2>1. \A i \in Jobs : ~Waits(i, parked'[a]) /\ Distinct(parked'[a])
    BY <1>4 DEF Waits, Distinct
  <2> QED BY <1>1, <1>2, <1>3, <1>4, <2>1 DEF Lined
<1>5. CASE /\ parked[a] # <<>>
           /\ parked'[a] = Tail(parked[a])
           /\ queue'[a] = Append(Tail(queue[a]), Head(parked[a]))
           /\ pc' = [pc EXCEPT ![Head(parked[a])] = "sent"]
  <2>1. PICK p : p = Head(parked[a])
    OBVIOUS
  <2>2. /\ p \in Jobs /\ Waits(p, parked[a]) /\ Distinct(Tail(parked[a])) /\ ~Waits(p, Tail(parked[a]))
        /\ \A i \in Jobs : Waits(i, parked[a]) <=> i = p \/ Waits(i, Tail(parked[a]))
    BY <1>1, <1>5, <2>1, LeaveLine DEF Lined
  <2>3. pc[p] = "parked" /\ AgentOf(p) = a /\ status[p] = "queued"
    BY <1>1, <2>2 DEF Lined, Placed, Tabled
  <2>4. ~Waits(p, Tail(queue[a])) /\ p # f
    BY <1>1, <1>2, <1>3, <2>2, <2>3 DEF Lined
  <2>5. /\ \A i \in Jobs : Waits(i, queue'[a]) <=> Waits(i, Tail(queue[a])) \/ i = p
        /\ Distinct(queue'[a])
    <3>1. PICK t : t = Tail(queue[a])
      OBVIOUS
    <3>2. t \in Seq(Jobs) /\ Distinct(t) /\ ~Waits(p, t) /\ queue'[a] = Append(t, p)
      BY <1>2, <1>5, <2>1, <2>4, <3>1
    <3>3. /\ \A i : Waits(i, Append(t, p)) <=> Waits(i, t) \/ i = p
          /\ Distinct(Append(t, p))
      BY <2>2, <3>2, JoinLine
    <3> QED BY <3>1, <3>2, <3>3
  <2>6. pc'[p] = "sent" /\ \A i \in Jobs : i # p => pc'[i] = pc[i]
    BY <1>5, <2>1, <2>2 DEF Inv, TypeOK
  <2>7. Len(queue'[a]) = QueueCap
    <3>1. Len(queue[a]) = QueueCap /\ Len(Tail(queue[a])) = Len(queue[a]) - 1
      BY <1>1, <1>5 DEF Lined
    <3>2. Len(queue'[a]) = Len(Tail(queue[a])) + 1
      BY <1>2, <1>5, <2>1, <2>2
    <3> QED BY <3>1, <3>2
  <2>8. \A i \in Jobs : Waits(i, queue'[a]) =>
            i # f /\ pc'[i] = "sent" /\ AgentOf(i) = a /\ status[i] = "queued"
    BY <1>1, <1>2, <2>3, <2>4, <2>5, <2>6 DEF Lined
  <2>9. \A i \in Jobs : Waits(i, parked'[a]) => pc'[i] = "parked" /\ AgentOf(i) = a
    BY <1>1, <1>5, <2>2, <2>6 DEF Lined
  <2>10. ~Waits(f, queue'[a]) /\ pc'[f] = "sent"
    BY <1>2, <1>3, <2>4, <2>5, <2>6
  <2>11. Distinct(parked'[a])
    BY <1>5, <2>2
  <2>12. \A i \in Jobs : Waits(i, queue[a]) /\ i # f => Waits(i, queue'[a])
    BY <1>2, <2>5
  <2>13. \A i \in Jobs : pc'[i] # pc[i] =>
            /\ pc[i] = "parked" /\ AgentOf(i) = a
            /\ pc'[i] = "sent" /\ Waits(i, queue'[a]) /\ status[i] = "queued"
    BY <2>2, <2>3, <2>5, <2>6
  <2> QED BY <1>2, <1>3, <2>5, <2>7, <2>8, <2>9, <2>10, <2>11, <2>12, <2>13
<1> QED BY <1>4, <1>5, ReceiveFacts

LEMMA ReceivePlaced ==
    ASSUME Inv, Placed, Unmoved, NEW g \in Jobs, Receive(g)
    PROVE  Placed'
<1>1. PICK a, f : a = AgentOf(g) /\ f = Head(queue[a])
  OBVIOUS
<1>2. /\ a \in Agents /\ rpc[g] = "idle" /\ ~Busy(g)
      /\ rpc' = [rpc EXCEPT ![g] = "start"] /\ rjob' = [rjob EXCEPT ![g] = f]
      /\ UNCHANGED <<target, status, doneAt, closing>>
      /\ \A b \in Agents : b # a => queue'[b] = queue[b] /\ parked'[b] = parked[b]
  BY <1>1, ReceiveFacts
<1>3. /\ f \in Jobs /\ AgentOf(f) = a /\ pc[f] = "sent" /\ status[f] = "queued"
      /\ ~Waits(f, queue'[a]) /\ pc'[f] = "sent"
      /\ Distinct(queue'[a]) /\ Distinct(parked'[a])
      /\ parked'[a] # <<>> => Len(queue'[a]) = QueueCap
      /\ \A i \in Jobs : Waits(i, queue[a]) /\ i # f => Waits(i, queue'[a])
      /\ \A i \in Jobs : Waits(i, queue'[a]) =>
            i # f /\ pc'[i] = "sent" /\ AgentOf(i) = a /\ status[i] = "queued"
      /\ \A i \in Jobs : Waits(i, parked'[a]) => pc'[i] = "parked" /\ AgentOf(i) = a
      /\ \A i \in Jobs : pc'[i] # pc[i] =>
            /\ pc[i] = "parked" /\ AgentOf(i) = a
            /\ pc'[i] = "sent" /\ Waits(i, queue'[a]) /\ status[i] = "queued"
  BY <1>1, ReceiveLine
<1>4. /\ rpc'[g] = "start" /\ rjob'[g] = f /\ Busy(g)'
      /\ \A h \in Jobs : h # g => rpc'[h] = rpc[h] /\ rjob'[h] = rjob[h] /\ (Busy(h)' <=> Busy(h))
  BY <1>2 DEF Inv, TypeOK, Busy
<1>5. ASSUME NEW b \in Agents PROVE Lined(b)'
  <2>1. CASE b = a
    BY <1>2, <1>3, <2>1 DEF Lined
  <2>2. CASE b # a
    <3>1. Lined(b) /\ queue'[b] = queue[b] /\ parked'[b] = parked[b]
      BY <1>2, <2>2 DEF Placed
    <3>2. \A i \in Jobs : Waits(i, queue[b]) \/ Waits(i, parked[b]) => pc'[i] = pc[i]
      BY <1>3, <2>2, <3>1 DEF Lined
    <3> QED BY <1>2, <3>1, <3>2 DEF Lined
  <2> QED BY <2>1, <2>2
<1>6. ASSUME NEW h \in Jobs PROVE Served(h)'
  <2>1. CASE h = g
    BY <1>1, <1>2, <1>3, <1>4, <2>1 DEF Served
  <2>2. CASE h # g
    <3>1. SUFFICES ASSUME Busy(h) PROVE Served(h)'
      BY <1>4, <2>2 DEF Served
    <3>2. Served(h) /\ rjob[h] \in Jobs /\ rpc[h] # "none" /\ AgentOf(h) \in Agents
      BY <3>1, RunnerType DEF Placed, Inv, TypeOK, Busy
    <3>3. AgentOf(h) # a
      BY <1>1, <1>2, <2>2, <3>2 DEF Inv, OneRunner
    <3>4. queue'[AgentOf(h)] = queue[AgentOf(h)]
      BY <1>2, <3>2, <3>3
    <3>5. pc'[rjob[h]] = "sent"
      BY <1>3, <3>1, <3>2 DEF Served
    <3> QED BY <1>2, <1>4, <2>2, <3>1, <3>2, <3>4, <3>5 DEF Served
  <2> QED BY <2>1, <2>2
<1>7. ASSUME NEW i \in Jobs PROVE Tabled(i)'
  <2>1. Tabled(i)
    BY DEF Placed
  <2>2. Taken(f)'
    BY <1>3, <1>4 DEF Taken
  <2>3. Taken(i) => Taken(i)'
    <3>1. ASSUME NEW h \in Jobs, Busy(h), rjob[h] = i PROVE Taken(i)'
      <4>1. h # g
        BY <1>2, <3>1
      <4> QED BY <1>4, <3>1, <4>1 DEF Taken
    <3> QED BY <3>1 DEF Taken
  <2>4. CASE pc'[i] # pc[i]
    BY <1>2, <1>3, <2>1, <2>4 DEF Tabled, Terminal
  <2>5. CASE pc'[i] = pc[i]
    <3>1. pc[i] = "sent" /\ Waits(i, queue[AgentOf(i)]) => Waits(i, queue'[AgentOf(i)]) \/ i = f
      <4>1. pc[i] = "sent" => AgentOf(i) \in Agents
        BY AgentType DEF Inv
      <4> QED BY <1>2, <1>3, <4>1
    <3> QED BY <1>2, <2>1, <2>2, <2>3, <2>5, <3>1 DEF Tabled
  <2> QED BY <2>4, <2>5
<1> QED BY <1>5, <1>6, <1>7 DEF Placed

\* The first status and the last one that a goroutine reports.
LEMMA ReportPlaced ==
    ASSUME Inv, Placed, Unmoved, NEW g \in Jobs, SetRunning(g) \/ Report(g)
    PROVE  Placed'
<1>0. PICK j : j = rjob[g]
  OBVIOUS
<1>1. /\ Busy(g) /\ j \in Jobs /\ pc[j] = "sent" /\ AgentOf(j) = AgentOf(g)
      /\ status[j] \in {"queued", "running"}
      /\ UNCHANGED <<pc, target, queue, parked, closing>>
  BY <1>0 DEF SetRunning, Report, Busy, Placed, Served, Inv, TypeOK
<1>2. PICK s \in {"running", "done", "failed"} :
        /\ status' = [status EXCEPT ![j] = s]
        /\ doneAt' = [doneAt EXCEPT ![j] = IF s \in Terminal THEN finishes + 1 ELSE 0]
        /\ s = "running" <=> SetRunning(g)
  <2>1. CASE SetRunning(g)
    BY <1>0, <1>1, <2>1 DEF SetRunning, SetStatus, Report
  <2>2. CASE Report(g)
    BY <1>0, <1>1, <2>2 DEF SetRunning, SetStatus, Report
  <2> QED BY <2>1, <2>2
<1>3. /\ status'[j] = s /\ \A i \in Jobs : i # j => status'[i] = status[i] /\ doneAt'[i] = doneAt[i]
      /\ s \in Terminal => doneAt'[j] # 0
  BY <1>1, <1>2 DEF Inv, TypeOK
<1>4. /\ \A h \in Jobs : h # g => rpc'[h] = rpc[h] /\ rjob'[h] = rjob[h] /\ (Busy(h)' <=> Busy(h))
      /\ s = "running" => rpc'[g] = "load" /\ rjob'[g] = j /\ Busy(g)'
      /\ s # "running" => ~Busy(g)'
  BY <1>0, <1>2 DEF SetRunning, Report, Inv, TypeOK, Busy
<1>5. ~Waits(j, queue[AgentOf(g)]) /\ \A h \in Jobs : Busy(h) /\ rjob[h] = j => h = g
  BY <1>0, <1>1, TakenOnce DEF Placed, Served
<1>6. ASSUME NEW b \in Agents PROVE Lined(b)'
  <2>1. Lined(b) /\ queue'[b] = queue[b] /\ parked'[b] = parked[b]
    BY <1>1 DEF Placed
  <2>2. \A i \in Jobs : Waits(i, queue[b]) => i # j
    BY <1>1, <1>5, <2>1 DEF Lined
  <2> QED BY <1>1, <1>3, <2>1, <2>2 DEF Lined
<1>7. ASSUME NEW h \in Jobs PROVE Served(h)'
  <2>1. CASE h = g
    BY <1>0, <1>1, <1>3, <1>4, <1>5, <2>1 DEF Served
  <2>2. CASE h # g
    <3>1. SUFFICES ASSUME Busy(h) PROVE Served(h)'
      BY <1>4, <2>2 DEF Served
    <3>2. Served(h) /\ rjob[h] \in Jobs /\ rjob[h] # j
      BY <1>5, <2>2, <3>1 DEF Placed, Inv, TypeOK
    <3> QED BY <1>1, <1>3, <1>4, <2>2, <3>1, <3>2 DEF Served
  <2> QED BY <2>1, <2>2
<1>8. ASSUME NEW i \in Jobs PROVE Tabled(i)'
  <2>1. Tabled(i)
    BY DEF Placed
  <2>2. CASE i = j
    <3>1. s = "running" => Taken(j)'
      BY <1>4 DEF Taken
    <3> QED BY <1>1, <1>3, <2>2, <3>1 DEF Tabled, Terminal
  <2>3. CASE i # j
    <3>1. Taken(i) => Taken(i)'
      <4>1. ASSUME NEW h \in Jobs, Busy(h), rjob[h] = i PROVE Taken(i)'
        <5>1. h # g
          BY <1>0, <2>3, <4>1
        <5> QED BY <1>4, <4>1, <5>1 DEF Taken
      <4> QED BY <4>1 DEF Taken
    <3> QED BY <1>1, <1>3, <2>1, <2>3, <3>1 DEF Tabled
  <2> QED BY <2>2, <2>3
<1> QED BY <1>6, <1>7, <1>8 DEF Placed

\* Close wakes the blocked senders; what is in the channels stays there.
LEMMA BeginClosePlaced ==
    ASSUME Inv, Placed, Unmoved, BeginClose
    PROVE  Placed'
<1>1. /\ pc' = [j \in Jobs |-> IF pc[j] = "parked" THEN "dropped" ELSE pc[j]]
      /\ parked' = [a \in Agents |-> <<>>]
      /\ UNCHANGED <<target, status, doneAt, queue, rpc, rjob>>
  BY DEF BeginClose
<1>2. ASSUME NEW b \in Agents PROVE Lined(b)'
  <2>1. Lined(b) /\ queue'[b] = queue[b] /\ parked'[b] = <<>>
    BY <1>1 DEF Placed
  <2>2. \A i \in Jobs : Waits(i, queue[b]) => pc'[i] = "sent"
    BY <1>1, <2>1 DEF Lined
  <2>3. \A i \in Jobs : ~Waits(i, parked'[b])
    BY <2>1 DEF Waits
  <2>4. Distinct(parked'[b])
    BY <2>1 DEF Distinct
  <2> QED BY <1>1, <2>1, <2>2, <2>3, <2>4 DEF Lined
<1>3. ASSUME NEW h \in Jobs PROVE Served(h)'
  <2>1. Served(h) /\ rjob[h] \in Jobs
    BY DEF Placed, Inv, TypeOK
  <2> QED BY <1>1, <2>1 DEF Served, Busy
<1>4. ASSUME NEW i \in Jobs PROVE Tabled(i)'
  <2>1. Tabled(i) /\ (Taken(i)' <=> Taken(i))
    BY <1>1 DEF Placed, Taken, Busy
  <2> QED BY <1>1, <2>1 DEF Tabled, Terminal
<1> QED BY <1>2, <1>3, <1>4 DEF Placed

LEMMA CloseQueuePlaced ==
    ASSUME Inv, Placed, Unmoved, NEW a \in Agents, CloseQueue(a)
    PROVE  Placed'
<1>1. closing # "no" /\ UNCHANGED <<target, status, doneAt, queue, rpc, rjob, closing>>
  BY DEF CloseQueue
<1>2. parked[a] = <<>> /\ \A j \in Jobs : pc[j] # "parked"
  BY <1>1, NoneParked
<1>3. pc' = pc /\ parked' = parked
  BY <1>2 DEF CloseQueue, Inv, TypeOK
<1>4. KeepsBusy
  BY <1>1 DEF KeepsBusy, Busy
<1> QED BY <1>1, <1>3, <1>4, ApartPlaced

\* A fresh worker has nothing anywhere.
LEMMA FreshPlaced ==
    ASSUME Fresh(status, doneAt, chan, queue, parked, rpc, rjob, loaded),
           \A j \in Jobs : pc[j] \in {"idle", "gone"}
    PROVE  Placed
<1>1. ASSUME NEW a \in Agents PROVE Lined(a)
  BY DEF Fresh, Lined, Waits, Distinct
<1>2. ASSUME NEW g \in Jobs PROVE Served(g)
  BY DEF Fresh, Served, Busy
<1>3. ASSUME NEW j \in Jobs PROVE Tabled(j)
  BY DEF Fresh, Tabled, Terminal
<1> QED BY <1>1, <1>2, <1>3 DEF Placed

LEMMA RestartPlaced ==
    ASSUME Restart
    PROVE  Placed'
<1>1. /\ \A j \in Jobs : pc'[j] \in {"idle", "gone"}
      /\ Fresh(status', doneAt', chan', queue', parked', rpc', rjob', loaded')
  BY DEF Restart
<1>2. ASSUME NEW a \in Agents PROVE Lined(a)'
  BY <1>1 DEF Fresh, Lined, Waits, Distinct
<1>3. ASSUME NEW g \in Jobs PROVE Served(g)'
  BY <1>1 DEF Fresh, Served, Busy
<1>4. ASSUME NEW j \in Jobs PROVE Tabled(j)'
  BY <1>1 DEF Fresh, Tabled, Terminal
<1> QED BY <1>2, <1>3, <1>4 DEF Placed

LEMMA NextPlaced == Inv /\ Placed /\ [Next]_vars => Placed'
<1> SUFFICES ASSUME Inv, Placed, [Next]_vars PROVE Placed'
  OBVIOUS
<1>0. Unmoved
  BY UnmovedStep DEF Inv
<1>1. ASSUME NEW j \in Jobs, Arrive(j) PROVE Placed'
  BY <1>0, <1>1, ArrivePlaced DEF Arrive
<1>2. ASSUME NEW j \in Jobs, Sender(j) PROVE Placed'
  BY <1>0, <1>2, EnqueuePlaced, LeavingPlaced, SendPlaced DEF Sender
<1>3. ASSUME NEW g \in Jobs, Receive(g) PROVE Placed'
  BY <1>0, <1>3, ReceivePlaced
<1>4. ASSUME NEW g \in Jobs, SetRunning(g) \/ Report(g) PROVE Placed'
  BY <1>0, <1>4, ReportPlaced
<1>5. ASSUME NEW g \in Jobs, RunnerExit(g) PROVE Placed'
  <2>1. KeepsBusy
    BY <1>5 DEF RunnerExit, KeepsBusy, Busy, Inv, TypeOK
  <2> QED BY <1>0, <1>5, <2>1, ApartPlaced DEF RunnerExit
<1>6. ASSUME NEW g \in Jobs, NEW ok \in BOOLEAN,
             GetTranscript(g, ok) \/ ProcessSession(g, ok) \/ MarkProcessed(g, ok)
      PROVE Placed'
  <2>1. /\ rpc[g] \in {"load", "process", "mark"} /\ rjob' = rjob
        /\ \/ rpc' = [rpc EXCEPT ![g] = "process"] \/ rpc' = [rpc EXCEPT ![g] = "mark"]
           \/ rpc' = [rpc EXCEPT ![g] = "reportDone"] \/ rpc' = [rpc EXCEPT ![g] = "reportFailed"]
        /\ UNCHANGED <<pc, target, status, doneAt, queue, parked, closing>>
    BY <1>6 DEF GetTranscript, ProcessSession, MarkProcessed
  <2>2. KeepsBusy
    BY <2>1 DEF KeepsBusy, Busy, Inv, TypeOK
  <2> QED BY <1>0, <2>1, <2>2, ApartPlaced
<1>7. CASE BeginClose
  BY <1>0, <1>7, BeginClosePlaced
<1>8. ASSUME NEW a \in Agents, CloseQueue(a) PROVE Placed'
  BY <1>0, <1>8, CloseQueuePlaced
<1>9. CASE CloseReturn
  <2>1. KeepsBusy
    BY <1>9 DEF CloseReturn, KeepsBusy, Busy
  <2> QED BY <1>0, <1>9, <2>1, ApartPlaced DEF CloseReturn
<1>10. CASE Restart
  BY <1>10, RestartPlaced
<1>11. CASE UNCHANGED vars
  <2>1. KeepsBusy
    BY <1>11 DEF vars, KeepsBusy, Busy
  <2> QED BY <1>0, <1>11, <2>1, ApartPlaced DEF vars
<1> QED
  BY <1>1, <1>2, <1>3, <1>4, <1>5, <1>6, <1>7, <1>8, <1>9, <1>10, <1>11
     DEF Next, Runner, FinishClose

LEMMA PlacedHolds == Spec => [](Inv /\ Placed)
<1>1. Init => Placed
  <2> SUFFICES ASSUME Init PROVE Placed
    OBVIOUS
  <2> QED BY FreshPlaced DEF Init
<1> QED BY <1>1, InitInv, NextInv, NextPlaced, PTL DEF Spec

\* A job that somebody will still run is in the table and not shown as finished, and
\* one shown as queued or running after its hand-over is held by somebody: pruneLocked
\* and the queues never disagree, under any interleaving of pushes, goroutines, Close
\* and exits.
THEOREM TableMatches == Spec => []JobTableMatchesQueues
<1>1. Inv /\ Placed => JobTableMatchesQueues
  <2> SUFFICES ASSUME Inv, Placed, NEW j \in Jobs
               PROVE  /\ Held(j) => status[j] \in {"queued", "running"}
                      /\ pc[j] = "sent" /\ status[j] \in {"queued", "running"} => Held(j)
      BY DEF JobTableMatchesQueues
  <2>1. ASSUME NEW a \in Agents, NEW i \in 1..Len(queue[a]), queue[a][i] = j
        PROVE  status[j] = "queued"
    BY <2>1 DEF Placed, Lined, Waits
  <2>2. ASSUME NEW g \in Jobs, Busy(g), rjob[g] = j PROVE status[j] \in {"queued", "running"}
    BY <2>2 DEF Placed, Served
  <2>3. ASSUME pc[j] = "sent", status[j] \in {"queued", "running"} PROVE Held(j)
    <3>1. AgentOf(j) \in Agents
      BY <2>3, AgentType DEF Inv
    <3> QED BY <2>3, <3>1 DEF Placed, Tabled, Waits, Taken, Held
  <2>4. pc[j] \in {"inserted", "sending", "parked"} => status[j] = "queued"
    BY DEF Placed, Tabled
  <2> QED BY <2>1, <2>2, <2>3, <2>4 DEF Held
<1> QED BY <1>1, PlacedHolds, PTL

\* A sender that Close finds blocked leaves by its done case: it is woken before any
\* channel is closed.
THEOREM ParkedSurvive == Spec => ParkedSendersSurviveClose
<1>1. Inv /\ Placed /\ [Next]_vars =>
        [\A j \in Jobs : pc[j] = "parked" => pc'[j] # "panicked"]_vars
  <2> SUFFICES ASSUME Inv, Placed, [Next]_vars, NEW j \in Jobs, pc[j] = "parked"
               PROVE  pc'[j] # "panicked"
      OBVIOUS
  <2>1. closing = "no"
    BY DEF Placed, Tabled
  <2>2. CASE \E i \in Jobs : Arrive(i) \/ Sender(i)
    BY <2>2 DEF Arrive, Sender, HandleSessions, HandleFork, Enqueue, EnqueueItem, Send, Park,
                DropOnDone, PanicOnClosed, Inv, TypeOK
  <2>3. CASE \E g \in Jobs : Runner(g)
    <3>1. PICK g \in Jobs : Runner(g)
      BY <2>3
    <3>2. CASE Receive(g)
      BY <3>2 DEF Receive, Inv, TypeOK
    <3>3. CASE ~Receive(g)
      BY <3>1, <3>3 DEF Runner, RunnerExit, SetRunning, Report, GetTranscript,
                  ProcessSession, MarkProcessed
    <3> QED BY <3>2, <3>3
  <2>4. CASE BeginClose \/ FinishClose \/ Restart
    BY <2>1, <2>4 DEF BeginClose, FinishClose, CloseQueue, CloseReturn, Restart
  <2>5. CASE UNCHANGED vars
    BY <2>5 DEF vars
  <2> QED BY <2>2, <2>3, <2>4, <2>5 DEF Next
<1> QED BY <1>1, PlacedHolds, PTL DEF Spec, ParkedSendersSurviveClose

\* The table is finite, whatever the set of job ids is, and what counts as finished
\* has a time.
LEMMA TableFinite == IsFiniteSet(InTable) /\ Inv /\ Placed /\ [Next]_vars => IsFiniteSet(InTable)'
<1> SUFFICES ASSUME IsFiniteSet(InTable), Inv, Placed, [Next]_vars PROVE IsFiniteSet(InTable')
  OBVIOUS
<1>1. ASSUME InTable' \subseteq InTable PROVE IsFiniteSet(InTable')
  BY <1>1, FS_Subset
<1>2. ASSUME UNCHANGED status PROVE IsFiniteSet(InTable')
  BY <1>1, <1>2 DEF InTable
<1>3. ASSUME NEW j \in Jobs, Enqueue(j) PROVE IsFiniteSet(InTable')
  <2>1. InTable' \subseteq InTable \cup {j}
    BY <1>3 DEF Enqueue, InTable
  <2>2. IsFiniteSet(InTable \cup {j})
    BY FS_AddElement
  <2> QED BY <2>1, <2>2, FS_Subset
<1>4. ASSUME NEW g \in Jobs, SetRunning(g) \/ Report(g) PROVE IsFiniteSet(InTable')
  <2>1. PICK j \in Jobs, s \in Statuses : SetStatus(j, s)
    BY <1>4 DEF SetRunning, Report, Inv, TypeOK, Statuses, Terminal
  <2>2. InTable' \subseteq InTable
    BY <2>1 DEF SetStatus, InTable, Inv, TypeOK
  <2> QED BY <1>1, <2>2
<1>5. CASE Restart
  <2>1. InTable' \subseteq InTable
    BY <1>5 DEF Restart, Fresh, InTable
  <2> QED BY <1>1, <2>1
<1>6. CASE BeginClose \/ FinishClose \/ UNCHANGED vars
  BY <1>2, <1>6 DEF BeginClose, FinishClose, CloseQueue, CloseReturn, vars
<1>7. ASSUME NEW j \in Jobs, Arrive(j) \/ (Sender(j) /\ ~Enqueue(j)) PROVE IsFiniteSet(InTable')
  BY <1>2, <1>7 DEF Arrive, Sender, HandleSessions, HandleFork, EnqueueItem, Send, Park,
              DropOnDone, PanicOnClosed
<1>8. ASSUME NEW g \in Jobs, Runner(g), ~SetRunning(g), ~Report(g) PROVE IsFiniteSet(InTable')
  BY <1>2, <1>8 DEF Runner, Receive, RunnerExit, GetTranscript, ProcessSession, MarkProcessed
<1> QED BY <1>3, <1>4, <1>5, <1>6, <1>7, <1>8 DEF Next

\* pruneLocked deletes only what has finished, the oldest first, and no more than it
\* takes to have MaxJobs jobs with the new one.
LEMMA PruneEvictsOldest ==
    ASSUME IsFiniteSet(InTable), Inv, Placed, NEW j \in Jobs, Enqueue(j),
           NEW e \in Jobs, status[e] # "none", status'[e] = "none"
    PROVE  /\ status[e] \in Terminal
           /\ \A t \in Jobs : status'[t] \in Terminal => doneAt[e] <= doneAt'[t]
           /\ Cardinality(InTable') >= MaxJobs
<1>1. PICK E \in SUBSET Jobs :
        /\ PruneSet(E)
        /\ status' = [i \in Jobs |-> IF i = j THEN "queued"
                                     ELSE IF i \in E THEN "none" ELSE status[i]]
        /\ doneAt' = [i \in Jobs |-> IF i \in E THEN 0 ELSE doneAt[i]]
  BY DEF Enqueue
<1>2. e \in E /\ e # j /\ j \notin InTable
  BY <1>1 DEF Enqueue, Placed, Tabled, InTable
<1>3. \A t \in E : status[t] \in Terminal
  BY <1>1 DEF PruneSet, Prunable
<1>4. ASSUME NEW t \in Jobs, status'[t] \in Terminal PROVE doneAt[e] <= doneAt'[t]
  <2>1. t # j /\ t \notin E /\ status[t] \in Terminal /\ doneAt'[t] = doneAt[t]
    BY <1>1, <1>4 DEF Terminal
  <2>2. Prunable(t)
    BY <2>1 DEF Placed, Tabled, Prunable
  <2>3. ~Older(t, e)
    BY <1>1, <1>2, <2>1, <2>2 DEF PruneSet
  <2> QED BY <2>1, <2>3 DEF Older, Inv, TypeOK
<1>5. Cardinality(InTable') >= MaxJobs
  <2>1. E \subseteq InTable /\ InTable' = (InTable \ E) \cup {j} /\ j \notin InTable \ E
    BY <1>1, <1>2, <1>3 DEF InTable, Terminal
  <2>2. /\ IsFiniteSet(E) /\ IsFiniteSet(InTable \ E)
        /\ Cardinality(E) \in Nat /\ Cardinality(InTable) \in Nat /\ Cardinality(InTable \ E) \in Nat
    BY <2>1, FS_Subset, FS_CardinalityType
  <2>3. Cardinality(InTable) = Cardinality(E) + Cardinality(InTable \ E)
    <3>1. InTable = E \cup (InTable \ E) /\ E \cap (InTable \ E) = {}
      BY <2>1
    <3>2. Cardinality(InTable) = Cardinality(E) + Cardinality(InTable \ E) - Cardinality(E \cap (InTable \ E))
      BY <2>2, <3>1, FS_Union
    <3> QED BY <2>2, <3>1, <3>2, FS_EmptySet
  <2>4. Cardinality(InTable') = Cardinality(InTable \ E) + 1
    BY <2>1, <2>2, FS_AddElement
  <2>5. Cardinality(E) # 0
    BY <1>2, <2>2, FS_EmptySet
  <2>6. Cardinality(E) <= Excess(Cardinality(InTable) + 1)
    <3>1. {t \in Jobs : Prunable(t)} \subseteq InTable
      BY DEF InTable, Prunable, Terminal
    <3>2. Cardinality({t \in Jobs : Prunable(t)}) \in Nat
      BY <3>1, FS_Subset, FS_CardinalityType
    <3> HIDE DEF Excess
    <3>3. Excess(Cardinality(InTable) + 1) \in Nat
      BY <2>2 DEF Excess
    <3> QED BY <1>1, <3>2, <3>3 DEF PruneSet
  <2> QED BY <2>2, <2>3, <2>4, <2>5, <2>6 DEF Excess
<1>6. status[e] \in Terminal
  BY <1>2, <1>3
<1> QED BY <1>4, <1>5, <1>6

\* Only a finished job leaves the table, the oldest first, and only when the table is
\* over its bound (pruneLocked), for every bound and every number of jobs.
THEOREM EvictsOldest == Spec => EvictsOldestTerminal
<1> DEFINE Finite == IsFiniteSet(InTable)
<1>1. Init => Finite
  <2>1. Init => InTable = {}
    BY DEF Init, Fresh, InTable
  <2> QED BY <2>1, FS_EmptySet
<1>2. Finite /\ Inv /\ Placed /\ [Next]_vars => Finite'
  BY TableFinite
<1>3. Finite /\ Inv /\ Placed /\ [Next]_vars =>
        [\A e \in Jobs :
            status[e] # "none" /\ status'[e] = "none" /\ restarts' = restarts =>
                /\ status[e] \in Terminal
                /\ \A t \in Jobs : status'[t] \in Terminal => doneAt[e] <= doneAt'[t]
                /\ Cardinality(InTable') >= MaxJobs]_vars
  <2> SUFFICES ASSUME Finite, Inv, Placed, [Next]_vars,
                      NEW e \in Jobs, status[e] # "none", status'[e] = "none", restarts' = restarts
               PROVE  /\ status[e] \in Terminal
                      /\ \A t \in Jobs : status'[t] \in Terminal => doneAt[e] <= doneAt'[t]
                      /\ Cardinality(InTable') >= MaxJobs
      OBVIOUS
  <2>1. status' # status
    OBVIOUS
  <2>2. ~Restart
    <3>1. Restart => restarts' = restarts + 1 /\ restarts \in Nat
      BY DEF Restart, Inv, TypeOK
    <3> QED BY <3>1
  <2>3. ~(BeginClose \/ FinishClose \/ UNCHANGED vars)
    BY <2>1 DEF BeginClose, FinishClose, CloseQueue, CloseReturn, vars
  <2>4. ASSUME NEW g \in Jobs, Runner(g) PROVE FALSE
    <3>1. CASE SetRunning(g) \/ Report(g)
      <4>1. PICK j \in Jobs, s \in Statuses \ {"none"} : SetStatus(j, s)
        BY <3>1 DEF SetRunning, Report, Inv, TypeOK, Statuses, Terminal
      <4> QED BY <4>1 DEF SetStatus, Inv, TypeOK
    <3>2. CASE ~(SetRunning(g) \/ Report(g))
      BY <2>1, <2>4, <3>2 DEF Runner, Receive, RunnerExit, GetTranscript, ProcessSession, MarkProcessed
    <3> QED BY <3>1, <3>2
  <2>5. ASSUME NEW j \in Jobs, Arrive(j) \/ (Sender(j) /\ ~Enqueue(j)) PROVE FALSE
    BY <2>1, <2>5 DEF Arrive, Sender, HandleSessions, HandleFork, EnqueueItem, Send, Park,
                DropOnDone, PanicOnClosed
  <2>6. PICK j \in Jobs : Enqueue(j)
    BY <2>2, <2>3, <2>4, <2>5 DEF Next, Sender
  <2> QED BY <2>6, PruneEvictsOldest
<1> HIDE DEF Finite
<1> QED BY <1>1, <1>2, <1>3, PlacedHolds, PTL DEF Spec, EvictsOldestTerminal

-----------------------------------------------------------------------------
(***************************************************************************)
(* The refinement of JobService.                                           *)
(***************************************************************************)
ServiceStates == [j \in Jobs |-> ServiceState(j)]
ServiceLines == [a \in Agents |-> queue[a] \o parked[a]]
ServiceMarks == {k \in Keys : marked[k]}

\* What the refinement mapping says of a job, by where the job is.
StateOf ==
    \A j \in Jobs :
        /\ Taken(j) => ServiceState(j) = "running" /\ status[j] \in {"queued", "running"}
        /\ pc[j] \in {"idle", "saved"} => ServiceState(j) = "none" /\ ~Taken(j) /\ status[j] = "none"
        /\ pc[j] = "gone" => ServiceState(j) = "gone" /\ ~Taken(j) /\ status[j] = "none"
        /\ ~Taken(j) /\ status[j] # "none" => ServiceState(j) = status[j]
        /\ ~Taken(j) /\ status[j] = "none" /\ pc[j] \notin {"idle", "saved"} => ServiceState(j) = "gone"

LEMMA StateOfHolds == Inv /\ Placed => StateOf
<1> SUFFICES ASSUME Inv, Placed, NEW j \in Jobs
             PROVE  /\ Taken(j) => ServiceState(j) = "running" /\ status[j] \in {"queued", "running"}
                    /\ pc[j] \in {"idle", "saved"} => ServiceState(j) = "none" /\ ~Taken(j) /\ status[j] = "none"
                    /\ pc[j] = "gone" => ServiceState(j) = "gone" /\ ~Taken(j) /\ status[j] = "none"
                    /\ ~Taken(j) /\ status[j] # "none" => ServiceState(j) = status[j]
                    /\ ~Taken(j) /\ status[j] = "none" /\ pc[j] \notin {"idle", "saved"} => ServiceState(j) = "gone"
    BY DEF StateOf
<1>1. Taken(j) => pc[j] = "sent" /\ status[j] \in {"queued", "running"}
  BY DEF Taken, Placed, Served
<1>2. pc[j] \in {"idle", "saved", "gone"} => status[j] = "none"
  BY DEF Placed, Tabled
<1> QED BY <1>1, <1>2 DEF ServiceState, Taken

LEMMA StateOfNext == Inv' /\ Placed' => StateOf'
  BY StateOfHolds, PTL

\* A job that neither begins nor ends to be served, keeps its row of the table and stays
\* on its side of Enqueue is in the same state for the service.
LEMMA SameState ==
    ASSUME StateOf, StateOf', NEW j \in Jobs, Taken(j)' <=> Taken(j), status'[j] = status[j],
           pc[j] \in {"idle", "saved"} <=> pc'[j] \in {"idle", "saved"}
    PROVE  ServiceState(j)' = ServiceState(j)
  BY DEF StateOf

\* Steps that the service does not see.
LEMMA Unseen ==
    ASSUME \A j \in Jobs : ServiceState(j)' = ServiceState(j),
           \A a \in Agents : queue'[a] \o parked'[a] = queue[a] \o parked[a],
           target' = target, \A k \in Keys : marked'[k] = marked[k]
    PROVE  UNCHANGED Service!vars
  BY DEF Service!vars

LEMMA InitRefines == Init => Service!Init
<1> SUFFICES ASSUME Init PROVE Service!Init
  OBVIOUS
<1>1. ASSUME NEW j \in Jobs PROVE ServiceState(j) = "none"
  BY DEF Init, Fresh, ServiceState, Busy
<1>2. ASSUME NEW a \in Agents PROVE queue[a] \o parked[a] = <<>>
  BY DEF Init, Fresh
<1>3. {k \in Keys : marked[k]} = {} /\ target = [j \in Jobs |-> NoKey]
  BY DEF Init
<1> QED BY <1>1, <1>2, <1>3 DEF Service!Init

\* What the two states before and after a step have in common.
StepOK == Inv /\ Placed /\ Unmoved /\ Inv' /\ Placed' /\ StateOf /\ StateOf'

\* Of lines: the end of the second is the end of both, the head of the first the head of
\* both, and the head of the second may stand at the end of the first.
LEMMA ConcatLast ==
    ASSUME NEW s \in Seq(Jobs), NEW t \in Seq(Jobs), NEW j \in Jobs
    PROVE  s \o Append(t, j) = Append(s \o t, j)
<1>1. Append(t, j) \in Seq(Jobs) /\ s \o t \in Seq(Jobs)
  BY ConcatProperties
<1>2. Append(s \o t, j) \in Seq(Jobs) /\ s \o Append(t, j) \in Seq(Jobs)
  BY <1>1, ConcatProperties
<1>3. Len(s \o Append(t, j)) = Len(s) + Len(t) + 1 /\ Len(Append(s \o t, j)) = Len(s) + Len(t) + 1
  BY <1>1, ConcatProperties
<1>4. ASSUME NEW i \in 1..Len(s \o Append(t, j))
      PROVE  (s \o Append(t, j))[i] = Append(s \o t, j)[i]
  <2>1. (s \o Append(t, j))[i] = IF i <= Len(s) THEN s[i] ELSE Append(t, j)[i - Len(s)]
    BY <1>1, <1>3, ConcatProperties
  <2>2. i <= Len(s) + Len(t) => (s \o t)[i] = IF i <= Len(s) THEN s[i] ELSE t[i - Len(s)]
    BY <1>3, ConcatProperties
  <2>3. Len(s \o t) = Len(s) + Len(t)
    BY ConcatProperties
  <2> QED BY <1>1, <1>3, <2>1, <2>2, <2>3
<1> QED BY <1>2, <1>3, <1>4, SeqEqual

LEMMA ConcatHead ==
    ASSUME NEW s \in Seq(Jobs), NEW t \in Seq(Jobs), s # <<>>
    PROVE  /\ s \o t # <<>> /\ Head(s \o t) = Head(s)
           /\ Tail(s \o t) = Tail(s) \o t
<1>0. PICK u : u = s \o t
  OBVIOUS
<1>1. /\ u \in Seq(Jobs) /\ Len(u) = Len(s) + Len(t)
      /\ \A i \in 1..(Len(s) + Len(t)) : u[i] = IF i <= Len(s) THEN s[i] ELSE t[i - Len(s)]
  BY <1>0, ConcatProperties
<1>2. Len(s) \in Nat \ {0} /\ Len(t) \in Nat /\ Tail(s) \in Seq(Jobs) /\ Len(Tail(s)) = Len(s) - 1
  BY HeadTailProperties
<1>3. u # <<>> /\ Head(u) = Head(s)
  BY <1>1, <1>2
<1>4. /\ Tail(u) \in Seq(Jobs) /\ Len(Tail(u)) = Len(s) + Len(t) - 1
      /\ \A i \in 1..Len(Tail(u)) : Tail(u)[i] = u[i + 1]
  BY <1>1, <1>2, <1>3, HeadTailProperties
<1>5. /\ Tail(s) \o t \in Seq(Jobs) /\ Len(Tail(s) \o t) = Len(s) + Len(t) - 1
      /\ \A i \in 1..(Len(s) + Len(t) - 1) :
            (Tail(s) \o t)[i] = IF i <= Len(s) - 1 THEN Tail(s)[i] ELSE t[i - (Len(s) - 1)]
  BY <1>2, ConcatProperties
<1>6. ASSUME NEW i \in 1..Len(Tail(u)) PROVE Tail(u)[i] = (Tail(s) \o t)[i]
  <2>1. i <= Len(s) - 1 => Tail(s)[i] = s[i + 1]
    BY <1>2, <1>4, HeadTailProperties
  <2>2. i \in Nat /\ i + 1 \in 1..(Len(s) + Len(t)) /\ i \in 1..(Len(s) + Len(t) - 1)
    BY <1>2, <1>4
  <2>3. u[i + 1] = IF i + 1 <= Len(s) THEN s[i + 1] ELSE t[(i + 1) - Len(s)]
    BY <1>1, <2>2
  <2>4. (Tail(s) \o t)[i] = IF i <= Len(s) - 1 THEN Tail(s)[i] ELSE t[i - (Len(s) - 1)]
    BY <1>5, <2>2
  <2>5. (i + 1) - Len(s) = i - (Len(s) - 1) /\ (i + 1 <= Len(s) <=> i <= Len(s) - 1)
    BY <1>2, <2>2
  <2> QED BY <1>4, <2>1, <2>3, <2>4, <2>5
<1>7. Tail(u) = Tail(s) \o t
  BY <1>4, <1>5, <1>6, SeqEqual
<1> QED BY <1>0, <1>3, <1>7

LEMMA ConcatShift ==
    ASSUME NEW s \in Seq(Jobs), NEW t \in Seq(Jobs), t # <<>>
    PROVE  Append(s, Head(t)) \o Tail(t) = s \o t
<1>1. Head(t) \in Jobs /\ Tail(t) \in Seq(Jobs) /\ <<Head(t)>> \in Seq(Jobs)
  BY HeadTailProperties
<1>2. Append(s, Head(t)) = s \o <<Head(t)>>
  BY <1>1, AppendIsConcat
<1>3. t = <<Head(t)>> \o Tail(t)
  <2>1. PICK h, r : h = Head(t) /\ r = Tail(t)
    OBVIOUS
  <2>2. /\ h \in Jobs /\ r \in Seq(Jobs) /\ Len(r) = Len(t) - 1 /\ Len(t) \in Nat \ {0}
        /\ h = t[1] /\ \A i \in 1..Len(r) : r[i] = t[i + 1]
    BY <2>1, HeadTailProperties
  <2>3. /\ <<h>> \o r \in Seq(Jobs) /\ Len(<<h>> \o r) = Len(t)
        /\ \A i \in 1..Len(t) : (<<h>> \o r)[i] = IF i <= 1 THEN <<h>>[i] ELSE r[i - 1]
    <3>1. <<h>> \in Seq(Jobs) /\ Len(<<h>>) = 1
      BY <2>2
    <3>2. /\ <<h>> \o r \in Seq(Jobs) /\ Len(<<h>> \o r) = 1 + Len(r)
          /\ \A i \in 1..(1 + Len(r)) : (<<h>> \o r)[i] = IF i <= 1 THEN <<h>>[i] ELSE r[i - 1]
      BY <2>2, <3>1, ConcatProperties
    <3> QED BY <2>2, <3>2
  <2>4. ASSUME NEW i \in 1..Len(t) PROVE t[i] = (<<h>> \o r)[i]
    <3>1. CASE i = 1
      BY <2>2, <2>3, <3>1
    <3>2. CASE i # 1
      <4>1. i - 1 \in 1..Len(r) /\ (i - 1) + 1 = i /\ ~(i <= 1)
        BY <2>2, <3>2
      <4> QED BY <2>2, <2>3, <4>1
    <3> QED BY <3>1, <3>2
  <2>5. t = <<h>> \o r
    BY <2>3, <2>4, SeqEqual
  <2> QED BY <2>1, <2>5
<1>4. (s \o <<Head(t)>>) \o Tail(t) = s \o (<<Head(t)>> \o Tail(t))
  BY <1>1, ConcatAssociative
<1> QED BY <1>2, <1>3, <1>4

\* A request names its session.
LEMMA ArriveRefines ==
    ASSUME StepOK, NEW j \in Jobs, NEW k \in Keys, HandleSessions(j, k) \/ HandleFork(j, k)
    PROVE  Service!Ask(j, k)
<1>1. /\ pc[j] = "idle" /\ pc' = [pc EXCEPT ![j] = "saved"] /\ target' = [target EXCEPT ![j] = k]
      /\ UNCHANGED <<status, queue, parked, rpc, rjob, marked>>
  BY DEF HandleSessions, HandleFork, SaveTranscript
<1>2. ASSUME NEW i \in Jobs PROVE ServiceState(i)' = ServiceState(i)
  <2>1. Taken(i)' <=> Taken(i)
    BY <1>1 DEF Taken, Busy
  <2>2. pc[i] \in {"idle", "saved"} <=> pc'[i] \in {"idle", "saved"}
    BY <1>1 DEF StepOK, Inv, TypeOK
  <2> QED BY <1>1, <2>1, <2>2, SameState DEF StepOK
<1>3. ServiceState(j) = "none"
  BY <1>1 DEF StepOK, StateOf
<1> QED BY <1>1, <1>2, <1>3 DEF Service!Ask

\* The critical section of Enqueue: the new job is queued, what is pruned is gone.
LEMMA EnqueueRefines ==
    ASSUME StepOK, NEW j \in Jobs, Enqueue(j)
    PROVE  \E E \in SUBSET Jobs : Service!Register(j, E)
<1>1. PICK E \in SUBSET Jobs :
        /\ PruneSet(E)
        /\ status' = [i \in Jobs |-> IF i = j THEN "queued"
                                     ELSE IF i \in E THEN "none" ELSE status[i]]
  BY DEF Enqueue
<1>2. /\ pc[j] = "saved" /\ pc' = [pc EXCEPT ![j] = "inserted"]
      /\ UNCHANGED <<target, queue, parked, rpc, rjob, marked>>
  BY DEF Enqueue
<1>3. \A i \in E : status[i] \in Terminal
  BY <1>1 DEF PruneSet, Prunable
<1>4. ASSUME NEW i \in Jobs PROVE Taken(i)' <=> Taken(i)
  BY <1>2 DEF Taken, Busy
<1>5. ServiceState(j) = "none" /\ ~Taken(j) /\ status'[j] = "queued"
  BY <1>1, <1>2 DEF StepOK, StateOf
<1>6. ServiceState(j)' = "queued"
  BY <1>4, <1>5 DEF StepOK, StateOf
<1>7. ASSUME NEW i \in E, i # j
      PROVE  ServiceState(i) \in Terminal /\ ServiceState(i)' = "gone"
  <2>1. status[i] \in Terminal /\ status'[i] = "none" /\ pc'[i] = pc[i]
    BY <1>1, <1>2, <1>3, <1>7 DEF StepOK, Inv, TypeOK
  <2>2. ~Taken(i) /\ pc[i] \notin {"idle", "saved"}
    BY <2>1 DEF StepOK, StateOf, Terminal
  <2> QED BY <1>4, <2>1, <2>2 DEF StepOK, StateOf, Terminal
<1>8. ASSUME NEW i \in Jobs, i # j, i \notin E PROVE ServiceState(i)' = ServiceState(i)
  <2>1. status'[i] = status[i] /\ pc'[i] = pc[i]
    BY <1>1, <1>2, <1>8 DEF StepOK, Inv, TypeOK
  <2> QED BY <1>4, <2>1, SameState DEF StepOK
<1>9. j \notin E
  BY <1>2, <1>3 DEF StepOK, StateOf, Terminal
<1>10. Service!Register(j, E)
  BY <1>2, <1>5, <1>6, <1>7, <1>8, <1>9 DEF Service!Register, Service!Terminal, Terminal
<1> QED BY <1>10

\* The end of enqueueItem: the request joins the line of its agent, in the buffer or
\* blocked behind it.
LEMMA SendRefines ==
    ASSUME StepOK, NEW j \in Jobs, Send(j) \/ Park(j)
    PROVE  Service!Join(j)
<1>0. PICK a : a = AgentOf(j)
  OBVIOUS
<1>1. /\ pc[j] = "sending" /\ a \in Agents /\ status[j] = "queued" /\ Lined(a)
      /\ queue[a] \in Seq(Jobs) /\ parked[a] \in Seq(Jobs)
      /\ UNCHANGED <<target, status, rpc, rjob, marked>>
  BY <1>0, AgentType DEF Send, Park, StepOK, Inv, Placed, Tabled, TypeOK
<1>2. ASSUME NEW i \in Jobs PROVE (Taken(i)' <=> Taken(i)) /\ ServiceState(i)' = ServiceState(i)
  <2>1. Taken(i)' <=> Taken(i)
    BY <1>1 DEF Taken, Busy
  <2>2. pc[i] \in {"idle", "saved"} <=> pc'[i] \in {"idle", "saved"}
    BY <1>1 DEF Send, Park, StepOK, Inv, TypeOK
  <2> QED BY <1>1, <2>1, <2>2, SameState DEF StepOK
<1>3. ServiceState(j) = "queued"
  <2>1. ~Taken(j)
    BY <1>1 DEF Taken, StepOK, Placed, Served
  <2> QED BY <1>1, <2>1 DEF StepOK, StateOf
<1>4. /\ queue'[a] \o parked'[a] = Append(queue[a] \o parked[a], j)
      /\ \A b \in Agents : b # a => queue'[b] \o parked'[b] = queue[b] \o parked[b]
  <2>1. CASE Send(j)
    <3>1. /\ queue' = [queue EXCEPT ![a] = Append(queue[a], j)] /\ parked' = parked
          /\ parked[a] = <<>>
      BY <1>0, <1>1, <2>1 DEF Send, Lined
    <3>2. queue'[a] = Append(queue[a], j) /\ \A b \in Agents : b # a => queue'[b] = queue[b]
      BY <1>1, <3>1 DEF StepOK, Inv, TypeOK
    <3>3. Append(queue[a], j) \o <<>> = Append(queue[a], j) /\ queue[a] \o <<>> = queue[a]
      BY <1>1, ConcatEmptySeq
    <3> QED BY <1>1, <3>1, <3>2, <3>3
  <2>2. CASE Park(j)
    <3>1. parked' = [parked EXCEPT ![a] = Append(parked[a], j)] /\ queue' = queue
      BY <1>0, <1>1, <2>2 DEF Park
    <3>2. parked'[a] = Append(parked[a], j) /\ \A b \in Agents : b # a => parked'[b] = parked[b]
      BY <1>1, <3>1 DEF StepOK, Inv, TypeOK
    <3>3. queue[a] \o Append(parked[a], j) = Append(queue[a] \o parked[a], j)
      BY <1>1, ConcatLast
    <3> QED BY <1>1, <3>1, <3>2, <3>3
  <2> QED BY <2>1, <2>2
<1> QED BY <1>0, <1>1, <1>2, <1>3, <1>4 DEF Service!Join

\* A goroutine that takes an item serves the head of the line.
LEMMA ReceiveRefines ==
    ASSUME StepOK, NEW g \in Jobs, Receive(g)
    PROVE  \E a \in Agents : Service!Start(a)
<1>1. PICK a, f : a = AgentOf(g) /\ f = Head(queue[a])
  OBVIOUS
<1>2. /\ a \in Agents /\ rpc[g] = "idle" /\ ~Busy(g)
      /\ queue[a] \in Seq(Jobs) /\ queue[a] # <<>> /\ parked[a] \in Seq(Jobs)
      /\ rpc' = [rpc EXCEPT ![g] = "start"] /\ rjob' = [rjob EXCEPT ![g] = f]
      /\ UNCHANGED <<target, status, marked>>
      /\ \A b \in Agents : b # a => queue'[b] = queue[b] /\ parked'[b] = parked[b]
  <2>1. marked' = marked
    BY DEF Receive
  <2> QED BY <1>1, <2>1, ReceiveFacts DEF StepOK
<1>3. /\ f \in Jobs /\ AgentOf(f) = a /\ pc[f] = "sent" /\ status[f] = "queued"
      /\ \A i \in Jobs : pc'[i] # pc[i] => pc[i] = "parked" /\ pc'[i] = "sent"
  BY <1>1, ReceiveLine DEF StepOK
<1>4. /\ rpc'[g] = "start" /\ rjob'[g] = f /\ Busy(g)'
      /\ \A h \in Jobs : h # g => rpc'[h] = rpc[h] /\ rjob'[h] = rjob[h] /\ (Busy(h)' <=> Busy(h))
  BY <1>2 DEF StepOK, Inv, TypeOK, Busy
<1>5. ASSUME NEW i \in Jobs PROVE Taken(i)' <=> Taken(i) \/ i = f
  <2>1. Taken(i)' => Taken(i) \/ i = f
    BY <1>4 DEF Taken
  <2>2. Taken(i) => Taken(i)'
    BY <1>2, <1>4 DEF Taken
  <2>3. i = f => Taken(i)'
    BY <1>4 DEF Taken
  <2> QED BY <2>1, <2>2, <2>3
<1>6. ASSUME NEW i \in Jobs, ServiceState(i) = "running" PROVE target[i][1] # a
  <2>1. Taken(i)
    <3>1. SUFFICES ASSUME ~Taken(i) PROVE FALSE
      OBVIOUS
    <3>2. status[i] = "running" /\ pc[i] \in RequestPC
      BY <1>6, <3>1 DEF StepOK, StateOf, Inv, TypeOK
    <3>3. pc[i] = "sent" /\ Waits(i, queue[AgentOf(i)]) /\ AgentOf(i) \in Agents
      BY <3>1, <3>2, AgentType DEF StepOK, Inv, Placed, Tabled, RequestPC
    <3> QED BY <3>2, <3>3 DEF StepOK, Placed, Lined
  <2>2. PICK h \in Jobs : Busy(h) /\ rjob[h] = i
    BY <2>1 DEF Taken
  <2>3. AgentOf(i) = AgentOf(h) /\ h # g /\ rpc[h] # "none" /\ rpc[g] # "none"
    BY <1>2, <2>2 DEF StepOK, Placed, Served, Busy
  <2> QED BY <1>1, <2>3 DEF StepOK, Inv, OneRunner
<1>7. ~Taken(f)
  <2>1. Waits(f, queue[a])
    BY <1>1, <1>2, LeaveLine
  <2>2. ASSUME NEW h \in Jobs, Busy(h), rjob[h] = f PROVE FALSE
    <3>1. AgentOf(h) = a /\ ~Waits(f, queue[a])
      BY <1>3, <2>2 DEF StepOK, Placed, Served
    <3> QED BY <2>1, <3>1
  <2> QED BY <2>2 DEF Taken
<1>8. ServiceState(f) = "queued" /\ ServiceState(f)' = "running"
  BY <1>3, <1>5, <1>7 DEF StepOK, StateOf
<1>9. ASSUME NEW i \in Jobs, i # f PROVE ServiceState(i)' = ServiceState(i)
  BY <1>2, <1>3, <1>5, <1>9, SameState DEF StepOK
<1>10. /\ queue[a] \o parked[a] # <<>> /\ Head(queue[a] \o parked[a]) = f
       /\ Tail(queue[a] \o parked[a]) = Tail(queue[a]) \o parked[a]
  BY <1>1, <1>2, ConcatHead
<1>11. queue'[a] \o parked'[a] = Tail(queue[a] \o parked[a])
  <2>1. CASE parked[a] = <<>> /\ parked'[a] = <<>> /\ queue'[a] = Tail(queue[a])
    BY <1>10, <2>1
  <2>2. CASE /\ parked[a] # <<>> /\ parked'[a] = Tail(parked[a])
             /\ queue'[a] = Append(Tail(queue[a]), Head(parked[a]))
    <3>1. Tail(queue[a]) \in Seq(Jobs) /\ parked[a] \in Seq(Jobs)
      BY <1>2
    <3>2. Append(Tail(queue[a]), Head(parked[a])) \o Tail(parked[a]) = Tail(queue[a]) \o parked[a]
      BY <2>2, <3>1, ConcatShift
    <3> QED BY <1>10, <2>2, <3>1, <3>2
  <2> QED BY <1>1, <2>1, <2>2, ReceiveFacts DEF StepOK
<1>12. \A b \in Agents : b # a => queue'[b] \o parked'[b] = queue[b] \o parked[b]
  BY <1>2
<1>13. Service!Start(a)
  <2>1. ServiceLines[a] # <<>> /\ Head(ServiceLines[a]) = f
    BY <1>2, <1>10 DEF ServiceLines
  <2>2. \A i \in Jobs : ServiceStates[i] = "running" => target[i][1] # a
    BY <1>6 DEF ServiceStates
  <2>3. ServiceStates[f] = "queued" /\ target[f][1] = a
    BY <1>3, <1>8 DEF ServiceStates
  <2>4. ServiceStates' = [ServiceStates EXCEPT ![f] = "running"]
    BY <1>3, <1>8, <1>9 DEF ServiceStates
  <2>5. ServiceLines' = [ServiceLines EXCEPT ![a] = Tail(ServiceLines[a])]
    BY <1>2, <1>11, <1>12 DEF ServiceLines
  <2>6. UNCHANGED <<target, {k \in Keys : marked[k]}>>
    BY <1>2
  <2> QED BY <2>1, <2>2, <2>3, <2>4, <2>5, <2>6 DEF Service!Start, ServiceStates, ServiceLines
<1> QED BY <1>2, <1>13

\* The last status a goroutine reports is the end of the job; the session of a job
\* reported done is marked.
LEMMA ReportRefines ==
    ASSUME StepOK, NEW g \in Jobs, Report(g)
    PROVE  \E j \in Jobs, s \in Terminal : Service!Finish(j, s)
<1>1. PICK j, s : j = rjob[g] /\ s = IF rpc[g] = "reportDone" THEN "done" ELSE "failed"
  OBVIOUS
<1>2. /\ rpc[g] \in {"reportDone", "reportFailed"} /\ Busy(g) /\ j \in Jobs /\ Taken(j)
      /\ s \in Terminal /\ status[j] = "running" /\ target[j] \in Keys
      /\ rpc' = [rpc EXCEPT ![g] = "idle"] /\ rjob' = [rjob EXCEPT ![g] = g]
      /\ UNCHANGED <<pc, target, queue, parked, marked>>
  BY <1>1, RunnerType DEF Report, Busy, Taken, Terminal, StepOK, Inv, TypeOK, Placed, Served
<1>3. status' = [status EXCEPT ![j] = s]
  BY <1>1, <1>2 DEF Report, SetStatus
<1>4. /\ ~Busy(g)' /\ \A h \in Jobs : h # g => (Busy(h)' <=> Busy(h)) /\ rjob'[h] = rjob[h]
      /\ status'[j] = s /\ \A i \in Jobs : i # j => status'[i] = status[i]
  BY <1>2, <1>3 DEF Busy, StepOK, Inv, TypeOK
<1>5. ~Taken(j)'
  <2>1. ASSUME NEW h \in Jobs, Busy(h)', rjob'[h] = j PROVE FALSE
    <3>1. h # g /\ Busy(h) /\ rjob[h] = j
      BY <1>4, <2>1
    <3> QED BY <1>1, <1>2, <3>1, TakenOnce DEF StepOK
  <2> QED BY <2>1 DEF Taken
<1>6. ASSUME NEW i \in Jobs, i # j PROVE ServiceState(i)' = ServiceState(i)
  <2>1. Taken(i)' => Taken(i)
    BY <1>4 DEF Taken
  <2>2. ASSUME NEW h \in Jobs, Busy(h), rjob[h] = i PROVE Taken(i)'
    <3>1. h # g
      BY <1>1, <1>6, <2>2
    <3> QED BY <1>4, <2>2, <3>1 DEF Taken
  <2>3. Taken(i) => Taken(i)'
    BY <2>2 DEF Taken
  <2> QED BY <1>2, <1>4, <1>6, <2>1, <2>3, SameState DEF StepOK
<1>7. ServiceState(j) = "running" /\ ServiceState(j)' = s
  BY <1>2, <1>4, <1>5 DEF StepOK, StateOf, Terminal
<1>8. s = "done" => marked[target[j]]
  BY <1>1, <1>2 DEF StepOK, Inv, Flow, RunnerFlow, Terminal
<1>9. Service!Finish(j, s)
  <2>1. ServiceStates[j] = "running" /\ ServiceStates' = [ServiceStates EXCEPT ![j] = s]
    BY <1>2, <1>6, <1>7 DEF ServiceStates
  <2>2. UNCHANGED <<target, ServiceLines, {k \in Keys : marked[k]}>>
    BY <1>2 DEF ServiceLines
  <2>3. s = "done" => target[j] \in {k \in Keys : marked[k]}
    BY <1>2, <1>8
  <2> QED BY <2>1, <2>2, <2>3 DEF Service!Finish, ServiceStates, ServiceLines
<1> QED BY <1>2, <1>9

LEMMA MarkRefines ==
    ASSUME StepOK, NEW g \in Jobs, NEW ok \in BOOLEAN, MarkProcessed(g, ok)
    PROVE  (\E j \in Jobs : Service!MarkProcessed(j)) \/ UNCHANGED Service!vars
<1>1. PICK j : j = rjob[g]
  OBVIOUS
<1>2. /\ Busy(g) /\ j \in Jobs /\ Taken(j) /\ target[j] \in Keys
      /\ rpc[g] = "mark" /\ rjob' = rjob
      /\ UNCHANGED <<pc, status, target, queue, parked>>
      /\ rpc' = [rpc EXCEPT ![g] = "reportDone"] \/ rpc' = [rpc EXCEPT ![g] = "reportFailed"]
  BY <1>1, RunnerType DEF MarkProcessed, Busy, Taken, StepOK, Inv, TypeOK
<1>3. \A h \in Jobs : Busy(h)' <=> Busy(h)
  BY <1>2 DEF Busy, StepOK, Inv, TypeOK
<1>4. ASSUME NEW i \in Jobs PROVE ServiceState(i)' = ServiceState(i)
  <2>1. Taken(i)' <=> Taken(i)
    BY <1>2, <1>3 DEF Taken
  <2> QED BY <1>2, <2>1, SameState DEF StepOK
<1>5. ServiceStates' = ServiceStates /\ ServiceLines' = ServiceLines
  BY <1>2, <1>4 DEF ServiceStates, ServiceLines
<1>6. CASE ok
  <2>1. marked' = [marked EXCEPT ![target[j]] = TRUE]
    BY <1>1, <1>6 DEF MarkProcessed
  <2>2. \A k \in Keys : marked'[k] <=> marked[k] \/ k = target[j]
    BY <1>2, <2>1 DEF StepOK, Inv, TypeOK
  <2>3. {k \in Keys : marked'[k]} = {k \in Keys : marked[k]} \cup {target[j]}
    BY <1>2, <2>2
  <2>4. ServiceStates[j] = "running"
    BY <1>2 DEF StepOK, StateOf, ServiceStates
  <2>5. Service!MarkProcessed(j)
    BY <1>2, <1>5, <2>3, <2>4 DEF Service!MarkProcessed, ServiceStates, ServiceLines
  <2> QED BY <1>2, <2>5
<1>7. CASE ~ok
  <2>1. marked' = marked
    BY <1>7 DEF MarkProcessed
  <2> QED BY <1>2, <1>4, <2>1, Unseen
<1> QED BY <1>6, <1>7

\* Shutdown turns away those who are blocked, the end of each line.
LEMMA BeginCloseRefines ==
    ASSUME StepOK, BeginClose
    PROVE  Service!TurnAway
<1>1. /\ pc' = [j \in Jobs |-> IF pc[j] = "parked" THEN "dropped" ELSE pc[j]]
      /\ parked' = [a \in Agents |-> <<>>]
      /\ UNCHANGED <<target, status, queue, rpc, rjob, marked>>
  BY DEF BeginClose
<1>2. ASSUME NEW i \in Jobs PROVE ServiceState(i)' = ServiceState(i)
  <2>1. Taken(i)' <=> Taken(i)
    BY <1>1 DEF Taken, Busy
  <2> QED BY <1>1, <2>1, SameState DEF StepOK
<1>3. ASSUME NEW a \in Agents
      PROVE  \E n \in 0..Len(ServiceLines[a]) : ServiceLines'[a] = SubSeq(ServiceLines[a], 1, n)
  <2>1. PICK q, p : q = queue[a] /\ p = parked[a]
    OBVIOUS
  <2>2. q \in Seq(Jobs) /\ p \in Seq(Jobs) /\ ServiceLines[a] = q \o p /\ ServiceLines'[a] = q
    <3>1. q \in Seq(Jobs) /\ p \in Seq(Jobs)
      BY <2>1 DEF StepOK, Inv, TypeOK
    <3>2. queue'[a] \o parked'[a] = q \o <<>>
      BY <1>1, <2>1
    <3> QED BY <2>1, <3>1, <3>2, ConcatEmptySeq DEF ServiceLines
  <2>3. Len(q) \in 0..Len(q \o p)
    BY <2>2, ConcatProperties
  <2>4. SubSeq(q \o p, 1, Len(q)) = q
    <3>1. CASE q = <<>>
      <4>1. Len(q) = 0
        BY <3>1
      <4>2. SubSeq(q \o p, 1, 0) = <<>>
        BY SubSeqEmpty
      <4> QED BY <3>1, <4>1, <4>2
    <3>2. CASE q # <<>>
      <4>1. 1 \in 1..Len(q) /\ Len(q) \in 1..Len(q)
        BY <2>2, <3>2, EmptySeq
      <4>2. SubSeq(q \o p, 1, Len(q)) = SubSeq(q, 1, Len(q))
        BY <2>2, <4>1, SubSeqOfConcat1
      <4> QED BY <2>2, <4>2, SubSeqFull
    <3> QED BY <3>1, <3>2
  <2> QED BY <2>2, <2>3, <2>4
<1>4. ServiceStates' = ServiceStates /\ {k \in Keys : marked'[k]} = {k \in Keys : marked[k]}
  BY <1>1, <1>2 DEF ServiceStates
<1>5. ServiceLines' = [a \in Agents |-> ServiceLines'[a]]
  BY DEF ServiceLines
<1> QED BY <1>1, <1>3, <1>4, <1>5 DEF Service!TurnAway, ServiceStates, ServiceLines

\* An exit of the process loses every job that has arrived.
LEMMA RestartRefines ==
    ASSUME StepOK, Restart
    PROVE  \E L \in SUBSET Jobs : Service!Lose(L)
<1>0. PICK L \in SUBSET Jobs : L = {j \in Jobs : pc[j] # "idle"}
  OBVIOUS
<1>1. /\ pc' = [j \in Jobs |-> IF pc[j] = "idle" THEN "idle" ELSE "gone"]
      /\ Fresh(status', doneAt', chan', queue', parked', rpc', rjob', loaded')
      /\ UNCHANGED <<target, marked>>
  BY DEF Restart
<1>2. ASSUME NEW j \in Jobs, ServiceState(j) # "none" PROVE j \in L
  BY <1>0, <1>2 DEF StepOK, StateOf
<1>3. ASSUME NEW j \in Jobs PROVE ServiceState(j)' = IF j \in L THEN "gone" ELSE ServiceState(j)
  <2>1. pc'[j] = IF j \in L THEN "gone" ELSE "idle"
    BY <1>0, <1>1
  <2> QED BY <1>0, <2>1 DEF StepOK, StateOf
<1>4. ASSUME NEW a \in Agents PROVE queue'[a] \o parked'[a] = <<>>
  <2>1. queue'[a] = <<>> /\ parked'[a] = <<>>
    BY <1>1 DEF Fresh
  <2> QED BY <2>1
<1>5. Service!Lose(L)
  <2>1. ServiceStates' = [j \in Jobs |-> IF j \in L THEN "gone" ELSE ServiceStates[j]]
    BY <1>3 DEF ServiceStates
  <2>2. ServiceLines' = [a \in Agents |-> <<>>]
    BY <1>4 DEF ServiceLines
  <2>3. \A j \in Jobs : ServiceStates[j] # "none" => j \in L
    BY <1>2 DEF ServiceStates
  <2> QED BY <1>1, <2>1, <2>2, <2>3 DEF Service!Lose, ServiceStates, ServiceLines
<1> QED BY <1>5

\* What the service sees nothing of: it is none of the steps above.
LEMMA OtherRefines ==
    ASSUME StepOK, UNCHANGED <<target, queue, parked, marked>>,
           \A j \in Jobs : pc[j] \in {"idle", "saved"} <=> pc'[j] \in {"idle", "saved"},
           \A j \in Jobs : Taken(j)' <=> Taken(j),
           \A j \in Jobs : ~Taken(j) => status'[j] = status[j]
    PROVE  UNCHANGED Service!vars
<1>1. ASSUME NEW j \in Jobs PROVE ServiceState(j)' = ServiceState(j)
  <2>1. CASE Taken(j)
    BY <2>1 DEF StepOK, StateOf
  <2>2. CASE ~Taken(j)
    BY <2>2, SameState DEF StepOK
  <2> QED BY <2>1, <2>2
<1> QED BY <1>1, Unseen

LEMMA SenderRefines ==
    ASSUME StepOK, NEW j \in Jobs, EnqueueItem(j) \/ DropOnDone(j) \/ PanicOnClosed(j)
    PROVE  UNCHANGED Service!vars
<1>1. /\ pc[j] \in {"inserted", "sending"} /\ UNCHANGED <<target, status, queue, parked, rjob, marked>>
      /\ rpc' = rpc \/ (rpc' = [rpc EXCEPT ![j] = "idle"] /\ chan[AgentOf(j)] = "none")
  BY DEF EnqueueItem, DropOnDone, PanicOnClosed, NeedsRunner
<1>2. \/ pc' = [pc EXCEPT ![j] = "sending"]
      \/ pc' = [pc EXCEPT ![j] = "dropped"]
      \/ pc' = [pc EXCEPT ![j] = "panicked"]
  BY DEF EnqueueItem, DropOnDone, PanicOnClosed
<1>3. \A i \in Jobs : pc[i] \in {"idle", "saved"} <=> pc'[i] \in {"idle", "saved"}
  BY <1>1, <1>2 DEF StepOK, Inv, TypeOK
<1>4. \A g \in Jobs : Busy(g)' <=> Busy(g)
  <2>1. rpc' # rpc => rpc[j] = "none"
    BY <1>1 DEF StepOK, Inv, OneRunner
  <2> QED BY <1>1, <2>1 DEF Busy, StepOK, Inv, TypeOK
<1>5. \A i \in Jobs : Taken(i)' <=> Taken(i)
  BY <1>1, <1>4 DEF Taken
<1> QED BY <1>1, <1>3, <1>5, OtherRefines

LEMMA RunnerRefines ==
    ASSUME StepOK, NEW g \in Jobs, NEW ok \in BOOLEAN,
           RunnerExit(g) \/ SetRunning(g) \/ GetTranscript(g, ok) \/ ProcessSession(g, ok)
    PROVE  UNCHANGED Service!vars
<1>1. /\ rjob' = rjob /\ UNCHANGED <<pc, target, queue, parked, marked>>
      /\ \/ rpc[g] = "idle" /\ rpc' = [rpc EXCEPT ![g] = "exited"] /\ status' = status
         \/ /\ rpc[g] \in {"start", "load", "process"}
            /\ \/ rpc' = [rpc EXCEPT ![g] = "load"] \/ rpc' = [rpc EXCEPT ![g] = "process"]
               \/ rpc' = [rpc EXCEPT ![g] = "mark"] \/ rpc' = [rpc EXCEPT ![g] = "reportFailed"]
            /\ status' = status \/ status' = [status EXCEPT ![rjob[g]] = "running"]
  <2>1. CASE RunnerExit(g)
    BY <2>1 DEF RunnerExit
  <2>2. CASE SetRunning(g)
    BY <2>2 DEF SetRunning, SetStatus
  <2>3. CASE GetTranscript(g, ok) \/ ProcessSession(g, ok)
    BY <2>3 DEF GetTranscript, ProcessSession
  <2> QED BY <2>1, <2>2, <2>3
<1>2. \A h \in Jobs : Busy(h)' <=> Busy(h)
  BY <1>1 DEF Busy, StepOK, Inv, TypeOK
<1>3. \A i \in Jobs : Taken(i)' <=> Taken(i)
  BY <1>1, <1>2 DEF Taken
<1>4. \A i \in Jobs : ~Taken(i) => status'[i] = status[i]
  BY <1>1 DEF Taken, Busy, StepOK, Inv, TypeOK
<1> QED BY <1>1, <1>3, <1>4, OtherRefines

LEMMA ClosingRefines ==
    ASSUME StepOK, FinishClose \/ UNCHANGED vars
    PROVE  UNCHANGED Service!vars
<1>1. CASE \E a \in Agents : CloseQueue(a)
  <2>1. PICK a \in Agents : CloseQueue(a)
    BY <1>1
  <2>2. parked[a] = <<>> /\ \A j \in Jobs : pc[j] # "parked"
    BY <2>1, NoneParked DEF CloseQueue, StepOK
  <2>3. pc' = pc /\ parked' = parked
    BY <2>1, <2>2 DEF CloseQueue, StepOK, Inv, TypeOK
  <2>4. UNCHANGED <<target, queue, marked, status, rpc, rjob>>
    BY <2>1 DEF CloseQueue
  <2>5. \A j \in Jobs : Taken(j)' <=> Taken(j)
    BY <2>4 DEF Taken, Busy
  <2> QED BY <2>3, <2>4, <2>5, OtherRefines
<1>2. CASE CloseReturn \/ UNCHANGED vars
  <2>1. UNCHANGED <<pc, parked, target, queue, marked, status, rpc, rjob>>
    BY <1>2 DEF CloseReturn, vars
  <2>2. \A j \in Jobs : Taken(j)' <=> Taken(j)
    BY <2>1 DEF Taken, Busy
  <2> QED BY <2>1, <2>2, OtherRefines
<1> QED BY <1>1, <1>2 DEF FinishClose

\* Every step of the worker is one of the service, or none.
LEMMA StepRefines == StepOK /\ [Next]_vars => [Service!Next]_(Service!vars)
<1> SUFFICES ASSUME StepOK, [Next]_vars PROVE Service!Next \/ UNCHANGED Service!vars
  OBVIOUS
<1>1. ASSUME NEW j \in Jobs, Arrive(j) PROVE Service!Next
  <2>1. PICK k \in Keys : HandleSessions(j, k) \/ HandleFork(j, k)
    BY <1>1 DEF Arrive
  <2>2. Service!Ask(j, k) /\ k \in Agents \X Sessions
    BY <2>1, ArriveRefines DEF Keys
  <2> QED BY <2>2 DEF Service!Next
<1>2. ASSUME NEW j \in Jobs, Sender(j) PROVE Service!Next \/ UNCHANGED Service!vars
  <2>1. CASE Enqueue(j)
    BY <2>1, EnqueueRefines DEF Service!Next
  <2>2. CASE Send(j) \/ Park(j)
    BY <2>2, SendRefines DEF Service!Next
  <2>3. CASE EnqueueItem(j) \/ DropOnDone(j) \/ PanicOnClosed(j)
    BY <2>3, SenderRefines
  <2> QED BY <1>2, <2>1, <2>2, <2>3 DEF Sender
<1>3. ASSUME NEW g \in Jobs, Runner(g) PROVE Service!Next \/ UNCHANGED Service!vars
  <2>1. CASE Receive(g)
    BY <2>1, ReceiveRefines DEF Service!Next
  <2>2. CASE Report(g)
    <3>1. PICK j \in Jobs, s \in Terminal : Service!Finish(j, s)
      BY <2>2, ReportRefines
    <3> QED BY <3>1 DEF Service!Next, Service!Terminal, Terminal
  <2>3. ASSUME NEW ok \in BOOLEAN, MarkProcessed(g, ok) PROVE Service!Next \/ UNCHANGED Service!vars
    BY <2>3, MarkRefines DEF Service!Next
  <2>4. CASE RunnerExit(g) \/ SetRunning(g)
    BY <2>4, RunnerRefines
  <2>5. ASSUME NEW ok \in BOOLEAN, GetTranscript(g, ok) \/ ProcessSession(g, ok)
        PROVE  UNCHANGED Service!vars
    BY <2>5, RunnerRefines
  <2> QED BY <1>3, <2>1, <2>2, <2>3, <2>4, <2>5 DEF Runner
<1>4. CASE BeginClose
  BY <1>4, BeginCloseRefines DEF Service!Next
<1>5. CASE FinishClose \/ UNCHANGED vars
  BY <1>5, ClosingRefines
<1>6. CASE Restart
  BY <1>6, RestartRefines DEF Service!Next
<1> QED BY <1>1, <1>2, <1>3, <1>4, <1>5, <1>6 DEF Next

\* The worker implements the job service: per agent first come first served and one at a
\* time, a job done only once its session is marked, no job lost while it waits or runs
\* (worker.go: Enqueue, enqueueItem, runAgent, process, Close), whatever the capacity of
\* the channels, the bound of the table and the number of agents, jobs and exits.
THEOREM WorkerImplements == Spec => ImplementsJobService
<1>1. Inv /\ Placed /\ [Next]_vars => Unmoved
  BY UnmovedStep DEF Inv
<1>2. Inv /\ Placed /\ [Next]_vars => StepOK
  BY <1>1, NextInv, NextPlaced, StateOfHolds, StateOfNext DEF StepOK
<1>3. Inv /\ Placed /\ [Next]_vars => [Service!Next]_(Service!vars)
  BY <1>2, StepRefines
<1> QED BY <1>3, InitRefines, PlacedHolds, PTL DEF Spec, Service!Spec, ImplementsJobService
=============================================================================
