----------------------------- MODULE JobService -----------------------------
(***************************************************************************)
(* What the worker promises its clients, without goroutines, channels,     *)
(* locks or a job table: accepted jobs wait in one line per agent and are  *)
(* served first come first served, one at a time per agent; a job succeeds *)
(* only after its session has been marked processed; a finished job may be *)
(* forgotten, a waiting or running one never is, short of an exit of the   *)
(* process.                                                                *)
(***************************************************************************)
EXTENDS Naturals, Sequences

CONSTANTS Agents, Sessions, Jobs, NoKey

VARIABLES
    state,      \* what has become of each job
    target,     \* the session a job is about
    line,       \* the waiting jobs of each agent
    processed   \* the sessions marked processed

vars == <<state, target, line, processed>>

Terminal == {"done", "failed"}

Init ==
    /\ state = [j \in Jobs |-> "none"]
    /\ target = [j \in Jobs |-> NoKey]
    /\ line = [a \in Agents |-> <<>>]
    /\ processed = {}

\* A request names its session.
Ask(j, k) ==
    /\ state[j] = "none"
    /\ target' = [target EXCEPT ![j] = k]
    /\ UNCHANGED <<state, line, processed>>

\* A job enters the table; finished jobs may leave it.
Register(j, E) ==
    /\ state[j] = "none"
    /\ \A e \in E : state[e] \in Terminal
    /\ state' = [i \in Jobs |-> IF i = j THEN "queued"
                                ELSE IF i \in E THEN "gone" ELSE state[i]]
    /\ UNCHANGED <<target, line, processed>>

Join(j) ==
    /\ state[j] = "queued"
    /\ line' = [line EXCEPT ![target[j][1]] = Append(@, j)]
    /\ UNCHANGED <<state, target, processed>>

\* One job of an agent at a time, the one that has waited longest.
Start(a) ==
    /\ line[a] # <<>>
    /\ \A j \in Jobs : state[j] = "running" => target[j][1] # a
    /\ state[Head(line[a])] = "queued"
    /\ target[Head(line[a])][1] = a
    /\ state' = [state EXCEPT ![Head(line[a])] = "running"]
    /\ line' = [line EXCEPT ![a] = Tail(@)]
    /\ UNCHANGED <<target, processed>>

MarkProcessed(j) ==
    /\ state[j] = "running"
    /\ processed' = processed \cup {target[j]}
    /\ UNCHANGED <<state, target, line>>

Finish(j, s) ==
    /\ state[j] = "running"
    /\ s = "done" => target[j] \in processed
    /\ state' = [state EXCEPT ![j] = s]
    /\ UNCHANGED <<target, line, processed>>

\* Shutdown turns away the end of each line, never somebody in the middle.
TurnAway ==
    /\ \A a \in Agents : \E n \in 0..Len(line[a]) :
        line'[a] = SubSeq(line[a], 1, n)
    /\ line' = [a \in Agents |-> line'[a]]
    /\ UNCHANGED <<state, target, processed>>

\* The process exits: what was in memory is gone.
Lose(L) ==
    /\ \A j \in Jobs : state[j] # "none" => j \in L
    /\ state' = [j \in Jobs |-> IF j \in L THEN "gone" ELSE state[j]]
    /\ line' = [a \in Agents |-> <<>>]
    /\ UNCHANGED <<target, processed>>

Next ==
    \/ \E j \in Jobs : \/ \E k \in Agents \X Sessions : Ask(j, k)
                       \/ \E E \in SUBSET Jobs : Register(j, E)
                       \/ Join(j)
                       \/ MarkProcessed(j)
                       \/ \E s \in Terminal : Finish(j, s)
    \/ \E a \in Agents : Start(a)
    \/ TurnAway
    \/ \E L \in SUBSET Jobs : Lose(L)

Spec == Init /\ [][Next]_vars
=============================================================================
