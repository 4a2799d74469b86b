----------------------------- MODULE WaitQueues -----------------------------
(***************************************************************************)
(* What the sleep queues of the devices and of the mutexes promise: a task *)
(* waits in one queue at most, behind those who came before it, and leaves *)
(* it at the front.                                                        *)
(***************************************************************************)
EXTENDS Sequences, Functions

CONSTANTS Task,   \* the tasks that may sleep
          Queue   \* the sleep queues

VARIABLE queue    \* queue[q]: the tasks asleep in q, oldest first

TypeOK == queue \in [Queue -> Seq(Task)]

Init == queue = [q \in Queue |-> <<>>]

Sleep(t, q) ==
    /\ \A r \in Queue : t \notin Range(queue[r])
    /\ queue' = [queue EXCEPT ![q] = Append(@, t)]

Wake(q) ==
    /\ queue[q] # <<>>
    /\ queue' = [queue EXCEPT ![q] = Tail(@)]

Next == \E q \in Queue : Wake(q) \/ \E t \in Task : Sleep(t, q)

Spec == Init /\ [][Next]_queue
=============================================================================
