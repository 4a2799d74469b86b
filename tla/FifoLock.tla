------------------------------ MODULE FifoLock ------------------------------
(***************************************************************************)
(* What the mutexes of kernel/lock/mutex.c promise the tasks that use      *)
(* them, without a scheduler: a lock with one owner, a first-come          *)
(* first-served queue, and ownership handed over by the unlock itself, so  *)
(* that nobody can take the lock between an unlock and the wake-up of the  *)
(* task it was handed to (README.md:38-39 of the repository).              *)
(***************************************************************************)
EXTENDS Sequences, Functions

CONSTANTS Task,     \* the tasks that call the lock
          Mutex,    \* the mutexes
          NoTask    \* the owner of a free mutex

VARIABLES owner,    \* owner[m]: the task the mutex belongs to
          queue,    \* queue[m]: the tasks waiting for it, in arrival order
          inside    \* inside[t]: the mutexes whose lock call has returned to t

vars == <<owner, queue, inside>>

TypeOK ==
    /\ owner \in [Mutex -> Task \union {NoTask}]
    /\ queue \in [Mutex -> Seq(Task)]
    /\ inside \in [Task -> SUBSET Mutex]

Init ==
    /\ owner = [m \in Mutex |-> NoTask]
    /\ queue = [m \in Mutex |-> <<>>]
    /\ inside = [t \in Task |-> {}]

\* A free mutex is taken and the call returns at once.
Acquire(t, m) ==
    /\ owner[m] = NoTask
    /\ owner' = [owner EXCEPT ![m] = t]
    /\ inside' = [inside EXCEPT ![t] = @ \union {m}]
    /\ UNCHANGED queue

\* A mutex that belongs to somebody else: wait behind those already waiting.
Join(t, m) ==
    /\ owner[m] \notin {NoTask, t}
    /\ t \notin Range(queue[m])
    /\ queue' = [queue EXCEPT ![m] = Append(@, t)]
    /\ UNCHANGED <<owner, inside>>

\* The call of a task that was handed the mutex returns.
Enter(t, m) ==
    /\ owner[m] = t
    /\ m \notin inside[t]
    /\ inside' = [inside EXCEPT ![t] = @ \union {m}]
    /\ UNCHANGED <<owner, queue>>

\* The owner gives the mutex to the longest waiting task, or frees it.
Release(t, m) ==
    /\ owner[m] = t
    /\ m \in inside[t]
    /\ inside' = [inside EXCEPT ![t] = @ \ {m}]
    /\ \/ /\ queue[m] = <<>>
          /\ owner' = [owner EXCEPT ![m] = NoTask]
          /\ UNCHANGED queue
       \/ /\ queue[m] # <<>>
          /\ owner' = [owner EXCEPT ![m] = Head(queue[m])]
          /\ queue' = [queue EXCEPT ![m] = Tail(@)]

Next == \E t \in Task, m \in Mutex :
            Acquire(t, m) \/ Join(t, m) \/ Enter(t, m) \/ Release(t, m)

Spec == Init /\ [][Next]_vars

\* At most one task is between a successful mutex_lock and its mutex_unlock.
MutualExclusion ==
    \A m \in Mutex, t, u \in Task :
        m \in inside[t] /\ m \in inside[u] => t = u
=============================================================================
