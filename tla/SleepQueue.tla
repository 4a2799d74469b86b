----------------------------- MODULE SleepQueue -----------------------------
(***************************************************************************)
(* The sleep queues at the level of pointers.  A TCB has one link field,   *)
(* tcb->sleep_queue, which serves the queue of whatever device or mutex    *)
(* the task sleeps on.  dev_wait and mutex_lock walk the list with tmp, a  *)
(* pointer to the cell that points to the next TCB; dev_update and         *)
(* mutex_unlock take TCBs off its front.                                   *)
(*                                                                         *)
(* mutex_lock walks with interrupts masked.  dev_wait does not: the timer  *)
(* interrupt may come between two iterations of its loop, wake sleepers of *)
(* this and other devices, and let other tasks run, which may walk too.    *)
(* overrun is a history variable, which no step reads: a TCB was taken off *)
(* a queue while a task was walking along it.                              *)
(*                                                                         *)
(* Removing the task from the run queue and linking it is one step here;   *)
(* the window between the two is the subject of module Kernel, and so is   *)
(* who holds a mutex: here any task may find it locked or unlock it.       *)
(***************************************************************************)
EXTENDS Integers, Sequences, SequencesExt, Functions, FiniteSetsExt

CONSTANTS
    NumTasks,     \* number of tasks; task NumTasks is the idle task
    DevQueue,     \* the devices
    MutexQueue,   \* the mutexes
    NoQueue       \* not walking

IDLE_PRIO == NumTasks
Task == 0..(NumTasks - 1)
Thread == 0..IDLE_PRIO
Queue == DevQueue \union MutexQueue
NULL == -1

ASSUME SleepQueueAssumption ==
    /\ NumTasks \in Nat
    /\ DevQueue \intersect MutexQueue = {}
    /\ Queue \intersect (Thread \union {NULL}) = {}
    /\ NoQueue \notin Queue

VARIABLES
    head,        \* head[q]: devices[q].sleep_queue or gtMutex[q].pSleep_queue
    link,        \* link[t]: the sleep_queue field of TCB t
    runnable,    \* the run queue
    cur,         \* the task on the CPU
    walking,     \* walking[t]: the queue t is walking
    tmp,         \* tmp[t]: a queue stands for &head[q], a task for &link[t]
    irq,         \* dev_update is executing
    due,         \* the devices it has not finished with
    flag,        \* its local flag
    overrun      \* a queue was shortened under a walking task (not in the code)

vars == <<head, link, runnable, cur, walking, tmp, irq, due, flag, overrun>>

TypeOK ==
    /\ head \in [Queue -> Task \union {NULL}]
    /\ link \in [Task -> Task \union {NULL}]
    /\ runnable \in SUBSET Thread
    /\ cur \in runnable
    /\ walking \in [Task -> Queue \union {NoQueue}]
    /\ tmp \in [Task -> Queue \union Task \union {NULL}]
    /\ irq \in BOOLEAN
    /\ due \in SUBSET DevQueue
    /\ flag \in BOOLEAN
    /\ overrun \in BOOLEAN

\* *tmp
Deref(cell) == IF cell \in Queue THEN head[cell] ELSE link[cell]

-----------------------------------------------------------------------------
(* dev_wait and the blocked branch of mutex_lock *)

InLoop == ~irq /\ cur # IDLE_PRIO /\ walking[cur] # NoQueue
InUser == ~irq /\ (cur # IDLE_PRIO => walking[cur] = NoQueue)

\* tmp = &(devices[dev].sleep_queue)
walk_begin(q) ==
    /\ InUser
    /\ cur # IDLE_PRIO
    /\ walking' = [walking EXCEPT ![cur] = q]
    /\ tmp' = [tmp EXCEPT ![cur] = q]
    /\ UNCHANGED <<head, link, runnable, cur, irq, due, flag, overrun>>

\* runqueue_remove(get_cur_prio()), and the dispatch after the loop
SwitchAway ==
    /\ runnable' = runnable \ {cur}
    /\ cur' = Min(runnable')
    /\ walking' = [walking EXCEPT ![cur] = NoQueue]
    /\ tmp' = [tmp EXCEPT ![cur] = NULL]
    /\ UNCHANGED <<irq, due, flag, overrun>>

\* The cell is empty: the head is overwritten, and the link of the new
\* sleeper is left as it is.
walk_empty ==
    /\ InLoop
    /\ Deref(tmp[cur]) = NULL
    /\ head' = [head EXCEPT ![walking[cur]] = cur]
    /\ UNCHANGED link
    /\ SwitchAway

\* Faulty variant: the new sleeper is put at the front.
walk_end_front ==
    /\ InLoop
    /\ LET last == Deref(tmp[cur]) IN
        /\ last # NULL
        /\ link[last] = NULL
    /\ head' = [head EXCEPT ![walking[cur]] = cur]
    /\ link' = [link EXCEPT ![cur] = head[walking[cur]]]
    /\ SwitchAway

\* The TCB found is the last one: link behind it, and end the list.
walk_end ==
    /\ InLoop
    /\ LET last == Deref(tmp[cur]) IN
        /\ last # NULL
        /\ link[last] = NULL
        /\ link' = [link EXCEPT ![last] = cur, ![cur] = NULL]
    /\ UNCHANGED head
    /\ SwitchAway

\* tmp = &((*tmp)->sleep_queue)
walk_advance ==
    /\ InLoop
    /\ LET next == Deref(tmp[cur]) IN
        /\ next # NULL
        /\ link[next] # NULL
        /\ tmp' = [tmp EXCEPT ![cur] = next]
    /\ UNCHANGED <<head, link, runnable, cur, walking, irq, due, flag, overrun>>

-----------------------------------------------------------------------------
(* mutex_unlock and dev_update *)

\* Faulty variant: the link of the first sleeper is not cleared.
TakeFirst_keeps_link(q) ==
    /\ head[q] # NULL
    /\ head' = [head EXCEPT ![q] = link[head[q]]]
    /\ UNCHANGED link
    /\ runnable' = runnable \union {head[q]}

\* Take the first sleeper off the list and make it runnable.
TakeFirst(q) ==
    /\ head[q] # NULL
    /\ head' = [head EXCEPT ![q] = link[head[q]]]
    /\ link' = [link EXCEPT ![head[q]] = NULL]
    /\ runnable' = runnable \union {head[q]}

\* The holder hands the mutex over; the scheduler is not called.
mutex_unlock(q) ==
    /\ InUser
    /\ cur # IDLE_PRIO
    /\ TakeFirst(q)
    /\ UNCHANGED <<cur, walking, tmp, irq, due, flag, overrun>>

\* The timer interrupt: the match value of some devices has arrived.
dev_update_begin ==
    /\ InUser \/ (InLoop /\ walking[cur] \in DevQueue)
    /\ irq' = TRUE
    /\ due' \in (SUBSET DevQueue) \ {{}}
    /\ flag' = FALSE
    /\ UNCHANGED <<head, link, runnable, cur, walking, tmp, overrun>>

\* One iteration of the inner loop, for a device that is due.
dev_update_pop(q) ==
    /\ irq
    /\ q \in due
    /\ TakeFirst(q)
    /\ flag' = TRUE
    /\ overrun' = (overrun \/ \E t \in Task : walking[t] = q)
    /\ UNCHANGED <<cur, walking, tmp, irq, due>>

\* The device's queue is empty: the inner loop ends.
dev_update_next(q) ==
    /\ irq
    /\ q \in due
    /\ head[q] = NULL
    /\ due' = due \ {q}
    /\ UNCHANGED <<head, link, runnable, cur, walking, tmp, irq, flag, overrun>>

\* dispatch_save if somebody was woken, and the return from the interrupt.
dev_update_end ==
    /\ irq
    /\ due = {}
    /\ irq' = FALSE
    /\ flag' = FALSE
    /\ cur' = IF flag THEN Min(runnable) ELSE cur
    /\ UNCHANGED <<head, link, runnable, walking, tmp, due, overrun>>

Init ==
    /\ head = [q \in Queue |-> NULL]
    /\ link = [t \in Task |-> NULL]
    /\ runnable = Thread
    /\ cur = Min(Thread)
    /\ walking = [t \in Task |-> NoQueue]
    /\ tmp = [t \in Task |-> NULL]
    /\ irq = FALSE
    /\ due = {}
    /\ flag = FALSE
    /\ overrun = FALSE

walk == walk_empty \/ walk_end \/ walk_advance

dev_update ==
    \/ dev_update_begin
    \/ \E q \in DevQueue : dev_update_pop(q) \/ dev_update_next(q)
    \/ dev_update_end

Next ==
    \/ \E q \in Queue : walk_begin(q)
    \/ walk
    \/ \E q \in MutexQueue : mutex_unlock(q)
    \/ dev_update

Spec == Init /\ [][Next]_vars

-----------------------------------------------------------------------------
(* Properties *)

\* s is what one finds following the pointer first, and next from there to NULL.
IsList(s, first, next) ==
    \A k \in 0..Len(s) :
        (IF k = 0 THEN first ELSE next[s[k]]) = (IF k < Len(s) THEN s[k + 1] ELSE NULL)

ListFrom(first, next) == CHOOSE s \in BoundedSeq(Task, NumTasks) : IsList(s, first, next)

\* The list that starts at head[q].
Chain(q) == ListFrom(head[q], link)

\* What the comments promise: the list of a device contains all the tasks that are
\* waiting on it (device.c:33-34), so a sleeper is pointed to by the head of a queue
\* or by another sleeper.
SleepersListed ==
    \A t \in Task \ runnable :
        \/ \E q \in Queue : head[q] = t
        \/ \E u \in Task \ runnable : link[u] = t

\* A task that is not asleep has an empty link, until a device is signalled under a
\* task that walks along its queue.  The first branch of the loops (device.c:75-78,
\* mutex.c:89-92) relies on it: it does not end the list.
AwakeUnlinked == ~overrun => \A t \in runnable \intersect Task : link[t] = NULL

\* The lists, as they are meant to be seen.
Queues == [q \in Queue |-> Chain(q)]

Abstract == INSTANCE WaitQueues WITH queue <- Queues

\* The linked lists are first-come first-served queues that contain all the tasks
\* that wait (device.c:33-34), until a device is signalled under a task that walks
\* along its queue: no sleeper is dropped, repeated or overtaken, and no list runs
\* into another one, although the walk may be interrupted and others may sleep
\* meanwhile in the same queue.
ImplementsWaitQueues ==
    Abstract!Init /\ [][~overrun' => [Abstract!Next]_Queues]_vars
=============================================================================
