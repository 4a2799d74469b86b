-------------------------- MODULE KernelInvariant --------------------------
(***************************************************************************)
(* Inductive invariants of module Kernel.  TypeInv and QueuesInv hold       *)
(* wherever the interrupt is taken, ContextInv until one is taken at       *)
(* "switching", and IndInv until one is taken inside the dispatcher        *)
(* (DispatcherQuiet).                                                      *)
(***************************************************************************)
EXTENDS Kernel

\* The points of a thread that is blocked, or on its way to be or from it.
Blocking == {"queued", "picked", "switching", "resumed"}

\* The variables have their types, and so have the locals of a thread inside the
\* kernel.
TypeInv ==
    /\ TypeOK
    /\ \A t \in Thread :
        /\ pc[t] = "unlinked" => op[t] = "event_wait" /\ obj[t] \in Device
        /\ pc[t] = "found" => obj[t] \in Mutex
        /\ pc[t] \in Blocking /\ op[t] = "mutex_lock" => obj[t] \in Mutex
        /\ pc[t] \in DispatchWindows => from[t] \in Thread /\ to[t] \in Thread

\* Every TCB is in exactly one place.
QueuesInv == InOneQueue /\ TcbConserved

\* The registers: who picks or switches saves them in its own TCB, and nobody
\* is preempted between the store of cur_tcb and the switch.
ContextInv ==
    /\ OwnContext
    /\ pc[running] = "switching" => cur_tcb = to[running]
    /\ \A t \in Thread : pc[t] \in DispatchWindows => from[t] = t
    /\ \A t \in Thread \ {running} : pc[t] # "switching"

\* The dispatcher: the TCBs hold their own threads, and the one that switches
\* goes to the highest priority task of the run queue.
DispatchInv ==
    /\ OwnContext
    /\ pc[running] \in {"picked", "switching"} =>
        /\ from[running] = running
        /\ to[running] \in runnable
        /\ \A t \in runnable : to[running] <= t
    /\ pc[running] = "switching" => cur_tcb = to[running]
    /\ \A t \in Thread \ {running} : pc[t] \notin {"picked", "switching"}

\* The run queue: it holds idle and every thread outside a blocking call.
ReadyInv ==
    /\ IDLE_PRIO \in runnable
    /\ pc[IDLE_PRIO] = "user"
    /\ pc[running] = "resumed" => running \in runnable
    /\ \A t \in Thread : pc[t] \in {"user", "found"} => t \in runnable

\* A thread in event_wait is in the queue of its device or in the run queue.
WaitFrame(t) ==
    /\ op[t] = "event_wait"
    /\ obj[t] \in Device
    /\ t \in Range(sleep_queue[obj[t]]) <=> t \notin runnable

\* A thread in mutex_lock is in the queue of its mutex or, when it is runnable
\* again, already the holder; it does not know it yet.
LockFrame(t) ==
    /\ op[t] = "mutex_lock"
    /\ obj[t] \in Mutex
    /\ obj[t] \notin held[t]
    /\ t \in Range(pSleep_queue[obj[t]]) <=> t \notin runnable
    /\ t \in runnable => pHolding_Tcb[obj[t]] = t

\* The kernel stacks agree with the queues.
FrameInv ==
    \A t \in Thread :
        /\ pc[t] = "unlinked" =>
            op[t] = "event_wait" /\ obj[t] \in Device /\ from[t] = t /\ t \notin runnable
        /\ pc[t] = "found" => obj[t] \in Mutex
        /\ pc[t] \in Blocking => WaitFrame(t) \/ LockFrame(t)

\* The queues agree with the kernel stacks, and hold nobody twice.
QueueInv ==
    /\ \A d \in Device :
        /\ IsInjective(sleep_queue[d])
        /\ \A t \in Range(sleep_queue[d]) :
            pc[t] \in Blocking /\ op[t] = "event_wait" /\ obj[t] = d
    /\ \A m \in Mutex :
        /\ IsInjective(pSleep_queue[m])
        /\ \A t \in Range(pSleep_queue[m]) :
            pc[t] \in Blocking /\ op[t] = "mutex_lock" /\ obj[t] = m

\* A mutex is free, with nobody waiting, or has a holder that does not wait.
MutexInv ==
    \A m \in Mutex :
        /\ bAvailable[m] => ~bLock[m]
        /\ ~bLock[m] => pHolding_Tcb[m] = NULL /\ pSleep_queue[m] = <<>>
        /\ bLock[m] => pHolding_Tcb[m] \in Task

\* Who was told that it holds a mutex is the holder; the holder was told so,
\* or is the task the mutex was handed to.
HolderInv ==
    \A m \in Mutex, t \in Thread :
        /\ m \in held[t] => pHolding_Tcb[m] = t
        /\ pHolding_Tcb[m] = t /\ m \notin held[t] =>
            pc[t] \in Blocking /\ op[t] = "mutex_lock" /\ obj[t] = m /\ t \in runnable

IndInv ==
    /\ TypeOK
    /\ DispatchInv
    /\ ReadyInv
    /\ FrameInv
    /\ QueueInv
    /\ MutexInv
    /\ HolderInv
    /\ RateMonotonic
=============================================================================
