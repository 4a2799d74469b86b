---------------------------- MODULE KernelProofs ----------------------------
(***************************************************************************)
(* Proofs about module Kernel, for every number of tasks, devices and      *)
(* mutexes, every table of periods and every width of the tick counter.    *)
(***************************************************************************)
EXTENDS KernelInvariant, QueueTheorems, TLAPS

-----------------------------------------------------------------------------
(* The scheduler's choice *)

\* highest_prio gives the least number of a set of threads that is not empty.
LEMMA HighestIsLeast ==
  ASSUME NEW ready \in SUBSET Thread, ready # {}
  PROVE  /\ highest_prio(ready) \in ready
         /\ \A t \in ready : highest_prio(ready) <= t
<1>1. ready \in SUBSET Nat
  BY ConstantsAssumption DEF Thread, IDLE_PRIO
<1> QED  BY <1>1, MinIsLeast DEF highest_prio

-----------------------------------------------------------------------------
(* The invariant holds initially *)

\* Facts about the sets of the model that every step needs.
LEMMA Sets ==
  /\ Thread \subseteq Nat
  /\ Task = Thread \ {IDLE_PRIO}
  /\ IDLE_PRIO \in Thread
  /\ NULL \notin Thread
  /\ TimeMod \in Nat \ {0}
  BY ConstantsAssumption DEF Thread, Task, IDLE_PRIO, NULL

\* The remainder of a division by the number of tick values is a tick value.
LEMMA TickInRange ==
  ASSUME NEW n \in Nat
  PROVE  n % TimeMod \in 0..(TimeMod - 1)
  BY Sets

\* allocate_tasks, dev_init and mutex_init establish the invariant.
LEMMA InitIndInv == Init => IndInv
<1> SUFFICES ASSUME Init PROVE IndInv
  OBVIOUS
<1> USE Sets DEF Init
<1>1. highest_prio(Thread) \in Thread /\ \A t \in Thread : highest_prio(Thread) <= t
  BY HighestIsLeast
<1>2. \A d \in Device : (system_time + DevFreq[d]) % TimeMod \in 0..(TimeMod - 1)
  <2>1. \A d \in Device : system_time + DevFreq[d] \in Nat
    BY FrequencyAssumption DEF Device
  <2> QED  BY <2>1, TickInRange
<1>3. TypeOK
  BY <1>1, <1>2 DEF TypeOK, Point
<1>4. DispatchInv
  BY <1>1 DEF DispatchInv, OwnContext
<1>5. ReadyInv /\ FrameInv
  BY <1>1 DEF ReadyInv, FrameInv, Blocking
<1>6. QueueInv
  BY EmptyQueue DEF QueueInv
<1>7. MutexInv /\ HolderInv
  BY DEF MutexInv, HolderInv
<1>8. RateMonotonic
  <2>1. runnable = Thread /\ running \in Nat /\ \A t \in Thread : t \in Nat /\ running <= t
    BY <1>1
  <2> QED  BY <2>1 DEF RateMonotonic
<1> QED  BY <1>3, <1>4, <1>5, <1>6, <1>7, <1>8 DEF IndInv

-----------------------------------------------------------------------------
(* Every step preserves it *)

\* Sleeping tasks are threads and are not in the run queue.
LEMMA SleepersNotReady ==
  ASSUME IndInv
  PROVE  /\ \A d \in Device : \A t \in Range(sleep_queue[d]) : t \in Thread \ runnable
         /\ \A m \in Mutex : \A t \in Range(pSleep_queue[m]) : t \in Thread \ runnable
<1>1. ASSUME NEW d \in Device, NEW t \in Range(sleep_queue[d])
      PROVE  t \in Thread \ runnable
  <2>1. t \in Thread
    BY <1>1 DEF IndInv, TypeOK, Range
  <2>2. WaitFrame(t) /\ obj[t] = d
    BY <1>1, <2>1 DEF IndInv, FrameInv, QueueInv, LockFrame
  <2> QED  BY <1>1, <2>1, <2>2 DEF WaitFrame
<1>2. ASSUME NEW m \in Mutex, NEW t \in Range(pSleep_queue[m])
      PROVE  t \in Thread \ runnable
  <2>1. t \in Thread
    BY <1>2 DEF IndInv, TypeOK, Range
  <2>2. LockFrame(t) /\ obj[t] = m
    BY <1>2, <2>1 DEF IndInv, FrameInv, QueueInv, WaitFrame
  <2> QED  BY <1>2, <2>1, <2>2 DEF LockFrame
<1> QED  BY <1>1, <1>2

\* A thread of the run queue is in no sleep queue.
LEMMA ReadyNotQueued ==
  ASSUME IndInv, NEW r \in runnable
  PROVE  /\ \A d \in Device : r \notin Range(sleep_queue[d])
         /\ \A m \in Mutex : r \notin Range(pSleep_queue[m])
  BY SleepersNotReady

\* An error return changes the result only.
LEMMA StepError ==
  ASSUME IndInv, NEW code \in {EPERM, EINVAL, EDEADLOCK, -ENOMEM}, ReturnError(code)
  PROVE  IndInv'
<1> USE DEF ReturnError, schedVars, frameVars, deviceVars, mutexVars, IndInv
<1>1. TypeOK' /\ DispatchInv' /\ ReadyInv' /\ RateMonotonic'
  BY DEF TypeOK, DispatchInv, OwnContext, ReadyInv, RateMonotonic
<1>2. FrameInv' /\ QueueInv' /\ MutexInv' /\ HolderInv'
  BY DEF FrameInv, WaitFrame, LockFrame, QueueInv, MutexInv, HolderInv
<1> QED  BY <1>1, <1>2

\* dev_wait takes the caller out of the run queue.
LEMMA Step_dev_wait_remove ==
  ASSUME IndInv, NEW d, dev_wait_remove(d)
  PROVE  IndInv'
<1> USE Sets DEF dev_wait_remove, Removed, At, IndInv, deviceVars, mutexVars
<1>1. cur_tcb = running /\ running \in runnable /\ d \in Device /\ running \in Task
  BY DEF TypeOK, DispatchInv, OwnContext, ReadyInv
<1>2. TypeOK'
  BY <1>1 DEF TypeOK, Point, HotWindows
<1>3. DispatchInv' /\ ReadyInv'
  BY <1>1 DEF TypeOK, DispatchInv, OwnContext, ReadyInv
<1>4. FrameInv'
  BY <1>1 DEF TypeOK, FrameInv, WaitFrame, LockFrame, Blocking
<1>5. QueueInv'
  <2>1. /\ \A e \in Device : running \notin Range(sleep_queue[e])
        /\ \A n \in Mutex : running \notin Range(pSleep_queue[n])
    BY <1>1, ReadyNotQueued
  <2> QED  BY <1>1, <2>1 DEF TypeOK, QueueInv
<1>6. MutexInv'
  BY DEF MutexInv
<1>7. HolderInv'
  BY <1>1 DEF TypeOK, HolderInv, Blocking
<1>8. RateMonotonic'
  BY <1>1 DEF TypeOK, RateMonotonic
<1> QED  BY <1>2, <1>3, <1>4, <1>5, <1>6, <1>7, <1>8

\* dev_wait links the caller into the queue of its device.
LEMMA Step_dev_wait_link ==
  ASSUME IndInv, dev_wait_link
  PROVE  IndInv'
<1> USE Sets DEF dev_wait_link, LinkedBehind, At, IndInv, schedVars, mutexVars
<1> DEFINE d == obj[running]
<1>1. /\ running \in Task /\ d \in Device /\ from[running] = running
      /\ op[running] = "event_wait" /\ running \notin runnable
  BY DEF TypeOK, FrameInv
<1>2. \A e \in Device : running \notin Range(sleep_queue[e])
  BY DEF QueueInv, Blocking
<1>3. /\ sleep_queue'[d] = Append(sleep_queue[d], running)
      /\ \A e \in Device \ {d} : sleep_queue'[e] = sleep_queue[e]
  BY <1>1 DEF TypeOK
<1>4. /\ sleep_queue'[d] \in Seq(Thread)
      /\ IsInjective(sleep_queue'[d])
      /\ Range(sleep_queue'[d]) = Range(sleep_queue[d]) \union {running}
  <2>1. sleep_queue[d] \in Seq(Thread) /\ running \in Thread /\ IsInjective(sleep_queue[d])
    BY <1>1 DEF TypeOK, QueueInv
  <2> QED  BY <1>1, <1>2, <1>3, <2>1, AppendQueue
<1>5. TypeOK'
  BY <1>1, <1>3, <1>4 DEF TypeOK, Point
<1>6. DispatchInv' /\ ReadyInv' /\ RateMonotonic'
  BY DEF TypeOK, DispatchInv, OwnContext, ReadyInv, RateMonotonic
<1> HIDE DEF d
<1>7. FrameInv'
  <2>1. ASSUME NEW t \in Thread \ {running}, pc[t] \in Blocking, WaitFrame(t)
        PROVE  WaitFrame(t)'
    BY <1>3, <1>4, <2>1 DEF TypeOK, WaitFrame
  <2>2. ASSUME NEW t \in Thread \ {running}, LockFrame(t) PROVE LockFrame(t)'
    BY <2>2 DEF TypeOK, LockFrame
  <2>3. WaitFrame(running)'
    BY <1>1, <1>4 DEF TypeOK, WaitFrame, d
  <2> QED  BY <1>1, <2>1, <2>2, <2>3 DEF TypeOK, FrameInv, Blocking
<1>8. QueueInv'
  <2>1. \A e \in Device : \A t \in Range(sleep_queue'[e]) :
            pc'[t] \in Blocking /\ op'[t] = "event_wait" /\ obj'[t] = e
    BY <1>1, <1>3, <1>4 DEF TypeOK, QueueInv, Blocking, d
  <2>2. \A e \in Device : IsInjective(sleep_queue'[e])
    BY <1>3, <1>4 DEF QueueInv
  <2>3. \A m \in Mutex : \A t \in Range(pSleep_queue[m]) : t # running
    BY DEF QueueInv, Blocking
  <2> QED  BY <2>1, <2>2, <2>3 DEF TypeOK, QueueInv
<1>9. MutexInv' /\ HolderInv'
  BY DEF TypeOK, MutexInv, HolderInv, Blocking
<1> QED  BY <1>5, <1>6, <1>7, <1>8, <1>9

\* event_wait returns to user mode.
LEMMA Step_event_wait_return ==
  ASSUME IndInv, event_wait_return
  PROVE  IndInv'
<1> USE Sets DEF event_wait_return, At, ReturnToUser, IndInv, schedVars, deviceVars, mutexVars
<1>1. running \in Task /\ running \in runnable /\ op[running] = "event_wait"
  BY DEF TypeOK, ReadyInv
<1>2. TypeOK'
  BY DEF TypeOK, Point
<1>3. DispatchInv' /\ ReadyInv' /\ RateMonotonic'
  BY <1>1 DEF TypeOK, DispatchInv, OwnContext, ReadyInv, RateMonotonic
<1>4. FrameInv'
  BY DEF TypeOK, FrameInv, WaitFrame, LockFrame, Blocking
<1>5. QueueInv'
  <2>1. /\ \A d \in Device : running \notin Range(sleep_queue[d])
        /\ \A n \in Mutex : running \notin Range(pSleep_queue[n])
    BY <1>1, ReadyNotQueued
  <2> QED  BY <1>1, <2>1 DEF TypeOK, QueueInv
<1>6. MutexInv' /\ HolderInv'
  BY <1>1 DEF TypeOK, MutexInv, HolderInv
<1> QED  BY <1>2, <1>3, <1>4, <1>5, <1>6

\* The dispatcher picks the highest priority task of the run queue.
LEMMA Step_dispatch_pick ==
  ASSUME IndInv, dispatch_pick
  PROVE  IndInv'
<1> USE Sets DEF dispatch_pick, At, IndInv, schedVars, deviceVars, mutexVars
<1>1. running \in Task /\ cur_tcb = running
  BY DEF TypeOK, DispatchInv, OwnContext
<1>2. /\ highest_prio(runnable) \in runnable
      /\ \A t \in runnable : highest_prio(runnable) <= t
  BY HighestIsLeast DEF TypeOK, ReadyInv
<1>3. TypeOK'
  BY <1>1, <1>2 DEF TypeOK, Point, HotWindows
<1>4. DispatchInv'
  BY <1>1, <1>2 DEF TypeOK, DispatchInv, OwnContext
<1>5. ReadyInv' /\ RateMonotonic'
  BY <1>1 DEF TypeOK, ReadyInv, RateMonotonic
<1>6. FrameInv' /\ QueueInv'
  BY DEF TypeOK, FrameInv, WaitFrame, LockFrame, QueueInv, Blocking
<1>7. MutexInv' /\ HolderInv'
  BY DEF TypeOK, MutexInv, HolderInv, Blocking
<1> QED  BY <1>3, <1>4, <1>5, <1>6, <1>7

\* The dispatcher records the task it switches to.
LEMMA Step_dispatch_set_cur ==
  ASSUME IndInv, dispatch_set_cur
  PROVE  IndInv'
<1> USE Sets DEF dispatch_set_cur, At, IndInv, deviceVars, mutexVars
<1>1. running \in Task /\ to[running] \in runnable
  BY DEF TypeOK, DispatchInv
<1>2. TypeOK'
  BY <1>1 DEF TypeOK, Point, HotWindows
<1>3. DispatchInv'
  BY DEF TypeOK, DispatchInv, OwnContext
<1>4. ReadyInv' /\ RateMonotonic'
  BY <1>1 DEF TypeOK, ReadyInv, RateMonotonic
<1>5. FrameInv' /\ QueueInv'
  BY DEF TypeOK, FrameInv, WaitFrame, LockFrame, QueueInv, Blocking
<1>6. MutexInv' /\ HolderInv'
  BY DEF TypeOK, MutexInv, HolderInv, Blocking
<1> QED  BY <1>2, <1>3, <1>4, <1>5, <1>6

\* The registers are switched.
LEMMA Step_dispatch_switch ==
  ASSUME IndInv, dispatch_switch
  PROVE  IndInv'
<1> USE Sets DEF dispatch_switch, At, IndInv, deviceVars, mutexVars
<1>1. /\ running \in Task /\ from[running] = running
      /\ to[running] \in runnable /\ to[running] \in Thread /\ cur_tcb = to[running]
      /\ \A t \in runnable : to[running] <= t
  BY DEF TypeOK, DispatchInv
<1>2. ctx' = ctx /\ running' = to[running]
  BY <1>1 DEF TypeOK, DispatchInv, OwnContext, ctx_switch_full
<1>3. TypeOK'
  BY <1>1, <1>2 DEF TypeOK, Point
<1>4. DispatchInv'
  BY <1>1, <1>2 DEF TypeOK, DispatchInv, OwnContext
<1>5. ReadyInv' /\ RateMonotonic'
  BY <1>1, <1>2 DEF TypeOK, ReadyInv, RateMonotonic
<1>6. FrameInv' /\ QueueInv'
  BY DEF TypeOK, FrameInv, WaitFrame, LockFrame, QueueInv, Blocking
<1>7. MutexInv' /\ HolderInv'
  BY DEF TypeOK, MutexInv, HolderInv, Blocking
<1> QED  BY <1>3, <1>4, <1>5, <1>6, <1>7

\* mutex_create sees an available mutex.
LEMMA Step_mutex_create_find ==
  ASSUME IndInv, mutex_create_find
  PROVE  IndInv'
<1> USE Sets DEF mutex_create_find, At, IndInv, schedVars, deviceVars, mutexVars
<1>1. running \in Task /\ running \in runnable
  BY DEF TypeOK, ReadyInv
<1>2. PICK m \in Mutex : obj' = [obj EXCEPT ![running] = m]
  OBVIOUS
<1>3. TypeOK'
  BY <1>2 DEF TypeOK, Point, HotWindows
<1>4. DispatchInv' /\ ReadyInv' /\ RateMonotonic'
  BY <1>1 DEF TypeOK, DispatchInv, OwnContext, ReadyInv, RateMonotonic
<1>5. FrameInv'
  BY <1>2 DEF TypeOK, FrameInv, WaitFrame, LockFrame, Blocking
<1>6. QueueInv'
  <2>1. /\ \A d \in Device : running \notin Range(sleep_queue[d])
        /\ \A n \in Mutex : running \notin Range(pSleep_queue[n])
    BY <1>1, ReadyNotQueued
  <2> QED  BY <1>1, <1>2, <2>1 DEF TypeOK, QueueInv
<1>7. MutexInv' /\ HolderInv'
  BY <1>2 DEF TypeOK, MutexInv, HolderInv, Blocking
<1> QED  BY <1>3, <1>4, <1>5, <1>6, <1>7

\* mutex_create takes the mutex it saw.
LEMMA Step_mutex_create_grab ==
  ASSUME IndInv, mutex_create_grab
  PROVE  IndInv'
<1> USE Sets DEF mutex_create_grab, At, ReturnToUser, IndInv, schedVars, deviceVars
<1>1. running \in Task /\ running \in runnable /\ obj[running] \in Mutex
  BY DEF TypeOK, ReadyInv, FrameInv
<1>2. TypeOK'
  BY <1>1 DEF TypeOK, Point
<1>3. DispatchInv' /\ ReadyInv' /\ RateMonotonic'
  BY <1>1 DEF TypeOK, DispatchInv, OwnContext, ReadyInv, RateMonotonic
<1>4. FrameInv'
  BY DEF TypeOK, FrameInv, WaitFrame, LockFrame, Blocking
<1>5. QueueInv'
  <2>1. /\ \A d \in Device : running \notin Range(sleep_queue[d])
        /\ \A n \in Mutex : running \notin Range(pSleep_queue[n])
    BY <1>1, ReadyNotQueued
  <2> QED  BY <1>1, <2>1 DEF TypeOK, QueueInv
<1>6. MutexInv' /\ HolderInv'
  BY <1>1 DEF TypeOK, MutexInv, HolderInv, Blocking
<1> QED  BY <1>2, <1>3, <1>4, <1>5, <1>6

\* mutex_lock takes a free mutex.
LEMMA Step_mutex_lock_free ==
  ASSUME IndInv, NEW m, mutex_lock_free(m)
  PROVE  IndInv'
<1> USE Sets DEF mutex_lock_free, At, TakeMutex, InvalidMutex, IndInv, schedVars, frameVars, deviceVars
<1>1. running \in Task /\ cur_tcb = running /\ m \in Mutex
  BY DEF TypeOK, DispatchInv, OwnContext
<1>2. pHolding_Tcb[m] = NULL /\ pSleep_queue[m] = <<>> /\ ~bAvailable[m]
  BY <1>1 DEF MutexInv
<1>3. TypeOK'
  BY <1>1 DEF TypeOK
<1>4. DispatchInv' /\ ReadyInv' /\ RateMonotonic'
  BY DEF DispatchInv, OwnContext, ReadyInv, RateMonotonic
<1>5. FrameInv'
  BY <1>1, <1>2 DEF TypeOK, FrameInv, WaitFrame, LockFrame, Blocking
<1>6. QueueInv'
  BY DEF QueueInv
<1>7. MutexInv' /\ HolderInv'
  BY <1>1, <1>2 DEF TypeOK, MutexInv, HolderInv
<1> QED  BY <1>3, <1>4, <1>5, <1>6, <1>7

\* mutex_lock blocks the caller behind the tasks already waiting.
LEMMA Step_mutex_lock_blocked ==
  ASSUME IndInv, NEW m, mutex_lock_blocked(m)
  PROVE  IndInv'
<1> USE Sets DEF mutex_lock_blocked, Removed, LinkedBehind, At, InvalidMutex, IndInv, deviceVars
<1>1. running \in Task /\ cur_tcb = running /\ m \in Mutex /\ running \in runnable
  BY DEF TypeOK, DispatchInv, OwnContext, ReadyInv
<1>2. \A n \in Mutex : running \notin Range(pSleep_queue[n])
  BY <1>1, SleepersNotReady
<1>3. /\ pSleep_queue'[m] = Append(pSleep_queue[m], running)
      /\ \A n \in Mutex \ {m} : pSleep_queue'[n] = pSleep_queue[n]
  BY <1>1 DEF TypeOK
<1>4. /\ pSleep_queue'[m] \in Seq(Thread)
      /\ IsInjective(pSleep_queue'[m])
      /\ Range(pSleep_queue'[m]) = Range(pSleep_queue[m]) \union {running}
  <2>1. pSleep_queue[m] \in Seq(Thread) /\ running \in Thread /\ IsInjective(pSleep_queue[m])
    BY <1>1 DEF TypeOK, QueueInv
  <2> QED  BY <1>1, <1>2, <1>3, <2>1, AppendQueue
<1>5. TypeOK'
  BY <1>1, <1>3, <1>4 DEF TypeOK, Point
<1>6. DispatchInv' /\ ReadyInv' /\ RateMonotonic'
  BY <1>1 DEF TypeOK, DispatchInv, OwnContext, ReadyInv, RateMonotonic
<1>7. FrameInv'
  <2>1. ASSUME NEW t \in Thread \ {running}, WaitFrame(t) PROVE WaitFrame(t)'
    BY <1>1, <2>1 DEF TypeOK, WaitFrame
  <2>2. ASSUME NEW t \in Thread \ {running}, LockFrame(t) PROVE LockFrame(t)'
    BY <1>1, <1>3, <1>4, <2>2 DEF TypeOK, LockFrame
  <2>3. LockFrame(running)'
    BY <1>1, <1>4 DEF TypeOK, LockFrame, HolderInv
  <2> QED  BY <1>1, <2>1, <2>2, <2>3 DEF TypeOK, FrameInv, Blocking
<1>8. QueueInv'
  <2>1. \A n \in Mutex : \A t \in Range(pSleep_queue'[n]) :
            pc'[t] \in Blocking /\ op'[t] = "mutex_lock" /\ obj'[t] = n
    BY <1>1, <1>2, <1>3, <1>4 DEF TypeOK, QueueInv, Blocking
  <2>2. \A n \in Mutex : IsInjective(pSleep_queue'[n])
    BY <1>3, <1>4 DEF QueueInv
  <2>3. \A d \in Device : \A t \in Range(sleep_queue[d]) : t # running
    BY <1>1, SleepersNotReady
  <2> QED  BY <2>1, <2>2, <2>3 DEF TypeOK, QueueInv
<1>9. MutexInv'
  BY <1>1, <1>3 DEF TypeOK, MutexInv
<1>10. HolderInv'
  BY <1>1 DEF TypeOK, HolderInv, Blocking
<1> QED  BY <1>5, <1>6, <1>7, <1>8, <1>9, <1>10

\* The tail of mutex_lock records what mutex_unlock has already decided.
LEMMA Step_mutex_lock_return ==
  ASSUME IndInv, mutex_lock_return
  PROVE  IndInv'
<1> USE Sets DEF mutex_lock_return, At, TakeMutex, ReturnToUser, IndInv, schedVars, deviceVars
<1> DEFINE m == obj[running]
<1>1. running \in Task /\ cur_tcb = running /\ running \in runnable
  BY DEF TypeOK, DispatchInv, OwnContext, ReadyInv
<1>2. LockFrame(running)
  BY <1>1 DEF FrameInv, WaitFrame, Blocking
<1>3. m \in Mutex /\ pHolding_Tcb[m] = running
  BY <1>1, <1>2 DEF LockFrame
<1>4. bLock[m] /\ ~bAvailable[m]
  BY <1>1, <1>3 DEF MutexInv
<1>5. bLock' = bLock /\ pHolding_Tcb' = pHolding_Tcb
  BY <1>1, <1>3, <1>4 DEF TypeOK
<1>6. TypeOK'
  BY <1>3, <1>5 DEF TypeOK, Point
<1>7. DispatchInv' /\ ReadyInv' /\ RateMonotonic'
  BY <1>1 DEF TypeOK, DispatchInv, OwnContext, ReadyInv, RateMonotonic
<1>8. FrameInv'
  BY <1>1, <1>5 DEF TypeOK, FrameInv, WaitFrame, LockFrame, Blocking
<1>9. QueueInv'
  <2>1. /\ \A d \in Device : running \notin Range(sleep_queue[d])
        /\ \A n \in Mutex : running \notin Range(pSleep_queue[n])
    BY <1>1, ReadyNotQueued
  <2> QED  BY <1>1, <2>1 DEF TypeOK, QueueInv
<1>10. MutexInv'
  BY <1>5 DEF MutexInv
<1>11. HolderInv'
  BY <1>1, <1>3, <1>5 DEF TypeOK, HolderInv
<1> QED  BY <1>6, <1>7, <1>8, <1>9, <1>10, <1>11

\* mutex_unlock frees a mutex for which nobody waits.
LEMMA Step_mutex_unlock_free ==
  ASSUME IndInv, NEW m, mutex_unlock_free(m)
  PROVE  IndInv'
<1> USE Sets DEF mutex_unlock_free, At, MayUnlock, GiveUp, InvalidMutex, IndInv, frameVars, deviceVars
<1>1. running \in Task /\ cur_tcb = running /\ m \in Mutex /\ pHolding_Tcb[m] = running
  BY DEF TypeOK, DispatchInv, OwnContext
<1>2. TypeOK'
  BY <1>1 DEF TypeOK
<1>3. DispatchInv' /\ ReadyInv' /\ RateMonotonic'
  BY DEF DispatchInv, OwnContext, ReadyInv, RateMonotonic
<1>4. FrameInv'
  BY <1>1 DEF TypeOK, FrameInv, WaitFrame, LockFrame, Blocking
<1>5. QueueInv'
  BY DEF QueueInv
<1>6. MutexInv' /\ HolderInv'
  BY <1>1 DEF TypeOK, MutexInv, HolderInv, Blocking
<1> QED  BY <1>2, <1>3, <1>4, <1>5, <1>6

\* mutex_unlock hands the mutex to the first waiting task.
LEMMA Step_mutex_unlock_handoff ==
  ASSUME IndInv, NEW m, mutex_unlock_handoff(m)
  PROVE  IndInv'
<1> USE Sets DEF mutex_unlock_handoff, At, MayUnlock, GiveUp, InvalidMutex, IndInv, frameVars, deviceVars
<1>0. PICK h : h = Head(pSleep_queue[m])
  OBVIOUS
<1>1. /\ running \in Task /\ cur_tcb = running /\ m \in Mutex
      /\ pHolding_Tcb[m] = running /\ running \in runnable
  BY DEF TypeOK, DispatchInv, OwnContext, ReadyInv
<1>2. pSleep_queue[m] \in Seq(Thread) /\ pSleep_queue[m] # <<>> /\ IsInjective(pSleep_queue[m])
  BY <1>1 DEF TypeOK, QueueInv
<1>3. h \in Range(pSleep_queue[m])
  BY <1>0, <1>2, HeadInQueue
<1>4. h \in Thread /\ h \notin runnable /\ h # running
  BY <1>1, <1>3, SleepersNotReady
<1>5. pc[h] \in Blocking /\ op[h] = "mutex_lock" /\ obj[h] = m /\ LockFrame(h)
  <2>1. pc[h] \in Blocking /\ op[h] = "mutex_lock" /\ obj[h] = m
    BY <1>1, <1>3 DEF QueueInv
  <2> QED  BY <1>4, <2>1 DEF FrameInv, WaitFrame
<1>6. h \in Task /\ pc[h] \in {"queued", "resumed"}
  BY <1>4, <1>5 DEF ReadyInv, DispatchInv, Blocking
<1>7. /\ pSleep_queue'[m] = Tail(pSleep_queue[m])
      /\ \A n \in Mutex \ {m} : pSleep_queue'[n] = pSleep_queue[n]
  BY <1>1 DEF TypeOK
<1>8. /\ pSleep_queue'[m] \in Seq(Thread)
      /\ IsInjective(pSleep_queue'[m])
      /\ Range(pSleep_queue'[m]) = Range(pSleep_queue[m]) \ {h}
  BY <1>0, <1>2, <1>7, TailQueue
<1>9. runnable' = runnable \union {h} /\ pHolding_Tcb' = [pHolding_Tcb EXCEPT ![m] = h]
  BY <1>0
<1>10. TypeOK'
  <2>1. pSleep_queue' \in [Mutex -> Seq(Thread)]
    BY <1>1, <1>2, <1>7, <1>8 DEF TypeOK
  <2>2. pHolding_Tcb' \in [Mutex -> Thread \union {NULL}] /\ runnable' \in SUBSET Thread
    BY <1>4, <1>9, ZenonT(30) DEF TypeOK
  <2> QED  BY <1>1, <2>1, <2>2 DEF TypeOK
<1>11. DispatchInv' /\ ReadyInv'
  BY <1>9 DEF DispatchInv, OwnContext, ReadyInv
<1>12. RateMonotonic'
  BY <1>5, <1>6, <1>9 DEF RateMonotonic
<1>13. FrameInv'
  <2>1. ASSUME NEW t \in Thread, pc[t] \in Blocking, WaitFrame(t) PROVE WaitFrame(t)'
    BY <1>5, <1>9, <2>1 DEF WaitFrame
  <2>2. ASSUME NEW t \in Thread, t # h, pc[t] \in Blocking, LockFrame(t)
        PROVE  LockFrame(t)'
    <3>1. t # running
      BY <2>2 DEF Blocking
    <3>2. t \in runnable => obj[t] # m
      BY <1>1, <2>2, <3>1 DEF LockFrame
    <3> QED  BY <1>1, <1>7, <1>8, <1>9, <2>2, <3>1, <3>2 DEF TypeOK, LockFrame
  <2>3. LockFrame(h)'
    <3>1. h \in runnable' /\ h \notin Range(pSleep_queue'[m]) /\ pHolding_Tcb'[m] = h
      BY <1>1, <1>8, <1>9 DEF TypeOK
    <3>2. m \notin held'[h]
      BY <1>4, <1>5 DEF TypeOK, LockFrame
    <3> QED  BY <1>1, <1>5, <3>1, <3>2 DEF LockFrame
  <2>4. ASSUME NEW t \in Thread, pc[t] \in Blocking PROVE (WaitFrame(t) \/ LockFrame(t))'
    <3>1. WaitFrame(t) \/ LockFrame(t)
      BY <2>4 DEF FrameInv
    <3> QED  BY <2>1, <2>2, <2>3, <2>4, <3>1
  <2>5. \A t \in Thread : pc[t] = "unlinked" => t # h
    BY <1>6
  <2> QED  BY <1>9, <2>4, <2>5 DEF FrameInv
<1>14. QueueInv'
  BY <1>7, <1>8 DEF QueueInv
<1>15. MutexInv'
  BY <1>1, <1>6, <1>7, <1>9 DEF TypeOK, MutexInv
<1>16. HolderInv'
  BY <1>1, <1>4, <1>5, <1>9 DEF TypeOK, HolderInv, LockFrame
<1> QED  BY <1>10, <1>11, <1>12, <1>13, <1>14, <1>15, <1>16

\* What the timer interrupt does to the queues, with or without a dispatch.
LEMMA TickFacts ==
  ASSUME IndInv, TimerTick, DispatcherQuiet'
  PROVE  /\ pc[running] \notin {"picked", "switching"}
         /\ disturbed' \in SUBSET DispatchWindows
         /\ runnable \subseteq runnable'
         /\ runnable' \in SUBSET Thread
         /\ system_time' \in 0..(TimeMod - 1)
         /\ next_match' \in [Device -> 0..(TimeMod - 1)]
         /\ sleep_queue' \in [Device -> Seq(Thread)]
         /\ \A t \in runnable' \ runnable : op[t] = "event_wait" /\ pc[t] \in Blocking
         /\ FrameInv' /\ QueueInv' /\ MutexInv' /\ HolderInv'
<1> USE Sets DEF TimerTick, IndInv, frameVars, mutexVars
<1> DEFINE now == system_time'
           due == Matching(now)
<1>1. due \subseteq Device
  BY DEF Matching
<1>2. now \in 0..(TimeMod - 1)
  <2>1. system_time + 1 \in Nat
    BY DEF TypeOK
  <2> QED  BY <2>1, TickInRange
<1>3. /\ sleep_queue' = [d \in Device |-> IF d \in due THEN <<>> ELSE sleep_queue[d]]
      /\ next_match' = [d \in Device |->
            IF d \in due THEN (next_match[d] + DevFreq[d]) % TimeMod ELSE next_match[d]]
  BY DEF SignalDevices
<1>4. \A t : t \in runnable' <=> t \in runnable \/ \E d \in due : t \in Range(sleep_queue[d])
  BY DEF Woken
<1> HIDE DEF due, now
<1>5. next_match' \in [Device -> 0..(TimeMod - 1)]
  <2>1. \A d \in Device : next_match[d] + DevFreq[d] \in Nat
    BY FrequencyAssumption DEF TypeOK, Device
  <2>2. \A d \in Device : (next_match[d] + DevFreq[d]) % TimeMod \in 0..(TimeMod - 1)
    BY <2>1, TickInRange
  <2> QED  BY <1>3, <2>2 DEF TypeOK
<1>6. sleep_queue' \in [Device -> Seq(Thread)]
  BY <1>3 DEF TypeOK
<1>7. /\ \A d \in due : sleep_queue'[d] = <<>> /\ Range(sleep_queue'[d]) = {}
      /\ \A d \in Device \ due : sleep_queue'[d] = sleep_queue[d]
  BY <1>1, <1>3, EmptyQueue
<1>8. \A t \in runnable' \ runnable :
        /\ t \in Thread /\ pc[t] \in Blocking
        /\ op[t] = "event_wait" /\ obj[t] \in due
  BY <1>1, <1>4, SleepersNotReady DEF QueueInv
<1>9. FrameInv'
  <2>1. ASSUME NEW t \in Thread, pc[t] \in Blocking, WaitFrame(t) PROVE WaitFrame(t)'
    <3>1. CASE obj[t] \in due
      BY <1>4, <1>7, <2>1, <3>1 DEF WaitFrame
    <3>2. CASE obj[t] \notin due
      <4>1. t \in runnable' <=> t \in runnable
        BY <1>4, <1>8, <3>2
      <4> QED  BY <1>7, <2>1, <3>2, <4>1 DEF WaitFrame
    <3> QED  BY <3>1, <3>2
  <2>2. ASSUME NEW t \in Thread, LockFrame(t) PROVE LockFrame(t)'
    <3>1. t \in runnable' <=> t \in runnable
      BY <1>4, <1>8, <2>2 DEF LockFrame
    <3> QED  BY <2>2, <3>1 DEF LockFrame
  <2>3. ASSUME NEW t \in Thread, pc[t] \in Blocking PROVE (WaitFrame(t) \/ LockFrame(t))'
    <3>1. WaitFrame(t) \/ LockFrame(t)
      BY <2>3 DEF FrameInv
    <3> QED  BY <2>1, <2>2, <2>3, <3>1
  <2>4. \A t \in Thread : pc[t] = "unlinked" /\ t \notin runnable => t \notin runnable'
    BY <1>8 DEF Blocking
  <2> QED  BY <2>3, <2>4 DEF FrameInv
<1>10. QueueInv'
  BY <1>7, EmptyQueue DEF QueueInv
<1>11. MutexInv' /\ HolderInv'
  BY <1>4 DEF MutexInv, HolderInv
<1>12. runnable' \in SUBSET Thread /\ runnable \subseteq runnable'
  BY <1>4, <1>8 DEF TypeOK
<1>13. pc[running] \notin {"picked", "switching"} /\ disturbed' = {}
  BY DEF DispatcherQuiet, DispatchWindows
<1> QED  BY <1>2, <1>5, <1>6, <1>8, <1>9, <1>10, <1>11, <1>12, <1>13 DEF now

\* A tick that wakes nobody lets the interrupted thread go on.
LEMMA Step_C_IRQ_Handler_quiet ==
  ASSUME IndInv, C_IRQ_Handler_quiet, DispatcherQuiet'
  PROVE  IndInv'
<1> USE Sets DEF C_IRQ_Handler_quiet, IndInv
<1>1. runnable' = runnable /\ pc' = pc /\ op' = op /\ obj' = obj /\ from' = from /\ to' = to
      /\ mutexVars' = mutexVars /\ value' = value /\ held' = held
  BY DEF TimerTick, frameVars, mutexVars
<1>2. TypeOK'
  BY <1>1, TickFacts DEF TypeOK, mutexVars
<1>3. DispatchInv' /\ ReadyInv' /\ RateMonotonic'
  BY <1>1 DEF DispatchInv, OwnContext, ReadyInv, RateMonotonic
<1> QED  BY <1>2, <1>3, TickFacts

\* A tick that wakes tasks switches to the highest priority task.
LEMMA Step_C_IRQ_Handler_dispatch ==
  ASSUME IndInv, C_IRQ_Handler_dispatch, DispatcherQuiet'
  PROVE  IndInv'
<1> USE Sets DEF C_IRQ_Handler_dispatch, IndInv
<1>1. pc' = pc /\ op' = op /\ obj' = obj /\ from' = from /\ to' = to
      /\ mutexVars' = mutexVars /\ value' = value /\ held' = held
      /\ pc[running] \in Interruptible
  BY DEF TimerTick, frameVars, mutexVars
<1>2. pc[running] \notin {"picked", "switching"} /\ cur_tcb = running
  BY TickFacts DEF DispatchInv, OwnContext
<1>3. runnable' \in SUBSET Thread /\ runnable \subseteq runnable'
  BY TickFacts
<1>4. cur_tcb' \in runnable' /\ \A t \in runnable' : cur_tcb' <= t
  BY <1>3, HighestIsLeast DEF ReadyInv
<1>5. ctx' = ctx /\ running' = cur_tcb'
  BY <1>2, <1>3, <1>4 DEF TypeOK, DispatchInv, OwnContext, ctx_switch_full
<1>6. TypeOK'
  BY <1>1, <1>3, <1>4, <1>5, TickFacts DEF TypeOK, mutexVars
<1>7. DispatchInv'
  BY <1>1, <1>2, <1>3, <1>4, <1>5 DEF DispatchInv, OwnContext
<1>8. ReadyInv'
  BY <1>1, <1>3, <1>4, <1>5 DEF ReadyInv
<1>9. RateMonotonic'
  BY <1>3, <1>4, <1>5 DEF RateMonotonic
<1> QED  BY <1>6, <1>7, <1>8, <1>9, TickFacts

\* The invariant is kept by every step but an interrupt of the dispatcher.
THEOREM NextIndInv ==
  ASSUME IndInv, [Next]_vars, DispatcherQuiet'
  PROVE  IndInv'
<1>1. CASE event_wait_syscall
  BY <1>1, StepError, Step_dev_wait_remove, Step_dev_wait_link, Step_event_wait_return
     DEF event_wait_syscall, event_wait_invalid
<1>2. CASE mutex_create_syscall
  BY <1>2, StepError, Step_mutex_create_find, Step_mutex_create_grab
     DEF mutex_create_syscall, mutex_create_full
<1>3. CASE mutex_lock_syscall
  BY <1>3, StepError, Step_mutex_lock_free, Step_mutex_lock_blocked, Step_mutex_lock_return
     DEF mutex_lock_syscall, mutex_lock_invalid, mutex_lock_own
<1>4. CASE mutex_unlock_syscall
  BY <1>4, StepError, Step_mutex_unlock_free, Step_mutex_unlock_handoff
     DEF mutex_unlock_syscall, mutex_unlock_invalid, mutex_unlock_not_owner
<1>5. CASE dispatch
  BY <1>5, Step_dispatch_pick, Step_dispatch_set_cur, Step_dispatch_switch DEF dispatch
<1>6. CASE C_IRQ_Handler
  BY <1>6, Step_C_IRQ_Handler_quiet, Step_C_IRQ_Handler_dispatch DEF C_IRQ_Handler
<1>7. CASE UNCHANGED vars
  <2> USE <1>7 DEF vars, schedVars, frameVars, deviceVars, mutexVars, IndInv
  <2>1. TypeOK' /\ DispatchInv' /\ ReadyInv' /\ RateMonotonic'
    BY DEF TypeOK, DispatchInv, OwnContext, ReadyInv, RateMonotonic
  <2>2. FrameInv' /\ QueueInv' /\ MutexInv' /\ HolderInv'
    BY DEF FrameInv, WaitFrame, LockFrame, QueueInv, MutexInv, HolderInv
  <2> QED  BY <2>1, <2>2
<1> QED  BY <1>1, <1>2, <1>3, <1>4, <1>5, <1>6, <1>7 DEF Next

-----------------------------------------------------------------------------
(* What holds wherever the interrupt is taken *)

\* The dispatcher's choice is a thread, even from an empty run queue.
LEMMA HighestIsThread ==
  ASSUME NEW ready \in SUBSET Thread
  PROVE  highest_prio(ready) \in Thread
<1>1. CASE ready = {}
  BY <1>1, ConstantsAssumption DEF highest_prio, Thread, IDLE_PRIO
<1>2. CASE ready # {}
  BY <1>2, HighestIsLeast
<1> QED  BY <1>1, <1>2

\* What a tick does to the clock and the devices' queues.
LEMMA TickTypes ==
  ASSUME TypeOK, TimerTick
  PROVE  /\ runnable' \in SUBSET Thread
         /\ system_time' \in 0..(TimeMod - 1)
         /\ next_match' \in [Device -> 0..(TimeMod - 1)]
         /\ sleep_queue' \in [Device -> Seq(Thread)]
         /\ disturbed' \in SUBSET DispatchWindows
         /\ UNCHANGED <<pc, op, obj, from, to, mutexVars, value, held>>
<1> USE Sets
<1>1. system_time' \in 0..(TimeMod - 1)
  <2>1. system_time + 1 \in Nat
    BY DEF TypeOK
  <2> QED  BY <2>1, TickInRange DEF TimerTick
<1>2. next_match' \in [Device -> 0..(TimeMod - 1)]
  <2>1. \A d \in Device : next_match[d] + DevFreq[d] \in Nat
    BY FrequencyAssumption DEF TypeOK, Device
  <2>2. \A d \in Device : (next_match[d] + DevFreq[d]) % TimeMod \in 0..(TimeMod - 1)
    BY <2>1, TickInRange
  <2> QED  BY <2>2 DEF TypeOK, TimerTick, SignalDevices
<1>3. sleep_queue' \in [Device -> Seq(Thread)]
  BY DEF TypeOK, TimerTick, SignalDevices
<1>4. \A d \in Device : Range(sleep_queue[d]) \subseteq Thread
  BY DEF TypeOK, Range
<1>5. runnable' \in SUBSET Thread
  <2>1. Woken(system_time') \subseteq Thread
    BY <1>4 DEF Woken, Matching
  <2> QED  BY <2>1 DEF TypeOK, TimerTick
<1>6. disturbed' \in SUBSET DispatchWindows
  BY DEF TypeOK, TimerTick
<1>7. UNCHANGED <<pc, op, obj, from, to, mutexVars, value, held>>
  BY DEF TimerTick, frameVars
<1> QED  BY <1>1, <1>2, <1>3, <1>5, <1>6, <1>7

\* The register switch goes from a thread to a thread.
LEMMA SwitchTypes ==
  ASSUME ctx \in [Thread -> Thread], running \in Thread,
         NEW target \in Thread, NEW current \in Thread, ctx_switch_full(target, current)
  PROVE  ctx' \in [Thread -> Thread] /\ running' \in Thread
  BY DEF ctx_switch_full

\* Every step keeps the types.
LEMMA NextTypeInv ==
  ASSUME TypeInv, [Next]_vars
  PROVE  TypeInv'
<1> USE Sets DEF TypeInv, TypeOK, Point, HotWindows, DispatchWindows, Blocking, At, Removed,
                 schedVars, frameVars, deviceVars, mutexVars
<1>1. ASSUME NEW code \in {EPERM, EINVAL, EDEADLOCK, -ENOMEM}, ReturnError(code) PROVE TypeInv'
  BY <1>1 DEF ReturnError
<1>2. ASSUME NEW d, dev_wait_remove(d) PROVE TypeInv'
  BY <1>2 DEF dev_wait_remove
<1>3. CASE dev_wait_link
  <2>1. sleep_queue[obj[running]] \in Seq(Thread) /\ obj[running] \in Device
    BY <1>3 DEF dev_wait_link
  <2>2. LinkedBehind(sleep_queue[obj[running]], from[running]) \in Seq(Thread)
    BY <2>1, AppendQueue DEF LinkedBehind
  <2>3. sleep_queue' \in [Device -> Seq(Thread)]
    BY <1>3, <2>1, <2>2 DEF dev_wait_link
  <2>4. /\ pc' = [pc EXCEPT ![running] = "queued"]
        /\ UNCHANGED <<runnable, cur_tcb, running, ctx, op, obj, from, to, next_match,
                       system_time, disturbed, mutexVars, value, held>>
    BY <1>3 DEF dev_wait_link
  <2>5. TypeOK'
    BY <2>3, <2>4
  <2>6. ASSUME NEW t \in Thread, op[t] = "mutex_lock", pc'[t] \in Blocking PROVE obj[t] \in Mutex
    BY <1>3, <2>4, <2>6 DEF dev_wait_link
  <2> QED  BY <2>4, <2>5, <2>6
<1>4. CASE event_wait_return
  BY <1>4 DEF event_wait_return, ReturnToUser
<1>5. CASE dispatch_pick
  <2>1. highest_prio(runnable) \in Thread
    BY HighestIsThread
  <2> QED  BY <1>5, <2>1 DEF dispatch_pick
<1>6. CASE dispatch_set_cur
  BY <1>6 DEF dispatch_set_cur
<1>7. CASE dispatch_switch
  <2>1. ctx' \in [Thread -> Thread] /\ running' \in Thread
    BY <1>7, SwitchTypes DEF dispatch_switch
  <2> QED  BY <1>7, <2>1 DEF dispatch_switch
<1>8. CASE mutex_create_find
  <2>1. PICK m \in Mutex : obj' = [obj EXCEPT ![running] = m]
    BY <1>8 DEF mutex_create_find
  <2> QED  BY <1>8, <2>1 DEF mutex_create_find
<1>9. CASE mutex_create_grab
  BY <1>9 DEF mutex_create_grab, ReturnToUser
<1>10. ASSUME NEW m, mutex_lock_free(m) PROVE TypeInv'
  BY <1>10 DEF mutex_lock_free, TakeMutex, InvalidMutex
<1>11. ASSUME NEW m, mutex_lock_blocked(m) PROVE TypeInv'
  <2>1. m \in Mutex /\ pSleep_queue[m] \in Seq(Thread)
    BY <1>11 DEF mutex_lock_blocked, InvalidMutex
  <2>2. LinkedBehind(pSleep_queue[m], Removed) \in Seq(Thread)
    BY <2>1, AppendQueue DEF LinkedBehind
  <2>3. pSleep_queue' \in [Mutex -> Seq(Thread)]
    BY <1>11, <2>1, <2>2 DEF mutex_lock_blocked
  <2> QED  BY <1>11, <2>1, <2>3 DEF mutex_lock_blocked
<1>12. CASE mutex_lock_return
  <2>1. obj[running] \in Mutex
    BY <1>12 DEF mutex_lock_return
  <2> QED  BY <1>12, <2>1 DEF mutex_lock_return, TakeMutex, ReturnToUser
<1>13. ASSUME NEW m, mutex_unlock_free(m) PROVE TypeInv'
  BY <1>13 DEF mutex_unlock_free, MayUnlock, GiveUp, InvalidMutex
<1>14. ASSUME NEW m, mutex_unlock_handoff(m) PROVE TypeInv'
  <2>1. m \in Mutex /\ pSleep_queue[m] \in Seq(Thread) /\ pSleep_queue[m] # <<>>
    BY <1>14 DEF mutex_unlock_handoff, MayUnlock, InvalidMutex
  <2>2. Head(pSleep_queue[m]) \in Thread /\ Tail(pSleep_queue[m]) \in Seq(Thread)
    BY <2>1
  <2> QED  BY <1>14, <2>1, <2>2 DEF mutex_unlock_handoff, MayUnlock, GiveUp
<1>15. CASE C_IRQ_Handler_quiet
  BY <1>15, TickTypes DEF C_IRQ_Handler_quiet
<1>16. CASE C_IRQ_Handler_dispatch
  <2>1. cur_tcb' \in Thread
    BY <1>16, TickTypes, HighestIsThread DEF C_IRQ_Handler_dispatch
  <2>2. ctx' \in [Thread -> Thread] /\ running' \in Thread
    BY <1>16, <2>1, SwitchTypes DEF C_IRQ_Handler_dispatch
  <2> QED  BY <1>16, <2>1, <2>2, TickTypes DEF C_IRQ_Handler_dispatch
<1>17. CASE UNCHANGED vars
  BY <1>17 DEF vars
<1> QED
  BY <1>1, <1>2, <1>3, <1>4, <1>5, <1>6, <1>7, <1>8, <1>9, <1>10, <1>11, <1>12, <1>13,
     <1>14, <1>15, <1>16, <1>17
     DEF Next, event_wait_syscall, event_wait_invalid, mutex_create_syscall,
         mutex_create_full, mutex_lock_syscall, mutex_lock_invalid, mutex_lock_own,
         mutex_unlock_syscall, mutex_unlock_invalid, mutex_unlock_not_owner, dispatch,
         C_IRQ_Handler

\* A step that moves no TCB.
LEMMA NothingMoves ==
  ASSUME QueuesInv, UNCHANGED <<runnable, sleep_queue, pSleep_queue>>,
         \A u, t \in Thread : Carries(u, t)' <=> Carries(u, t)
  PROVE  QueuesInv'
<1>1. \A t : Asleep(t)' <=> Asleep(t)
  BY DEF Asleep
<1>2. InOneQueue'
  BY <1>1 DEF QueuesInv, InOneQueue
<1>3. TcbConserved'
  BY <1>1 DEF QueuesInv, TcbConserved
<1> QED  BY <1>2, <1>3 DEF QueuesInv

\* dev_wait takes a TCB from the run queue into the hands of the caller.
LEMMA Move_dev_wait_remove ==
  ASSUME TypeInv, QueuesInv, NEW d, dev_wait_remove(d)
  PROVE  QueuesInv'
<1> USE Sets DEF dev_wait_remove, At
<1>1. /\ running \in Thread /\ cur_tcb \in Thread
      /\ pc \in [Thread -> Point] /\ from \in [Thread -> Thread \union {NULL}]
      /\ UNCHANGED <<sleep_queue, pSleep_queue>>
  BY DEF TypeInv, TypeOK, deviceVars, mutexVars
<1>2. \A t : Asleep(t)' <=> Asleep(t)
  BY <1>1 DEF Asleep
<1>3. \A u, t \in Thread :
        Carries(u, t)' <=> Carries(u, t) \/ (u = running /\ t = cur_tcb /\ cur_tcb \in runnable)
  BY <1>1 DEF Carries, Removed
<1>4. InOneQueue'
  BY <1>1, <1>2 DEF QueuesInv, InOneQueue
<1>5. TcbConserved'
  BY <1>1, <1>2, <1>3 DEF QueuesInv, InOneQueue, TcbConserved
<1> QED  BY <1>4, <1>5 DEF QueuesInv

\* dev_wait links the TCB it carries into the queue of its device.
LEMMA Move_dev_wait_link ==
  ASSUME TypeInv, QueuesInv, dev_wait_link
  PROVE  QueuesInv'
<1> USE Sets DEF dev_wait_link, At
<1> DEFINE d == obj[running]
           tcb == from[running]
<1>1. /\ running \in Thread /\ d \in Device /\ tcb \in Thread \union {NULL}
      /\ pc \in [Thread -> Point] /\ sleep_queue \in [Device -> Seq(Thread)]
      /\ UNCHANGED <<runnable, pSleep_queue, from>>
  BY DEF TypeInv, TypeOK, schedVars, mutexVars
<1>2. \A u, t \in Thread : Carries(u, t)' <=> Carries(u, t) /\ u # running
  BY <1>1 DEF Carries
<1>3. CASE tcb = NULL
  <2>1. sleep_queue' = sleep_queue
    BY <1>1, <1>3 DEF LinkedBehind
  <2>2. \A t \in Thread : ~Carries(running, t)
    BY <1>3 DEF Carries
  <2> QED  BY <1>1, <1>2, <2>1, <2>2, NothingMoves
<1>4. CASE tcb \in Thread
  <2>1. Carries(running, tcb) /\ \A t \in Thread : Carries(running, t) => t = tcb
    BY DEF Carries
  <2>2. tcb \notin runnable /\ ~Asleep(tcb) /\ \A v \in Thread : Carries(v, tcb) => v = running
    BY <1>1, <1>4, <2>1 DEF QueuesInv, TcbConserved
  <2>3. tcb \notin Range(sleep_queue[d])
    BY <1>1, <2>2 DEF Asleep
  <2>4. /\ sleep_queue'[d] = Append(sleep_queue[d], tcb)
        /\ \A e \in Device \ {d} : sleep_queue'[e] = sleep_queue[e]
    BY <1>1, <1>4 DEF LinkedBehind
  <2> HIDE DEF d, tcb, dev_wait_link, At
  <2>5. /\ Range(sleep_queue'[d]) = Range(sleep_queue[d]) \union {tcb}
        /\ IsInjective(sleep_queue'[d])
    <3>1. sleep_queue[d] \in Seq(Thread) /\ IsInjective(sleep_queue[d])
      BY <1>1 DEF QueuesInv, InOneQueue
    <3>2. /\ Range(Append(sleep_queue[d], tcb)) = Range(sleep_queue[d]) \union {tcb}
          /\ IsInjective(Append(sleep_queue[d], tcb))
      BY <1>4, <2>3, <3>1, AppendQueue
    <3> QED  BY <2>4, <3>2
  <2>6. \A t : Asleep(t)' <=> Asleep(t) \/ t = tcb
    BY <1>1, <2>4, <2>5 DEF Asleep
  <2>7. InOneQueue'
    <3>1. /\ \A e \in Device : tcb \notin Range(sleep_queue[e])
          /\ \A m \in Mutex : tcb \notin Range(pSleep_queue[m])
      BY <2>2 DEF Asleep
    <3>2. \A t \in Thread : Asleep(t)' => t \notin runnable'
      BY <1>1, <2>2, <2>6 DEF QueuesInv, InOneQueue
    <3>3. \A e \in Device : IsInjective(sleep_queue'[e])
      BY <2>4, <2>5 DEF QueuesInv, InOneQueue
    <3>4. \A e, f \in Device : Range(sleep_queue'[e]) \intersect Range(sleep_queue'[f]) # {} => e = f
      <4> SUFFICES ASSUME NEW e \in Device, NEW f \in Device, NEW x,
                          x \in Range(sleep_queue'[e]), x \in Range(sleep_queue'[f])
                   PROVE  e = f
        OBVIOUS
      <4>1. CASE x = tcb
        BY <2>4, <3>1, <4>1
      <4>2. CASE x # tcb
        <5>1. x \in Range(sleep_queue[e]) /\ x \in Range(sleep_queue[f])
          <6>1. ASSUME NEW g \in Device, x \in Range(sleep_queue'[g]) PROVE x \in Range(sleep_queue[g])
            BY <2>4, <2>5, <4>2, <6>1
          <6> QED  BY <6>1
        <5> QED  BY <5>1 DEF QueuesInv, InOneQueue
      <4> QED  BY <4>1, <4>2
    <3>5. \A e \in Device, m \in Mutex : Range(sleep_queue'[e]) \intersect Range(pSleep_queue'[m]) = {}
      <4> SUFFICES ASSUME NEW e \in Device, NEW m \in Mutex, NEW x,
                          x \in Range(sleep_queue'[e]), x \in Range(pSleep_queue[m])
                   PROVE  FALSE
        BY <1>1
      <4>1. x # tcb
        BY <3>1
      <4>2. x \in Range(sleep_queue[e])
        BY <2>4, <2>5, <4>1
      <4> QED  BY <4>2 DEF QueuesInv, InOneQueue
    <3> QED  BY <1>1, <3>2, <3>3, <3>4, <3>5 DEF QueuesInv, InOneQueue
  <2>8. TcbConserved'
    BY <1>1, <1>2, <2>1, <2>2, <2>6 DEF QueuesInv, TcbConserved
  <2> QED  BY <2>7, <2>8 DEF QueuesInv
<1> QED  BY <1>1, <1>3, <1>4

\* mutex_lock moves a TCB from the run queue to the mutex's queue.
LEMMA Move_mutex_lock_blocked ==
  ASSUME TypeInv, QueuesInv, NEW m, mutex_lock_blocked(m)
  PROVE  QueuesInv'
<1> USE Sets DEF mutex_lock_blocked, At
<1>1. /\ running \in Thread /\ m \in Mutex /\ cur_tcb \in Thread
      /\ pc \in [Thread -> Point] /\ pSleep_queue \in [Mutex -> Seq(Thread)]
      /\ UNCHANGED <<sleep_queue, from>>
  BY DEF TypeInv, TypeOK, deviceVars, InvalidMutex
<1>2. \A u, t \in Thread : Carries(u, t)' <=> Carries(u, t)
  BY <1>1 DEF Carries
<1>3. CASE cur_tcb \notin runnable
  <2>1. UNCHANGED <<runnable, pSleep_queue>>
    BY <1>1, <1>3 DEF Removed, LinkedBehind
  <2> QED  BY <1>1, <1>2, <2>1, NothingMoves
<1>4. CASE cur_tcb \in runnable
  <2>1. ~Asleep(cur_tcb) /\ \A v \in Thread : ~Carries(v, cur_tcb)
    BY <1>1, <1>4 DEF QueuesInv, InOneQueue, TcbConserved
  <2>2. /\ \A e \in Device : cur_tcb \notin Range(sleep_queue[e])
        /\ \A n \in Mutex : cur_tcb \notin Range(pSleep_queue[n])
    BY <2>1 DEF Asleep
  <2>3. /\ pSleep_queue'[m] = Append(pSleep_queue[m], cur_tcb)
        /\ \A n \in Mutex \ {m} : pSleep_queue'[n] = pSleep_queue[n]
    BY <1>1, <1>4 DEF Removed, LinkedBehind
  <2>4. /\ Range(pSleep_queue'[m]) = Range(pSleep_queue[m]) \union {cur_tcb}
        /\ IsInjective(pSleep_queue'[m])
    <3>1. pSleep_queue[m] \in Seq(Thread) /\ IsInjective(pSleep_queue[m])
      BY <1>1 DEF QueuesInv, InOneQueue
    <3> HIDE DEF mutex_lock_blocked, At
    <3>2. /\ Range(Append(pSleep_queue[m], cur_tcb)) = Range(pSleep_queue[m]) \union {cur_tcb}
          /\ IsInjective(Append(pSleep_queue[m], cur_tcb))
      BY <1>1, <2>2, <3>1, AppendQueue
    <3> QED  BY <2>3, <3>2
  <2>5. \A t : Asleep(t)' <=> Asleep(t) \/ t = cur_tcb
    BY <1>1, <2>3, <2>4 DEF Asleep
  <2>6. InOneQueue'
    <3>1. \A t \in Thread : Asleep(t)' => t \notin runnable'
      BY <2>5 DEF QueuesInv, InOneQueue
    <3>2. \A n \in Mutex : IsInjective(pSleep_queue'[n])
      BY <2>3, <2>4 DEF QueuesInv, InOneQueue
    <3>3. \A k, n \in Mutex : Range(pSleep_queue'[k]) \intersect Range(pSleep_queue'[n]) # {} => k = n
      <4> HIDE DEF mutex_lock_blocked, At
      <4> SUFFICES ASSUME NEW k \in Mutex, NEW n \in Mutex, NEW x,
                          x \in Range(pSleep_queue'[k]), x \in Range(pSleep_queue'[n])
                   PROVE  k = n
        OBVIOUS
      <4>1. CASE x = cur_tcb
        BY <2>2, <2>3, <4>1
      <4>2. CASE x # cur_tcb
        <5>1. x \in Range(pSleep_queue[k]) /\ x \in Range(pSleep_queue[n])
          <6>1. ASSUME NEW g \in Mutex, x \in Range(pSleep_queue'[g]) PROVE x \in Range(pSleep_queue[g])
            BY <2>3, <2>4, <4>2, <6>1
          <6> QED  BY <6>1
        <5> QED  BY <5>1 DEF QueuesInv, InOneQueue
      <4> QED  BY <4>1, <4>2
    <3>4. \A e \in Device, n \in Mutex : Range(sleep_queue'[e]) \intersect Range(pSleep_queue'[n]) = {}
      BY <1>1, <2>2, <2>3, <2>4 DEF QueuesInv, InOneQueue
    <3> QED  BY <1>1, <3>1, <3>2, <3>3, <3>4 DEF QueuesInv, InOneQueue
  <2>7. TcbConserved'
    BY <1>2, <2>1, <2>5 DEF QueuesInv, TcbConserved
  <2> QED  BY <2>6, <2>7 DEF QueuesInv
<1> QED  BY <1>3, <1>4

\* mutex_unlock moves the first TCB of the mutex's queue to the run queue.
LEMMA Move_mutex_unlock_handoff ==
  ASSUME TypeInv, QueuesInv, NEW m, mutex_unlock_handoff(m)
  PROVE  QueuesInv'
<1> USE Sets DEF mutex_unlock_handoff, MayUnlock, GiveUp
<1> DEFINE h == Head(pSleep_queue[m])
<1>1. /\ m \in Mutex /\ pSleep_queue[m] \in Seq(Thread) /\ pSleep_queue[m] # <<>>
      /\ pSleep_queue \in [Mutex -> Seq(Thread)]
      /\ UNCHANGED <<sleep_queue, pc, from>>
  BY DEF TypeInv, TypeOK, frameVars, deviceVars, InvalidMutex
<1>2. h \in Range(pSleep_queue[m]) /\ h \in Thread
  BY <1>1, HeadInQueue
<1>3. /\ pSleep_queue'[m] = Tail(pSleep_queue[m])
      /\ \A n \in Mutex \ {m} : pSleep_queue'[n] = pSleep_queue[n]
      /\ runnable' = runnable \union {h}
  BY <1>1
<1>4. /\ Range(pSleep_queue'[m]) = Range(pSleep_queue[m]) \ {h}
      /\ IsInjective(pSleep_queue'[m])
  <2>1. IsInjective(pSleep_queue[m])
    BY <1>1 DEF QueuesInv, InOneQueue
  <2> QED  BY <1>1, <1>3, <2>1, TailQueue
<1> HIDE DEF h
<1>5. Asleep(h) /\ h \notin runnable /\ \A v \in Thread : ~Carries(v, h)
  <2>1. Asleep(h)
    BY <1>1, <1>2 DEF Asleep
  <2> QED  BY <1>2, <2>1 DEF QueuesInv, InOneQueue, TcbConserved
<1>6. /\ \A e \in Device : h \notin Range(sleep_queue[e])
      /\ \A n \in Mutex \ {m} : h \notin Range(pSleep_queue[n])
  BY <1>1, <1>2 DEF QueuesInv, InOneQueue
<1>7. \A t : Asleep(t)' <=> Asleep(t) /\ t # h
  BY <1>1, <1>3, <1>4, <1>6 DEF Asleep
<1>8. \A u, t \in Thread : Carries(u, t)' <=> Carries(u, t)
  BY <1>1 DEF Carries
<1>9. InOneQueue'
  <2>1. \A t \in Thread : Asleep(t)' => t \notin runnable'
    BY <1>3, <1>7 DEF QueuesInv, InOneQueue
  <2>2. \A n \in Mutex : IsInjective(pSleep_queue'[n])
    BY <1>3, <1>4 DEF QueuesInv, InOneQueue
  <2>3. \A n \in Mutex : Range(pSleep_queue'[n]) \subseteq Range(pSleep_queue[n])
    BY <1>3, <1>4
  <2>4. \A n, k \in Mutex :
            Range(pSleep_queue'[n]) \intersect Range(pSleep_queue'[k]) # {} => n = k
    BY <2>3 DEF QueuesInv, InOneQueue
  <2>5. \A d \in Device, n \in Mutex :
            Range(sleep_queue[d]) \intersect Range(pSleep_queue'[n]) = {}
    BY <2>3 DEF QueuesInv, InOneQueue
  <2>6. /\ \A d \in Device : IsInjective(sleep_queue[d])
        /\ \A d, e \in Device :
              Range(sleep_queue[d]) \intersect Range(sleep_queue[e]) # {} => d = e
    BY DEF QueuesInv, InOneQueue
  <2> QED  BY <1>1, <2>1, <2>2, <2>4, <2>5, <2>6 DEF InOneQueue
<1>10. TcbConserved'
  BY <1>3, <1>5, <1>7, <1>8 DEF QueuesInv, TcbConserved
<1> QED  BY <1>9, <1>10 DEF QueuesInv

\* A tick moves the queues of the signalled devices to the run queue.
LEMMA Move_TimerTick ==
  ASSUME TypeInv, QueuesInv, TimerTick
  PROVE  QueuesInv'
<1> DEFINE due == Matching(system_time')
<1>1. /\ sleep_queue' = [d \in Device |-> IF d \in due THEN <<>> ELSE sleep_queue[d]]
      /\ UNCHANGED <<pSleep_queue, pc, from>>
  BY DEF TimerTick, SignalDevices, frameVars, mutexVars
<1>2. \A t : t \in runnable' <=> t \in runnable \/ \E d \in due : t \in Range(sleep_queue[d])
  BY DEF TimerTick, Woken
<1>3. due \subseteq Device
  BY DEF Matching
<1> HIDE DEF due
<1>4. /\ \A d \in due : sleep_queue'[d] = <<>> /\ Range(sleep_queue'[d]) = {}
      /\ \A d \in Device \ due : sleep_queue'[d] = sleep_queue[d]
  BY <1>1, <1>3, EmptyQueue
<1>5. \A t : Asleep(t)' <=> \/ \E d \in Device \ due : t \in Range(sleep_queue[d])
                            \/ \E m \in Mutex : t \in Range(pSleep_queue[m])
  BY <1>1, <1>4 DEF Asleep
<1>6. \A u, t \in Thread : Carries(u, t)' <=> Carries(u, t)
  BY <1>1 DEF Carries
<1>7. \A t \in Thread : Asleep(t) <=> Asleep(t)' \/ \E d \in due : t \in Range(sleep_queue[d])
  BY <1>3, <1>5 DEF Asleep
<1>8. \A t \in Thread : Asleep(t)' => t \notin runnable'
  <2> SUFFICES ASSUME NEW t \in Thread, Asleep(t)' PROVE t \notin runnable'
    OBVIOUS
  <2>1. t \notin runnable
    BY <1>7 DEF QueuesInv, InOneQueue
  <2>2. ASSUME NEW d \in due, t \in Range(sleep_queue[d]) PROVE FALSE
    BY <1>3, <1>5, <2>2 DEF QueuesInv, InOneQueue
  <2> QED  BY <1>2, <2>1, <2>2
<1>9. InOneQueue'
  <2>1. \A d \in Device : IsInjective(sleep_queue'[d])
    BY <1>4, EmptyQueue DEF QueuesInv, InOneQueue
  <2>2. \A d \in Device : Range(sleep_queue'[d]) \subseteq Range(sleep_queue[d])
    BY <1>4
  <2> QED  BY <1>1, <1>8, <2>1, <2>2 DEF QueuesInv, InOneQueue
<1>10. TcbConserved'
  <2>1. ASSUME NEW t \in Thread PROVE t \in runnable' \/ Asleep(t)' \/ \E u \in Thread : Carries(u, t)'
    <3>1. t \in runnable \/ Asleep(t) \/ \E u \in Thread : Carries(u, t)
      BY DEF QueuesInv, TcbConserved
    <3> QED  BY <1>2, <1>6, <1>7, <3>1
  <2>2. ASSUME NEW t \in Thread, NEW u \in Thread, Carries(u, t)'
        PROVE  /\ t \notin runnable' /\ ~Asleep(t)'
               /\ \A v \in Thread : Carries(v, t)' => v = u
    <3>1. /\ t \notin runnable /\ ~Asleep(t)
          /\ \A v \in Thread : Carries(v, t) => v = u
      BY <1>6, <2>2 DEF QueuesInv, TcbConserved
    <3> QED  BY <1>2, <1>6, <1>7, <3>1
  <2> QED  BY <2>1, <2>2 DEF TcbConserved
<1> QED  BY <1>9, <1>10 DEF QueuesInv

\* Every step keeps every TCB in one place.
LEMMA NextQueuesInv ==
  ASSUME TypeInv, QueuesInv, [Next]_vars
  PROVE  QueuesInv'
<1> DEFINE Still == /\ UNCHANGED <<runnable, sleep_queue, pSleep_queue>>
                    /\ \A u, t \in Thread : Carries(u, t)' <=> Carries(u, t)
<1>1. Still => QueuesInv'
  BY NothingMoves
<1> USE DEF TypeInv, TypeOK, At, Carries, schedVars, frameVars, deviceVars, mutexVars
<1>2. ASSUME NEW code, ReturnError(code) PROVE Still
  BY <1>2 DEF ReturnError
<1>3. ASSUME event_wait_return PROVE Still
  BY <1>3 DEF event_wait_return, ReturnToUser
<1>4. ASSUME dispatch_pick \/ dispatch_set_cur PROVE Still
  BY <1>4 DEF dispatch_pick, dispatch_set_cur
<1>5. ASSUME dispatch_switch PROVE Still
  BY <1>5 DEF dispatch_switch
<1>6. ASSUME mutex_create_find \/ mutex_create_grab PROVE Still
  BY <1>6 DEF mutex_create_find, mutex_create_grab, ReturnToUser
<1>7. ASSUME NEW m, mutex_lock_free(m) \/ mutex_unlock_free(m) PROVE Still
  BY <1>7 DEF mutex_lock_free, TakeMutex, mutex_unlock_free, GiveUp
<1>8. ASSUME mutex_lock_return PROVE Still
  BY <1>8 DEF mutex_lock_return, TakeMutex, ReturnToUser
<1>9. ASSUME UNCHANGED vars PROVE Still
  BY <1>9 DEF vars
<1> HIDE DEF Still, TypeInv, TypeOK, At, Carries, schedVars, frameVars, deviceVars, mutexVars
<1> QED
  BY <1>1, <1>2, <1>3, <1>4, <1>5, <1>6, <1>7, <1>8, <1>9, Move_dev_wait_remove,
     Move_dev_wait_link, Move_mutex_lock_blocked, Move_mutex_unlock_handoff, Move_TimerTick
     DEF Next, event_wait_syscall, event_wait_invalid, mutex_create_syscall,
         mutex_create_full, mutex_lock_syscall, mutex_lock_invalid, mutex_lock_own,
         mutex_unlock_syscall, mutex_unlock_invalid, mutex_unlock_not_owner, dispatch,
         C_IRQ_Handler, C_IRQ_Handler_quiet, C_IRQ_Handler_dispatch

-----------------------------------------------------------------------------
(* What holds until an interrupt is taken between the store of cur_tcb and *)
(* the switch of the registers                                             *)

\* Every step but such an interrupt keeps the contexts with their TCBs.
LEMMA NextContextInv ==
  ASSUME TypeInv, ContextInv, [Next]_vars, "switching" \notin disturbed'
  PROVE  ContextInv'
<1> USE Sets DEF TypeInv, TypeOK, ContextInv, OwnContext, DispatchWindows, At,
                 schedVars, frameVars, deviceVars, mutexVars
<1>1. ASSUME NEW code, ReturnError(code) PROVE ContextInv'
  BY <1>1 DEF ReturnError
<1>2. ASSUME NEW d, dev_wait_remove(d) PROVE ContextInv'
  BY <1>2 DEF dev_wait_remove
<1>3. CASE event_wait_return
  BY <1>3 DEF event_wait_return, ReturnToUser
<1>4. CASE dev_wait_link \/ dispatch_pick
  BY <1>4 DEF dev_wait_link, dispatch_pick
<1>5. CASE dispatch_set_cur
  BY <1>5 DEF dispatch_set_cur
<1>6. CASE dispatch_switch
  <2>1. ctx' = ctx /\ running' = to[running] /\ to[running] \in Thread /\ cur_tcb = to[running]
    BY <1>6 DEF dispatch_switch, ctx_switch_full
  <2> QED  BY <1>6, <2>1 DEF dispatch_switch
<1>7. CASE mutex_create_find \/ mutex_create_grab
  BY <1>7 DEF mutex_create_find, mutex_create_grab, ReturnToUser
<1>8. ASSUME NEW m, mutex_lock_free(m) PROVE ContextInv'
  BY <1>8 DEF mutex_lock_free
<1>9. ASSUME NEW m, mutex_lock_blocked(m) PROVE ContextInv'
  BY <1>9 DEF mutex_lock_blocked
<1>10. CASE mutex_lock_return
  BY <1>10 DEF mutex_lock_return, ReturnToUser
<1>11. ASSUME NEW m, mutex_unlock_free(m) \/ mutex_unlock_handoff(m) PROVE ContextInv'
  BY <1>11 DEF mutex_unlock_free, mutex_unlock_handoff, GiveUp
<1>12. CASE C_IRQ_Handler_quiet
  BY <1>12 DEF C_IRQ_Handler_quiet, TimerTick
<1>13. CASE C_IRQ_Handler_dispatch
  <2>1. UNCHANGED <<pc, from, to>> /\ pc[running] # "switching" /\ cur_tcb = running
    BY <1>13 DEF C_IRQ_Handler_dispatch, TimerTick
  <2>2. cur_tcb' \in Thread
    BY <1>13, TickTypes, HighestIsThread DEF C_IRQ_Handler_dispatch
  <2>3. ctx' = ctx /\ running' = cur_tcb'
    BY <1>13, <2>1, <2>2 DEF C_IRQ_Handler_dispatch, ctx_switch_full
  <2> QED  BY <2>1, <2>2, <2>3
<1>14. CASE UNCHANGED vars
  BY <1>14 DEF vars
<1> QED
  BY <1>1, <1>2, <1>3, <1>4, <1>5, <1>6, <1>7, <1>8, <1>9, <1>10, <1>11, <1>12, <1>13, <1>14
     DEF Next, event_wait_syscall, event_wait_invalid, mutex_create_syscall,
         mutex_create_full, mutex_lock_syscall, mutex_lock_invalid, mutex_lock_own,
         mutex_unlock_syscall, mutex_unlock_invalid, mutex_unlock_not_owner, dispatch,
         C_IRQ_Handler

-----------------------------------------------------------------------------
(* The theorems *)

\* No step forgets that the dispatcher was interrupted.
LEMMA DisturbedGrows ==
  ASSUME [Next]_vars
  PROVE  disturbed \subseteq disturbed'
<1>1. CASE C_IRQ_Handler
  BY <1>1 DEF C_IRQ_Handler, C_IRQ_Handler_quiet, C_IRQ_Handler_dispatch, TimerTick
<1>2. CASE ~C_IRQ_Handler
  BY <1>2 DEF Next, vars, event_wait_syscall, event_wait_invalid, dev_wait_remove,
              dev_wait_link, event_wait_return, mutex_create_syscall, mutex_create_full,
              mutex_create_find, mutex_create_grab, mutex_lock_syscall, mutex_lock_invalid,
              mutex_lock_own, mutex_lock_free, mutex_lock_blocked, mutex_lock_return,
              mutex_unlock_syscall, mutex_unlock_invalid, mutex_unlock_not_owner,
              mutex_unlock_free, mutex_unlock_handoff, GiveUp, dispatch, dispatch_pick,
              dispatch_set_cur, dispatch_switch, ReturnError, deviceVars
<1> QED  BY <1>1, <1>2

\* The invariant holds up to the first interrupt inside dispatch_save or
\* dispatch_sleep.
THEOREM Invariance == Spec => [](DispatcherQuiet => IndInv)
<1>1. Init => (DispatcherQuiet => IndInv)
  BY InitIndInv
<1>2. (DispatcherQuiet => IndInv) /\ [Next]_vars => (DispatcherQuiet => IndInv)'
  BY NextIndInv, DisturbedGrows DEF DispatcherQuiet
<1> QED  BY <1>1, <1>2, PTL DEF Spec

\* Every variable keeps its type, wherever the interrupt is taken; so do the locals
\* of a thread inside the kernel.
LEMMA TypeInvariance == Spec => []TypeInv
<1>1. Init => TypeInv
  <2> SUFFICES ASSUME Init PROVE TypeInv
    OBVIOUS
  <2>1. TypeOK
    BY InitIndInv DEF IndInv
  <2> QED  BY <2>1 DEF TypeInv, Init, Blocking, DispatchWindows
<1>2. TypeInv /\ [Next]_vars => TypeInv'
  BY NextTypeInv
<1> QED  BY <1>1, <1>2, PTL DEF Spec

\* Every variable keeps its type, wherever the interrupt is taken.
THEOREM TypeCorrectness == Spec => []TypeOK
<1>1. TypeInv => TypeOK
  BY DEF TypeInv
<1> QED  BY <1>1, TypeInvariance, PTL

\* Every TCB is in one place, wherever the interrupt is taken.
LEMMA QueuesInvariance == Spec => []QueuesInv
<1>1. Init => QueuesInv
  <2> SUFFICES ASSUME Init PROVE QueuesInv
    OBVIOUS
  <2>1. /\ \A d \in Device : Range(sleep_queue[d]) = {} /\ IsInjective(sleep_queue[d])
        /\ \A m \in Mutex : Range(pSleep_queue[m]) = {} /\ IsInjective(pSleep_queue[m])
    BY EmptyQueue DEF Init
  <2>2. InOneQueue
    BY <2>1 DEF InOneQueue, Asleep
  <2>3. TcbConserved
    BY DEF Init, TcbConserved, Carries
  <2> QED  BY <2>2, <2>3 DEF QueuesInv
<1>2. TypeInv /\ QueuesInv /\ [Next]_vars => QueuesInv'
  BY NextQueuesInv
<1> QED  BY <1>1, <1>2, TypeInvariance, PTL DEF Spec

\* device.c:70-123, mutex.c:82-125, 166-173: a task is in one queue only, and once,
\* wherever the interrupt is taken.
THEOREM QueueSafety == Spec => []InOneQueue
<1>1. QueuesInv => InOneQueue
  BY DEF QueuesInv
<1> QED  BY <1>1, QueuesInvariance, PTL

\* device.c:76, 80: a TCB that is in no queue is in the hands of exactly one thread
\* inside dev_wait, wherever the interrupt is taken.
THEOREM NobodyLost == Spec => []TcbConserved
<1>1. QueuesInv => TcbConserved
  BY DEF QueuesInv
<1> QED  BY <1>1, QueuesInvariance, PTL

\* ctx_switch.c:45-90: the TCBs hold their own threads and the kernel knows who runs,
\* up to the first interrupt between the store of cur_tcb and the register switch;
\* one taken before that store does no harm here.
THEOREM ContextSafety == Spec => []ContextsKept
<1> DEFINE Kept == "switching" \notin disturbed => ContextInv
<1>1. Init => Kept
  BY Sets, HighestIsThread DEF Init, ContextInv, OwnContext, DispatchWindows
<1>2. TypeInv /\ Kept /\ [Next]_vars => Kept'
  BY NextContextInv, DisturbedGrows
<1>3. Kept => ContextsKept
  BY DEF ContextsKept, ContextInv
<1> HIDE DEF Kept
<1> QED  BY <1>1, <1>2, <1>3, TypeInvariance, PTL DEF Spec

\* mutex.c:127-129: two tasks never hold a mutex at the same time, up to the first
\* interrupt inside the dispatcher, although the tail of mutex_lock takes the mutex
\* without a test.
THEOREM MutexSafety == Spec => []LockExclusive
<1>1. (DispatcherQuiet => IndInv) => LockExclusive
  BY DEF IndInv, HolderInv, MutualExclusion, LockExclusive
<1> QED  BY <1>1, Invariance, PTL

\* mutex.c:159-173: a task that waits for a mutex has a holder that can wake it, up
\* to the first interrupt inside the dispatcher.
THEOREM HandOverSafety == Spec => [](DispatcherQuiet => WaiterHasHolder)
<1>1. ASSUME IndInv, NEW m \in Mutex, pSleep_queue[m] # <<>>
      PROVE  /\ bLock[m]
             /\ pHolding_Tcb[m] \in Task
             /\ pHolding_Tcb[m] \notin Range(pSleep_queue[m])
  <2>1. bLock[m] /\ pHolding_Tcb[m] \in Task
    BY <1>1 DEF IndInv, MutexInv, TypeOK
  <2>2. ASSUME pHolding_Tcb[m] \in Range(pSleep_queue[m]) PROVE FALSE
    <3>1. PICK h \in Thread : h = pHolding_Tcb[m]
      BY <2>1, Sets
    <3>2. h \notin runnable
      BY <1>1, <2>2, <3>1, SleepersNotReady
    <3>3. m \in held[h]
      BY <1>1, <3>1, <3>2 DEF IndInv, HolderInv
    <3>4. LockFrame(h) /\ obj[h] = m
      BY <1>1, <2>2, <3>1 DEF IndInv, FrameInv, QueueInv, WaitFrame
    <3> QED  BY <3>3, <3>4 DEF LockFrame
  <2> QED  BY <2>1, <2>2
<1>2. IndInv => WaiterHasHolder
  BY <1>1 DEF WaiterHasHolder
<1> QED  BY <1>2, Invariance, PTL

\* ctx_switch.c:81-90: user code is only executed by a runnable task, up to the first
\* interrupt inside the dispatcher.
THEOREM RunningReady == Spec => [](DispatcherQuiet => CurIsReady)
<1>1. IndInv => CurIsReady
  BY DEF IndInv, DispatchInv, OwnContext, ReadyInv, CurIsReady, TypeOK
<1> QED  BY <1>1, Invariance, PTL

\* mutex.c:166-180, device.c:120-122: up to the first interrupt inside the dispatcher,
\* a runnable task above the running one is a task that mutex_unlock released.
THEOREM PrioritySafety == Spec => []OnlyHandOverOutranks
<1>1. (DispatcherQuiet => IndInv) => OnlyHandOverOutranks
  BY DEF IndInv, OnlyHandOverOutranks
<1> QED  BY <1>1, Invariance, PTL

\* device.c:107-119: a task leaves the queue of a device only when the device is
\* signalled, wherever the interrupt is taken.
THEOREM ReleaseSafety == Spec => ReleasedBySignal
<1> DEFINE Released ==
        \A d \in Device :
            \A t \in Range(sleep_queue[d]) \ Range(sleep_queue[d]') :
                /\ system_time' = next_match[d]
                /\ sleep_queue'[d] = <<>>
                /\ t \in runnable'
<1>1. TypeInv /\ [Next]_vars => [Released]_vars
  <2> SUFFICES ASSUME TypeInv, Next PROVE Released
    OBVIOUS
  <2>1. CASE sleep_queue' = sleep_queue
    BY <2>1
  <2>2. CASE dev_wait_link
    <3>1. obj[running] \in Device /\ from[running] \in Thread \union {NULL}
      BY <2>2 DEF TypeInv, TypeOK, dev_wait_link, At
    <3>2. \A d \in Device : sleep_queue[d] \in Seq(Thread)
      BY DEF TypeInv, TypeOK
    <3>3. \A d \in Device : Range(sleep_queue[d]) \subseteq
                Range(LinkedBehind(sleep_queue[d], from[running]))
      BY <3>1, <3>2, AppendQueue DEF LinkedBehind
    <3>4. \A d \in Device : Range(sleep_queue[d]) \subseteq Range(sleep_queue'[d])
      BY <2>2, <3>1, <3>3 DEF dev_wait_link, TypeInv, TypeOK
    <3> QED  BY <3>4
  <2>3. CASE TimerTick
    BY <2>3 DEF TimerTick, SignalDevices, Woken, Matching
  <2> QED
    BY <2>1, <2>2, <2>3
       DEF Next, event_wait_syscall, event_wait_invalid, dev_wait_remove, event_wait_return,
           mutex_create_syscall, mutex_create_full, mutex_create_find, mutex_create_grab,
           mutex_lock_syscall, mutex_lock_invalid, mutex_lock_own, mutex_lock_free,
           mutex_lock_blocked, mutex_lock_return, mutex_unlock_syscall,
           mutex_unlock_invalid, mutex_unlock_not_owner, mutex_unlock_free,
           mutex_unlock_handoff, GiveUp, dispatch, dispatch_pick, dispatch_set_cur,
           dispatch_switch, C_IRQ_Handler, C_IRQ_Handler_quiet, C_IRQ_Handler_dispatch,
           ReturnError, deviceVars
<1> QED  BY <1>1, TypeInvariance, PTL DEF Spec, ReleasedBySignal

\* The ticks left until device d is signalled.
TicksLeft(d) == (next_match[d] - system_time) % TimeMod

\* dev_init puts the first signal of a device one period away.
LEMMA FirstSignal ==
  ASSUME Init, NEW d \in Device
  PROVE  next_match[d] = DevFreq[d] /\ TicksLeft(d) = DevFreq[d]
<1>1. 0 \in 0..(TimeMod - 1) /\ DevFreq[d] \in 0..(TimeMod - 1) /\ TimeMod \in Nat \ {0}
  BY Sets, FrequencyAssumption DEF Device
<1>2. /\ (0 + DevFreq[d]) % TimeMod =
             IF 0 + DevFreq[d] < TimeMod THEN 0 + DevFreq[d] ELSE 0 + DevFreq[d] - TimeMod
      /\ (DevFreq[d] - 0) % TimeMod =
             IF DevFreq[d] >= 0 THEN DevFreq[d] - 0 ELSE DevFreq[d] - 0 + TimeMod
  BY <1>1, WrapSum, WrapDifference, Zenon
<1>3. (0 + DevFreq[d]) % TimeMod = DevFreq[d] /\ (DevFreq[d] - 0) % TimeMod = DevFreq[d]
  BY <1>1, <1>2
<1> QED  BY <1>3 DEF Init, TicksLeft

\* A tick brings every signal one tick nearer; the signal that is given at it was
\* one tick away and is then one period away.
LEMMA TickBringsSignal ==
  ASSUME next_match \in [Device -> 0..(TimeMod - 1)], system_time \in 0..(TimeMod - 1),
         TimerTick, NEW d \in Device, DevFreq[d] > 0, TicksLeft(d) \in 1..DevFreq[d]
  PROVE  /\ system_time' \in 0..(TimeMod - 1)
         /\ next_match[d] = system_time' => TicksLeft(d) = 1 /\ TicksLeft(d)' = DevFreq[d]
         /\ next_match[d] # system_time' => TicksLeft(d) # 1 /\ TicksLeft(d)' = TicksLeft(d) - 1
<1>1. DevFreq[d] \in 0..(TimeMod - 1) /\ TimeMod \in Nat \ {0}
  BY Sets, FrequencyAssumption DEF Device
<1>2. 1 \in 0..(TimeMod - 1)
  BY <1>1
<1>3. system_time' = IF system_time + 1 < TimeMod THEN system_time + 1 ELSE 0
  <2>1. (system_time + 1) % TimeMod =
            IF system_time + 1 < TimeMod THEN system_time + 1 ELSE system_time + 1 - TimeMod
    BY <1>1, <1>2, WrapSum
  <2> QED  BY <1>1, <2>1 DEF TimerTick
<1>4. next_match'[d] = IF next_match[d] = system_time'
                       THEN IF next_match[d] + DevFreq[d] < TimeMod
                            THEN next_match[d] + DevFreq[d]
                            ELSE next_match[d] + DevFreq[d] - TimeMod
                       ELSE next_match[d]
  <2>1. (next_match[d] + DevFreq[d]) % TimeMod =
            IF next_match[d] + DevFreq[d] < TimeMod THEN next_match[d] + DevFreq[d]
                                                    ELSE next_match[d] + DevFreq[d] - TimeMod
    BY <1>1, WrapSum
  <2> QED  BY <2>1 DEF TimerTick, SignalDevices, Matching
<1>5. system_time' \in 0..(TimeMod - 1) /\ next_match'[d] \in 0..(TimeMod - 1)
  BY <1>1, <1>3, <1>4
<1>6. TicksLeft(d) = IF next_match[d] >= system_time THEN next_match[d] - system_time
                                                     ELSE next_match[d] - system_time + TimeMod
  BY <1>1, WrapDifference DEF TicksLeft
<1>7. TicksLeft(d)' = IF next_match'[d] >= system_time' THEN next_match'[d] - system_time'
                                                        ELSE next_match'[d] - system_time' + TimeMod
  BY <1>1, <1>5, WrapDifference DEF TicksLeft
<1>8. CASE next_match[d] = system_time'
  <2>1. next_match'[d] = IF next_match[d] + DevFreq[d] < TimeMod THEN next_match[d] + DevFreq[d]
                                                                 ELSE next_match[d] + DevFreq[d] - TimeMod
    BY <1>4, <1>8
  <2>2. TicksLeft(d) = 1
    BY <1>1, <1>3, <1>6, <1>8
  <2>3. TicksLeft(d)' = DevFreq[d]
    BY <1>1, <1>5, <1>7, <1>8, <2>1
  <2> QED  BY <1>5, <1>8, <2>2, <2>3
<1>9. CASE next_match[d] # system_time'
  <2>1. next_match'[d] = next_match[d]
    BY <1>4, <1>9
  <2>2. TicksLeft(d) # 1 /\ TicksLeft(d)' = TicksLeft(d) - 1
    BY <1>1, <1>3, <1>6, <1>7, <1>9, <2>1
  <2> QED  BY <1>5, <1>9, <2>2
<1> QED  BY <1>8, <1>9

\* device.c:108-109: the signal of a device with a period is at most one period
\* away, whatever the width of the tick counter and wherever interrupts are taken.
THEOREM SignalsAhead == Spec => []SignalAhead
<1> DEFINE Clocks == /\ next_match \in [Device -> 0..(TimeMod - 1)]
                     /\ system_time \in 0..(TimeMod - 1)
<1> DEFINE Inv == Clocks /\ SignalAhead
<1> USE Sets, FrequencyAssumption
<1>1. \A d \in Device : DevFreq[d] \in 0..(TimeMod - 1)
  BY DEF Device
<1>2. Init => Inv
  <2> SUFFICES ASSUME Init PROVE Inv
    OBVIOUS
  <2>1. \A d \in Device : next_match[d] = DevFreq[d] /\ TicksLeft(d) = DevFreq[d]
    BY FirstSignal
  <2> QED  BY <1>1, <2>1 DEF Init, SignalAhead, TicksLeft
<1>3. ASSUME Inv, TimerTick PROVE Inv'
  <2>1. system_time' \in 0..(TimeMod - 1)
    <3>1. system_time + 1 \in Nat
      BY <1>3
    <3> QED  BY <1>3, <3>1, TickInRange DEF TimerTick
  <2>2. next_match' \in [Device -> 0..(TimeMod - 1)]
    <3>1. \A d \in Device : next_match[d] + DevFreq[d] \in Nat
      BY <1>1, <1>3
    <3>2. \A d \in Device : (next_match[d] + DevFreq[d]) % TimeMod \in 0..(TimeMod - 1)
      BY <3>1, TickInRange
    <3> QED  BY <1>3, <3>2 DEF TimerTick, SignalDevices
  <2>3. ASSUME NEW d \in Device, DevFreq[d] > 0
        PROVE  TicksLeft(d)' \in 1..DevFreq[d]
    <3>1. TicksLeft(d) \in 1..DevFreq[d]
      BY <1>3, <2>3 DEF SignalAhead, TicksLeft
    <3>2. /\ next_match[d] = system_time' => TicksLeft(d) = 1 /\ TicksLeft(d)' = DevFreq[d]
          /\ next_match[d] # system_time' => TicksLeft(d) # 1 /\ TicksLeft(d)' = TicksLeft(d) - 1
      BY <1>3, <2>3, <3>1, TickBringsSignal
    <3>3. DevFreq[d] \in Nat
      BY <1>1
    <3> QED  BY <2>3, <3>1, <3>2, <3>3
  <2>4. SignalAhead'
    BY <2>3 DEF SignalAhead, TicksLeft
  <2> QED  BY <2>1, <2>2, <2>4
<1>4. ASSUME [Next]_vars, ~TimerTick PROVE UNCHANGED <<next_match, system_time>>
  BY <1>4 DEF Next, vars, event_wait_syscall, event_wait_invalid, dev_wait_remove,
              dev_wait_link, event_wait_return, mutex_create_syscall, mutex_create_full,
              mutex_create_find, mutex_create_grab, mutex_lock_syscall, mutex_lock_invalid,
              mutex_lock_own, mutex_lock_free, mutex_lock_blocked, mutex_lock_return,
              mutex_unlock_syscall, mutex_unlock_invalid, mutex_unlock_not_owner,
              mutex_unlock_free, mutex_unlock_handoff, GiveUp, dispatch, dispatch_pick,
              dispatch_set_cur, dispatch_switch, C_IRQ_Handler, C_IRQ_Handler_quiet,
              C_IRQ_Handler_dispatch, ReturnError, deviceVars
<1>5. Inv /\ [Next]_vars => Inv'
  <2>1. ASSUME Inv, UNCHANGED <<next_match, system_time>> PROVE Inv'
    BY <2>1 DEF SignalAhead
  <2> QED  BY <1>3, <1>4, <2>1
<1>6. Inv => SignalAhead
  OBVIOUS
<1> QED  BY <1>2, <1>5, <1>6, PTL DEF Spec

\* README.md:34-39: the mutexes implement first-come first-served locks with direct
\* hand-over, up to the first interrupt inside the dispatcher.
THEOREM LockRefinement == Spec => ImplementsFifoLock
<1>1. Init => Lock!Init
  BY DEF Init, Lock!Init
<1>2. (DispatcherQuiet => IndInv) /\ [Next]_vars => [DispatcherQuiet' => Lock!Next]_(Lock!vars)
  <2> SUFFICES ASSUME IndInv, Next,
                      ~UNCHANGED <<pHolding_Tcb, pSleep_queue, held>>
               PROVE  Lock!Next
    BY DisturbedGrows DEF DispatcherQuiet, Lock!vars, vars, mutexVars
  <2> USE Sets DEF IndInv, At, MayUnlock, InvalidMutex
  <2>1. ASSUME NEW m, mutex_lock_free(m) PROVE Lock!Next
    <3>1. m \in Mutex /\ running \in Thread /\ cur_tcb = running /\ pHolding_Tcb[m] = NULL
      BY <2>1 DEF mutex_lock_free, TypeOK, DispatchInv, OwnContext, MutexInv
    <3>2. Lock!Acquire(running, m)
      BY <2>1, <3>1 DEF mutex_lock_free, TakeMutex, Lock!Acquire
    <3> QED  BY <3>1, <3>2 DEF Lock!Next
  <2>2. ASSUME NEW m, mutex_lock_blocked(m) PROVE Lock!Next
    <3>1. m \in Mutex /\ running \in Thread /\ cur_tcb = running /\ running \in runnable
      BY <2>2 DEF mutex_lock_blocked, TypeOK, DispatchInv, OwnContext, ReadyInv
    <3>2. pHolding_Tcb[m] \notin {NULL, running}
      BY <2>2, <3>1 DEF mutex_lock_blocked, MutexInv
    <3>3. running \notin Range(pSleep_queue[m])
      BY <3>1, SleepersNotReady
    <3>4. Lock!Join(running, m)
      BY <2>2, <3>1, <3>2, <3>3 DEF mutex_lock_blocked, Removed, LinkedBehind, Lock!Join, Lock!Range, Range
    <3> QED  BY <3>1, <3>4 DEF Lock!Next
  <2>3. ASSUME mutex_lock_return PROVE Lock!Next
    <3>1. /\ running \in Thread /\ cur_tcb = running /\ LockFrame(running)
          /\ running \in runnable
      BY <2>3 DEF mutex_lock_return, TypeOK, DispatchInv, OwnContext, ReadyInv,
                  FrameInv, WaitFrame, Blocking
    <3>2. /\ obj[running] \in Mutex /\ obj[running] \notin held[running]
          /\ pHolding_Tcb[obj[running]] = running
      BY <3>1 DEF LockFrame
    <3>3. Lock!Enter(running, obj[running])
      BY <2>3, <3>1, <3>2 DEF mutex_lock_return, TakeMutex, TypeOK, Lock!Enter
    <3> QED  BY <3>1, <3>2, <3>3 DEF Lock!Next
  <2>4. ASSUME NEW m, MayUnlock(m)
        PROVE  m \in Mutex /\ running \in Thread /\ pHolding_Tcb[m] = running /\ m \in held[running]
    <3>1. m \in Mutex /\ running \in Thread /\ pHolding_Tcb[m] = running
      BY <2>4 DEF TypeOK, DispatchInv, OwnContext
    <3> QED  BY <2>4, <3>1 DEF HolderInv, Blocking
  <2>5. ASSUME NEW m, mutex_unlock_free(m) PROVE Lock!Next
    <3>1. m \in Mutex /\ running \in Thread /\ pHolding_Tcb[m] = running /\ m \in held[running]
      BY <2>4, <2>5 DEF mutex_unlock_free
    <3>2. Lock!Release(running, m)
      BY <2>5, <3>1 DEF mutex_unlock_free, GiveUp, Lock!Release
    <3> QED  BY <3>1, <3>2 DEF Lock!Next
  <2>6. ASSUME NEW m, mutex_unlock_handoff(m) PROVE Lock!Next
    <3>1. m \in Mutex /\ running \in Thread /\ pHolding_Tcb[m] = running /\ m \in held[running]
      BY <2>4, <2>6 DEF mutex_unlock_handoff
    <3>2. Lock!Release(running, m)
      BY <2>6, <3>1 DEF mutex_unlock_handoff, GiveUp, Lock!Release
    <3> QED  BY <3>1, <3>2 DEF Lock!Next
  <2> QED
    BY <2>1, <2>2, <2>3, <2>5, <2>6
       DEF Next, event_wait_syscall, event_wait_invalid, dev_wait_remove, dev_wait_link,
           event_wait_return, mutex_create_syscall, mutex_create_full, mutex_create_find,
           mutex_create_grab, mutex_lock_syscall, mutex_lock_invalid, mutex_lock_own,
           mutex_unlock_syscall, mutex_unlock_invalid, mutex_unlock_not_owner, dispatch,
           dispatch_pick, dispatch_set_cur, dispatch_switch, C_IRQ_Handler,
           C_IRQ_Handler_quiet, C_IRQ_Handler_dispatch, TimerTick, ReturnError, mutexVars
<1> QED  BY <1>1, <1>2, Invariance, PTL DEF Spec, ImplementsFifoLock
=============================================================================
