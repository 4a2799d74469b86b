------------------------------- MODULE Kernel -------------------------------
(***************************************************************************)
(* The scheduling core of the Gravelv2 kernel, after task_create has       *)
(* launched a task set: the run queue, the context switch, the device      *)
(* sleep queues, the mutexes and the timer interrupt, with the system      *)
(* calls event_wait, mutex_create, mutex_lock and mutex_unlock.            *)
(*                                                                         *)
(* A task is identified with its priority, which is also the index of its  *)
(* TCB (allocate_tasks); a smaller number is a higher priority and the     *)
(* idle task has the largest number.  A TCB and the thread whose context   *)
(* it should hold are kept apart: cur_tcb is the kernel's variable, running*)
(* is the thread that really executes, ctx[t] is the thread whose registers*)
(* are saved in TCB t.                                                     *)
(*                                                                         *)
(* System calls run with interrupts enabled (S_Handler.S clears the I bit),*)
(* except where mutex.c masks them.  The comments of dispatch_save,        *)
(* runqueue_add and runqueue_remove ask their callers for synchronization; *)
(* the callers do not always give it.  IrqWindows is the set of those      *)
(* unprotected program points at which the timer interrupt is taken.  In   *)
(* the kernel as it is built it may be taken at all four of HotWindows; a  *)
(* smaller set is for looking at some of them alone.                       *)
(*                                                                         *)
(* disturbed is a history variable, which no step reads: it records at     *)
(* which points of the dispatcher the interrupt has been taken so far.     *)
(* Properties of the kernel as it is built say with it what holds up to    *)
(* the first such interrupt.  After one at "switching" a TCB holds an older*)
(* state of its thread, which ctx does not tell from the present one.      *)
(***************************************************************************)
EXTENDS Integers, Sequences, Functions, FiniteSetsExt

CONSTANTS
    NumTasks,    \* number of tasks given to task_create
    NumDevices,  \* NUM_DEVICES (device.h)
    NumMutex,    \* OS_NUM_MUTEX (config.h)
    DevFreq,     \* dev_freq (device.c:45): device -> period in ticks
    TimeMod,     \* number of values of the tick counter (2^32 in the code)
    IrqWindows   \* unprotected points at which the interrupt may be taken

\* The points between two accesses to shared state that the code leaves open.
HotWindows == {"found", "unlinked", "picked", "switching"}

\* Those inside dispatch_save and dispatch_sleep.
DispatchWindows == {"picked", "switching"}

ASSUME ConstantsAssumption ==
    /\ NumTasks \in Nat
    /\ NumDevices \in Nat
    /\ NumMutex \in Nat
    /\ TimeMod \in Nat \ {0}
    /\ IrqWindows \subseteq HotWindows

ASSUME FrequencyAssumption ==
    /\ DevFreq \in [0..(NumDevices - 1) -> Nat]
    /\ \A d \in 0..(NumDevices - 1) : DevFreq[d] < TimeMod

NULL == -1
IDLE_PRIO == NumTasks
Task == 0..(NumTasks - 1)
Thread == 0..IDLE_PRIO
Device == 0..(NumDevices - 1)
Mutex == 0..(NumMutex - 1)

EPERM == 1
ENOMEM == 12
EINVAL == 22
EDEADLOCK == 58

VARIABLES
    runnable,      \* the run queue: the priorities whose run bit is set
    cur_tcb,       \* ctx_switch.c: TCB of the task the kernel believes runs
    running,       \* the thread on the CPU
    ctx,           \* ctx[t]: the thread whose registers TCB t holds
    pc,            \* pc[t]: where thread t is, see below
    op,            \* op[t]: the blocking system call t is executing
    obj,           \* obj[t]: its device or mutex
    from,          \* from[t]: temp_tcb, the TCB t saves its context in
    to,            \* to[t]: highest_tcb, the TCB t switches to
    sleep_queue,   \* sleep_queue[d]: tasks waiting for device d, oldest first
    next_match,    \* next_match[d]: the tick that signals device d
    system_time,   \* global.c: the tick counter
    disturbed,     \* where the dispatcher was interrupted (not in the code)
    bAvailable,    \* bAvailable[m]: mutex m has not been created
    bLock,         \* bLock[m]: mutex m is locked
    pHolding_Tcb,  \* pHolding_Tcb[m]: its holder
    pSleep_queue,  \* pSleep_queue[m]: tasks waiting for it, oldest first
    value,         \* global.c: result of the last completed system call (the
                   \* instructions that pass it on are in SystemCall)
    held           \* held[t]: the mutexes t was told it holds (not in the code)

(***************************************************************************)
(* pc[t]                                                                   *)
(*   user       in user mode                                               *)
(*   found      mutex_create: an available mutex was seen, not yet grabbed *)
(*   unlinked   dev_wait: out of the run queue, in no sleep queue yet      *)
(*   queued     in a sleep queue, about to call dispatch_save or _sleep    *)
(*   picked     highest_prio() was called, cur_tcb is not yet written      *)
(*   switching  cur_tcb is written, the registers are not yet switched     *)
(*   resumed    ctx_switch_full has returned into the system call          *)
(***************************************************************************)
Point == {"user", "queued", "resumed"} \union HotWindows

schedVars == <<runnable, cur_tcb, running, ctx>>
frameVars == <<pc, op, obj, from, to>>
deviceVars == <<sleep_queue, next_match, system_time, disturbed>>
mutexVars == <<bAvailable, bLock, pHolding_Tcb, pSleep_queue>>
vars == <<schedVars, frameVars, deviceVars, mutexVars, value, held>>

TypeOK ==
    /\ runnable \in SUBSET Thread
    /\ cur_tcb \in Thread
    /\ running \in Thread
    /\ ctx \in [Thread -> Thread]
    /\ pc \in [Thread -> Point]
    /\ op \in [Thread -> {"none", "event_wait", "mutex_lock", "mutex_create"}]
    /\ obj \in [Thread -> Device \union Mutex \union {NULL}]
    /\ from \in [Thread -> Thread \union {NULL}]
    /\ to \in [Thread -> Thread \union {NULL}]
    /\ sleep_queue \in [Device -> Seq(Thread)]
    /\ next_match \in [Device -> 0..(TimeMod - 1)]
    /\ system_time \in 0..(TimeMod - 1)
    /\ disturbed \in SUBSET DispatchWindows
    /\ bAvailable \in [Mutex -> BOOLEAN]
    /\ bLock \in [Mutex -> BOOLEAN]
    /\ pHolding_Tcb \in [Mutex -> Thread \union {NULL}]
    /\ pSleep_queue \in [Mutex -> Seq(Thread)]
    /\ value \in {0, EPERM, EINVAL, EDEADLOCK, -ENOMEM} \union Mutex
    /\ held \in [Thread -> SUBSET Mutex]

-----------------------------------------------------------------------------
(* Helpers *)

\* highest_prio: the least number in the run queue.  The table entry of an
\* empty byte is 0 (run_queue.c:40), so an empty queue gives priority 0.
highest_prio(ready) == IF ready = {} THEN 0 ELSE Min(ready)

\* What runqueue_remove(get_cur_prio()) returns: the TCB in the slot, if any.
Removed == IF cur_tcb \in runnable THEN cur_tcb ELSE NULL

\* The end of the walk along a sleep queue: tcb is linked behind the last one.
\* A NULL pointer leaves the list as it is (the write through it at device.c:81
\* goes to a low address, which is flash).
LinkedBehind(queue, tcb) == IF tcb = NULL THEN queue ELSE Append(queue, tcb)

\* The mutexes a caller may not use: out of range, or never created.
InvalidMutex(m) == m \in Mutex => bAvailable[m]

\* Everything but the result is as it was.
ReturnError(code) ==
    /\ value' = code
    /\ UNCHANGED <<schedVars, frameVars, deviceVars, mutexVars, held>>

\* The thread on the CPU is a task at point p.
At(p) == running # IDLE_PRIO /\ pc[running] = p

\* The running thread's frame is popped: back to user mode.
ReturnToUser ==
    /\ pc' = [pc EXCEPT ![running] = "user"]
    /\ op' = [op EXCEPT ![running] = "none"]
    /\ obj' = [obj EXCEPT ![running] = NULL]
    /\ from' = [from EXCEPT ![running] = NULL]
    /\ to' = [to EXCEPT ![running] = NULL]

\* ctx_switch_full: save the CPU in one TCB, load it from the other.
ctx_switch_full(target, current) ==
    /\ ctx' = [ctx EXCEPT ![current] = running]
    /\ running' = ctx'[target]

-----------------------------------------------------------------------------
(* event_wait_syscall and dev_wait: interruptible throughout *)

event_wait_invalid(d) ==
    /\ At("user")
    /\ d \notin Device
    /\ ReturnError(EINVAL)

\* runqueue_remove(get_cur_prio()): the caller has the TCB in its hands.
dev_wait_remove(d) ==
    /\ At("user")
    /\ d \in Device
    /\ runnable' = runnable \ {cur_tcb}
    /\ pc' = [pc EXCEPT ![running] = "unlinked"]
    /\ op' = [op EXCEPT ![running] = "event_wait"]
    /\ obj' = [obj EXCEPT ![running] = d]
    /\ from' = [from EXCEPT ![running] = Removed]
    /\ UNCHANGED <<cur_tcb, running, ctx, to, deviceVars, mutexVars, value, held>>

\* Faulty variant: the queue is overwritten, not extended.
dev_wait_link_overwrites ==
    /\ At("unlinked")
    /\ sleep_queue' = [sleep_queue EXCEPT ![obj[running]] = <<from[running]>>]
    /\ pc' = [pc EXCEPT ![running] = "queued"]
    /\ UNCHANGED <<schedVars, op, obj, from, to, next_match, system_time,
                   disturbed, mutexVars, value, held>>

\* The removed TCB is linked at the end of the sleep queue.
dev_wait_link ==
    /\ At("unlinked")
    /\ sleep_queue' = [sleep_queue EXCEPT ![obj[running]] = LinkedBehind(@, from[running])]
    /\ pc' = [pc EXCEPT ![running] = "queued"]
    /\ UNCHANGED <<schedVars, op, obj, from, to, next_match, system_time,
                   disturbed, mutexVars, value, held>>

event_wait_return ==
    /\ At("resumed")
    /\ op[running] = "event_wait"
    /\ ReturnToUser
    /\ value' = 0
    /\ UNCHANGED <<schedVars, deviceVars, mutexVars, held>>

-----------------------------------------------------------------------------
(* dispatch_sleep (from dev_wait) and dispatch_save (from mutex_lock) *)

\* temp_tcb = cur_tcb; highest_tcb = &system_tcb[highest_prio()]
dispatch_pick ==
    /\ At("queued")
    /\ from' = [from EXCEPT ![running] = cur_tcb]
    /\ to' = [to EXCEPT ![running] = highest_prio(runnable)]
    /\ pc' = [pc EXCEPT ![running] = "picked"]
    /\ UNCHANGED <<schedVars, op, obj, deviceVars, mutexVars, value, held>>

\* Faulty variant: the dispatcher forgets to record who runs.
dispatch_forgets_cur ==
    /\ At("picked")
    /\ pc' = [pc EXCEPT ![running] = "switching"]
    /\ UNCHANGED <<schedVars, op, obj, from, to, deviceVars, mutexVars, value, held>>

\* cur_tcb = highest_tcb
dispatch_set_cur ==
    /\ At("picked")
    /\ cur_tcb' = to[running]
    /\ pc' = [pc EXCEPT ![running] = "switching"]
    /\ UNCHANGED <<runnable, running, ctx, op, obj, from, to, deviceVars,
                   mutexVars, value, held>>

\* ctx_switch_full(&highest_tcb->context, &temp_tcb->context).  Its frame, with
\* the two locals, is popped when the thread runs again.
dispatch_switch ==
    /\ At("switching")
    /\ ctx_switch_full(to[running], from[running])
    /\ pc' = [pc EXCEPT ![running] = "resumed"]
    /\ from' = [from EXCEPT ![running] = NULL]
    /\ to' = [to EXCEPT ![running] = NULL]
    /\ UNCHANGED <<runnable, cur_tcb, op, obj, deviceVars, mutexVars, value, held>>

-----------------------------------------------------------------------------
(* mutex_create_syscall: interruptible *)

mutex_create_full ==
    /\ At("user")
    /\ \A m \in Mutex : ~bAvailable[m]
    /\ ReturnError(-ENOMEM)

\* The scan stops at the first available mutex.
mutex_create_find ==
    /\ At("user")
    /\ \E m \in Mutex :
        /\ bAvailable[m]
        /\ \A k \in Mutex : k < m => ~bAvailable[k]
        /\ obj' = [obj EXCEPT ![running] = m]
    /\ pc' = [pc EXCEPT ![running] = "found"]
    /\ op' = [op EXCEPT ![running] = "mutex_create"]
    /\ UNCHANGED <<schedVars, from, to, deviceVars, mutexVars, value, held>>

mutex_create_grab ==
    /\ At("found")
    /\ bAvailable' = [bAvailable EXCEPT ![obj[running]] = FALSE]
    /\ value' = obj[running]
    /\ ReturnToUser
    /\ UNCHANGED <<schedVars, deviceVars, bLock, pHolding_Tcb, pSleep_queue, held>>

-----------------------------------------------------------------------------
(* mutex_lock_syscall: interrupts masked up to dispatch_save, and again after *)

mutex_lock_invalid(m) ==
    /\ At("user")
    /\ InvalidMutex(m)
    /\ ReturnError(EINVAL)

mutex_lock_own(m) ==
    /\ At("user")
    /\ ~InvalidMutex(m)
    /\ pHolding_Tcb[m] = cur_tcb
    /\ ReturnError(EDEADLOCK)

\* bLock = 1 and pHolding_Tcb = get_cur_tcb(): the common end of every
\* successful lock.
TakeMutex(m) ==
    /\ bLock' = [bLock EXCEPT ![m] = TRUE]
    /\ pHolding_Tcb' = [pHolding_Tcb EXCEPT ![m] = cur_tcb]
    /\ held' = [held EXCEPT ![running] = @ \union {m}]
    /\ value' = 0
    /\ UNCHANGED <<bAvailable, pSleep_queue>>

mutex_lock_free(m) ==
    /\ At("user")
    /\ ~InvalidMutex(m)
    /\ pHolding_Tcb[m] # cur_tcb
    /\ ~bLock[m]
    /\ TakeMutex(m)
    /\ UNCHANGED <<schedVars, frameVars, deviceVars>>

\* Faulty variant: the blocked task stays in the run queue.
mutex_lock_stays_ready(m) ==
    /\ At("user")
    /\ ~InvalidMutex(m)
    /\ pHolding_Tcb[m] # cur_tcb
    /\ bLock[m]
    /\ pSleep_queue' = [pSleep_queue EXCEPT ![m] = LinkedBehind(@, Removed)]
    /\ pc' = [pc EXCEPT ![running] = "queued"]
    /\ op' = [op EXCEPT ![running] = "mutex_lock"]
    /\ obj' = [obj EXCEPT ![running] = m]
    /\ UNCHANGED <<schedVars, from, to, deviceVars, bAvailable, bLock,
                   pHolding_Tcb, value, held>>

\* Masked: out of the run queue and into the mutex's queue in one step.
mutex_lock_blocked(m) ==
    /\ At("user")
    /\ ~InvalidMutex(m)
    /\ pHolding_Tcb[m] # cur_tcb
    /\ bLock[m]
    /\ runnable' = runnable \ {cur_tcb}
    /\ pSleep_queue' = [pSleep_queue EXCEPT ![m] = LinkedBehind(@, Removed)]
    /\ pc' = [pc EXCEPT ![running] = "queued"]
    /\ op' = [op EXCEPT ![running] = "mutex_lock"]
    /\ obj' = [obj EXCEPT ![running] = m]
    /\ UNCHANGED <<cur_tcb, running, ctx, from, to, deviceVars, bAvailable,
                   bLock, pHolding_Tcb, value, held>>

\* Back from dispatch_save, whoever resumed the thread: no condition is
\* tested again.
mutex_lock_return ==
    /\ At("resumed")
    /\ op[running] = "mutex_lock"
    /\ TakeMutex(obj[running])
    /\ ReturnToUser
    /\ UNCHANGED <<schedVars, deviceVars>>

-----------------------------------------------------------------------------
(* mutex_unlock_syscall: interrupts masked throughout *)

mutex_unlock_invalid(m) ==
    /\ At("user")
    /\ InvalidMutex(m)
    /\ ReturnError(EINVAL)

mutex_unlock_not_owner(m) ==
    /\ At("user")
    /\ ~InvalidMutex(m)
    /\ pHolding_Tcb[m] # cur_tcb
    /\ ReturnError(EPERM)

\* Faulty variant: the EPERM check is missing.
MayUnlock_anyone(m) ==
    /\ At("user")
    /\ ~InvalidMutex(m)

\* Both error checks of mutex_unlock pass.
MayUnlock(m) ==
    /\ At("user")
    /\ ~InvalidMutex(m)
    /\ pHolding_Tcb[m] = cur_tcb

\* The caller gives up the mutex; next is the new holder, or NULL.
GiveUp(m, next) ==
    /\ pHolding_Tcb' = [pHolding_Tcb EXCEPT ![m] = next]
    /\ held' = [held EXCEPT ![running] = @ \ {m}]
    /\ value' = 0
    /\ UNCHANGED <<cur_tcb, running, ctx, frameVars, deviceVars, bAvailable>>

mutex_unlock_free(m) ==
    /\ MayUnlock(m)
    /\ pSleep_queue[m] = <<>>
    /\ GiveUp(m, NULL)
    /\ bLock' = [bLock EXCEPT ![m] = FALSE]
    /\ UNCHANGED <<runnable, pSleep_queue>>

\* Faulty variant: the last waiting task is served first.
mutex_unlock_handoff_last(m) ==
    /\ MayUnlock(m)
    /\ pSleep_queue[m] # <<>>
    /\ LET n == Len(pSleep_queue[m]) IN
        /\ GiveUp(m, pSleep_queue[m][n])
        /\ pSleep_queue' = [pSleep_queue EXCEPT ![m] = SubSeq(@, 1, n - 1)]
        /\ runnable' = runnable \union {pSleep_queue[m][n]}
    /\ UNCHANGED bLock

\* The first waiting task becomes the holder and is made runnable; the
\* scheduler is not called.
mutex_unlock_handoff(m) ==
    /\ MayUnlock(m)
    /\ pSleep_queue[m] # <<>>
    /\ GiveUp(m, Head(pSleep_queue[m]))
    /\ pSleep_queue' = [pSleep_queue EXCEPT ![m] = Tail(@)]
    /\ runnable' = runnable \union {Head(pSleep_queue[m])}
    /\ UNCHANGED bLock

-----------------------------------------------------------------------------
(* The timer interrupt: C_IRQ_Handler and dev_update, masked throughout *)

\* The points at which the interrupt is taken.
Interruptible == {"user", "queued", "resumed"} \union IrqWindows

\* The devices whose match value is the given time.
Matching(millis) == {d \in Device : next_match[d] = millis}

\* Faulty variant: the match value advances only when somebody waits.
SignalDevices_if_waited(millis) ==
    LET due == {d \in Matching(millis) : sleep_queue[d] # <<>>} IN
    /\ next_match' = [d \in Device |->
            IF d \in due THEN (next_match[d] + DevFreq[d]) % TimeMod
                         ELSE next_match[d]]
    /\ sleep_queue' = [d \in Device |-> IF d \in due THEN <<>> ELSE sleep_queue[d]]

\* dev_update's loop: advance every matching device, empty its queue.
SignalDevices(millis) ==
    LET due == Matching(millis) IN
    /\ next_match' = [d \in Device |->
            IF d \in due THEN (next_match[d] + DevFreq[d]) % TimeMod
                         ELSE next_match[d]]
    /\ sleep_queue' = [d \in Device |-> IF d \in due THEN <<>> ELSE sleep_queue[d]]

\* Faulty variant: only the head of a queue is woken.
Woken_head(millis) ==
    {Head(sleep_queue[d]) : d \in {e \in Matching(millis) : sleep_queue[e] # <<>>}}

\* The tasks dev_update puts back in the run queue.
Woken(millis) == UNION {Range(sleep_queue[d]) : d \in Matching(millis)}

TimerTick ==
    /\ pc[running] \in Interruptible
    /\ system_time' = (system_time + 1) % TimeMod
    /\ SignalDevices(system_time')
    /\ runnable' = runnable \union Woken(system_time')
    /\ disturbed' = disturbed \union ({pc[running]} \intersect DispatchWindows)
    /\ UNCHANGED <<frameVars, mutexVars, value, held>>

\* No waiting task was found: the interrupted thread goes on.
C_IRQ_Handler_quiet ==
    /\ TimerTick
    /\ Woken(system_time') = {}
    /\ UNCHANGED <<cur_tcb, running, ctx>>

\* Faulty variant: the woken tasks wait for the next dispatch.
C_IRQ_Handler_no_dispatch ==
    /\ TimerTick
    /\ Woken(system_time') # {}
    /\ UNCHANGED <<cur_tcb, running, ctx>>

\* flag = 1: dispatch_save from the interrupt.
C_IRQ_Handler_dispatch ==
    /\ TimerTick
    /\ Woken(system_time') # {}
    /\ cur_tcb' = highest_prio(runnable')
    /\ ctx_switch_full(cur_tcb', cur_tcb)

C_IRQ_Handler == C_IRQ_Handler_quiet \/ C_IRQ_Handler_dispatch

-----------------------------------------------------------------------------
(* allocate_tasks, mutex_init, dev_init *)

\* The state in which allocate_tasks' dispatch_nosave launches the first task.
\* The program may have created some mutexes before it called task_create.
Init ==
    /\ runnable = Thread
    /\ cur_tcb = highest_prio(Thread)
    /\ running = cur_tcb
    /\ ctx = [t \in Thread |-> t]
    /\ pc = [t \in Thread |-> "user"]
    /\ op = [t \in Thread |-> "none"]
    /\ obj = [t \in Thread |-> NULL]
    /\ from = [t \in Thread |-> NULL]
    /\ to = [t \in Thread |-> NULL]
    /\ system_time = 0
    /\ disturbed = {}
    /\ sleep_queue = [d \in Device |-> <<>>]
    /\ next_match = [d \in Device |-> (system_time + DevFreq[d]) % TimeMod]
    /\ \E created \in 0..NumMutex : bAvailable = [m \in Mutex |-> m >= created]
    /\ bLock = [m \in Mutex |-> FALSE]
    /\ pHolding_Tcb = [m \in Mutex |-> NULL]
    /\ pSleep_queue = [m \in Mutex |-> <<>>]
    /\ value = 0
    /\ held = [t \in Thread |-> {}]

event_wait_syscall ==
    \/ \E d \in 0..NumDevices : event_wait_invalid(d) \/ dev_wait_remove(d)
    \/ dev_wait_link
    \/ event_wait_return

mutex_create_syscall == mutex_create_full \/ mutex_create_find \/ mutex_create_grab

mutex_lock_syscall ==
    \/ \E m \in 0..NumMutex :
        \/ mutex_lock_invalid(m)
        \/ mutex_lock_own(m)
        \/ mutex_lock_free(m)
        \/ mutex_lock_blocked(m)
    \/ mutex_lock_return

mutex_unlock_syscall ==
    \E m \in 0..NumMutex :
        \/ mutex_unlock_invalid(m)
        \/ mutex_unlock_not_owner(m)
        \/ mutex_unlock_free(m)
        \/ mutex_unlock_handoff(m)

dispatch == dispatch_pick \/ dispatch_set_cur \/ dispatch_switch

Next ==
    \/ event_wait_syscall
    \/ mutex_create_syscall
    \/ mutex_lock_syscall
    \/ mutex_unlock_syscall
    \/ dispatch
    \/ C_IRQ_Handler

Spec == Init /\ [][Next]_vars

\* The steps a thread takes by itself once it is in the kernel.
KernelStep ==
    \/ dev_wait_link \/ event_wait_return \/ mutex_lock_return
    \/ mutex_create_grab \/ dispatch

\* The timer's match bit stays pending while interrupts are masked, so an
\* interrupt that can be taken again and again is taken; a thread in the
\* kernel runs on to its next instruction.  Nothing is assumed of user code.
Fairness == SF_vars(C_IRQ_Handler) /\ WF_vars(KernelStep)

FairSpec == Spec /\ Fairness

-----------------------------------------------------------------------------
(* What the comments and the README of the repository promise *)

Asleep(t) == \/ \E d \in Device : t \in Range(sleep_queue[d])
             \/ \E m \in Mutex : t \in Range(pSleep_queue[m])

\* Nobody falls out of the scheduler: every task can be found in the run queue
\* or in a sleep queue, except while dev_wait carries it from one to the other
\* (device.c:76, 80) on its own CPU.
NoTaskLost ==
    \A t \in Thread :
        t \in runnable \/ Asleep(t) \/ (t = running /\ pc[t] = "unlinked")

\* The kernel knows who runs, and every TCB holds its own thread's registers
\* (dispatch_save, dispatch_sleep and the dispatch from the interrupt).
OwnContext ==
    /\ \A t \in Thread : ctx[t] = t
    /\ pc[running] # "switching" => cur_tcb = running

\* Two tasks are never both between a mutex_lock that returned 0 and the
\* mutex_unlock: the tail of mutex_lock (mutex.c:127-129) takes the mutex
\* without testing it again.
MutualExclusion ==
    \A m \in Mutex, t, u \in Thread : m \in held[t] /\ m \in held[u] => t = u

\* The mutex a task is about to take from mutex_create is still available, so
\* no id is given out twice (mutex.c:48-55).
CreatedOnce ==
    \A t \in Thread : pc[t] = "found" => bAvailable[obj[t]]

\* The task that executes its own code has the highest priority of those that
\* could (README.md:25-26).
HighestRuns == pc[running] = "user" => \A t \in runnable : running <= t

-----------------------------------------------------------------------------
(* Safety of the kernel as it is built: wherever the interrupt is taken, or    *)
(* up to the first interrupt inside the dispatcher                             *)

\* The interrupt has not been taken inside dispatch_save or dispatch_sleep.
DispatcherQuiet == disturbed = {}

\* A task is in one queue only, and once: it is never runnable while it sleeps,
\* and the one link field of its TCB is in one list, wherever the interrupt is
\* taken (device.c:70-123, mutex.c:82-125, 166-173).
InOneQueue ==
    /\ \A t \in Thread : Asleep(t) => t \notin runnable
    /\ \A d \in Device : IsInjective(sleep_queue[d])
    /\ \A m \in Mutex : IsInjective(pSleep_queue[m])
    /\ \A d, e \in Device : Range(sleep_queue[d]) \intersect Range(sleep_queue[e]) # {} => d = e
    /\ \A m, n \in Mutex : Range(pSleep_queue[m]) \intersect Range(pSleep_queue[n]) # {} => m = n
    /\ \A d \in Device, m \in Mutex : Range(sleep_queue[d]) \intersect Range(pSleep_queue[m]) = {}

\* Thread u is between runqueue_remove and the link, with TCB t in its hands.
Carries(u, t) == pc[u] = "unlinked" /\ from[u] = t

\* A TCB that is in no queue is in the hands of exactly one thread that is inside
\* dev_wait, between device.c:76 or 80 and the link; no other step drops a TCB or
\* takes it twice, wherever the interrupt is taken.
TcbConserved ==
    \A t \in Thread :
        /\ t \in runnable \/ Asleep(t) \/ \E u \in Thread : Carries(u, t)
        /\ \A u \in Thread : Carries(u, t) =>
            /\ t \notin runnable /\ ~Asleep(t)
            /\ \A v \in Thread : Carries(v, t) => v = u

\* Until an interrupt is taken between ctx_switch.c:86 (or 51) and the switch of
\* the registers, the TCBs hold their own threads and the kernel knows who runs,
\* also when the interrupt has made the choice of highest_tcb stale.
ContextsKept == "switching" \notin disturbed => OwnContext

\* Until the dispatcher is interrupted, no two tasks hold a mutex.
LockExclusive == DispatcherQuiet => MutualExclusion

\* A runnable task of higher priority than the running one is a task that
\* mutex_unlock released (mutex.c:171).
RateMonotonic ==
    \A t \in runnable :
        t < running => op[t] = "mutex_lock" /\ pc[t] \in {"queued", "resumed"}

\* Until the dispatcher is interrupted, the hand-over of mutex_unlock, which does
\* not call the scheduler (mutex.c:166-180), is the only thing that lets a task run
\* while one of higher priority is runnable: a task that a device releases, or that
\* was preempted, is never passed over.
OnlyHandOverOutranks == DispatcherQuiet => RateMonotonic

\* A thread that executes user code, or returns to it, is in the run queue:
\* dispatch never resumes a sleeping task.
CurIsReady == pc[running] \in {"user", "resumed"} => cur_tcb \in runnable

\* A task waiting for a mutex has somebody to wake it: the mutex is locked by
\* a task that does not itself wait in that queue (mutex.c:159-173).
WaiterHasHolder ==
    \A m \in Mutex :
        pSleep_queue[m] # <<>> =>
            /\ bLock[m]
            /\ pHolding_Tcb[m] \in Task
            /\ pHolding_Tcb[m] \notin Range(pSleep_queue[m])

\* The signal of a device with a period is never missed, wrap-around of the
\* tick counter included: it is at most one period away (device.c:108-109).
SignalAhead ==
    \A d \in Device :
        DevFreq[d] > 0 => (next_match[d] - system_time) % TimeMod \in 1..DevFreq[d]

-----------------------------------------------------------------------------
(* Action properties *)

\* A task leaves a device's queue only when the device's match time arrives,
\* and the whole queue leaves with it, into the run queue (device.c:107-119).
ReleasedBySignal ==
    [][\A d \in Device :
        \A t \in Range(sleep_queue[d]) \ Range(sleep_queue[d]') :
            /\ system_time' = next_match[d]
            /\ sleep_queue'[d] = <<>>
            /\ t \in runnable']_vars

\* The mutexes are first-come first-served locks with direct hand-over
\* (README.md:34-39), until the dispatcher is interrupted.
Lock == INSTANCE FifoLock WITH
            Task <- Thread, NoTask <- NULL,
            owner <- pHolding_Tcb, queue <- pSleep_queue,
            inside <- held

ImplementsFifoLock ==
    Lock!Init /\ [][DispatcherQuiet' => Lock!Next]_(Lock!vars)

-----------------------------------------------------------------------------
(* Liveness *)

\* Every task that waits on a device is made runnable again (device.c:90-95).
WaiterReleased ==
    \A t \in Task : (\E d \in Device : t \in Range(sleep_queue[d])) ~> t \in runnable

\* The highest priority task gets the CPU after every event_wait, whatever the
\* other tasks do (device.c:120-122).
TopTaskRuns ==
    (pc[0] = "queued" /\ op[0] = "event_wait") ~> (running = 0 /\ pc[0] = "user")
=============================================================================
