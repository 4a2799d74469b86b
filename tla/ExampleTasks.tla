---------------------------- MODULE ExampleTasks ----------------------------
(***************************************************************************)
(* The example programs of tasks/ as clients of the kernel.  A program is  *)
(* the code of its tasks in priority order, a sequence of instructions per *)
(* task: the system calls, and the accesses to memory and to the console   *)
(* that the program's own verdict depends on.  A step of a task is the step*)
(* of Kernel that its instruction asks for; the wrapper of the system call *)
(* (tasks/libc/swi) stores errno, one variable for all tasks, when the call*)
(* returns.                                                                *)
(*                                                                         *)
(* MUTEX_NUM and MAX_MUTEX, 32 in the programs, are NumMutex.  NumTasks is *)
(* the size of the largest program: a slot that a program does not use     *)
(* behaves as the idle task.  prompt is chosen at the start: TRUE is a     *)
(* processor that finishes all work between two ticks, FALSE one that may  *)
(* be arbitrarily slow.                                                    *)
(***************************************************************************)
EXTENDS Kernel, SequencesExt

ASSUME ProgramsAssumption == NumTasks = 4 /\ NumDevices = 4 /\ NumMutex >= 2

VARIABLES
    program,     \* the program that was loaded
    prompt,      \* whether it is fast enough
    ip,          \* ip[t]: the instruction task t is at, or Spin, or Panic
    errno,       \* tasks/libc/stdlib/errno.c
    reg,         \* reg[t]: a value task t has loaded
    mutex_val,   \* mutex_chaser.c: the number that mutex m protects
    printed,     \* simple_mutex.c: what is on the console
    failed       \* sys_err.c: a check printed FAIL

taskVars == <<program, prompt, ip, errno, reg, mutex_val, printed, failed>>
allVars == <<vars, taskVars>>

Spin == 0      \* while(1);
Panic == -1    \* panic()

\* An instruction.
I(do, arg) == [do |-> do, arg |-> arg]

-----------------------------------------------------------------------------
(* mutex_chaser.c: four tasks chase each other over all mutexes *)

fun1_opval == 3
fun2_opval == 11
fun3_opval == 7
fun4_opval == 13
init_val == 2
result_val == ((init_val + fun1_opval) * fun2_opval - fun3_opval) * fun4_opval

\* The update of a task, by priority: fun1 of device 3, then fun2, fun3, fun4.
Update(t, v) ==
    CASE t = 0 -> v + fun1_opval
      [] t = 1 -> v * fun2_opval
      [] t = 2 -> v - fun3_opval
      [] t = 3 -> v * fun4_opval

\* Five instructions for each mutex but the first, and the wait in while(1).
ChaseEnd == 5 * (NumMutex - 1) + 1

\* Faulty variant: the number is read before the mutex is taken.
Chase_unprotected(dev) ==
    [k \in 1..ChaseEnd |->
        LET m == 1 + (k - 1) \div 5 IN
        IF k = ChaseEnd THEN I("wait", dev)
        ELSE <<I("load", m), I("lock", m), I("store", m), I("unlock", m),
               I("wait", dev)>>[1 + ((k - 1) % 5)]]

\* One mutex per period; the mutexes done, the task keeps waiting.
Chase(dev) ==
    [k \in 1..ChaseEnd |->
        LET m == 1 + (k - 1) \div 5 IN
        IF k = ChaseEnd THEN I("wait", dev)
        ELSE <<I("lock", m), I("load", m), I("store", m), I("unlock", m),
               I("wait", dev)>>[1 + ((k - 1) % 5)]]

\* The tasks on devs in priority order; the last instruction, the wait in
\* while(1), is repeated.
Chasers(devs, created) ==
    [code |-> [k \in 1..4 |-> Chase(devs[k])],
     loop |-> [k \in 1..4 |-> ChaseEnd],
     created |-> created]

\* Faulty variant: fun2 and fun3 have exchanged their devices.
mutex_chaser_swapped == Chasers(<<3, 1, 0, 2>>, NumMutex)

mutex_chaser == Chasers(<<3, 0, 1, 2>>, NumMutex)

(* simple_mutex.c: the two flags of each task unrolled *)

simple_mutex ==
    [code |-> <<
        <<I("create", 0), I("put", "s"), I("wait", 0), I("lock", 0),
          I("put", "e"), I("unlock", 0), I("wait", 0), I("put", "s"), I("put", "!")>>,
        <<I("put", "u"), I("wait", 1), I("lock", 0), I("put", "S"), I("wait", 1)>>,
        <<I("put", "c"), I("lock", 0), I("wait", 2),
          I("put", "c"), I("unlock", 0), I("wait", 2)>>,
        <<>> >>,
     loop |-> <<Spin, 3, 4, Spin>>,
     created |-> 0]

(* dagger.c: fun4 has the shortest period, fun1 keeps the mutex over waits *)

\* Faulty variant: the mutex is given up over the waits.
dagger_fun1_early ==
    <<I("lock", 0), I("put", "@"), I("unlock", 0), I("wait", 0), I("put", "@"),
      I("wait", 0), I("put", "@"), I("wait", 0), I("put", "@"), I("wait", 0),
      I("put", "@"), I("wait", 0)>>

dagger_fun1 ==
    <<I("lock", 0), I("put", "@"), I("wait", 0), I("put", "@"), I("wait", 0),
      I("put", "@"), I("wait", 0), I("put", "@"), I("wait", 0), I("put", "@"),
      I("unlock", 0), I("wait", 0)>>

dagger ==
    [code |-> <<
        <<I("put", "*"), I("wait", 3)>>,
        dagger_fun1,
        <<I("put", "<"), I("wait", 1)>>,
        <<I("lock", 0), I("put", ">"), I("unlock", 0), I("wait", 2)>> >>,
     loop |-> <<1, 1, 1, 1>>,
     created |-> 1]

(* sys_err.c, the task: each call is followed by its check *)

sys_err_creates == [k \in 1..NumMutex |-> I("create", 0)]

sys_err_checks ==
    <<I("create", 0), I("expect", ENOMEM),
      I("unlock", NumMutex), I("expect", EINVAL),
      I("unlock", 1), I("expect", EPERM),
      I("lock", NumMutex), I("expect", EINVAL),
      I("lock", 0), I("expect", 0),
      I("lock", 0), I("expect", EDEADLOCK),
      I("unlock", 0), I("expect", 0),
      I("wait", NumDevices), I("expect", EINVAL)>>

sys_err ==
    [code |-> <<sys_err_creates \o sys_err_checks, <<>>, <<>>, <<>> >>,
     loop |-> <<Spin, Spin, Spin, Spin>>,
     created |-> 0]

Program ==
    [mutex_chaser |-> mutex_chaser, simple_mutex |-> simple_mutex,
     dagger |-> dagger, sys_err |-> sys_err]

-----------------------------------------------------------------------------
Code(t) == Program[program].code[t + 1]
Loop(t) == Program[program].loop[t + 1]

\* The running task is in its own code, at an instruction of the given kind.
Doing(kind) ==
    /\ At("user")
    /\ ip[running] \notin {Spin, Panic}
    /\ Code(running)[ip[running]].do = kind

Arg == Code(running)[ip[running]].arg

Following(t) == IF ip[t] < Len(Code(t)) THEN ip[t] + 1 ELSE Loop(t)

Advance == ip' = [ip EXCEPT ![running] = Following(running)]

\* Faulty variant: a failed mutex_create leaves errno alone.
swi_errno_forgets(do, result) ==
    IF do = "create" THEN errno ELSE result

\* The wrappers of tasks/libc/swi: mutex_create's stores errno on an error
\* only and negates it, the others store what the kernel returned.
swi_errno(do, result) ==
    CASE do = "create" /\ result < 0 -> -result
      [] do = "create" /\ result >= 0 -> errno
      [] OTHER -> result

\* mutex_chaser.c panics when a lock or an unlock fails.
Checked(do) == program = "mutex_chaser" /\ do \in {"lock", "unlock"}

\* The caller is back in its own code.
Return ==
    LET do == Code(running)[ip[running]].do IN
    /\ errno' = swi_errno(do, value')
    /\ IF Checked(do) /\ value' # 0
       THEN ip' = [ip EXCEPT ![running] = Panic]
       ELSE Advance

\* A step of the kernel on behalf of the running task.
AndReturn ==
    /\ IF pc'[running] = "user" THEN Return ELSE UNCHANGED <<errno, ip>>
    /\ UNCHANGED <<program, prompt, reg, mutex_val, printed, failed>>

event_wait ==
    /\ Doing("wait")
    /\ event_wait_invalid(Arg) \/ dev_wait_remove(Arg)
    /\ AndReturn

mutex_create ==
    /\ Doing("create")
    /\ mutex_create_full \/ mutex_create_find
    /\ AndReturn

mutex_lock ==
    /\ Doing("lock")
    /\ \/ mutex_lock_invalid(Arg)
       \/ mutex_lock_own(Arg)
       \/ mutex_lock_free(Arg)
       \/ mutex_lock_blocked(Arg)
    /\ AndReturn

mutex_unlock ==
    /\ Doing("unlock")
    /\ \/ mutex_unlock_invalid(Arg)
       \/ mutex_unlock_not_owner(Arg)
       \/ mutex_unlock_free(Arg)
       \/ mutex_unlock_handoff(Arg)
    /\ AndReturn

\* The rest of a system call, once it has begun.
in_kernel == KernelStep /\ AndReturn

\* mutex_val[cur_mutex] = mutex_val[cur_mutex] ...: a load, and a store.
load ==
    /\ Doing("load")
    /\ reg' = [reg EXCEPT ![running] = mutex_val[Arg]]
    /\ Advance
    /\ UNCHANGED <<vars, program, prompt, errno, mutex_val, printed, failed>>

store ==
    /\ Doing("store")
    /\ mutex_val' = [mutex_val EXCEPT ![Arg] = Update(running, reg[running])]
    /\ reg' = [reg EXCEPT ![running] = 0]
    /\ Advance
    /\ UNCHANGED <<vars, program, prompt, errno, printed, failed>>

\* putchar, recorded for simple_mutex.c on a prompt processor.
put ==
    /\ Doing("put")
    /\ printed' = IF program = "simple_mutex" /\ prompt
                  THEN Append(printed, Arg) ELSE printed
    /\ Advance
    /\ UNCHANGED <<vars, program, prompt, errno, reg, mutex_val, failed>>

check_return ==
    /\ Doing("expect")
    /\ failed' = (failed \/ errno # Arg)
    /\ Advance
    /\ UNCHANGED <<vars, program, prompt, errno, reg, mutex_val, printed>>

\* The running thread has no work left.
Resting == pc[running] = "user" /\ (running # IDLE_PRIO => ip[running] \in {Spin, Panic})

timer ==
    /\ prompt => Resting
    /\ C_IRQ_Handler
    /\ UNCHANGED taskVars

TasksInit ==
    /\ Init
    /\ program \in DOMAIN Program
    /\ prompt \in BOOLEAN
    /\ bAvailable = [m \in Mutex |-> m >= Program[program].created]
    /\ ip = [t \in Task |-> IF Code(t) = <<>> THEN Spin ELSE 1]
    /\ errno = 0
    /\ reg = [t \in Task |-> 0]
    /\ mutex_val = [m \in Mutex |-> init_val]
    /\ printed = <<>>
    /\ failed = FALSE

TaskStep ==
    \/ event_wait \/ mutex_create \/ mutex_lock \/ mutex_unlock
    \/ in_kernel \/ load \/ store \/ put \/ check_return

TasksNext == TaskStep \/ timer

\* The tasks are straight-line code, so a task that may go on does; the timer
\* is fair as in Kernel.
TasksSpec ==
    /\ TasksInit
    /\ [][TasksNext]_allVars
    /\ WF_allVars(TaskStep)
    /\ SF_allVars(timer)

-----------------------------------------------------------------------------
(* Properties *)

\* mutex_chaser.c:4-6: no update of a number is lost, on however slow a
\* processor, until the dispatcher is interrupted: once all four tasks have done
\* their updates, the number is the result of the four in some order.
NoLostUpdate ==
    DispatcherQuiet /\ program = "mutex_chaser" /\ (\A t \in Task : ip[t] = ChaseEnd) =>
        \A m \in 1..(NumMutex - 1) :
            \E order \in SetToSeqs(Task) :
                mutex_val[m] = Update(order[4], Update(order[3],
                                   Update(order[2], Update(order[1], init_val))))

\* mutex_chaser.c:29, 121-141: on a processor that keeps up, the order is the
\* one of result_val, although the periods of the tasks do not divide each
\* other, when fun4 comes to compare.  It compares number 0 too, which no task
\* updates (cur_mutex starts at 1): there it reports a difference.
ChaserResult ==
    program = "mutex_chaser" /\ prompt /\ ip[3] = ChaseEnd =>
        \A m \in Mutex : mutex_val[m] = IF m = 0 THEN init_val ELSE result_val

\* The flow simple_mutex.c:3-6 announces.
SucceSs == <<"s", "u", "c", "c", "e", "S", "s", "!">>

\* A processor that keeps up prints "succeSs!", all of it and nothing else: the
\* mutex goes to the task that has waited longest (simple_mutex.c:5).
PrintsAll == program = "simple_mutex" /\ prompt => <>[](printed = SucceSs)

\* dagger.c:27-39, 63-67: fun3 never prints between the first and the last '@'
\* of fun1, which sleeps four times in between and keeps the mutex, until the
\* dispatcher is interrupted.
WholeBursts ==
    DispatcherQuiet /\ program = "dagger" => ~(ip[1] \in 3..10 /\ ip[3] = 3)

\* No task reports a failure, whatever the speed of the processor, until the
\* dispatcher is interrupted: the checks of the task of sys_err.c (33-47) succeed,
\* and no call on which mutex_chaser.c:52-61, 79-83 panics fails.  The two checks
\* of sys_err's main (67-72) are about task_create and are not among them.
ChecksSucceed == DispatcherQuiet => ~failed /\ \A t \in Task : ip[t] # Panic
=============================================================================
