----------------------------- MODULE TaskCreate -----------------------------
(***************************************************************************)
(* task_create_syscall: the checks of the caller's task set, the sort into *)
(* rate-monotonic order in the caller's own array, and allocate_tasks,     *)
(* which gives slot i of system_tcb and of the run queue to the i-th task  *)
(* and the last slot to the idle task.  A successful call does not return; *)
(* the launched tasks may call task_create again.                          *)
(*                                                                         *)
(* An address is in the user's memory or not, which is all the code tests. *)
(* dev_init, called between the sort and the allocation, empties the sleep *)
(* queues of the devices, which are not part of this module; nor is the    *)
(* timer interrupt, which finds no sleeper before the first launch.        *)
(***************************************************************************)
EXTENDS Integers, FiniteSetsExt, Functions

CONSTANTS
    OS_MAX_TASKS,   \* 64 in config.h
    Periods,        \* the values of T a caller may use
    Costs           \* the values of C

ASSUME TaskCreateAssumption ==
    /\ OS_MAX_TASKS \in Nat \ {0}
    /\ Periods \subseteq Nat \ {0}
    /\ Costs \subseteq Nat

IDLE_PRIO == OS_MAX_TASKS - 1
Slot == 0..(OS_MAX_TASKS - 1)
NULL == -1
IDLE == -2       \* the function idle, in the slot of the idle task
EFAULT == 14
EINVAL == 22
ESCHED == 100

VARIABLES
    tasks,        \* the caller's array: position -> [id, T, C, mapped]
    num_tasks,    \* its length
    pc,           \* user, check, sort, allocate, launch
    i,            \* the loop counter
    sum,          \* the utilization
    result,       \* what the last call that failed returned
    system_tcb,   \* slot -> the task that owns it
    run_list,     \* the slots in the run queue
    cur_tcb       \* the slot on the CPU, NULL before the first task set

vars == <<tasks, num_tasks, pc, i, sum, result, system_tcb, run_list, cur_tcb>>

Descriptor == [id : Slot, T : Periods, C : Costs, mapped : BOOLEAN]

\* A caller's array: entry k is the k-th task.  At most one entry has an
\* address outside the user's memory.
CallersArray(n, ts, cs, bad) ==
    [k \in 0..(n - 1) |-> [id |-> k, T |-> ts[k], C |-> cs[k], mapped |-> k # bad]]

TypeOK ==
    /\ num_tasks \in 0..OS_MAX_TASKS
    /\ DOMAIN tasks = 0..(num_tasks - 1)
    /\ \A k \in DOMAIN tasks : tasks[k] \in Descriptor
    /\ pc \in {"user", "check", "sort", "allocate", "launch"}
    /\ i \in 0..OS_MAX_TASKS
    /\ sum \in Nat
    /\ result \in {0, EFAULT, EINVAL, ESCHED}
    /\ system_tcb \in [Slot -> Slot \union {NULL, IDLE}]
    /\ run_list \in SUBSET Slot
    /\ cur_tcb \in run_list \union {NULL}

\* The locals are gone, and what the caller does with its array no longer
\* matters.
ForgetArray ==
    /\ tasks' = << >>
    /\ num_tasks' = 0
    /\ i' = 0
    /\ sum' = 0

Return(code) ==
    /\ pc' = "user"
    /\ result' = code
    /\ ForgetArray
    /\ UNCHANGED <<system_tcb, run_list, cur_tcb>>

\* User code runs: the main program, or a task of the current set.
InUser == pc = "user" /\ (cur_tcb # NULL => system_tcb[cur_tcb] # IDLE)

-----------------------------------------------------------------------------
(* task_create_syscall *)

\* num_tasks > OS_MAX_TASKS
create_too_many == InUser /\ Return(EINVAL)

\* The array itself is outside the user's memory.
create_bad_array == InUser /\ Return(EFAULT)

create_begin(n) ==
    /\ InUser
    /\ n <= OS_MAX_TASKS
    /\ \E ts \in [0..(n - 1) -> Periods], cs \in [0..(n - 1) -> Costs], bad \in -1..(n - 1) :
          tasks' = CallersArray(n, ts, cs, bad)
    /\ num_tasks' = n
    /\ pc' = "check"
    /\ result' = 0
    /\ UNCHANGED <<i, sum, system_tcb, run_list, cur_tcb>>

check_fault ==
    /\ pc = "check"
    /\ i < num_tasks
    /\ ~tasks[i].mapped
    /\ Return(EFAULT)

\* sum = C/T: assigned, and an integer division.
check_next ==
    /\ pc = "check"
    /\ i < num_tasks
    /\ tasks[i].mapped
    /\ sum' = tasks[i].C \div tasks[i].T
    /\ i' = i + 1
    /\ UNCHANGED <<tasks, num_tasks, pc, result, system_tcb, run_list, cur_tcb>>

check_reject ==
    /\ pc = "check"
    /\ i = num_tasks
    /\ sum > 1
    /\ Return(ESCHED)

check_accept ==
    /\ pc = "check"
    /\ i = num_tasks
    /\ sum <= 1
    /\ pc' = "sort"
    /\ i' = 0
    /\ UNCHANGED <<tasks, num_tasks, sum, result, system_tcb, run_list, cur_tcb>>

\* Faulty variant: the inner loop looks for the longest period.
min_longest(k) ==
    CHOOSE m \in k..(num_tasks - 1) :
        \A j \in k..(num_tasks - 1) : tasks[m].T >= tasks[j].T

\* The inner loop: the first of the shortest periods from position k on.
min(k) ==
    CHOOSE m \in k..(num_tasks - 1) :
        /\ \A j \in k..(num_tasks - 1) : tasks[m].T <= tasks[j].T
        /\ \A j \in k..(m - 1) : tasks[m].T < tasks[j].T

task_exchange(a, b) == [tasks EXCEPT ![a] = tasks[b], ![b] = tasks[a]]

sort_step ==
    /\ pc = "sort"
    /\ i < num_tasks
    /\ tasks' = task_exchange(i, min(i))
    /\ i' = i + 1
    /\ UNCHANGED <<num_tasks, pc, sum, result, system_tcb, run_list, cur_tcb>>

sort_done ==
    /\ pc = "sort"
    /\ i = num_tasks
    /\ pc' = "allocate"
    /\ UNCHANGED <<tasks, num_tasks, i, sum, result, system_tcb, run_list, cur_tcb>>

-----------------------------------------------------------------------------
(* allocate_tasks *)

sched_init == [s \in Slot |-> NULL]

\* Faulty variant: the run queue is not cleared.
runqueue_init_skipped == run_list

runqueue_init == {}

\* Every slot below num_tasks, then the idle slot, whoever has it;
\* dispatch_init names the idle task as the current one.
allocate_tasks ==
    /\ pc = "allocate"
    /\ system_tcb' = [s \in Slot |->
            CASE s = IDLE_PRIO -> IDLE
              [] s < num_tasks /\ s # IDLE_PRIO -> tasks[s].id
              [] OTHER -> sched_init[s]]
    /\ run_list' = runqueue_init \union 0..(num_tasks - 1) \union {IDLE_PRIO}
    /\ cur_tcb' = IDLE_PRIO
    /\ pc' = "launch"
    /\ UNCHANGED <<tasks, num_tasks, i, sum, result>>

\* dispatch_nosave: ctx_switch_half into the first task, never to return.
dispatch_nosave ==
    /\ pc = "launch"
    /\ cur_tcb' = Min(run_list)
    /\ pc' = "user"
    /\ ForgetArray
    /\ UNCHANGED <<result, system_tcb, run_list>>

Init ==
    /\ tasks = << >>
    /\ num_tasks = 0
    /\ pc = "user"
    /\ i = 0
    /\ sum = 0
    /\ result = 0
    /\ system_tcb = [s \in Slot |-> NULL]
    /\ run_list = {}
    /\ cur_tcb = NULL

Next ==
    \/ create_too_many \/ create_bad_array
    \/ \E n \in 0..OS_MAX_TASKS : create_begin(n)
    \/ check_fault \/ check_next \/ check_reject \/ check_accept
    \/ sort_step \/ sort_done
    \/ allocate_tasks \/ dispatch_nosave

Spec == Init /\ [][Next]_vars

-----------------------------------------------------------------------------
(* Properties *)

\* sched.c:63-65: priorities are rate-monotonic, a task of a shorter period
\* has a smaller slot.
ShortestPeriodFirst ==
    pc \in {"allocate", "launch"} =>
        \A a, b \in DOMAIN tasks : a < b => tasks[a].T <= tasks[b].T

\* The sort loses and repeats nobody, at any of its steps (proc.c:29-53).
ArrayIsPermutation ==
    {tasks[k].id : k \in DOMAIN tasks} = DOMAIN tasks

\* A launched task set is exactly the array, which the sort has only permuted:
\* every task has one slot, the slots of a former set are gone, and the idle task
\* is there, provided the array leaves it its slot (sched.c:62).
LaunchedExactly ==
    pc = "launch" /\ num_tasks < OS_MAX_TASKS =>
        /\ ArrayIsPermutation
        /\ \A s \in Slot : s < num_tasks => system_tcb[s] = tasks[s].id
        /\ \A s \in Slot : s >= num_tasks /\ s # IDLE_PRIO => system_tcb[s] = NULL
        /\ system_tcb[IDLE_PRIO] = IDLE
        /\ run_list = {s \in Slot : system_tcb[s] # NULL}

Hyperperiod == ProductSet(Periods)

\* proc.c:91, "test whether task set is schedulable": the utilization of a
\* task set that passed the test is at most 1.
AdmittedIsSchedulable ==
    pc \in {"sort", "allocate", "launch"} =>
        MapThenSumSet(LAMBDA k : tasks[k].C * (Hyperperiod \div tasks[k].T),
                      DOMAIN tasks) <= Hyperperiod
=============================================================================
