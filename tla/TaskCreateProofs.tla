-------------------------- MODULE TaskCreateProofs --------------------------
(***************************************************************************)
(* Proofs about module TaskCreate, for every number of slots and every set *)
(* of periods and costs.                                                   *)
(***************************************************************************)
EXTENDS TaskCreate, QueueTheorems, TLAPS

-----------------------------------------------------------------------------
(* The inductive invariant *)

Position == 0..(num_tasks - 1)

\* The array is a function on its positions, and the loop counter stays in it.
ArrayInv ==
    /\ tasks \in [Position -> Descriptor]
    /\ i <= num_tasks
    /\ pc = "user" => i = 0 /\ num_tasks = 0
    /\ pc \in {"allocate", "launch"} => i = num_tasks
    /\ ArrayIsPermutation

\* The loop of the sort: whatever stands before i is in its final place.
SortInv ==
    pc \in {"sort", "allocate", "launch"} =>
        \A a, b \in Position : a < i /\ a < b => tasks[a].T <= tasks[b].T

\* allocate_tasks has just been called.
LaunchInv ==
    pc = "launch" =>
        /\ run_list = Position \union {IDLE_PRIO}
        /\ system_tcb = [s \in Slot |->
                CASE s = IDLE_PRIO -> IDLE
                  [] s < num_tasks /\ s # IDLE_PRIO -> tasks[s].id
                  [] OTHER -> NULL]

IndInv == TypeOK /\ ArrayInv /\ SortInv /\ LaunchInv

-----------------------------------------------------------------------------
(* The constants, and the choice of the sort *)

\* Facts about the constants that every step needs.
LEMMA Sets ==
  /\ OS_MAX_TASKS \in Nat \ {0}
  /\ IDLE_PRIO \in Slot
  /\ Slot \subseteq Nat
  /\ NULL \notin Slot /\ IDLE \notin Slot /\ NULL # IDLE
  /\ Periods \subseteq Nat \ {0} /\ Costs \subseteq Nat
  BY TaskCreateAssumption DEF Slot, IDLE_PRIO, NULL, IDLE

\* No tasks make an empty array.
LEMMA EmptyArray ==
  ASSUME NEW n, n = 0
  PROVE  << >> \in [0..(n - 1) -> Descriptor]
<1>1. << >> \in Seq(Descriptor) /\ Len(<< >>) = 0
  BY EmptySeq
<1>2. << >> \in [1..0 -> Descriptor]
  BY <1>1, LenProperties
<1>3. 1..0 = 0..(n - 1)
  OBVIOUS
<1> QED  BY <1>2, <1>3

\* The inner loop finds a position whose period is shortest from k on.
LEMMA MinIsShortest ==
  ASSUME TypeOK, ArrayInv, NEW k \in Position
  PROVE  /\ min(k) \in k..(num_tasks - 1)
         /\ \A j \in k..(num_tasks - 1) : tasks[min(k)].T <= tasks[j].T
<1> DEFINE P == k..(num_tasks - 1)
<1>1. k \in Nat /\ num_tasks \in Nat /\ k \in P /\ P \subseteq Position /\ P \subseteq Nat
  BY DEF Position, TypeOK
<1>2. \A j \in P : tasks[j].T \in Nat
  BY <1>1, Sets DEF ArrayInv, Descriptor
<1>3. PICK v \in {tasks[j].T : j \in P} : \A w \in {tasks[j].T : j \in P} : v <= w
  <2>1. {tasks[j].T : j \in P} \in SUBSET Nat /\ {tasks[j].T : j \in P} # {}
    BY <1>1, <1>2
  <2> HIDE DEF P
  <2> QED  BY <2>1, LeastExists
<1>4. \A j \in P : v <= tasks[j].T
  BY <1>3
<1>5. PICK m \in {j \in P : tasks[j].T = v} : \A l \in {j \in P : tasks[j].T = v} : m <= l
  <2>1. {j \in P : tasks[j].T = v} \in SUBSET Nat /\ {j \in P : tasks[j].T = v} # {}
    BY <1>1, <1>3
  <2> HIDE DEF P
  <2> QED  BY <2>1, LeastExists
<1>6. m \in P /\ \A j \in P : tasks[m].T <= tasks[j].T
  BY <1>4, <1>5
<1>7. ASSUME NEW j \in k..(m - 1) PROVE tasks[m].T < tasks[j].T
  <2>1. j \in P /\ j < m
    BY <1>1, <1>6
  <2>2. tasks[j].T # v
    BY <1>1, <1>5, <2>1
  <2> QED  BY <1>2, <1>4, <1>5, <2>1, <2>2
<1> QED  BY <1>6, <1>7 DEF min

\* task_exchange moves nothing but the two entries it is given.
LEMMA Exchange ==
  ASSUME TypeOK, ArrayInv, NEW a \in Position, NEW b \in Position
  PROVE  /\ task_exchange(a, b) \in [Position -> Descriptor]
         /\ task_exchange(a, b)[a] = tasks[b]
         /\ task_exchange(a, b)[b] = tasks[a]
         /\ \A c \in Position \ {a, b} : task_exchange(a, b)[c] = tasks[c]
  BY DEF ArrayInv, task_exchange

-----------------------------------------------------------------------------
(* Every step preserves the invariant *)

\* Nobody has called task_create yet.
LEMMA InitIndInv == Init => IndInv
<1> SUFFICES ASSUME Init PROVE IndInv
  OBVIOUS
<1> USE Sets DEF Init
<1>1. tasks \in [Position -> Descriptor] /\ Position = {}
  BY EmptyArray DEF Position
<1>2. DOMAIN tasks = 0..(num_tasks - 1)
  BY <1>1 DEF Position
<1>3. ArrayIsPermutation
  BY <1>1, <1>2 DEF ArrayIsPermutation
<1>4. TypeOK
  BY <1>1, <1>2 DEF TypeOK, Position
<1> QED  BY <1>1, <1>3, <1>4 DEF IndInv, ArrayInv, SortInv, LaunchInv

\* A call that fails leaves the running task set alone.
LEMMA ReturnPreserves ==
  ASSUME IndInv, NEW code \in {EFAULT, EINVAL, ESCHED}, Return(code)
  PROVE  IndInv'
<1> USE Sets DEF IndInv, Return, ForgetArray
<1>1. tasks' \in [Position' -> Descriptor] /\ Position' = {}
  BY EmptyArray DEF Position
<1>2. DOMAIN tasks' = 0..(num_tasks' - 1)
  BY <1>1 DEF Position
<1>3. ArrayIsPermutation'
  BY <1>1, <1>2 DEF ArrayIsPermutation
<1>4. TypeOK'
  BY <1>1, <1>2 DEF TypeOK, Position
<1> QED  BY <1>1, <1>3, <1>4 DEF ArrayInv, SortInv, LaunchInv

\* A caller's array has the tasks in the caller's order.
LEMMA BeginPreserves ==
  ASSUME IndInv, NEW n \in 0..OS_MAX_TASKS, create_begin(n)
  PROVE  IndInv'
<1> USE Sets DEF IndInv, create_begin
<1>1. n \in Nat /\ i = 0 /\ num_tasks' = n /\ n <= OS_MAX_TASKS
  BY DEF InUser, ArrayInv
<1>2. PICK ts \in [0..(n - 1) -> Periods], cs \in [0..(n - 1) -> Costs], bad \in -1..(n - 1) :
        tasks' = CallersArray(n, ts, cs, bad)
  OBVIOUS
<1>3. \A k \in 0..(n - 1) : k \in Slot
  BY <1>1 DEF Slot
<1>4. tasks' \in [Position' -> Descriptor]
  BY <1>1, <1>2, <1>3 DEF Position, Descriptor, CallersArray
<1>5. DOMAIN tasks' = 0..(num_tasks' - 1) /\ \A k \in DOMAIN tasks' : tasks'[k].id = k
  BY <1>1, <1>2 DEF CallersArray
<1>6. ArrayIsPermutation'
  BY <1>5 DEF ArrayIsPermutation
<1>7. TypeOK'
  BY <1>1, <1>4, <1>5 DEF TypeOK, Position
<1> QED  BY <1>1, <1>4, <1>6, <1>7 DEF ArrayInv, SortInv, LaunchInv

\* An iteration of the loop of the checks changes the counter and the sum.
LEMMA CheckPreserves ==
  ASSUME IndInv, check_next
  PROVE  IndInv'
<1> USE Sets DEF IndInv, check_next
<1>1. i \in Position
  BY DEF TypeOK, Position
<1>2. tasks[i].C \in Nat /\ tasks[i].T \in Nat \ {0}
  BY <1>1 DEF ArrayInv, Descriptor
<1>3. tasks[i].C \div tasks[i].T \in Nat
  BY <1>2
<1>4. TypeOK'
  BY <1>1, <1>3 DEF TypeOK, Position
<1>5. ArrayIsPermutation'
  BY DEF ArrayInv, ArrayIsPermutation
<1>6. ArrayInv'
  BY <1>1, <1>5 DEF ArrayInv, Position, TypeOK
<1> QED  BY <1>4, <1>6 DEF SortInv, LaunchInv

\* An iteration of the sort puts one more task in its final place.
LEMMA SortPreserves ==
  ASSUME IndInv, sort_step
  PROVE  IndInv'
<1> USE Sets DEF IndInv, sort_step
<1> DEFINE m == min(i)
<1>1. i \in Position /\ num_tasks \in Nat /\ Position' = Position
  BY DEF TypeOK, Position
<1>2. m \in i..(num_tasks - 1) /\ \A j \in i..(num_tasks - 1) : tasks[m].T <= tasks[j].T
  BY <1>1, MinIsShortest
<1>3. m \in Position
  BY <1>1, <1>2 DEF Position
<1> HIDE DEF m
<1>4. /\ tasks' \in [Position -> Descriptor]
      /\ tasks'[i] = tasks[m]
      /\ tasks'[m] = tasks[i]
      /\ \A c \in Position \ {i, m} : tasks'[c] = tasks[c]
  BY <1>1, <1>3, Exchange DEF m
<1>5. DOMAIN tasks = Position /\ DOMAIN tasks' = Position
  BY <1>4 DEF ArrayInv
<1>6. ArrayIsPermutation'
  <2>1. \A c \in Position : \E d \in Position : tasks'[c].id = tasks[d].id
    BY <1>1, <1>3, <1>4
  <2>2. \A d \in Position : \E c \in Position : tasks'[c].id = tasks[d].id
    BY <1>1, <1>3, <1>4
  <2>3. {tasks[d].id : d \in Position} = Position
    BY <1>5 DEF ArrayIsPermutation, ArrayInv
  <2>4. ASSUME NEW c \in Position PROVE tasks'[c].id \in Position
    BY <2>1, <2>3
  <2>5. ASSUME NEW x \in Position PROVE \E c \in Position : x = tasks'[c].id
    <3>1. PICK d \in Position : x = tasks[d].id
      BY <2>3
    <3> QED  BY <2>2, <3>1
  <2>6. {tasks'[c].id : c \in Position} = Position
    BY <2>4, <2>5
  <2> QED  BY <1>5, <2>6 DEF ArrayIsPermutation
<1>7. \A a, b \in Position : a < i + 1 /\ a < b => tasks'[a].T <= tasks'[b].T
  <2> SUFFICES ASSUME NEW a \in Position, NEW b \in Position, a < i + 1, a < b
               PROVE  tasks'[a].T <= tasks'[b].T
    OBVIOUS
  <2>1. PICK c \in Position : tasks'[b] = tasks[c] /\ (b >= i => c >= i) /\ (b < i => c = b)
    BY <1>1, <1>2, <1>3, <1>4 DEF Position
  <2>2. CASE a = i
    <3>1. c \in i..(num_tasks - 1)
      BY <1>1, <2>1, <2>2 DEF Position
    <3> QED  BY <1>2, <1>4, <2>1, <2>2, <3>1
  <2>3. CASE a # i
    <3>1. a < i /\ a # m /\ a < c
      BY <1>1, <1>2, <2>1, <2>3 DEF Position
    <3>2. tasks'[a] = tasks[a] /\ tasks[a].T <= tasks[c].T
      BY <1>4, <2>3, <3>1 DEF SortInv
    <3> QED  BY <2>1, <3>2
  <2> QED  BY <2>2, <2>3
<1>8. TypeOK'
  BY <1>1, <1>4, <1>5 DEF TypeOK, Position
<1>9. ArrayInv'
  BY <1>1, <1>4, <1>6 DEF ArrayInv, Position
<1>10. SortInv'
  BY <1>1, <1>7 DEF SortInv
<1> QED  BY <1>8, <1>9, <1>10 DEF LaunchInv

\* allocate_tasks fills every slot it makes runnable, and no other one.
LEMMA AllocatePreserves ==
  ASSUME IndInv, allocate_tasks
  PROVE  IndInv'
<1> USE Sets DEF IndInv, allocate_tasks
<1>1. Position' = Position /\ Position \subseteq Slot /\ num_tasks \in Nat
  BY DEF Position, TypeOK, Slot
<1>2. run_list' = Position \union {IDLE_PRIO}
  BY DEF runqueue_init, Position
<1>3. ASSUME NEW s \in Slot, s < num_tasks PROVE tasks[s].id \in Slot
  BY <1>1, <1>3 DEF ArrayInv, Descriptor, Position, Slot
<1>4. system_tcb' = [s \in Slot |->
                CASE s = IDLE_PRIO -> IDLE
                  [] s < num_tasks /\ s # IDLE_PRIO -> tasks[s].id
                  [] OTHER -> NULL]
  BY DEF sched_init
<1>5. system_tcb' \in [Slot -> Slot \union {NULL, IDLE}]
  BY <1>3, <1>4
<1>6. TypeOK'
  BY <1>1, <1>2, <1>5 DEF TypeOK
<1>7. ArrayInv' /\ SortInv'
  BY <1>1 DEF ArrayInv, SortInv, ArrayIsPermutation
<1> QED  BY <1>1, <1>2, <1>4, <1>6, <1>7 DEF LaunchInv

\* The dispatcher finds a slot to launch.
LEMMA LaunchPreserves ==
  ASSUME IndInv, dispatch_nosave
  PROVE  IndInv'
<1> USE Sets DEF IndInv, dispatch_nosave, ForgetArray
<1>1. run_list \in SUBSET Nat /\ run_list # {}
  BY DEF LaunchInv, TypeOK
<1>2. cur_tcb' \in run_list
  BY <1>1, MinIsLeast
<1>3. tasks' \in [Position' -> Descriptor] /\ Position' = {}
  BY EmptyArray DEF Position
<1>4. DOMAIN tasks' = 0..(num_tasks' - 1)
  BY <1>3 DEF Position
<1>5. ArrayIsPermutation'
  BY <1>3, <1>4 DEF ArrayIsPermutation
<1>6. TypeOK'
  BY <1>2, <1>3, <1>4 DEF TypeOK, Position
<1> QED  BY <1>3, <1>5, <1>6 DEF ArrayInv, SortInv, LaunchInv

\* Every step of task_create preserves the invariant.
LEMMA NextIndInv == IndInv /\ [Next]_vars => IndInv'
<1> SUFFICES ASSUME IndInv, [Next]_vars PROVE IndInv'
  OBVIOUS
<1>1. CASE create_too_many
  BY <1>1, ReturnPreserves DEF create_too_many
<1>2. CASE create_bad_array
  BY <1>2, ReturnPreserves DEF create_bad_array
<1>3. ASSUME NEW n \in 0..OS_MAX_TASKS, create_begin(n) PROVE IndInv'
  BY <1>3, BeginPreserves
<1>4. CASE check_fault
  BY <1>4, ReturnPreserves DEF check_fault
<1>5. CASE check_next
  BY <1>5, CheckPreserves
<1>6. CASE check_reject
  BY <1>6, ReturnPreserves DEF check_reject
<1>7. CASE check_accept
  BY <1>7, Sets DEF check_accept, IndInv, TypeOK, ArrayInv, SortInv, LaunchInv, Position,
                    ArrayIsPermutation
<1>8. CASE sort_step
  BY <1>8, SortPreserves
<1>9. CASE sort_done
  BY <1>9 DEF sort_done, IndInv, TypeOK, ArrayInv, SortInv, LaunchInv, Position,
              ArrayIsPermutation
<1>10. CASE allocate_tasks
  BY <1>10, AllocatePreserves
<1>11. CASE dispatch_nosave
  BY <1>11, LaunchPreserves
<1>12. CASE UNCHANGED vars
  BY <1>12 DEF vars, IndInv, TypeOK, ArrayInv, SortInv, LaunchInv, Position,
               ArrayIsPermutation
<1> QED  BY <1>1, <1>2, <1>3, <1>4, <1>5, <1>6, <1>7, <1>8, <1>9, <1>10, <1>11, <1>12
         DEF Next

\* The invariant holds in every state of task_create.
THEOREM Invariance == Spec => []IndInv
<1>1. IndInv /\ [Next]_vars => IndInv'
  BY NextIndInv
<1> QED  BY InitIndInv, <1>1, PTL DEF Spec

-----------------------------------------------------------------------------
(* What it gives *)

\* The variables keep their types; the task on the CPU is in the run queue.
THEOREM Types == Spec => []TypeOK
<1>1. IndInv => TypeOK
  BY DEF IndInv
<1> QED  BY Invariance, <1>1, PTL

\* sched.c:63-65: the sort in the caller's array leaves the tasks in rate-monotonic
\* order, for any number of tasks and any periods, repeated ones included.
THEOREM RateMonotonicOrder == Spec => []ShortestPeriodFirst
<1>1. ASSUME IndInv PROVE ShortestPeriodFirst
  <2>1. DOMAIN tasks = Position /\ num_tasks \in Nat
    BY <1>1 DEF IndInv, ArrayInv, TypeOK
  <2> QED  BY <1>1, <2>1 DEF IndInv, ArrayInv, SortInv, ShortestPeriodFirst, Position
<1> QED  BY Invariance, <1>1, PTL

\* proc.c:29-53 and sched.c:62-105: a task set that leaves the idle task its slot is
\* launched exactly as the array says, nobody lost and nobody left of a former set.
THEOREM LaunchIsExact == Spec => []LaunchedExactly
<1>1. ASSUME IndInv PROVE LaunchedExactly
  <2> SUFFICES ASSUME pc = "launch", num_tasks < OS_MAX_TASKS
               PROVE  /\ ArrayIsPermutation
                      /\ \A s \in Slot : s < num_tasks => system_tcb[s] = tasks[s].id
                      /\ \A s \in Slot : s >= num_tasks /\ s # IDLE_PRIO => system_tcb[s] = NULL
                      /\ system_tcb[IDLE_PRIO] = IDLE
                      /\ run_list = {s \in Slot : system_tcb[s] # NULL}
    BY DEF LaunchedExactly
  <2> USE <1>1, Sets DEF IndInv
  <2>1. num_tasks \in Nat /\ num_tasks <= IDLE_PRIO /\ Position \subseteq Slot
    BY DEF TypeOK, IDLE_PRIO, Position, Slot
  <2>2. ASSUME NEW s \in Slot, s < num_tasks
        PROVE  s \in Position /\ s # IDLE_PRIO /\ system_tcb[s] = tasks[s].id
    BY <2>1, <2>2 DEF LaunchInv, Position, Slot
  <2>3. ASSUME NEW s \in Slot, s >= num_tasks, s # IDLE_PRIO
        PROVE  s \notin Position /\ system_tcb[s] = NULL
    BY <2>1, <2>3 DEF LaunchInv, Position, Slot
  <2>4. system_tcb[IDLE_PRIO] = IDLE
    BY DEF LaunchInv
  <2>5. \A s \in Position : tasks[s].id \in Slot
    BY DEF ArrayInv, Descriptor
  <2>6. run_list = {s \in Slot : system_tcb[s] # NULL}
    <3>1. run_list = Position \union {IDLE_PRIO}
      BY DEF LaunchInv
    <3>2. \A s \in Slot : s < num_tasks \/ s >= num_tasks
      BY <2>1
    <3> QED  BY <2>1, <2>2, <2>3, <2>4, <2>5, <3>1, <3>2, Zenon
  <2> QED  BY <2>2, <2>3, <2>4, <2>6 DEF ArrayInv
<1> QED  BY Invariance, <1>1, PTL
=============================================================================
