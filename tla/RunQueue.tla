------------------------------ MODULE RunQueue ------------------------------
(***************************************************************************)
(* The run queue of kernel/sched/run_queue.c: a list with one slot per     *)
(* priority, a bitmap of the occupied slots in 8 bytes, a byte that marks  *)
(* the bytes which are not zero, and the search for the highest priority   *)
(* through a 256-entry table.                                              *)
(*                                                                         *)
(* A byte is the set of its bits that are 1.  runqueue_add is only called  *)
(* with interrupts masked (dev_update, mutex_unlock) and is one step.      *)
(* runqueue_remove, called from dev_wait, is interruptible: its loads and  *)
(* stores are steps of their own, and the timer interrupt, which adds the  *)
(* tasks it wakes and searches the queue, may come between them, although  *)
(* the comments at run_queue.c:84 and 105 ask for synchronization.         *)
(*                                                                         *)
(* interrupted is a history variable, which no step reads: the groups from *)
(* which a task was being removed when such an interrupt added one.  One   *)
(* removal at a time is followed: a second task that is dispatched by the  *)
(* interrupt and starts a removal of its own before the first has ended is *)
(* left out.                                                               *)
(***************************************************************************)
EXTENDS Integers, FiniteSetsExt, Functions

CONSTANT InUse          \* the priorities of the tasks, IDLE_PRIO among them

OS_MAX_TASKS == 64
IDLE_PRIO == 63
NULL == -1
Prio == 0..(OS_MAX_TASKS - 1)
Group == 0..7
Bit == 0..7

ASSUME RunQueueAssumption ==
    /\ InUse \subseteq Prio
    /\ IDLE_PRIO \in InUse

VARIABLES
    run_list,        \* run_list[p]: the TCB in slot p
    run_bits,        \* run_bits[g]: the byte of group g
    group_run_bits,  \* the byte of the groups
    rpc,             \* where the caller of runqueue_remove is
    rprio,           \* the priority it removes
    byte,            \* the byte it has loaded
    interrupted      \* the groups of the removals that an add interrupted
                     \* (not in the code)

vars == <<run_list, run_bits, group_run_bits, rpc, rprio, byte, interrupted>>

TypeOK ==
    /\ run_list \in [Prio -> InUse \union {NULL}]
    /\ run_bits \in [Group -> SUBSET Bit]
    /\ group_run_bits \in SUBSET Group
    /\ rpc \in {"out", "emptied", "loaded", "stored", "group_loaded"}
    /\ rprio \in InUse \union {NULL}
    /\ byte \in SUBSET Bit
    /\ interrupted \in SUBSET Group

-----------------------------------------------------------------------------
(* The lookup table *)

\* The rows of 16 entries differ only in their first entry.
RowHead == <<0, 4, 5, 4, 6, 4, 5, 4, 7, 4, 5, 4, 6, 4, 5, 4>>
RowRest == <<0, 1, 0, 2, 0, 1, 0, 3, 0, 1, 0, 2, 0, 1, 0>>

prio_unmap_table ==
    [b \in 0..255 |-> IF b % 16 = 0 THEN RowHead[b \div 16 + 1] ELSE RowRest[b % 16]]

\* The number a byte stands for.
ByteValue(bits) == MapThenSumSet(LAMBDA i : 2^i, bits)

LowestBit(bits) == prio_unmap_table[ByteValue(bits)]

\* Of every byte but 0 the table gives the lowest bit (run_queue.c:34-36); it
\* is a finite fact, which TLC evaluates in full.
ASSUME UnmapTableAssumption ==
    \A bits \in (SUBSET Bit) \ {{}} :
        /\ LowestBit(bits) \in bits
        /\ \A i \in bits : LowestBit(bits) <= i

\* The entry of 0 is that of bit 0: in an empty queue the search would find
\* priority 0, not IDLE_PRIO as ctx_switch.c:42-43 says.  The queue is never
\* searched when it is empty, since the idle task does not leave it.
ASSUME UnmapOfZeroAssumption == LowestBit({}) = 0

-----------------------------------------------------------------------------
(* The operations *)

OSTCBY(p) == p \div 8
OSTCBX(p) == p % 8

\* Faulty variant: the group and the bit are exchanged.
highest_prio_swapped ==
    LET y == LowestBit(group_run_bits)
        x == LowestBit(run_bits[y])
    IN  x * 8 + y

highest_prio ==
    LET y == LowestBit(group_run_bits)
        x == LowestBit(run_bits[y])
    IN  y * 8 + x

\* The priorities whose run bit is set.
Ready == {p \in Prio : OSTCBX(p) \in run_bits[OSTCBY(p)]}

\* runqueue_init
Init ==
    /\ run_list = [p \in Prio |-> NULL]
    /\ run_bits = [g \in Group |-> {}]
    /\ group_run_bits = {}
    /\ rpc = "out"
    /\ rprio = NULL
    /\ byte = {}
    /\ interrupted = {}

\* The group from which a task is being removed.
InRemoval == IF rpc = "out" THEN {} ELSE {OSTCBY(rprio)}

\* Faulty variant: the other bits of the byte are overwritten.
runqueue_add_overwrites(p) ==
    /\ run_list[p] = NULL
    /\ p # rprio
    /\ group_run_bits' = group_run_bits \union {OSTCBY(p)}
    /\ run_bits' = [run_bits EXCEPT ![OSTCBY(p)] = {OSTCBX(p)}]
    /\ run_list' = [run_list EXCEPT ![p] = p]
    /\ interrupted' = interrupted \union InRemoval
    /\ UNCHANGED <<rpc, rprio, byte>>

\* Callers add a task that is in no queue, at its own priority; they run
\* masked, so they meet another task inside runqueue_remove only when they
\* interrupt it.
runqueue_add(p) ==
    /\ run_list[p] = NULL
    /\ p # rprio
    /\ group_run_bits' = group_run_bits \union {OSTCBY(p)}
    /\ run_bits' = [run_bits EXCEPT ![OSTCBY(p)] = @ \union {OSTCBX(p)}]
    /\ run_list' = [run_list EXCEPT ![p] = p]
    /\ interrupted' = interrupted \union InRemoval
    /\ UNCHANGED <<rpc, rprio, byte>>

\* tcb = run_list[prio]; run_list[prio] = 0.  A task removes itself; the idle
\* task never does.
remove_slot(p) ==
    /\ rpc = "out"
    /\ p # IDLE_PRIO
    /\ run_list[p] # NULL
    /\ run_list' = [run_list EXCEPT ![p] = NULL]
    /\ rpc' = "emptied"
    /\ rprio' = p
    /\ UNCHANGED <<run_bits, group_run_bits, byte, interrupted>>

\* run_bits[OSTCBY] = run_bits[OSTCBY] & (~(1 << OSTCBX)): the load ...
remove_load ==
    /\ rpc = "emptied"
    /\ byte' = run_bits[OSTCBY(rprio)]
    /\ rpc' = "loaded"
    /\ UNCHANGED <<run_list, run_bits, group_run_bits, rprio, interrupted>>

\* Faulty variant: the whole byte is cleared.
remove_store_clears ==
    /\ rpc = "loaded"
    /\ run_bits' = [run_bits EXCEPT ![OSTCBY(rprio)] = {}]
    /\ rpc' = "stored"
    /\ UNCHANGED <<run_list, group_run_bits, rprio, byte, interrupted>>

\* ... and the store.
remove_store ==
    /\ rpc = "loaded"
    /\ run_bits' = [run_bits EXCEPT ![OSTCBY(rprio)] = byte \ {OSTCBX(rprio)}]
    /\ rpc' = "stored"
    /\ UNCHANGED <<run_list, group_run_bits, rprio, byte, interrupted>>

RemoveReturns == rpc' = "out" /\ rprio' = NULL /\ byte' = {}

\* The byte is not zero: the group's flag stays.
remove_keep_group ==
    /\ rpc = "stored"
    /\ run_bits[OSTCBY(rprio)] # {}
    /\ RemoveReturns
    /\ UNCHANGED <<run_list, run_bits, group_run_bits, interrupted>>

\* The byte is zero: clear the group's flag, a load ...
remove_load_group ==
    /\ rpc = "stored"
    /\ run_bits[OSTCBY(rprio)] = {}
    /\ byte' = group_run_bits
    /\ rpc' = "group_loaded"
    /\ UNCHANGED <<run_list, run_bits, group_run_bits, rprio, interrupted>>

\* ... and a store.
remove_store_group ==
    /\ rpc = "group_loaded"
    /\ group_run_bits' = byte \ {OSTCBY(rprio)}
    /\ RemoveReturns
    /\ UNCHANGED <<run_list, run_bits, interrupted>>

runqueue_remove ==
    \/ \E p \in InUse : remove_slot(p)
    \/ remove_load \/ remove_store \/ remove_keep_group
    \/ remove_load_group \/ remove_store_group

Next == (\E p \in InUse : runqueue_add(p)) \/ runqueue_remove

Spec == Init /\ [][Next]_vars

-----------------------------------------------------------------------------
\* The search gives the runnable task of highest priority.
FindsHighest ==
    Ready # {} => highest_prio \in Ready /\ \A p \in Ready : highest_prio <= p

(* What the comments promise *)

\* run_queue.c:22-24: a bit is set for exactly the priorities whose slot holds
\* a task, apart from the one being removed.
BitsAlwaysAgree ==
    \A p \in Prio \ {rprio} : p \in Ready <=> run_list[p] # NULL

-----------------------------------------------------------------------------
(* Properties of the code as it is built *)

\* run_queue.c:22-24, 114: a bit is set for exactly the priorities whose slot holds
\* a task, apart from the one being removed.  An add that interrupts a removal
\* can spoil this for the byte of that removal only.
BitsAgreeWithList ==
    \A p \in Prio \ {rprio} :
        OSTCBY(p) \notin interrupted => (p \in Ready <=> run_list[p] # NULL)

\* run_queue.c:27-29: the flag of a group is set when and only when a task of
\* the group is runnable, outside runqueue_remove, until a removal is interrupted.
GroupsAgreeWithBits ==
    interrupted = {} /\ rpc = "out" =>
        \A g \in Group : g \in group_run_bits <=> run_bits[g] # {}

\* run_queue.c:123-124: until a removal is interrupted, the search gives the
\* runnable task of highest priority.
SearchFindsHighest == interrupted = {} /\ rpc = "out" => FindsHighest

\* What the scheduler sees of the queue: a set that tasks enter and leave
\* (the variable runnable of module Kernel).
Abstract == INSTANCE ReadySet WITH Member <- InUse, ready <- Ready

\* run_queue.c:87-119: until a removal is interrupted, the bitmap is that set.
ImplementsReadySet ==
    Abstract!Init /\ [][interrupted' = {} => Abstract!Next]_Ready
=============================================================================
