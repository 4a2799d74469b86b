----------------------------- MODULE MCPromises -----------------------------
(***************************************************************************)
(* What the comments and the README of the repository promise, against the *)
(* code as it is built, with the interrupt taken wherever the code leaves  *)
(* it enabled.                                                             *)
(*                                                                         *)
(* The promises are taken one after the other, in the order of the list    *)
(* below.  The part of the system that a promise is about runs until it    *)
(* breaks it; then the next promise is looked at, in the same execution if *)
(* it is about the same part.  The parts are the modules themselves, one   *)
(* instance of each, and do not interact here.                             *)
(*                                                                         *)
(*    1  the search         run_queue.c:123-124  RunQueue                  *)
(*    2  BitsAlwaysAgree    run_queue.c:22-24    RunQueue                  *)
(*    3  SleepersListed     device.c:33-34       SleepQueue                *)
(*    4  ReturnsToUserMode  IRQ_Handler.S:30-31  SystemCall                *)
(*    5  OwnResult          S_Handler.S:33, 38   SystemCall                *)
(*    6  CreatedOnce        mutex.c:48-55        Kernel                    *)
(*    7  HighestRuns        README.md:25-26      Kernel, by mutex_unlock   *)
(*    8  NoTaskLost         device.c:94-95       Kernel                    *)
(*    9  OwnContext         ctx_switch.c:38-39   Kernel                    *)
(*   10  StacksUnread       io.c:95              UserBuffer                *)
(*   11  FieldWidth         doprnt.c:62-66       Format, by %c             *)
(***************************************************************************)
EXTENDS MCKernel, UserBuffer

CONSTANTS d0, d1, NoQueue    \* names for the queues of SleepQueue

VARIABLES
    run_list, run_bits, group_run_bits, rpc, rprio, byte, interrupted,
    head, link, awake, on_cpu, walking, tmp, irq, due, flag, overrun,
    spsr, global_value, irq_off, cur, ready, swi_pc, mode, saved, depth, armed,
    answer, r0, spsr_hit, value_hit,
    request,                 \* the arguments of the last write or sprintf
    promise                  \* the number of the promise that is looked at

rqVars == <<run_list, run_bits, group_run_bits, rpc, rprio, byte, interrupted>>
sqVars == <<head, link, awake, on_cpu, walking, tmp, irq, due, flag, overrun>>
scVars == <<spsr, global_value, irq_off, cur, ready, swi_pc, mode, saved, depth,
            armed, answer, r0, spsr_hit, value_hit>>

RQ == INSTANCE RunQueue WITH InUse <- {0, 1, 63}

SQ == INSTANCE SleepQueue WITH
          NumTasks <- 3, DevQueue <- {d0, d1}, MutexQueue <- {},
          runnable <- awake, cur <- on_cpu

SC == INSTANCE SystemCall WITH
          NumTasks <- 2, Results <- {0, 1}, MaxDepth <- 2,
          value <- global_value, runnable <- ready, pc <- swi_pc

F == INSTANCE Format WITH Long <- 256

PromisesInit ==
    Init /\ RQ!Init /\ SQ!Init /\ SC!Init /\ request = <<>> /\ promise = 1

\* run_queue.c:123-124: an interrupt that has added a task searches the queue,
\* wherever it was taken, and finds the runnable task of highest priority.
SearchIsRight ==
    (\E p \in {0, 1, 63} : RQ!runqueue_add(p)) => RQ!FindsHighest'

RunQueueRuns ==
    /\ RQ!Next
    /\ \/ promise = 1 /\ promise' = IF SearchIsRight THEN 1 ELSE 2
       \/ promise = 2 /\ promise' = IF RQ!BitsAlwaysAgree' THEN 2 ELSE 3
    /\ UNCHANGED <<vars, sqVars, scVars, request>>

SleepQueueRuns ==
    /\ promise = 3
    /\ SQ!Next
    /\ promise' = IF SQ!SleepersListed' THEN 3 ELSE 4
    /\ UNCHANGED <<vars, rqVars, scVars, request>>

SystemCallRuns ==
    /\ SC!Next
    /\ \/ promise = 4 /\ promise' = IF SC!ReturnsToUserMode' THEN 4 ELSE 5
       \/ promise = 5 /\ promise' = IF SC!OwnResult' THEN 5 ELSE 6
    /\ UNCHANGED <<vars, rqVars, sqVars, request>>

\* The last promise is about an interrupt inside the dispatcher; the others are
\* broken without one.
KernelPromise(k) ==
    CASE k = 6 -> DispatcherQuiet => CreatedOnce
      [] k = 7 -> DispatcherQuiet => HighestRuns
      [] k = 8 -> DispatcherQuiet => NoTaskLost
      [] k = 9 -> OwnContext

KernelRuns ==
    \E k \in 6..9 :
        /\ promise = k
        /\ Next
        /\ promise' = IF KernelPromise(k)' THEN k ELSE k + 1
        /\ UNCHANGED <<rqVars, sqVars, scVars, request>>

\* A program writes from any buffer.
WriteIsCalled ==
    /\ promise = 10
    /\ \E addr \in 0..(AddrWord - 1), count \in 0..AddrWord :
           /\ request' = <<addr, count>>
           /\ promise' = IF StacksUnread(addr, count) THEN 10 ELSE 11
    /\ UNCHANGED <<vars, rqVars, sqVars, scVars>>

\* doprnt.c:62-66: "%c character", "%s string", "%m.n field width": a directive
\* fills the width it asks for.
FieldWidth(conv, width, arg) ==
    Len(F!doprnt(<<F!PERCENT>> \o F!printnum(width, 10) \o <<conv>>, <<arg>>, 0)) >= width

\* A program formats a letter with %c (99) or, as a string, with %s (115).
SprintfIsCalled ==
    /\ promise = 11
    /\ \E width \in 1..3, call \in {<<99, 65>>, <<115, <<65>>>>} :
           /\ request' = <<width, call>>
           /\ promise' = IF FieldWidth(call[1], width, call[2]) THEN 11 ELSE 12
    /\ UNCHANGED <<vars, rqVars, sqVars, scVars>>

PromisesNext ==
    \/ RunQueueRuns \/ SleepQueueRuns \/ SystemCallRuns \/ KernelRuns
    \/ WriteIsCalled \/ SprintfIsCalled

PromisesSpec ==
    PromisesInit /\ [][PromisesNext]_<<vars, rqVars, sqVars, scVars, request, promise>>

\* A part that is done with, or has not begun, plays no role any more.
PartAtWork ==
    <<promise,
      IF promise <= 2 THEN rqVars
      ELSE IF promise = 3 THEN sqVars
      ELSE IF promise <= 5 THEN scVars
      ELSE IF promise <= 9 THEN vars
      ELSE <<>>>>

\* One of the promises is kept by the code as it is built.
SomePromiseKept == promise <= 11
=============================================================================
