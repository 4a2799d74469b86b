-------------------------- MODULE SystemCallProofs --------------------------
(***************************************************************************)
(* Proofs about module SystemCall, for every number of tasks, every set of *)
(* results and every bound on the nesting of interrupts, with interrupts   *)
(* taken wherever the code enables them: a system call loses its way back  *)
(* or its result only at the points where it keeps them in a place that    *)
(* the interrupt, or another task, writes to.                              *)
(***************************************************************************)
EXTENDS SystemCall, QueueTheorems, TLAPS

-----------------------------------------------------------------------------
(* The inductive invariants *)

\* The idle task is always there to be switched to, and makes no system call.
IdleInv == IDLE_PRIO \in runnable /\ pc[IDLE_PRIO] = "user"

\* Only an IRQ_Handler that is on the stack has executed its msr.
TailInv == \A t \in Thread : armed[t] \subseteq 1..depth[t]

Base == TypeOK /\ IdleInv /\ TailInv

\* The points at which spsr_svc belongs to the system call in progress: from
\* the swi to the push, and from the msr to the movs.
SpsrLive == {"entered", "restored", "loaded"}

\* The points at which the copy on the stack is the one that counts.
SpsrSaved == {"body", "asleep", "returned", "stored"}

\* Of the threads never interrupted where spsr_svc counts: only the one on the CPU
\* is where it counts, spsr_svc is then the mode it goes to, and where it does not
\* count, the copy on the stack is.
ModeInv ==
    \A t \in Thread \ spsr_hit :
        /\ mode[t] = IF pc[t] = "user" THEN "usr" ELSE "svc"
        /\ pc[t] \in SpsrSaved => saved[t] = "usr"
        /\ pc[t] \in SpsrLive => depth[t] = 0 /\ t = cur /\ spsr = "usr"
        /\ 1 \in armed[t] => depth[t] = 1 /\ t = cur /\ spsr = mode[t]

\* The points at which value holds the result on its way to r0.
ValueLive == {"stored", "restored"}

\* Of the threads not switched away from where value counts: only the one on the
\* CPU is where it counts, and value is then its result.
ResultInv ==
    /\ \A t \in Thread \ value_hit :
        pc[t] \in ValueLive => depth[t] = 0 /\ t = cur /\ value = answer[t]
    /\ ResultKept

-----------------------------------------------------------------------------
(* Types *)

\* Facts about the constants that every step needs.
LEMMA Sets ==
  /\ Thread \subseteq Nat
  /\ IDLE_PRIO \in Thread
  /\ 0 \in Results
  /\ MaxDepth \in Nat
  BY SystemCallAssumption DEF Thread, IDLE_PRIO

\* The scheduler's choice is runnable.
LEMMA ChosenIsRunnable ==
  ASSUME NEW ready \in SUBSET Thread, IDLE_PRIO \in ready
  PROVE  Min(ready) \in ready
<1>1. ready \in SUBSET Nat /\ ready # {}
  BY Sets
<1> QED  BY <1>1, MinIsLeast

\* The first task is on the CPU, nobody has made a system call.
LEMMA InitBase == Init => Base
<1> SUFFICES ASSUME Init PROVE Base
  OBVIOUS
<1> USE Sets DEF Init
<1>1. Min(Thread) \in Thread
  BY ChosenIsRunnable
<1>2. 0 \in 0..MaxDepth
  OBVIOUS
<1>3. depth \in [Thread -> 0..MaxDepth] /\ armed \in [Thread -> SUBSET (1..MaxDepth)]
  BY <1>2
<1>4. TypeOK
  BY <1>1, <1>3 DEF TypeOK, Mode
<1> QED  BY <1>4 DEF Base, IdleInv, TailInv

\* The body of a system call gives the CPU away only to a runnable thread.
LEMMA SleepsBase ==
  ASSUME Base, getSWI_sleeps
  PROVE  Base' /\ cur' \in runnable'
<1> USE Sets DEF Base, getSWI_sleeps, At
<1>1. runnable' \in SUBSET Thread /\ IDLE_PRIO \in runnable'
  BY DEF TypeOK, IdleInv
<1>2. cur' \in runnable'
  BY <1>1, ChosenIsRunnable DEF SwitchTo
<1>3. TypeOK'
  <2>1. irq_off' \in BOOLEAN
    BY DEF SwitchTo, TypeOK
  <2>2. pc' \in [Thread -> {"user", "body", "asleep"} \union Stub]
    BY DEF TypeOK, Goto
  <2> QED  BY <1>1, <1>2, <2>1, <2>2 DEF TypeOK, frames, hits
<1>4. IdleInv' /\ TailInv'
  BY <1>1 DEF TypeOK, IdleInv, TailInv, Goto, frames
<1> QED  BY <1>2, <1>3, <1>4

\* So does the timer interrupt.
LEMMA DispatchBase ==
  ASSUME Base, IRQ_Handler_dispatch
  PROVE  Base' /\ cur' \in runnable'
<1> USE Sets DEF Base
<1>1. runnable' \in SUBSET Thread /\ IDLE_PRIO \in runnable'
  BY DEF TypeOK, IdleInv, IRQ_Handler_dispatch
<1>2. cur' \in runnable'
  <2>1. cur' = Min(runnable')
    BY DEF IRQ_Handler_dispatch, SwitchTo
  <2> QED  BY <1>1, <2>1, ChosenIsRunnable
<1>3. spsr' \in Mode /\ spsr_hit' \in SUBSET Thread
  BY <1>1 DEF IRQ_Handler_dispatch, TakeInterrupt, TypeOK, Mode
<1>4. irq_off' \in BOOLEAN /\ value_hit' \in SUBSET Thread
  BY DEF IRQ_Handler_dispatch, SwitchTo, TypeOK
<1>5. /\ depth' \in [Thread -> 0..MaxDepth] /\ armed' = armed
      /\ \A t \in Thread : depth'[t] \in Nat /\ depth'[t] >= depth[t]
  <2>1. \/ depth' = depth
        \/ depth[cur] < MaxDepth /\ depth' = [depth EXCEPT ![cur] = depth[cur] + 1]
    BY DEF IRQ_Handler_dispatch, frames
  <2>2. armed' = armed /\ depth \in [Thread -> 0..MaxDepth] /\ cur \in Thread
    BY DEF IRQ_Handler_dispatch, TypeOK, frames
  <2>3. MaxDepth \in Nat
    OBVIOUS
  <2> QED  BY <2>1, <2>2, <2>3
<1>6. TypeOK' /\ IdleInv'
  BY <1>1, <1>2, <1>3, <1>4, <1>5 DEF IRQ_Handler_dispatch, TypeOK, IdleInv
<1>7. TailInv'
  BY <1>5 DEF TailInv, TypeOK
<1> QED  BY <1>2, <1>6, <1>7

\* The tail of IRQ_Handler moves the top frame only.
LEMMA TailBase ==
  ASSUME Base, irq_exit_spsr \/ irq_exit_return
  PROVE  Base'
<1> USE Sets DEF Base, InTail, Armed
<1>1. cur \in Thread /\ depth[cur] \in 1..MaxDepth /\ MaxDepth \in Nat
  BY DEF TypeOK, irq_exit_spsr, irq_exit_return
<1>2. CASE irq_exit_spsr
  <2>1. armed' \in [Thread -> SUBSET (1..MaxDepth)] /\ depth' = depth /\ spsr' \in Mode
    BY <1>1, <1>2 DEF irq_exit_spsr, TypeOK, Mode
  <2>2. TailInv'
    BY <1>1, <1>2, <2>1 DEF irq_exit_spsr, TypeOK, TailInv
  <2> QED  BY <1>2, <2>1, <2>2 DEF irq_exit_spsr, TypeOK, IdleInv, hits
<1>3. CASE irq_exit_return
  <2>1. /\ armed' \in [Thread -> SUBSET (1..MaxDepth)]
        /\ depth' \in [Thread -> 0..MaxDepth]
        /\ mode' \in [Thread -> Mode]
    BY <1>1, <1>3 DEF irq_exit_return, TypeOK
  <2>2. TailInv'
    <3> SUFFICES ASSUME NEW t \in Thread PROVE armed'[t] \subseteq 1..depth'[t]
      BY DEF TailInv
    <3>1. armed[t] \subseteq 1..depth[t] /\ depth[t] \in Nat
      BY DEF TailInv, TypeOK
    <3>2. CASE t = cur
      <4>1. armed'[t] = armed[t] \ {depth[t]} /\ depth'[t] = depth[t] - 1
        BY <1>3, <3>2 DEF irq_exit_return, TypeOK
      <4> QED  BY <3>1, <4>1
    <3>3. CASE t # cur
      BY <1>3, <3>1, <3>3 DEF irq_exit_return, TypeOK
    <3> QED  BY <3>2, <3>3
  <2> QED  BY <1>3, <2>1, <2>2 DEF irq_exit_return, TypeOK, IdleInv, hits
<1> QED  BY <1>2, <1>3

\* Every step keeps the types and the idle task.
LEMMA NextBase == Base /\ [Next]_vars => Base'
<1> SUFFICES ASSUME Base, [Next]_vars PROVE Base'
  OBVIOUS
<1> USE Sets DEF Base, At, Goto, TypeOK, IdleInv, TailInv, Stub, frames, hits
<1>1. CASE swi
  BY <1>1 DEF swi, Mode
<1>2. CASE save_spsr
  BY <1>2 DEF save_spsr
<1>3. ASSUME NEW r \in Results, getSWI_returns(r) PROVE Base'
  BY <1>3 DEF getSWI_returns
<1>4. CASE getSWI_sleeps
  BY <1>4, SleepsBase
<1>5. CASE getSWI_wakes
  BY <1>5 DEF getSWI_wakes
<1>6. CASE store_value
  BY <1>6 DEF store_value
<1>7. CASE restore_spsr
  BY <1>7 DEF restore_spsr
<1>8. CASE load_value
  BY <1>8 DEF load_value
<1>9. CASE leave
  BY <1>9 DEF leave
<1>10. CASE IRQ_Handler_quiet
  BY <1>10 DEF IRQ_Handler_quiet, TakeInterrupt, Mode
<1>11. CASE IRQ_Handler_dispatch
  BY <1>11, DispatchBase
<1>12. CASE irq_exit_spsr \/ irq_exit_return
  BY <1>12, TailBase
<1>13. CASE UNCHANGED vars
  BY <1>13 DEF vars
<1> QED  BY <1>1, <1>2, <1>3, <1>4, <1>5, <1>6, <1>7, <1>8, <1>9, <1>10, <1>11, <1>12, <1>13
         DEF Next, S_Handler, IRQ_Handler

\* The variables of the stub keep their types, wherever it is interrupted; in
\* particular the thread on the CPU is always in the run queue.
THEOREM Types == Spec => [](TypeOK /\ IdleInv)
<1>1. Base /\ [Next]_vars => Base'
  BY NextBase
<1> QED  BY InitBase, <1>1, PTL DEF Spec, Base

-----------------------------------------------------------------------------
(* The mode a system call returns to *)

\* Before the first system call every task is in user mode.
LEMMA InitModeInv == Init => ModeInv
  BY DEF Init, ModeInv, SpsrSaved, SpsrLive

\* Every step keeps the mode: an interrupt where spsr_svc counts makes a hit.
LEMMA NextModeInv ==
  ASSUME Base, ModeInv, [Next]_vars
  PROVE  ModeInv'
<1> USE Sets DEF Base, At, Goto, TypeOK, IdleInv, TailInv, Stub, SpsrSaved, SpsrLive, frames, hits
<1>1. CASE swi
  BY <1>1 DEF swi, ModeInv
<1>2. CASE save_spsr
  BY <1>2 DEF save_spsr, ModeInv
<1>3. ASSUME NEW r \in Results, getSWI_returns(r) PROVE ModeInv'
  BY <1>3 DEF getSWI_returns, ModeInv
<1>4. CASE getSWI_sleeps
  BY <1>4 DEF getSWI_sleeps, ModeInv
<1>5. CASE getSWI_wakes
  BY <1>5 DEF getSWI_wakes, ModeInv
<1>6. CASE store_value
  BY <1>6 DEF store_value, ModeInv
<1>7. CASE restore_spsr
  BY <1>7 DEF restore_spsr, ModeInv
<1>8. CASE load_value
  BY <1>8 DEF load_value, ModeInv
<1>9. CASE leave
  BY <1>9 DEF leave, ModeInv
<1>10. CASE IRQ_Handler_quiet
  BY <1>10 DEF IRQ_Handler_quiet, TakeInterrupt, SpsrCounts, InTail, Armed, ModeInv
<1>11. CASE IRQ_Handler_dispatch
  <2> SUFFICES ASSUME NEW t \in Thread \ spsr_hit'
               PROVE  /\ mode'[t] = IF pc'[t] = "user" THEN "usr" ELSE "svc"
                      /\ pc'[t] \in SpsrSaved => saved'[t] = "usr"
                      /\ pc'[t] \in SpsrLive => depth'[t] = 0 /\ t = cur' /\ spsr' = "usr"
                      /\ 1 \in armed'[t] => depth'[t] = 1 /\ t = cur' /\ spsr' = mode'[t]
    BY DEF ModeInv
  <2>1. /\ t \notin spsr_hit /\ (t = cur => ~SpsrCounts)
        /\ pc' = pc /\ mode' = mode /\ saved' = saved /\ armed' = armed
    BY <1>11 DEF IRQ_Handler_dispatch, TakeInterrupt
  <2>2. pc[t] \notin SpsrLive /\ 1 \notin armed[t]
    BY <2>1 DEF SpsrCounts, InTail, Armed, ModeInv
  <2> QED  BY <2>1, <2>2 DEF ModeInv
<1>12. CASE irq_exit_spsr \/ irq_exit_return
  BY <1>12 DEF irq_exit_spsr, irq_exit_return, InTail, Armed, ModeInv
<1>13. CASE UNCHANGED vars
  BY <1>13 DEF vars, ModeInv
<1> QED  BY <1>1, <1>2, <1>3, <1>4, <1>5, <1>6, <1>7, <1>8, <1>9, <1>10, <1>11, <1>12, <1>13
         DEF Next, S_Handler, IRQ_Handler

\* IRQ_Handler.S:30-31: a task goes on in user mode after a system call, however
\* often the call was interrupted in its body, after it or after the store of the
\* result, whether or not it slept and however deep interrupts nested, unless one
\* was taken at one of the points where spsr_svc is the only copy of that mode.
THEOREM UserModeAfterCall == Spec => []UserModeKept
<1>1. Base /\ ModeInv /\ [Next]_vars => Base' /\ ModeInv'
  BY NextBase, NextModeInv
<1>2. ModeInv => UserModeKept
  BY DEF ModeInv, UserModeKept
<1> QED  BY InitBase, InitModeInv, <1>1, <1>2, PTL DEF Spec

-----------------------------------------------------------------------------
(* The result of a system call *)

\* Before the first system call nothing has been returned to anybody.
LEMMA InitResultInv == Init => ResultInv
  BY DEF Init, ResultInv, ValueLive, ResultKept

\* Every step keeps the results: a switch away where value counts makes a hit.
LEMMA NextResultInv ==
  ASSUME Base, ResultInv, [Next]_vars
  PROVE  ResultInv'
<1> USE Sets DEF Base, At, Goto, TypeOK, IdleInv, Stub, ValueLive, ResultKept, frames, hits
<1>1. CASE swi
  BY <1>1 DEF swi, ResultInv
<1>2. CASE save_spsr
  BY <1>2 DEF save_spsr, ResultInv
<1>3. ASSUME NEW r \in Results, getSWI_returns(r) PROVE ResultInv'
  BY <1>3 DEF getSWI_returns, ResultInv
<1>4. CASE getSWI_sleeps
  BY <1>4 DEF getSWI_sleeps, ResultInv
<1>5. CASE getSWI_wakes
  BY <1>5 DEF getSWI_wakes, ResultInv
<1>6. CASE store_value
  BY <1>6 DEF store_value, ResultInv
<1>7. CASE restore_spsr
  BY <1>7 DEF restore_spsr, ResultInv
<1>8. CASE load_value
  BY <1>8 DEF load_value, ResultInv
<1>9. CASE leave
  BY <1>9 DEF leave, ResultInv
<1>10. CASE IRQ_Handler_quiet
  BY <1>10 DEF IRQ_Handler_quiet, ResultInv
<1>11. CASE IRQ_Handler_dispatch
  <2>1. /\ pc' = pc /\ value' = value /\ answer' = answer /\ r0' = r0
        /\ value_hit \subseteq value_hit'
    BY <1>11 DEF IRQ_Handler_dispatch
  <2>2. ASSUME NEW t \in Thread \ value_hit', pc[t] \in ValueLive
        PROVE  depth'[t] = 0 /\ t = cur' /\ value = answer[t]
    <3>1. depth[t] = 0 /\ t = cur /\ value = answer[t]
      BY <2>1, <2>2 DEF ResultInv
    <3>2. ValueCounts
      BY <2>2, <3>1 DEF ValueCounts, InTail
    <3> QED  BY <1>11, <2>2, <3>1, <3>2 DEF IRQ_Handler_dispatch
  <2> QED  BY <2>1, <2>2 DEF ResultInv
<1>12. CASE irq_exit_spsr \/ irq_exit_return
  BY <1>12 DEF irq_exit_spsr, irq_exit_return, InTail, ResultInv
<1>13. CASE UNCHANGED vars
  BY <1>13 DEF vars, ResultInv
<1> QED  BY <1>1, <1>2, <1>3, <1>4, <1>5, <1>6, <1>7, <1>8, <1>9, <1>10, <1>11, <1>12, <1>13
         DEF Next, S_Handler, IRQ_Handler

\* S_Handler.S:32-38: a task sees the result of its own system call, whatever other
\* tasks stored in value since and wherever it was interrupted, unless the timer
\* switched away from it between the store of value and its load.
THEOREM ResultOfOwnCall == Spec => []ResultKept
<1>1. Base /\ ResultInv /\ [Next]_vars => Base' /\ ResultInv'
  BY NextBase, NextResultInv
<1>2. ResultInv => ResultKept
  BY DEF ResultInv
<1> QED  BY InitBase, InitResultInv, <1>1, <1>2, PTL DEF Spec
=============================================================================
