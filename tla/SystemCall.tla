----------------------------- MODULE SystemCall -----------------------------
(***************************************************************************)
(* The way into a system call and back, instruction by instruction where   *)
(* it matters: S_Handler.S, IRQ_Handler.S and the two registers or         *)
(* variables they share between tasks, spsr_svc, which holds the mode a    *)
(* system call returns to, and the global value, which carries its result. *)
(*                                                                         *)
(* The processor sets spsr_svc on a swi.  IRQ_Handler moves the interrupted*)
(* mode into spsr_svc, and on its way out puts it there again from the     *)
(* stack of the interrupted task.  S_Handler enables interrupts early and  *)
(* saves spsr_svc on the stack afterwards.                                 *)
(*                                                                         *)
(* A context switch changes neither the cpsr nor spsr_svc: a task that is  *)
(* switched to goes on with interrupts masked if it was the timer that     *)
(* woke it, and enabled if another task went to sleep.  In the second case *)
(* even the last instructions of IRQ_Handler can be interrupted.           *)
(*                                                                         *)
(* Tasks are priorities, the largest one is the idle task.  The body of a  *)
(* system call either returns a result or, as event_wait does, sleeps.     *)
(* spsr_hit and value_hit are history variables, which no step reads.      *)
(***************************************************************************)
EXTENDS Integers, FiniteSetsExt

CONSTANTS NumTasks,   \* number of tasks besides the idle task
          Results,    \* what system calls return
          MaxDepth    \* bound on the interrupts a thread is inside of

\* The points of S_Handler outside the body; interrupts are enabled at all of them.
Stub == {"entered", "returned", "stored", "restored", "loaded"}

ASSUME SystemCallAssumption ==
    /\ NumTasks \in Nat
    /\ 0 \in Results
    /\ MaxDepth \in Nat

IDLE_PRIO == NumTasks
Thread == 0..NumTasks
Mode == {"usr", "svc"}

VARIABLES
    spsr,       \* spsr_svc
    value,      \* global.c
    irq_off,    \* the I bit of the cpsr
    cur,        \* the thread on the CPU
    runnable,   \* the run queue
    pc,         \* pc[t], see below
    mode,       \* mode[t]: the mode t executes in, outside IRQ_Handler
    saved,      \* saved[t]: the spsr on t's stack, pushed by S_Handler
    depth,      \* depth[t]: how many times IRQ_Handler is on t's stack
    armed,      \* armed[t]: which of these have executed msr spsr (65)
    answer,     \* answer[t]: what the body of t's system call returned
    r0,         \* r0[t]: what t gets to see
    spsr_hit,   \* who was interrupted where spsr_svc counted (not in the code)
    value_hit   \* who was switched away from where value counted (not in the code)

frames == <<depth, armed>>
hits == <<spsr_hit, value_hit>>
vars == <<spsr, value, irq_off, cur, runnable, pc, mode, saved, frames, answer, r0, hits>>

(***************************************************************************)
(* pc[t]                                                                   *)
(*   user      in user code                                                *)
(*   entered   interrupts enabled, spsr not yet read (S_Handler.S:20)      *)
(*   body      in getSWI                                                   *)
(*   asleep    in dispatch_sleep, inside the body                          *)
(*   returned  getSWI has returned (31)                                    *)
(*   stored    value is written (33)                                       *)
(*   restored  spsr is written back (35)                                   *)
(*   loaded    value is read (38)                                          *)
(***************************************************************************)
TypeOK ==
    /\ spsr \in Mode
    /\ value \in Results
    /\ irq_off \in BOOLEAN
    /\ cur \in runnable
    /\ runnable \in SUBSET Thread
    /\ pc \in [Thread -> {"user", "body", "asleep"} \union Stub]
    /\ mode \in [Thread -> Mode]
    /\ saved \in [Thread -> Mode]
    /\ depth \in [Thread -> 0..MaxDepth]
    /\ armed \in [Thread -> SUBSET (1..MaxDepth)]
    /\ answer \in [Thread -> Results]
    /\ r0 \in [Thread -> Results]
    /\ spsr_hit \in SUBSET Thread
    /\ value_hit \in SUBSET Thread

Goto(p) == pc' = [pc EXCEPT ![cur] = p]

\* The current thread executes a task's code at point p.
At(p) == cur # IDLE_PRIO /\ depth[cur] = 0 /\ pc[cur] = p

-----------------------------------------------------------------------------
(* S_Handler *)

\* swi, the push of the registers, and msr cpsr, which enables interrupts.
swi ==
    /\ At("user")
    /\ spsr' = mode[cur]
    /\ mode' = [mode EXCEPT ![cur] = "svc"]
    /\ irq_off' = FALSE
    /\ Goto("entered")
    /\ value_hit' = value_hit \ {cur}
    /\ UNCHANGED <<value, cur, runnable, saved, frames, answer, r0, spsr_hit>>

\* Faulty variant: spsr is not pushed.
save_spsr_skipped ==
    /\ At("entered")
    /\ Goto("body")
    /\ UNCHANGED <<spsr, value, irq_off, cur, runnable, mode, saved, frames, answer, r0, hits>>

\* mrs r2, spsr; str r2, [sp, #14*4]
save_spsr ==
    /\ At("entered")
    /\ saved' = [saved EXCEPT ![cur] = spsr]
    /\ Goto("body")
    /\ UNCHANGED <<spsr, value, irq_off, cur, runnable, mode, frames, answer, r0, hits>>

getSWI_returns(r) ==
    /\ At("body")
    /\ answer' = [answer EXCEPT ![cur] = r]
    /\ Goto("returned")
    /\ UNCHANGED <<spsr, value, irq_off, cur, runnable, mode, saved, frames, r0, hits>>

\* ctx_switch_full to u: the cpsr and spsr_svc stay as they are.  Only a task that
\* was never on the CPU comes out of it through launch_task, which enables interrupts.
SwitchTo(u, masked) ==
    /\ cur' = u
    /\ irq_off' = (masked /\ ~(pc[u] = "user" /\ depth[u] = 0))

\* event_wait: out of the run queue and away.
getSWI_sleeps ==
    /\ At("body")
    /\ Goto("asleep")
    /\ runnable' = runnable \ {cur}
    /\ SwitchTo(Min(runnable'), irq_off)
    /\ UNCHANGED <<spsr, value, mode, saved, frames, answer, r0, hits>>

\* Back from dispatch_sleep: event_wait returns 0.
getSWI_wakes ==
    /\ At("asleep")
    /\ answer' = [answer EXCEPT ![cur] = 0]
    /\ Goto("returned")
    /\ UNCHANGED <<spsr, value, irq_off, cur, runnable, mode, saved, frames, r0, hits>>

\* Faulty variant: the result is not stored.
store_value_skipped ==
    /\ At("returned")
    /\ Goto("stored")
    /\ UNCHANGED <<spsr, value, irq_off, cur, runnable, mode, saved, frames, answer, r0, hits>>

\* ldr r5, =value; str r0, [r5]
store_value ==
    /\ At("returned")
    /\ value' = answer[cur]
    /\ Goto("stored")
    /\ UNCHANGED <<spsr, irq_off, cur, runnable, mode, saved, frames, answer, r0, hits>>

\* ldr r2, [sp, #14*4]; msr spsr, r2
restore_spsr ==
    /\ At("stored")
    /\ spsr' = saved[cur]
    /\ Goto("restored")
    /\ UNCHANGED <<value, irq_off, cur, runnable, mode, saved, frames, answer, r0, hits>>

\* ldmfd of the registers; ldr r0, =value; ldr r0, [r0]
load_value ==
    /\ At("restored")
    /\ r0' = [r0 EXCEPT ![cur] = value]
    /\ Goto("loaded")
    /\ UNCHANGED <<spsr, value, irq_off, cur, runnable, mode, saved, frames, answer, hits>>

\* movs pc, lr: the mode, and interrupts enabled, come from spsr.
leave ==
    /\ At("loaded")
    /\ mode' = [mode EXCEPT ![cur] = spsr]
    /\ irq_off' = FALSE
    /\ Goto("user")
    /\ UNCHANGED <<spsr, value, cur, runnable, saved, frames, answer, r0, hits>>

-----------------------------------------------------------------------------
(* IRQ_Handler *)

\* The tail of IRQ_Handler is about to execute.
InTail == depth[cur] > 0
Armed == depth[cur] \in armed[cur]

\* The points at which spsr_svc belongs to the current thread: from the swi to the
\* push, from the msr to the movs, and from the msr to the ldmfd of IRQ_Handler.
SpsrCounts ==
    \/ ~InTail /\ pc[cur] \in {"entered", "restored", "loaded"}
    \/ depth[cur] = 1 /\ Armed

\* The points at which value holds the result on its way to r0.
ValueCounts == ~InTail /\ pc[cur] \in {"stored", "restored"}

\* What IRQ_Handler finds in its spsr and moves to spsr_svc.
TakeInterrupt ==
    /\ ~irq_off
    /\ spsr' = IF InTail THEN "svc" ELSE mode[cur]
    /\ spsr_hit' = IF SpsrCounts THEN spsr_hit \union {cur} ELSE spsr_hit

\* Nobody is woken: in and out again with interrupts masked.
IRQ_Handler_quiet ==
    /\ TakeInterrupt
    /\ UNCHANGED <<value, irq_off, cur, runnable, pc, mode, saved, frames, answer,
                   r0, value_hit>>

\* Some sleepers are woken and the highest runnable thread u is switched to.
IRQ_Handler_dispatch ==
    /\ TakeInterrupt
    /\ \E woken \in (SUBSET (Thread \ runnable)) \ {{}} :
        runnable' = runnable \union woken
    /\ LET u == Min(runnable') IN
        \/ /\ u = cur
           /\ UNCHANGED <<cur, irq_off, frames, value_hit>>
        \/ /\ u # cur
           /\ depth[cur] < MaxDepth
           /\ SwitchTo(u, TRUE)
           /\ depth' = [depth EXCEPT ![cur] = depth[cur] + 1]
           /\ value_hit' = IF ValueCounts THEN value_hit \union {cur} ELSE value_hit
           /\ UNCHANGED armed
    /\ UNCHANGED <<value, pc, mode, saved, answer, r0>>

\* msr spsr, r0: the interrupted mode, from the stack.
irq_exit_spsr ==
    /\ InTail
    /\ ~Armed
    /\ spsr' = IF depth[cur] = 1 THEN mode[cur] ELSE "svc"
    /\ armed' = [armed EXCEPT ![cur] = armed[cur] \union {depth[cur]}]
    /\ UNCHANGED <<value, irq_off, cur, runnable, pc, mode, saved, depth, answer,
                   r0, hits>>

\* ldmfd sp!, {..., pc}^: the mode, and interrupts enabled, come from spsr; a nested
\* IRQ_Handler returns into the tail of another one.
irq_exit_return ==
    /\ InTail
    /\ Armed
    /\ mode' = [mode EXCEPT ![cur] = IF depth[cur] = 1 THEN spsr ELSE mode[cur]]
    /\ irq_off' = FALSE
    /\ depth' = [depth EXCEPT ![cur] = depth[cur] - 1]
    /\ armed' = [armed EXCEPT ![cur] = armed[cur] \ {depth[cur]}]
    /\ UNCHANGED <<spsr, value, cur, runnable, pc, saved, answer, r0, hits>>

Init ==
    /\ spsr = "svc"
    /\ value = 0
    /\ irq_off = FALSE
    /\ cur = Min(Thread)
    /\ runnable = Thread
    /\ pc = [t \in Thread |-> "user"]
    /\ mode = [t \in Thread |-> "usr"]
    /\ saved = [t \in Thread |-> "svc"]
    /\ depth = [t \in Thread |-> 0]
    /\ armed = [t \in Thread |-> {}]
    /\ answer = [t \in Thread |-> 0]
    /\ r0 = [t \in Thread |-> 0]
    /\ spsr_hit = {}
    /\ value_hit = {}

S_Handler ==
    \/ swi \/ save_spsr
    \/ (\E r \in Results : getSWI_returns(r)) \/ getSWI_sleeps \/ getSWI_wakes
    \/ store_value \/ restore_spsr \/ load_value \/ leave

IRQ_Handler ==
    \/ IRQ_Handler_quiet \/ IRQ_Handler_dispatch
    \/ irq_exit_spsr \/ irq_exit_return

Next == S_Handler \/ IRQ_Handler

Spec == Init /\ [][Next]_vars

-----------------------------------------------------------------------------
(* Properties *)

\* What the comments promise: IRQ_Handler.S:30-31, "svc-mode (SWI) entry code saves
\* it with IRQ disabled", so a task goes on in user mode after a system call.
ReturnsToUserMode == \A t \in Thread : pc[t] = "user" => mode[t] = "usr"

\* What S_Handler.S:32-38 is for: the result a task sees is the one its own system
\* call returned.
OwnResult == \A t \in Thread : pc[t] \in {"loaded", "user"} => r0[t] = answer[t]

\* However often a system call was interrupted, nested or slept, the task goes on in
\* user mode after it, unless it was interrupted at one of the points where spsr_svc
\* is its only copy: S_Handler.S:20-22 and 35-40, and IRQ_Handler.S:65-66.
UserModeKept ==
    \A t \in Thread \ spsr_hit : pc[t] = "user" => mode[t] = "usr"

\* The result a task sees is the one its own system call returned, whatever other
\* tasks stored in value since, unless the timer switched away from it between the
\* store and the load (S_Handler.S:33-38).
ResultKept ==
    \A t \in Thread \ value_hit : pc[t] \in {"loaded", "user"} => r0[t] = answer[t]
=============================================================================
