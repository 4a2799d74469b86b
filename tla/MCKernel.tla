------------------------------ MODULE MCKernel ------------------------------
(***************************************************************************)
(* Small instances of Kernel.  One model tick stands for 50 timer ticks:   *)
(* the periods 100 and 50 of devices 0 and 3 (device.c:45) become 2 and 1. *)
(***************************************************************************)
EXTENDS KernelInvariant, TLC

\* Devices 0 and 3 of the table.
PeriodicDevices == 0 :> 2 @@ 1 :> 1

\* Device 0 alone.
OneDevice == 0 :> 2

\* How far the search goes on behind an interrupt inside the dispatcher: behind
\* one at "picked" as long as no second mutex has been created, which bounds the
\* instance; behind one at "switching", where ctx no longer says what the TCBs
\* hold, not at all.
SearchBound ==
    \/ DispatcherQuiet
    \/ disturbed = {"picked"} /\ \A m \in Mutex : m > 0 => bAvailable[m]

\* No step reads value: states that differ only in it are one state.
WithoutResult == <<schedVars, frameVars, deviceVars, mutexVars, held>>
=============================================================================
