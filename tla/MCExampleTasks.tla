--------------------------- MODULE MCExampleTasks ---------------------------
(***************************************************************************)
(* The programs on a kernel with the four devices that have a period.  One *)
(* model tick stands for 50 timer ticks, so the periods of dev.h:18-21     *)
(* become 2, 4, 10 and 1.                                                  *)
(***************************************************************************)
EXTENDS ExampleTasks

Periods == 0 :> 2 @@ 1 :> 4 @@ 2 :> 10 @@ 3 :> 1
=============================================================================
