----------------------------- MODULE MCRunQueue -----------------------------
(***************************************************************************)
(* Instances of RunQueue: priorities at both ends of a byte and of the     *)
(* queue, and neighbours in one byte.                                      *)
(***************************************************************************)
EXTENDS RunQueue

\* Two full-range neighbours in group 0, both ends of group 1, and idle.
MixedPriorities == {0, 1, 7, 8, 9, 15, 63}
=============================================================================
