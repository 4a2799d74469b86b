------------------------------ MODULE ReadySet ------------------------------
(***************************************************************************)
(* The run queue as the rest of the kernel uses it: a set of priorities.   *)
(***************************************************************************)
CONSTANT Member     \* the priorities in use

VARIABLE ready      \* those whose task is runnable

TypeOK == ready \in SUBSET Member

Init == ready = {}

Add(p) == p \notin ready /\ ready' = ready \union {p}

Remove(p) == p \in ready /\ ready' = ready \ {p}

Next == \E p \in Member : Add(p) \/ Remove(p)

Spec == Init /\ [][Next]_ready
=============================================================================
