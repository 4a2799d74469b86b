--------------------------- MODULE RunQueueProofs ---------------------------
(***************************************************************************)
(* Proofs about module RunQueue, for every set of priorities in use.       *)
(* SlotInv holds wherever the interrupt is taken, RunQueueInv until a      *)
(* removal is interrupted.                                                 *)
(***************************************************************************)
EXTENDS RunQueue, TLAPS

-----------------------------------------------------------------------------
(* Priorities and bits *)

\* A priority is 8 times its group plus its bit.
LEMMA SplitPrio ==
  ASSUME NEW p \in Prio
  PROVE  /\ OSTCBY(p) \in Group /\ OSTCBX(p) \in Bit
         /\ p = OSTCBY(p) * 8 + OSTCBX(p)
  BY DEF Prio, OS_MAX_TASKS, Group, Bit, OSTCBY, OSTCBX

\* Every group and bit belong to a priority.
LEMMA JoinPrio ==
  ASSUME NEW g \in Group, NEW b \in Bit
  PROVE  /\ g * 8 + b \in Prio
         /\ OSTCBY(g * 8 + b) = g /\ OSTCBX(g * 8 + b) = b
  BY DEF Prio, OS_MAX_TASKS, Group, Bit, OSTCBY, OSTCBX

\* Different priorities differ in their group or in their bit.
LEMMA SplitInjective ==
  ASSUME NEW p \in Prio, NEW q \in Prio, OSTCBY(p) = OSTCBY(q), OSTCBX(p) = OSTCBX(q)
  PROVE  p = q
  BY SplitPrio

-----------------------------------------------------------------------------
(* The inductive invariant *)

\* Whoever removes a task has emptied its slot.  As long as the removal is not
\* interrupted, the loaded copy of the byte is the byte, and the bits of its group
\* are right.
SlotInv ==
    /\ TypeOK
    /\ rpc = "out" <=> rprio = NULL
    /\ rpc # "out" => run_list[rprio] = NULL
    /\ rpc # "out" /\ OSTCBY(rprio) \notin interrupted =>
        /\ rpc \in {"emptied", "loaded"} => rprio \in Ready
        /\ rpc = "loaded" => byte = run_bits[OSTCBY(rprio)]
        /\ rpc \in {"stored", "group_loaded"} => rprio \notin Ready
    /\ BitsAgreeWithList

\* While the byte is being cleared, the loaded copy is the byte.
RemoveInv ==
    /\ rpc = "out" <=> rprio = NULL
    /\ rpc # "out" => run_list[rprio] = NULL
    /\ rpc \in {"emptied", "loaded"} => rprio \in Ready
    /\ rpc = "loaded" => byte = run_bits[OSTCBY(rprio)]
    /\ rpc \in {"stored", "group_loaded"} => rprio \notin Ready
    /\ rpc = "group_loaded" => run_bits[OSTCBY(rprio)] = {} /\ byte = group_run_bits

\* The flags of the groups follow the bytes; only the flag of the group that
\* loses a task lags behind.
GroupInv ==
    \A g \in Group :
        g \in group_run_bits <=>
            \/ run_bits[g] # {}
            \/ rpc \in {"stored", "group_loaded"} /\ g = OSTCBY(rprio)

RunQueueInv ==
    /\ TypeOK
    /\ RemoveInv
    /\ BitsAgreeWithList
    /\ GroupInv
    /\ Ready \subseteq InUse

Undisturbed == interrupted = {}

\* What it means for a priority to be in the bitmap.
LEMMA ReadyMeaning ==
  ASSUME NEW p \in Prio
  PROVE  p \in Ready <=> OSTCBX(p) \in run_bits[OSTCBY(p)]
  BY DEF Ready

\* runqueue_init establishes the invariant.
LEMMA InitRunQueueInv == Init => RunQueueInv
<1> SUFFICES ASSUME Init PROVE RunQueueInv
  OBVIOUS
<1> USE DEF Init
<1>1. Ready = {}
  BY SplitPrio DEF Ready
<1> QED
  BY <1>1 DEF RunQueueInv, TypeOK, RemoveInv, BitsAgreeWithList, GroupInv

\* runqueue_add sets the bit of one priority.
LEMMA AddStep ==
  ASSUME Undisturbed', RunQueueInv, NEW p \in InUse, runqueue_add(p)
  PROVE  RunQueueInv' /\ p \notin Ready /\ Ready' = Ready \union {p}
<1> USE DEF runqueue_add, RunQueueInv
<1>0. interrupted = {} /\ interrupted' = {} /\ rpc = "out"
  BY DEF Undisturbed, InRemoval
<1>1. p \in Prio /\ rpc = "out" /\ rprio = NULL /\ OSTCBY(p) \in Group /\ OSTCBX(p) \in Bit
  BY <1>0, RunQueueAssumption, SplitPrio DEF RemoveInv
<1>2. p \notin Ready
  BY <1>0, <1>1 DEF BitsAgreeWithList, Prio, NULL
<1>3. ASSUME NEW q \in Prio PROVE q \in Ready' <=> q \in Ready \union {p}
  BY <1>1, SplitPrio, SplitInjective DEF Ready, TypeOK
<1>4. Ready' = Ready \union {p}
  BY <1>1, <1>3 DEF Ready
<1>5. TypeOK'
  BY <1>0, <1>1 DEF TypeOK
<1>6. RemoveInv'
  BY <1>1 DEF RemoveInv
<1>7. BitsAgreeWithList'
  BY <1>1, <1>4 DEF BitsAgreeWithList, TypeOK, Prio, NULL
<1>8. GroupInv'
  BY <1>1 DEF GroupInv, TypeOK
<1> QED  BY <1>2, <1>4, <1>5, <1>6, <1>7, <1>8

\* The store of runqueue_remove clears the bit of one priority; its other
\* steps leave the bitmap alone.
LEMMA RemoveStep ==
  ASSUME Undisturbed', RunQueueInv, runqueue_remove
  PROVE  RunQueueInv' /\ (Ready' = Ready \/ (rprio \in Ready /\ Ready' = Ready \ {rprio}))
<1> USE DEF RunQueueInv
<1>0. interrupted = {} /\ interrupted' = {}
  BY DEF Undisturbed, runqueue_remove, remove_slot, remove_load, remove_store, remove_keep_group,
         remove_load_group, remove_store_group
<1>1. \A p \in InUse : p \in Prio /\ p # NULL /\ OSTCBY(p) \in Group /\ OSTCBX(p) \in Bit
  BY RunQueueAssumption, SplitPrio DEF Prio, NULL
<1>2. rpc # "out" => rprio \in InUse
  BY DEF TypeOK, RemoveInv
<1>3. CASE \E p \in InUse : remove_slot(p)
  <2>1. PICK p \in InUse : remove_slot(p)
    BY <1>3
  <2>2. Ready' = Ready /\ rprio = NULL /\ p \in Ready
    BY <1>0, <1>1, <2>1 DEF remove_slot, Ready, RemoveInv, BitsAgreeWithList
  <2> QED
    BY <1>1, <2>1, <2>2
       DEF remove_slot, TypeOK, RemoveInv, BitsAgreeWithList, GroupInv, Prio, NULL
<1>4. CASE remove_load
  <2>1. Ready' = Ready
    BY <1>4 DEF remove_load, Ready
  <2> QED
    BY <1>1, <1>2, <1>4, <2>1
       DEF remove_load, TypeOK, RemoveInv, BitsAgreeWithList, GroupInv
<1>5. CASE remove_store
  <2> USE <1>5 DEF remove_store
  <2>1. /\ rprio \in InUse /\ rprio \in Prio /\ rprio \in Ready
        /\ OSTCBY(rprio) \in Group /\ byte = run_bits[OSTCBY(rprio)]
    BY <1>1, <1>2 DEF RemoveInv
  <2>2. run_bits' = [run_bits EXCEPT ![OSTCBY(rprio)] = @ \ {OSTCBX(rprio)}]
    BY <2>1 DEF TypeOK
  <2>3. ASSUME NEW q \in Prio PROVE q \in Ready' <=> q \in Ready /\ q # rprio
    BY <2>1, <2>2, SplitPrio, SplitInjective DEF Ready, TypeOK
  <2>4. Ready' = Ready \ {rprio}
    BY <2>3 DEF Ready
  <2>5. TypeOK'
    BY <2>1, <2>2 DEF TypeOK
  <2>6. RemoveInv'
    BY <2>1, <2>4 DEF RemoveInv
  <2>7. BitsAgreeWithList'
    BY <2>4 DEF BitsAgreeWithList
  <2>8. GroupInv'
    <3>1. run_bits[OSTCBY(rprio)] # {}
      BY <2>1, ReadyMeaning
    <3> QED  BY <2>1, <2>2, <3>1 DEF GroupInv, TypeOK
  <2> QED  BY <2>1, <2>4, <2>5, <2>6, <2>7, <2>8
<1>6. CASE remove_keep_group
  <2> USE <1>6 DEF remove_keep_group, RemoveReturns
  <2>1. Ready' = Ready /\ rprio \notin Ready
    BY DEF Ready, RemoveInv
  <2>2. BitsAgreeWithList'
    BY <1>1, <1>2, <2>1 DEF BitsAgreeWithList, RemoveInv
  <2> QED  BY <2>1, <2>2 DEF TypeOK, RemoveInv, GroupInv
<1>7. CASE remove_load_group
  <2> USE <1>7 DEF remove_load_group
  <2>1. Ready' = Ready
    BY DEF Ready
  <2>2. TypeOK' /\ BitsAgreeWithList' /\ GroupInv'
    BY <2>1 DEF TypeOK, BitsAgreeWithList, GroupInv, Group, Bit
  <2> QED  BY <2>1, <2>2 DEF RemoveInv
<1>8. CASE remove_store_group
  <2> USE <1>8 DEF remove_store_group, RemoveReturns
  <2>1. Ready' = Ready /\ rprio \notin Ready
    BY DEF Ready, RemoveInv
  <2>2. BitsAgreeWithList'
    BY <1>1, <1>2, <2>1 DEF BitsAgreeWithList, RemoveInv
  <2>3. TypeOK' /\ GroupInv'
    BY DEF TypeOK, RemoveInv, GroupInv
  <2> QED  BY <2>1, <2>2, <2>3 DEF RemoveInv
<1> QED  BY <1>3, <1>4, <1>5, <1>6, <1>7, <1>8 DEF runqueue_remove

\* The invariant is inductive.
LEMMA NextRunQueueInv ==
  ASSUME Undisturbed', RunQueueInv, [Next]_vars
  PROVE  RunQueueInv'
<1>1. CASE Next
  BY <1>1, AddStep, RemoveStep DEF Next
<1>2. CASE UNCHANGED vars
  BY <1>2 DEF vars, RunQueueInv, TypeOK, RemoveInv, BitsAgreeWithList, GroupInv, Ready
<1> QED  BY <1>1, <1>2

-----------------------------------------------------------------------------
(* What an interrupted removal cannot spoil *)

\* runqueue_init establishes it.
LEMMA InitSlotInv == Init => SlotInv
  BY InitRunQueueInv DEF Init, RunQueueInv, SlotInv

\* Wherever runqueue_add comes, it spoils at most the group of the removal it
\* interrupts.
LEMMA AddSlot ==
  ASSUME SlotInv, NEW p \in InUse, runqueue_add(p)
  PROVE  SlotInv'
<1> USE DEF runqueue_add, SlotInv
<1>1. /\ p \in Prio /\ OSTCBY(p) \in Group /\ OSTCBX(p) \in Bit
      /\ rpc # "out" => rprio \in Prio /\ OSTCBY(rprio) \in Group
      /\ interrupted \subseteq interrupted'
  BY RunQueueAssumption, SplitPrio DEF TypeOK, InRemoval
<1>2. ASSUME NEW q \in Prio PROVE q \in Ready' <=> q \in Ready \union {p}
  BY <1>1, <1>2, SplitPrio, SplitInjective DEF Ready, TypeOK
<1>3. TypeOK'
  BY <1>1 DEF TypeOK, InRemoval
<1>4. BitsAgreeWithList'
  <2> SUFFICES ASSUME NEW q \in Prio \ {rprio}, OSTCBY(q) \notin interrupted'
               PROVE  q \in Ready' <=> run_list'[q] # NULL
    BY DEF BitsAgreeWithList
  <2>1. q \in Ready <=> run_list[q] # NULL
    BY <1>1 DEF BitsAgreeWithList
  <2>2. q \in Ready' <=> q \in Ready \union {p}
    BY <1>2
  <2> QED  BY <1>1, <2>1, <2>2 DEF TypeOK, Prio, NULL
<1>5. rpc # "out" => OSTCBY(rprio) \in interrupted'
  BY DEF InRemoval
<1>6. rpc # "out" => run_list'[rprio] = NULL
  BY <1>1 DEF TypeOK
<1> QED  BY <1>3, <1>4, <1>5, <1>6

\* A removal writes no bit but its own, as long as it is not interrupted.
LEMMA RemoveSlot ==
  ASSUME SlotInv, runqueue_remove
  PROVE  SlotInv'
<1> USE DEF SlotInv
<1>1. \A p \in InUse : p \in Prio /\ p # NULL /\ OSTCBY(p) \in Group /\ OSTCBX(p) \in Bit
  BY RunQueueAssumption, SplitPrio DEF Prio, NULL
<1>2. rpc # "out" => rprio \in InUse
  BY DEF TypeOK
<1>3. CASE \E p \in InUse : remove_slot(p)
  <2>1. PICK p \in InUse : remove_slot(p)
    BY <1>3
  <2>2. Ready' = Ready /\ rprio = NULL /\ (OSTCBY(p) \notin interrupted => p \in Ready)
    BY <1>1, <2>1 DEF remove_slot, Ready, BitsAgreeWithList
  <2> QED
    BY <1>1, <2>1, <2>2 DEF remove_slot, TypeOK, BitsAgreeWithList, Prio, NULL
<1>4. CASE remove_load
  <2>1. Ready' = Ready
    BY <1>4 DEF remove_load, Ready
  <2> QED
    BY <1>1, <1>2, <1>4, <2>1 DEF remove_load, TypeOK, BitsAgreeWithList
<1>5. CASE remove_store
  <2> USE <1>5 DEF remove_store
  <2>1. rprio \in InUse /\ rprio \in Prio /\ OSTCBY(rprio) \in Group /\ OSTCBX(rprio) \in Bit
    BY <1>1, <1>2
  <2>2. TypeOK'
    BY <2>1 DEF TypeOK
  <2>3. ASSUME NEW q \in Prio, OSTCBY(q) \notin interrupted
        PROVE  q \in Ready' <=> q \in Ready /\ q # rprio
    <3>1. CASE OSTCBY(q) = OSTCBY(rprio)
      <4>1. byte = run_bits[OSTCBY(rprio)]
        BY <2>3, <3>1
      <4>2. q = rprio <=> OSTCBX(q) = OSTCBX(rprio)
        BY <2>1, <3>1, SplitInjective
      <4>3. run_bits'[OSTCBY(q)] = run_bits[OSTCBY(q)] \ {OSTCBX(rprio)}
        BY <2>1, <3>1, <4>1 DEF TypeOK
      <4> QED  BY <4>2, <4>3 DEF Ready
    <3>2. CASE OSTCBY(q) # OSTCBY(rprio)
      BY <2>1, <3>2, SplitPrio DEF Ready, TypeOK
    <3> QED  BY <3>1, <3>2
  <2>4. BitsAgreeWithList'
    BY <2>3 DEF BitsAgreeWithList
  <2>5. OSTCBY(rprio) \notin interrupted => rprio \notin Ready'
    BY <2>1, <2>3
  <2> QED  BY <2>2, <2>4, <2>5
<1>6. CASE remove_keep_group \/ remove_store_group
  <2> USE <1>6 DEF remove_keep_group, remove_store_group, RemoveReturns
  <2>1. Ready' = Ready /\ (OSTCBY(rprio) \notin interrupted => rprio \notin Ready)
    BY DEF Ready
  <2>2. BitsAgreeWithList'
    BY <1>1, <1>2, <2>1 DEF BitsAgreeWithList
  <2>3. TypeOK'
    BY DEF TypeOK, Group, Bit
  <2> QED  BY <2>1, <2>2, <2>3
<1>7. CASE remove_load_group
  <2> USE <1>7 DEF remove_load_group
  <2>1. Ready' = Ready
    BY DEF Ready
  <2>2. TypeOK' /\ BitsAgreeWithList'
    BY <2>1 DEF TypeOK, BitsAgreeWithList, Group, Bit
  <2> QED  BY <2>1, <2>2
<1> QED  BY <1>3, <1>4, <1>5, <1>6, <1>7 DEF runqueue_remove

\* It holds in every reachable state.
LEMMA SlotInvariance == Spec => []SlotInv
<1>1. SlotInv /\ [Next]_vars => SlotInv'
  <2>1. ASSUME SlotInv, UNCHANGED vars PROVE SlotInv'
    BY <2>1 DEF vars, SlotInv, TypeOK, BitsAgreeWithList, Ready
  <2> QED  BY <2>1, AddSlot, RemoveSlot DEF Next
<1> QED  BY <1>1, InitSlotInv, PTL DEF Spec

\* No step forgets that a removal was interrupted.
LEMMA InterruptedGrows ==
  ASSUME [Next]_vars
  PROVE  interrupted \subseteq interrupted'
  BY DEF Next, vars, runqueue_add, runqueue_remove, remove_slot, remove_load, remove_store,
         remove_keep_group, remove_load_group, remove_store_group

-----------------------------------------------------------------------------
(* The theorems *)

\* The invariant holds until a removal is interrupted.
THEOREM RunQueueInvariance == Spec => [](Undisturbed => RunQueueInv)
<1>1. (Undisturbed => RunQueueInv) /\ [Next]_vars => (Undisturbed => RunQueueInv)'
  BY NextRunQueueInv, InterruptedGrows DEF Undisturbed
<1> QED  BY <1>1, InitRunQueueInv, PTL DEF Spec

\* run_queue.c:87-119: bytes, flags and the registers of runqueue_remove keep their
\* types, wherever the interrupt is taken.
THEOREM RunQueueTypes == Spec => []TypeOK
<1>1. SlotInv => TypeOK
  BY DEF SlotInv
<1> QED  BY <1>1, SlotInvariance, PTL

\* run_queue.c:22-24, 114: the bitmap and the list agree, but for the bytes of the
\* removals that were interrupted, wherever the interrupt is taken.
THEOREM BitmapCorrect == Spec => []BitsAgreeWithList
<1>1. SlotInv => BitsAgreeWithList
  BY DEF SlotInv
<1> QED  BY <1>1, SlotInvariance, PTL

\* run_queue.c:27-29: the flags of the groups agree with their bytes, until a removal
\* is interrupted.
THEOREM GroupsCorrect == Spec => []GroupsAgreeWithBits
<1>1. (Undisturbed => RunQueueInv) => GroupsAgreeWithBits
  BY DEF RunQueueInv, GroupInv, GroupsAgreeWithBits, Undisturbed
<1> QED  BY <1>1, RunQueueInvariance, PTL

\* run_queue.c:123-134: the two table lookups of highest_prio find the runnable task
\* of highest priority, until a removal is interrupted.
THEOREM SearchCorrect == Spec => []SearchFindsHighest
<1>1. ASSUME RunQueueInv, rpc = "out", Ready # {}
      PROVE  highest_prio \in Ready /\ \A p \in Ready : highest_prio <= p
  <2> DEFINE y == LowestBit(group_run_bits)
             x == LowestBit(run_bits[y])
  <2>1. PICK r \in Prio : r \in Ready
    BY <1>1 DEF Ready
  <2>2. \A g \in Group : g \in group_run_bits <=> run_bits[g] # {}
    BY <1>1 DEF RunQueueInv, GroupInv
  <2>3. group_run_bits \in (SUBSET Bit) \ {{}}
    BY <1>1, <2>1, <2>2, SplitPrio, ReadyMeaning DEF RunQueueInv, TypeOK, Group, Bit
  <2>4. y \in group_run_bits /\ \A g \in group_run_bits : y <= g
    BY <2>3, UnmapTableAssumption
  <2>5. y \in Group /\ run_bits[y] \in (SUBSET Bit) \ {{}}
    BY <1>1, <2>2, <2>4 DEF RunQueueInv, TypeOK
  <2>6. x \in run_bits[y] /\ \A b \in run_bits[y] : x <= b
    BY <2>5, UnmapTableAssumption
  <2>7. highest_prio = y * 8 + x
    BY DEF highest_prio
  <2> HIDE DEF x, y
  <2>8. x \in Bit
    BY <2>5, <2>6
  <2>9. highest_prio \in Ready
    BY <2>5, <2>6, <2>7, <2>8, JoinPrio, ReadyMeaning
  <2>10. ASSUME NEW p \in Ready PROVE highest_prio <= p
    <3>1. p \in Prio /\ OSTCBX(p) \in run_bits[OSTCBY(p)]
      BY DEF Ready
    <3>2. OSTCBY(p) \in Group /\ OSTCBX(p) \in Bit /\ p = OSTCBY(p) * 8 + OSTCBX(p)
      BY <3>1, SplitPrio
    <3>3. OSTCBY(p) \in group_run_bits
      BY <2>2, <3>1, <3>2
    <3>4. y <= OSTCBY(p) /\ (y = OSTCBY(p) => x <= OSTCBX(p))
      BY <2>4, <2>6, <3>1, <3>3
    <3> QED  BY <2>5, <2>7, <2>8, <3>2, <3>4 DEF Group, Bit
  <2> QED  BY <2>9, <2>10
<1>2. (Undisturbed => RunQueueInv) => SearchFindsHighest
  BY <1>1 DEF SearchFindsHighest, FindsHighest, Undisturbed
<1> QED  BY <1>2, RunQueueInvariance, PTL

\* run_queue.c:87-119: to the rest of the kernel the run queue is a set, until a
\* removal is interrupted.
THEOREM SetRefinement == Spec => ImplementsReadySet
<1>1. Init => Abstract!Init
  BY SplitPrio DEF Init, Abstract!Init, Ready
<1>2. (Undisturbed => RunQueueInv) /\ [Next]_vars => [interrupted' = {} => Abstract!Next]_Ready
  <2> SUFFICES ASSUME RunQueueInv, Undisturbed', [Next]_vars PROVE [Abstract!Next]_Ready
    BY InterruptedGrows DEF Undisturbed
  <2>1. ASSUME NEW p \in InUse, runqueue_add(p) PROVE Abstract!Next
    BY <2>1, AddStep DEF Abstract!Next, Abstract!Add
  <2>2. ASSUME runqueue_remove PROVE [Abstract!Next]_Ready
    BY <2>2, RemoveStep DEF Abstract!Next, Abstract!Remove, RunQueueInv
  <2>3. ASSUME UNCHANGED vars PROVE UNCHANGED Ready
    BY <2>3 DEF vars, Ready
  <2> QED  BY <2>1, <2>2, <2>3 DEF Next
<1> QED  BY <1>1, <1>2, RunQueueInvariance, PTL DEF Spec, ImplementsReadySet
=============================================================================
