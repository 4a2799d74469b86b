-------------------------- MODULE SleepQueueProofs --------------------------
(***************************************************************************)
(* Proofs about module SleepQueue, for every number of tasks, devices and  *)
(* mutexes: the linked lists implement first-come first-served queues      *)
(* until a device is signalled while a task walks along its queue.  The    *)
(* walk of dev_wait may be interrupted anywhere.                           *)
(***************************************************************************)
EXTENDS SleepQueue, QueueTheorems, FiniteSetTheorems, TLAPS

-----------------------------------------------------------------------------
(* The inductive invariant *)

\* Every list ends, repeats nobody and holds nobody who is runnable; no two
\* lists meet.
ListInv ==
    /\ \A q \in Queue :
        /\ Chain(q) \in Seq(Task)
        /\ IsList(Chain(q), head[q], link)
        /\ IsInjective(Chain(q))
        /\ Range(Chain(q)) \intersect runnable = {}
    /\ \A q, r \in Queue : q # r => Range(Chain(q)) \intersect Range(Chain(r)) = {}

\* Nobody who is awake points to a sleeper.
AwakeEmpty == \A t \in runnable \intersect Task : link[t] = NULL

\* Who walks is runnable, and walks along a mutex only without interrupts; tmp points
\* to the head of its list or to the link of a TCB in it that is not the last.
WalkInv ==
    \A t \in Task : walking[t] # NoQueue =>
        /\ t \in runnable
        /\ walking[t] \in MutexQueue => t = cur /\ ~irq
        /\ \/ tmp[t] = walking[t]
           \/ tmp[t] \in Range(Chain(walking[t])) /\ link[tmp[t]] # NULL

IndInv == TypeOK /\ IDLE_PRIO \in runnable /\ AwakeEmpty /\ ListInv /\ WalkInv

-----------------------------------------------------------------------------
(* Linked lists *)

\* Facts about the constants that every step needs.
LEMMA Sets ==
  /\ NumTasks \in Nat
  /\ Thread \subseteq Nat /\ IDLE_PRIO \in Thread
  /\ Task = Thread \ {IDLE_PRIO} /\ Task \subseteq Nat
  /\ NULL \notin Thread /\ NULL \notin Task
  /\ \A q \in Queue : q \notin Task /\ q # NULL /\ q # NoQueue
  /\ DevQueue \subseteq Queue /\ MutexQueue \subseteq Queue
  BY SleepQueueAssumption DEF Thread, Task, IDLE_PRIO, NULL, Queue

\* The first element, the links and the end of a list.
LEMMA ListParts ==
  ASSUME NEW first, NEW next, NEW s \in Seq(Task), IsList(s, first, next)
  PROVE  /\ Len(s) \in Nat /\ DOMAIN s = 1..Len(s)
         /\ \A k \in 1..Len(s) : s[k] \in Task
         /\ Len(s) = 0 => first = NULL
         /\ Len(s) > 0 => first = s[1] /\ next[s[Len(s)]] = NULL
         /\ \A k \in 1..(Len(s) - 1) : next[s[k]] = s[k + 1]
<1>1. Len(s) \in Nat /\ DOMAIN s = 1..Len(s) /\ \A k \in 1..Len(s) : s[k] \in Task
  BY LenProperties
<1>2. first = IF 0 < Len(s) THEN s[1] ELSE NULL
  BY <1>1 DEF IsList
<1>3. \A k \in 1..Len(s) : next[s[k]] = IF k < Len(s) THEN s[k + 1] ELSE NULL
  BY <1>1 DEF IsList
<1> QED  BY <1>1, <1>2, <1>3

\* The converse: what makes a sequence the list of its pointers.
LEMMA PartsList ==
  ASSUME NEW first, NEW next, NEW s \in Seq(Task),
         Len(s) = 0 => first = NULL,
         Len(s) > 0 => first = s[1] /\ next[s[Len(s)]] = NULL,
         \A k \in 1..(Len(s) - 1) : next[s[k]] = s[k + 1]
  PROVE  IsList(s, first, next)
<1>1. Len(s) \in Nat
  BY LenProperties
<1> SUFFICES ASSUME NEW k \in 0..Len(s)
             PROVE  (IF k = 0 THEN first ELSE next[s[k]]) = (IF k < Len(s) THEN s[k + 1] ELSE NULL)
  BY DEF IsList
<1>2. CASE k = 0
  BY <1>1, <1>2
<1>3. CASE k # 0 /\ k < Len(s)
  <2>1. k \in 1..(Len(s) - 1)
    BY <1>1, <1>3
  <2> QED  BY <1>3, <2>1
<1>4. CASE k # 0 /\ k = Len(s)
  BY <1>1, <1>4
<1> QED  BY <1>1, <1>2, <1>3, <1>4

\* Pointers determine the list: two sequences that follow the same pointers
\* agree up to the end of one of them, and neither ends before the other.
LEMMA ListUnique ==
  ASSUME NEW first, NEW next,
         NEW s \in Seq(Task), IsList(s, first, next),
         NEW u \in Seq(Task), IsList(u, first, next)
  PROVE  s = u
<1>1. /\ Len(s) \in Nat /\ Len(u) \in Nat
      /\ \A k \in 1..Len(s) : s[k] \in Task
      /\ \A k \in 1..Len(u) : u[k] \in Task
  BY LenProperties
<1> DEFINE D == {k \in Nat : 1 <= k /\ k <= Len(s) /\ k <= Len(u) /\ s[k] # u[k]}
<1>2. D = {}
  <2> SUFFICES ASSUME D # {} PROVE FALSE
    OBVIOUS
  <2>1. PICK k \in D : \A j \in D : k <= j
    <3>1. D \in SUBSET Nat
      OBVIOUS
    <3> HIDE DEF D
    <3> QED  BY <3>1, LeastExists
  <2>2. k \in Nat /\ 1 <= k /\ k <= Len(s) /\ k <= Len(u) /\ s[k] # u[k]
    BY <2>1
  <2>3. k - 1 \in 0..Len(s) /\ k - 1 \in 0..Len(u) /\ k - 1 < Len(s) /\ k - 1 < Len(u)
    BY <1>1, <2>2
  <2>4. /\ (IF k - 1 = 0 THEN first ELSE next[s[k - 1]]) = s[(k - 1) + 1]
        /\ (IF k - 1 = 0 THEN first ELSE next[u[k - 1]]) = u[(k - 1) + 1]
    BY <2>3 DEF IsList
  <2>5. k - 1 # 0 => s[k - 1] = u[k - 1]
    BY <1>1, <2>1, <2>2
  <2>6. (k - 1) + 1 = k
    BY <2>2
  <2> QED  BY <2>2, <2>4, <2>5, <2>6
<1>3. \A k \in 1..Len(s) : k <= Len(u) => s[k] = u[k]
  BY <1>1, <1>2
<1>4. ~(Len(s) < Len(u))
  <2> SUFFICES ASSUME Len(s) < Len(u) PROVE FALSE
    OBVIOUS
  <2>1. Len(s) \in 0..Len(s) /\ Len(s) \in 0..Len(u) /\ Len(s) + 1 \in 1..Len(u)
    BY <1>1
  <2>2. /\ (IF Len(s) = 0 THEN first ELSE next[s[Len(s)]]) = NULL
        /\ (IF Len(s) = 0 THEN first ELSE next[u[Len(s)]]) = u[Len(s) + 1]
    BY <1>1, <2>1 DEF IsList
  <2>3. Len(s) # 0 => s[Len(s)] = u[Len(s)]
    BY <1>1, <1>3
  <2> QED  BY <1>1, <2>1, <2>2, <2>3, Sets
<1>5. ~(Len(u) < Len(s))
  <2> SUFFICES ASSUME Len(u) < Len(s) PROVE FALSE
    OBVIOUS
  <2>1. Len(u) \in 0..Len(s) /\ Len(u) \in 0..Len(u) /\ Len(u) + 1 \in 1..Len(s)
    BY <1>1
  <2>2. /\ (IF Len(u) = 0 THEN first ELSE next[u[Len(u)]]) = NULL
        /\ (IF Len(u) = 0 THEN first ELSE next[s[Len(u)]]) = s[Len(u) + 1]
    BY <1>1, <2>1 DEF IsList
  <2>3. Len(u) # 0 => s[Len(u)] = u[Len(u)]
    BY <1>1, <1>3
  <2> QED  BY <1>1, <2>1, <2>2, <2>3, Sets
<1>6. Len(s) = Len(u)
  BY <1>1, <1>4, <1>5
<1> QED  BY <1>1, <1>3, <1>6, SeqEqual

\* A list that repeats nobody is no longer than there are tasks.
LEMMA ListBounded ==
  ASSUME NEW s \in Seq(Task), IsInjective(s)
  PROVE  s \in BoundedSeq(Task, NumTasks)
<1>1. Len(s) \in Nat /\ s \in [1..Len(s) -> Task]
  BY LenProperties
<1>2. s \in Injection(1..Len(s), Task)
  BY <1>1 DEF Injection
<1>3. NumTasks \in Nat
  BY Sets
<1>4. IsFiniteSet(0..(NumTasks - 1)) /\ Cardinality(0..(NumTasks - 1)) = NumTasks
  <2>1. 0 \in Int /\ NumTasks - 1 \in Int
    BY <1>3
  <2>2. /\ IsFiniteSet(0..(NumTasks - 1))
        /\ Cardinality(0..(NumTasks - 1)) =
              IF 0 > NumTasks - 1 THEN 0 ELSE (NumTasks - 1) - 0 + 1
    BY <2>1, FS_Interval
  <2> QED  BY <1>3, <2>2
<1>5. Cardinality(1..Len(s)) <= NumTasks
  BY <1>2, <1>4, FS_Injection DEF Task
<1>6. Cardinality(1..Len(s)) = Len(s)
  <2>1. Cardinality(1..Len(s)) = IF 1 > Len(s) THEN 0 ELSE Len(s) - 1 + 1
    BY <1>1, FS_Interval
  <2> QED  BY <1>1, <2>1
<1>7. Len(s) \in 0..NumTasks
  BY <1>1, <1>3, <1>5, <1>6
<1> QED  BY <1>1, <1>7 DEF BoundedSeq, SeqOf

\* What ListFrom chooses.
LEMMA ChainIs ==
  ASSUME NEW first, NEW next, NEW s \in Seq(Task), IsInjective(s), IsList(s, first, next)
  PROVE  ListFrom(first, next) = s
<1>1. s \in BoundedSeq(Task, NumTasks)
  BY ListBounded
<1>2. \A u \in BoundedSeq(Task, NumTasks) : u \in Seq(Task)
  BY Sets DEF BoundedSeq, SeqOf
<1>3. /\ ListFrom(first, next) \in BoundedSeq(Task, NumTasks)
      /\ IsList(ListFrom(first, next), first, next)
  BY <1>1 DEF ListFrom
<1> QED  BY <1>2, <1>3, ListUnique

\* Who is linked is in the list, and only the last one has no successor.
LEMMA ListWalk ==
  ASSUME NEW first, NEW next, NEW s \in Seq(Task), IsList(s, first, next)
  PROVE  /\ first # NULL => first \in Range(s)
         /\ s # <<>> <=> first # NULL
         /\ \A x \in Range(s) : next[x] # NULL => next[x] \in Range(s)
         /\ \A x \in Range(s) : next[x] = NULL => Len(s) > 0 /\ x = s[Len(s)]
<1>1. /\ Len(s) \in Nat /\ DOMAIN s = 1..Len(s)
      /\ \A k \in 1..Len(s) : s[k] \in Task
      /\ Len(s) = 0 => first = NULL
      /\ Len(s) > 0 => first = s[1] /\ next[s[Len(s)]] = NULL
      /\ \A k \in 1..(Len(s) - 1) : next[s[k]] = s[k + 1]
  BY ListParts
<1>2. first # NULL => first \in Range(s)
  BY <1>1 DEF Range
<1>3. s # <<>> <=> first # NULL
  <2>1. s # <<>> <=> Len(s) > 0
    BY <1>1, EmptySeq
  <2> QED  BY <1>1, <2>1, Sets
<1>4. ASSUME NEW x \in Range(s) 
      PROVE  /\ next[x] # NULL => next[x] \in Range(s)
             /\ next[x] = NULL => Len(s) > 0 /\ x = s[Len(s)]
  <2>1. PICK k \in 1..Len(s) : x = s[k]
    BY <1>1 DEF Range
  <2>2. CASE k = Len(s)
    BY <1>1, <2>1, <2>2
  <2>3. CASE k # Len(s)
    <3>1. k \in 1..(Len(s) - 1) /\ k + 1 \in 1..Len(s)
      <4>1. Len(s) \in Nat
        BY <1>1
      <4> QED  BY <2>3, <4>1
    <3>2. next[s[k]] = s[k + 1]
      BY <1>1, <3>1, Zenon
    <3>3. s[k + 1] \in Range(s) /\ s[k + 1] # NULL
      BY <1>1, <3>1, Sets DEF Range
    <3> QED  BY <2>1, <3>2, <3>3
  <2> QED  BY <2>2, <2>3
<1> QED  BY <1>2, <1>3, <1>4

\* Pointers that are not part of a list may change.
LEMMA ListSame ==
  ASSUME NEW first, NEW next, NEW s \in Seq(Task), IsList(s, first, next), NEW next2,
         \A x \in Range(s) : next2[x] = next[x]
  PROVE  IsList(s, first, next2)
<1>1. Len(s) \in Nat /\ DOMAIN s = 1..Len(s)
  BY LenProperties
<1>2. \A k \in 1..Len(s) : next2[s[k]] = next[s[k]]
  BY <1>1 DEF Range
<1> QED  BY <1>1, <1>2 DEF IsList

\* Linking t behind the last TCB, or to the head of an empty list.
LEMMA ListAppend ==
  ASSUME NEW first, NEW next, NEW s \in Seq(Task), IsList(s, first, next),
         NEW t \in Task, NEW first2, NEW next2,
         next2[t] = NULL,
         s = <<>> => first2 = t,
         s # <<>> => first2 = first /\ next2[s[Len(s)]] = t,
         \A k \in 1..(Len(s) - 1) : next2[s[k]] = next[s[k]]
  PROVE  IsList(Append(s, t), first2, next2)
<1> DEFINE a == Append(s, t)
<1>1. /\ Len(s) \in Nat
      /\ Len(s) > 0 => first = s[1]
      /\ \A k \in 1..(Len(s) - 1) : next[s[k]] = s[k + 1]
  BY ListParts
<1>2. /\ a \in Seq(Task) /\ Len(a) = Len(s) + 1
      /\ \A k \in 1..Len(s) : a[k] = s[k]
      /\ a[Len(s) + 1] = t
  BY AppendProperties
<1>3. s = <<>> <=> Len(s) = 0
  BY <1>1, EmptySeq
<1> HIDE DEF a
<1>4. first2 = a[1] /\ next2[a[Len(a)]] = NULL
  BY <1>1, <1>2, <1>3
<1>5. ASSUME NEW k \in 1..(Len(a) - 1) PROVE next2[a[k]] = a[k + 1]
  <2>1. Len(s) \in Nat /\ Len(a) = Len(s) + 1
    BY <1>1, <1>2
  <2>2. k \in 1..Len(s) /\ a[k] = s[k]
    BY <1>2, <2>1
  <2>3. CASE k = Len(s)
    BY <1>2, <1>3, <2>1, <2>2, <2>3
  <2>4. CASE k # Len(s)
    <3>1. k \in 1..(Len(s) - 1) /\ k + 1 \in 1..Len(s)
      BY <2>1, <2>2, <2>4
    <3>2. next2[s[k]] = s[k + 1]
      BY <1>1, <3>1
    <3>3. a[k + 1] = s[k + 1]
      BY <1>2, <3>1
    <3> QED  BY <2>2, <3>2, <3>3
  <2> QED  BY <2>3, <2>4
<1>6. Len(a) # 0
  BY <1>1, <1>2
<1>7. IsList(a, first2, next2)
  BY <1>2, <1>4, <1>5, <1>6, PartsList
<1> QED  BY <1>7 DEF a

\* Taking the first TCB off a list.
LEMMA ListTail ==
  ASSUME NEW first, NEW next, NEW s \in Seq(Task), IsList(s, first, next), IsInjective(s),
         first # NULL, NEW next2, \A x \in Range(s) \ {first} : next2[x] = next[x]
  PROVE  Head(s) = first /\ IsList(Tail(s), next[first], next2)
<1> DEFINE r == Tail(s)
<1>1. /\ Len(s) \in Nat /\ DOMAIN s = 1..Len(s)
      /\ Len(s) > 0 /\ first = s[1] /\ next[s[Len(s)]] = NULL
      /\ \A k \in 1..(Len(s) - 1) : next[s[k]] = s[k + 1]
  <2>1. /\ Len(s) \in Nat /\ DOMAIN s = 1..Len(s)
        /\ Len(s) = 0 => first = NULL
        /\ Len(s) > 0 => first = s[1] /\ next[s[Len(s)]] = NULL
        /\ \A k \in 1..(Len(s) - 1) : next[s[k]] = s[k + 1]
    BY ListParts
  <2> QED  BY <2>1
<1>2. s # <<>>
  BY <1>1, EmptySeq
<1>3. /\ r \in Seq(Task) /\ Len(r) = Len(s) - 1
      /\ \A k \in 1..Len(r) : r[k] = s[k + 1]
  BY <1>2, HeadTailProperties
<1> HIDE DEF r
<1>4. \A k \in 2..Len(s) : next2[s[k]] = next[s[k]]
  <2> SUFFICES ASSUME NEW k \in 2..Len(s) PROVE next2[s[k]] = next[s[k]]
    OBVIOUS
  <2>1. k \in DOMAIN s /\ 1 \in DOMAIN s /\ k # 1
    BY <1>1
  <2>2. s[k] # s[1]
    BY <2>1 DEF IsInjective
  <2> QED  BY <1>1, <2>1, <2>2 DEF Range
<1>5. Len(r) = 0 => next[first] = NULL
  <2>1. Len(s) \in Nat /\ Len(r) = Len(s) - 1
    BY <1>1, <1>3
  <2>2. Len(r) = 0 => Len(s) = 1
    BY <2>1
  <2> QED  BY <1>1, <2>2
<1>6. Len(r) > 0 => next[first] = r[1] /\ next2[r[Len(r)]] = NULL
  <2> SUFFICES ASSUME Len(r) > 0 PROVE next[first] = r[1] /\ next2[r[Len(r)]] = NULL
    OBVIOUS
  <2>1. Len(s) \in Nat /\ Len(r) = Len(s) - 1
    BY <1>1, <1>3
  <2>2. /\ 1 \in 1..(Len(s) - 1) /\ 1 \in 1..Len(r)
        /\ Len(r) \in 1..Len(r) /\ Len(r) + 1 = Len(s) /\ Len(s) \in 2..Len(s)
    BY <2>1
  <2>3. next[s[1]] = s[1 + 1] /\ r[1] = s[1 + 1]
    BY <1>1, <1>3, <2>2
  <2>4. r[Len(r)] = s[Len(r) + 1]
    BY <1>3, <2>2
  <2>5. next2[s[Len(s)]] = NULL
    BY <1>1, <1>4, <2>2
  <2> QED  BY <1>1, <2>2, <2>3, <2>4, <2>5
<1>7. ASSUME NEW k \in 1..(Len(r) - 1) PROVE next2[r[k]] = r[k + 1]
  <2>1. Len(s) \in Nat /\ Len(r) = Len(s) - 1
    BY <1>1, <1>3
  <2>2. k \in 1..Len(r) /\ k + 1 \in 1..Len(r) /\ k + 1 \in 2..Len(s) /\ k + 1 \in 1..(Len(s) - 1)
    BY <2>1
  <2>3. r[k] = s[k + 1] /\ r[k + 1] = s[(k + 1) + 1]
    BY <1>3, <2>2
  <2>4. next2[s[k + 1]] = next[s[k + 1]]
    BY <1>4, <2>2
  <2>5. next[s[k + 1]] = s[(k + 1) + 1]
    BY <1>1, <2>2
  <2> QED  BY <2>3, <2>4, <2>5
<1>8. IsList(r, next[first], next2)
  BY <1>3, <1>5, <1>6, <1>7, PartsList
<1>9. Head(s) = first
  BY <1>1, <1>2
<1> QED  BY <1>8, <1>9 DEF r

-----------------------------------------------------------------------------
(* Every step preserves the invariant *)

\* dev_init and mutex_init empty the queues.
LEMMA InitIndInv == Init => IndInv
<1> SUFFICES ASSUME Init PROVE IndInv
  OBVIOUS
<1> USE Sets DEF Init
<1>1. Min(Thread) \in Thread
  BY MinIsLeast
<1>2. TypeOK
  BY <1>1 DEF TypeOK
<1>3. AwakeEmpty
  BY DEF AwakeEmpty
<1>4. ASSUME NEW q \in Queue PROVE Chain(q) = <<>> /\ IsList(<<>>, head[q], link)
  <2>1. <<>> \in Seq(Task) /\ Len(<<>>) = 0 /\ IsInjective(<<>>)
    BY EmptySeq, EmptyQueue
  <2>2. IsList(<<>>, head[q], link)
    BY <2>1 DEF IsList
  <2> QED  BY <2>1, <2>2, ChainIs DEF Chain
<1>5. ListInv
  <2>1. <<>> \in Seq(Task) /\ IsInjective(<<>>) /\ Range(<<>>) = {}
    BY EmptySeq, EmptyQueue
  <2> QED  BY <1>4, <2>1 DEF ListInv
<1>6. WalkInv
  BY DEF WalkInv
<1> QED  BY <1>2, <1>3, <1>5, <1>6 DEF IndInv

\* While the pointers stay, so do the lists.
LEMMA SameChains ==
  ASSUME UNCHANGED <<head, link>>
  PROVE  \A q : Chain(q)' = Chain(q)
  BY DEF Chain

\* A step that leaves the pointers and the run queue alone preserves ListInv.
LEMMA SamePointers ==
  ASSUME IndInv, UNCHANGED <<head, link, runnable>>
  PROVE  ListInv' /\ AwakeEmpty'
<1>1. \A q : Chain(q)' = Chain(q)
  BY SameChains
<1> QED  BY <1>1 DEF IndInv, ListInv, AwakeEmpty

\* What a walking task finds in the cell tmp points to.
LEMMA WalkerFinds ==
  ASSUME IndInv, InLoop
  PROVE  /\ cur \in Task /\ cur \in runnable
         /\ walking[cur] \in Queue
         /\ Deref(tmp[cur]) = NULL => Chain(walking[cur]) = <<>>
         /\ Deref(tmp[cur]) # NULL => Deref(tmp[cur]) \in Range(Chain(walking[cur]))
<1> USE Sets DEF IndInv, InLoop
<1>1. cur \in Task /\ cur \in runnable /\ walking[cur] \in Queue
  BY DEF TypeOK
<1> DEFINE q == walking[cur]
           s == Chain(q)
<1>2. q \in Queue /\ s \in Seq(Task) /\ IsList(s, head[q], link)
  BY <1>1 DEF ListInv
<1>3. \/ tmp[cur] = q
      \/ tmp[cur] \in Range(s) /\ link[tmp[cur]] # NULL
  BY <1>1 DEF WalkInv
<1>4. Range(s) \subseteq Task
  BY <1>2, LenProperties DEF Range
<1>5. /\ head[q] # NULL => head[q] \in Range(s)
      /\ s # <<>> <=> head[q] # NULL
      /\ \A x \in Range(s) : link[x] # NULL => link[x] \in Range(s)
  BY <1>2, ListWalk
<1> HIDE DEF q, s
<1>6. CASE tmp[cur] = q
  BY <1>1, <1>2, <1>5, <1>6 DEF Deref, q, s
<1>7. CASE tmp[cur] \in Range(s) /\ link[tmp[cur]] # NULL
  BY <1>1, <1>4, <1>5, <1>7 DEF Deref, q, s
<1> QED  BY <1>1, <1>3, <1>6, <1>7 DEF q, s

\* A task goes to sleep: it joins its queue at the end, the other queues stay.
LEMMA SleepStep ==
  ASSUME IndInv, walk_empty \/ walk_end
  PROVE  /\ cur \in Task /\ walking[cur] \in Queue
         /\ \A q \in Queue : cur \notin Range(Chain(q))
         /\ \A q \in Queue : /\ IsList(Chain(q)', head'[q], link')
                              /\ Chain(q)' = IF q = walking[cur] THEN Append(Chain(q), cur)
                                                                 ELSE Chain(q)
         /\ \A t \in Task \ {cur} : t \in runnable => link'[t] = link[t]
         /\ \A t \in Task : link[t] # NULL => link'[t] = link[t]
<1> USE Sets DEF IndInv
<1>1. InLoop
  BY DEF walk_empty, walk_end
<1>0. PICK w : w = walking[cur]
  OBVIOUS
<1>2. /\ cur \in Task /\ cur \in runnable /\ w \in Queue
      /\ Deref(tmp[cur]) = NULL => Chain(w) = <<>>
      /\ Deref(tmp[cur]) # NULL => Deref(tmp[cur]) \in Range(Chain(w))
  BY <1>0, <1>1, WalkerFinds
<1>3. \A q \in Queue : /\ Chain(q) \in Seq(Task)
                       /\ IsList(Chain(q), head[q], link)
                       /\ IsInjective(Chain(q))
                       /\ cur \notin Range(Chain(q))
  BY <1>2 DEF ListInv
<1>4. link[cur] = NULL
  BY <1>2 DEF AwakeEmpty
<1>5. CASE walk_empty
  <2>1. Chain(w) = <<>> /\ head' = [head EXCEPT ![w] = cur] /\ link' = link
    BY <1>0, <1>2, <1>5 DEF walk_empty
  <2>2. head'[w] = cur /\ \A q \in Queue \ {w} : head'[q] = head[q]
    BY <1>2, <2>1 DEF TypeOK
  <2>3. IsList(Append(Chain(w), cur), head'[w], link')
    <3> DEFINE s == Chain(w)
    <3>1. s \in Seq(Task) /\ IsList(s, head[w], link) /\ s = <<>>
      BY <1>2, <1>3, <2>1
    <3> HIDE DEF s
    <3>2. \A k \in 1..(Len(s) - 1) : FALSE
      <4>1. Len(s) = 0
        BY <3>1, EmptySeq
      <4> QED  BY <4>1
    <3>3. link'[cur] = NULL /\ head'[w] = cur
      BY <1>4, <2>1, <2>2
    <3>4. IsList(Append(s, cur), head'[w], link')
      BY <1>2, <3>1, <3>2, <3>3, ListAppend
    <3> QED  BY <3>4 DEF s
  <2>4. \A q \in Queue \ {w} : IsList(Chain(q), head'[q], link')
    BY <1>3, <2>1, <2>2
  <2>5. Chain(w)' = Append(Chain(w), cur)
    BY <1>2, <1>3, <2>3, AppendQueue, ChainIs DEF Chain
  <2>6. \A q \in Queue \ {w} : Chain(q)' = Chain(q)
    BY <1>3, <2>4, ChainIs DEF Chain
  <2>7. \A q \in Queue : IsList(Chain(q)', head'[q], link')
    BY <2>3, <2>4, <2>5, <2>6
  <2> QED  BY <1>2, <1>3, <2>1, <2>5, <2>6, <2>7, <1>0
<1>6. CASE walk_end
  <2> DEFINE last == Deref(tmp[cur])
  <2>1. /\ last # NULL /\ link[last] = NULL /\ head' = head
        /\ link' = [link EXCEPT ![last] = cur, ![cur] = NULL]
    BY <1>6 DEF walk_end
  <2>2. last \in Range(Chain(w))
    BY <1>2, <2>1
  <2> HIDE DEF last
  <2>3. last \in Task /\ last # cur
    <3>1. Chain(w) \in Seq(Task)
      BY <1>2, <1>3
    <3> QED  BY <1>2, <1>3, <2>2, <3>1, LenProperties DEF Range
  <2>4. link'[last] = cur /\ link'[cur] = NULL /\ \A t \in Task \ {last, cur} : link'[t] = link[t]
    BY <1>2, <2>1, <2>3 DEF TypeOK
  <2>5. IsList(Append(Chain(w), cur), head'[w], link')
    <3> DEFINE s == Chain(w)
    <3>1. s \in Seq(Task) /\ IsList(s, head[w], link) /\ IsInjective(s) /\ cur \notin Range(s)
      BY <1>2, <1>3
    <3>2. last \in Range(s)
      BY <2>2
    <3> HIDE DEF s
    <3>3. Len(s) > 0 /\ last = s[Len(s)] /\ s # <<>>
      <4>1. Len(s) > 0 /\ last = s[Len(s)]
        BY <2>1, <3>1, <3>2, ListWalk
      <4> QED  BY <4>1, EmptySeq
    <3>4. \A k \in 1..(Len(s) - 1) : link'[s[k]] = link[s[k]]
      <4> SUFFICES ASSUME NEW k \in 1..(Len(s) - 1) PROVE link'[s[k]] = link[s[k]]
        OBVIOUS
      <4>1. Len(s) \in Nat /\ DOMAIN s = 1..Len(s)
        BY <3>1, LenProperties
      <4>2. k \in DOMAIN s /\ Len(s) \in DOMAIN s /\ k # Len(s)
        <5>1. Len(s) \in Nat
          BY <4>1
        <5>2. k \in 1..Len(s) /\ Len(s) \in 1..Len(s) /\ k # Len(s)
          BY <5>1
        <5> QED  BY <4>1, <5>2
      <4>3. s[k] \in Range(s) /\ s[k] # last
        BY <3>1, <3>3, <4>2 DEF IsInjective, Range
      <4>4. s[k] \in Task
        BY <3>1, <4>1, <4>2, LenProperties
      <4> QED  BY <2>4, <3>1, <4>3, <4>4
    <3>5. head'[w] = head[w]
      BY <2>1
    <3>6. IsList(Append(s, cur), head'[w], link')
      BY <1>2, <2>4, <3>1, <3>3, <3>4, <3>5, ListAppend
    <3> QED  BY <3>6 DEF s
  <2>6. ASSUME NEW q \in Queue, q # w PROVE IsList(Chain(q), head'[q], link')
    <3>1. last \notin Range(Chain(q)) /\ cur \notin Range(Chain(q))
      BY <1>2, <1>3, <2>2, <2>6 DEF ListInv
    <3>2. Chain(q) \in Seq(Task) /\ IsList(Chain(q), head[q], link)
      BY <1>3
    <3>3. \A x \in Range(Chain(q)) : x \in Task
      BY <3>2, LenProperties DEF Range
    <3>4. \A x \in Range(Chain(q)) : link'[x] = link[x]
      BY <2>4, <3>1, <3>3
    <3>5. head'[q] = head[q]
      BY <2>1
    <3> QED  BY <3>2, <3>4, <3>5, ListSame
  <2>7. \A t \in Task \ {cur} : t \in runnable => link'[t] = link[t]
    BY <1>2, <2>2, <2>4 DEF ListInv
  <2>8. Chain(w)' = Append(Chain(w), cur)
    BY <1>2, <1>3, <2>5, AppendQueue, ChainIs DEF Chain
  <2>9. \A q \in Queue \ {w} : Chain(q)' = Chain(q)
    BY <1>3, <2>6, ChainIs DEF Chain
  <2>10. \A q \in Queue : IsList(Chain(q)', head'[q], link')
    BY <2>5, <2>6, <2>8, <2>9
  <2>11. \A t \in Task : link[t] # NULL => link'[t] = link[t]
    BY <1>4, <2>1, <2>4
  <2> QED  BY <1>2, <1>3, <2>7, <2>8, <2>9, <2>10, <2>11, <1>0
<1> QED  BY <1>5, <1>6

\* Falling asleep preserves the invariant.
LEMMA SleepPreserves ==
  ASSUME IndInv, walk_empty \/ walk_end
  PROVE  IndInv'
<1> USE Sets DEF IndInv
<1>1. /\ cur \in Task /\ walking[cur] \in Queue
      /\ \A q \in Queue : cur \notin Range(Chain(q))
      /\ \A q \in Queue : /\ IsList(Chain(q)', head'[q], link')
                           /\ Chain(q)' = IF q = walking[cur] THEN Append(Chain(q), cur)
                                                              ELSE Chain(q)
      /\ \A t \in Task \ {cur} : t \in runnable => link'[t] = link[t]
      /\ \A t \in Task : link[t] # NULL => link'[t] = link[t]
  BY SleepStep
<1>2. SwitchAway /\ InLoop
  BY DEF walk_empty, walk_end
<1>3. runnable' = runnable \ {cur} /\ runnable' \in SUBSET Thread /\ IDLE_PRIO \in runnable'
  BY <1>1, <1>2 DEF SwitchAway, TypeOK
<1>4. cur' \in runnable'
  <2>1. runnable' \in SUBSET Nat /\ runnable' # {} /\ cur' = Min(runnable')
    BY <1>2, <1>3 DEF SwitchAway
  <2> QED  BY <2>1, MinIsLeast
<1>5. TypeOK'
  <2>1. head' \in [Queue -> Task \union {NULL}]
    BY <1>1 DEF TypeOK, walk_empty, walk_end
  <2>2. link' \in [Task -> Task \union {NULL}]
    BY <1>1 DEF TypeOK, walk_empty, walk_end
  <2>3. /\ walking' \in [Task -> Queue \union {NoQueue}]
        /\ tmp' \in [Task -> Queue \union Task \union {NULL}]
        /\ irq' = irq /\ due' = due /\ flag' = flag /\ overrun' = overrun
    BY <1>1, <1>2 DEF TypeOK, SwitchAway
  <2> QED  BY <1>3, <1>4, <2>1, <2>2, <2>3 DEF TypeOK
<1>6. AwakeEmpty'
  BY <1>1, <1>3 DEF AwakeEmpty
<1>7. ASSUME NEW q \in Queue
      PROVE  /\ Chain(q)' \in Seq(Task)
             /\ IsInjective(Chain(q)')
             /\ Range(Chain(q)') = IF q = walking[cur] THEN Range(Chain(q)) \union {cur}
                                                       ELSE Range(Chain(q))
  <2>1. Chain(q) \in Seq(Task) /\ IsInjective(Chain(q)) /\ cur \notin Range(Chain(q))
    BY <1>1 DEF ListInv
  <2>2. CASE q = walking[cur]
    <3>1. Chain(q)' = Append(Chain(q), cur)
      BY <1>1, <2>2
    <3>2. /\ Append(Chain(q), cur) \in Seq(Task)
          /\ Range(Append(Chain(q), cur)) = Range(Chain(q)) \union {cur}
          /\ IsInjective(Append(Chain(q), cur))
      BY <1>1, <2>1, AppendQueue
    <3> QED  BY <2>2, <3>1, <3>2
  <2>3. CASE q # walking[cur]
    <3>1. Chain(q)' = Chain(q)
      BY <1>1, <2>3
    <3> QED  BY <2>1, <2>3, <3>1
  <2> QED  BY <2>2, <2>3
<1>8. ListInv'
  <2>2. \A q \in Queue : Range(Chain(q)) \intersect runnable = {}
    BY DEF ListInv
  <2>3. \A q \in Queue : Range(Chain(q)') \intersect runnable' = {}
    BY <1>3, <1>7, <2>2
  <2>4. \A q, r \in Queue : q # r => Range(Chain(q)') \intersect Range(Chain(r)') = {}
    <3>1. \A q, r \in Queue : q # r => Range(Chain(q)) \intersect Range(Chain(r)) = {}
      BY DEF ListInv
    <3>2. \A q \in Queue : cur \notin Range(Chain(q))
      BY <1>1, <2>2
    <3> QED  BY <1>7, <3>1, <3>2
  <2> QED  BY <1>1, <1>7, <2>3, <2>4 DEF ListInv
<1>9. WalkInv'
  <2> SUFFICES ASSUME NEW t \in Task, walking'[t] # NoQueue, NEW w, w = walking'[t]
               PROVE  /\ t \in runnable'
                      /\ w \in MutexQueue => t = cur' /\ ~irq'
                      /\ \/ tmp'[t] = w
                         \/ tmp'[t] \in Range(Chain(w)') /\ link'[tmp'[t]] # NULL
    BY DEF WalkInv
  <2>1. t # cur /\ w = walking[t] /\ tmp'[t] = tmp[t]
    BY <1>1, <1>2 DEF SwitchAway, TypeOK
  <2>2. w \in Queue /\ Range(Chain(w)) \subseteq Range(Chain(w)')
    BY <1>7, <2>1 DEF TypeOK
  <2>3. Range(Chain(w)) \subseteq Task
    BY <2>2, LenProperties DEF ListInv, Range
  <2>4. \/ tmp[t] = w
        \/ tmp[t] \in Range(Chain(w)) /\ link[tmp[t]] # NULL
    BY <2>1 DEF WalkInv
  <2>5. t \in runnable' /\ w \notin MutexQueue
    BY <1>3, <2>1 DEF WalkInv
  <2> QED  BY <1>1, <2>1, <2>2, <2>3, <2>4, <2>5
<1> QED  BY <1>3, <1>5, <1>6, <1>8, <1>9

\* The first sleeper leaves its queue, the other queues stay.
LEMMA WakeStep ==
  ASSUME IndInv, NEW q \in Queue, TakeFirst(q)
  PROVE  /\ Chain(q) # <<>>
         /\ head[q] \in Task
         /\ \A r \in Queue : /\ IsList(Chain(r)', head'[r], link')
                              /\ Chain(r)' = IF r = q THEN Tail(Chain(r)) ELSE Chain(r)
         /\ Range(Tail(Chain(q))) = Range(Chain(q)) \ {head[q]}
         /\ Tail(Chain(q)) \in Seq(Task) /\ IsInjective(Tail(Chain(q)))
         /\ link'[head[q]] = NULL /\ \A t \in Task \ {head[q]} : link'[t] = link[t]
<1> USE Sets DEF IndInv, TakeFirst
<1>1. head[q] \in Task /\ link'[head[q]] = NULL /\ \A t \in Task \ {head[q]} : link'[t] = link[t]
  BY DEF TypeOK
<1>2. head'[q] = link[head[q]] /\ \A r \in Queue \ {q} : head'[r] = head[r]
  BY DEF TypeOK
<1>3. \A r \in Queue : /\ Chain(r) \in Seq(Task)
                       /\ IsList(Chain(r), head[r], link)
                       /\ IsInjective(Chain(r))
                       /\ \A x \in Range(Chain(r)) : x \in Task
  BY LenProperties DEF ListInv, Range
<1>4. Chain(q) # <<>> /\ head[q] \in Range(Chain(q))
  BY <1>3, ListWalk
<1>5. Head(Chain(q)) = head[q] /\ IsList(Tail(Chain(q)), head'[q], link')
  <2> DEFINE s == Chain(q)
  <2>1. s \in Seq(Task) /\ IsList(s, head[q], link) /\ IsInjective(s)
    BY <1>3
  <2>2. \A x \in Range(s) \ {head[q]} : link'[x] = link[x]
    BY <1>1, <1>3
  <2>3. head[q] # NULL
    OBVIOUS
  <2> HIDE DEF s, TakeFirst
  <2>4. Head(s) = head[q] /\ IsList(Tail(s), link[head[q]], link')
    BY <2>1, <2>2, <2>3, ListTail
  <2> QED  BY <1>2, <2>4 DEF s
<1>6. /\ Range(Tail(Chain(q))) = Range(Chain(q)) \ {head[q]}
      /\ Tail(Chain(q)) \in Seq(Task) /\ IsInjective(Tail(Chain(q)))
  BY <1>3, <1>4, <1>5, TailQueue
<1>7. ASSUME NEW r \in Queue, r # q PROVE IsList(Chain(r), head'[r], link')
  <2>1. head[q] \notin Range(Chain(r))
    BY <1>4, <1>7 DEF ListInv
  <2>2. \A x \in Range(Chain(r)) : link'[x] = link[x]
    BY <1>1, <1>3, <2>1
  <2>3. Chain(r) \in Seq(Task) /\ IsList(Chain(r), head[r], link)
    BY <1>3
  <2>4. IsList(Chain(r), head[r], link')
    BY <2>2, <2>3, ListSame
  <2>5. head'[r] = head[r]
    BY <1>2, <1>7
  <2> QED  BY <2>4, <2>5
<1>8. Chain(q)' = Tail(Chain(q))
  BY <1>5, <1>6, ChainIs DEF Chain
<1>9. \A r \in Queue \ {q} : Chain(r)' = Chain(r)
  BY <1>3, <1>7, ChainIs, ZenonT(30) DEF Chain
<1>10. \A r \in Queue : IsList(Chain(r)', head'[r], link')
  BY <1>5, <1>7, <1>8, <1>9
<1> QED  BY <1>1, <1>4, <1>6, <1>8, <1>9, <1>10

\* Taking a TCB off a list preserves the invariant when nobody walks along it.
LEMMA WakePreserves ==
  ASSUME IndInv, NEW q \in Queue, TakeFirst(q), \A t \in Task : walking[t] # q,
         UNCHANGED <<cur, walking, tmp, irq, due>>, flag' \in BOOLEAN, overrun' \in BOOLEAN
  PROVE  IndInv'
<1> USE Sets DEF IndInv
<1>1. /\ head[q] \in Task
      /\ \A r \in Queue : /\ IsList(Chain(r)', head'[r], link')
                           /\ Chain(r)' = IF r = q THEN Tail(Chain(r)) ELSE Chain(r)
      /\ Range(Tail(Chain(q))) = Range(Chain(q)) \ {head[q]}
      /\ Tail(Chain(q)) \in Seq(Task) /\ IsInjective(Tail(Chain(q)))
      /\ link'[head[q]] = NULL /\ \A t \in Task \ {head[q]} : link'[t] = link[t]
  BY WakeStep
<1>2. runnable' = runnable \union {head[q]}
  BY DEF TakeFirst
<1>3. TypeOK' /\ IDLE_PRIO \in runnable'
  BY <1>1, <1>2, ZenonT(30) DEF TypeOK, TakeFirst
<1>4. AwakeEmpty'
  BY <1>1, <1>2 DEF AwakeEmpty
<1>5. WalkInv'
  <2> SUFFICES ASSUME NEW t \in Task, walking[t] # NoQueue, NEW w, w = walking[t]
               PROVE  /\ t \in runnable'
                      /\ w \in MutexQueue => t = cur /\ ~irq
                      /\ \/ tmp[t] = w
                         \/ tmp[t] \in Range(Chain(w)') /\ link'[tmp[t]] # NULL
    BY DEF WalkInv
  <2>1. w \in Queue /\ w # q /\ Chain(w)' = Chain(w)
    BY <1>1 DEF TypeOK
  <2>2. Range(Chain(w)) \subseteq Task
    BY <2>1, LenProperties DEF ListInv, Range
  <2>3. head[q] \notin Range(Chain(w))
    <3>1. head[q] \in Range(Chain(q))
      BY ListWalk DEF ListInv, TakeFirst
    <3> QED  BY <2>1, <3>1 DEF ListInv
  <2> QED  BY <1>1, <1>2, <2>1, <2>2, <2>3 DEF WalkInv
<1>6. ListInv'
  <2>1. ASSUME NEW r \in Queue
        PROVE  /\ Chain(r)' \in Seq(Task)
               /\ IsInjective(Chain(r)')
               /\ Range(Chain(r)') \subseteq Range(Chain(r))
               /\ head[q] \notin Range(Chain(r)')
    <3>1. head[q] \in Range(Chain(q))
      BY ListWalk DEF ListInv, TakeFirst
    <3>2. r # q => head[q] \notin Range(Chain(r))
      BY <3>1 DEF ListInv
    <3>3. CASE r = q
      <4>1. Chain(r)' = Tail(Chain(q))
        BY <1>1, <3>3
      <4> QED  BY <1>1, <3>3, <4>1
    <3>4. CASE r # q
      <4>1. Chain(r)' = Chain(r)
        BY <1>1, <3>4
      <4> QED  BY <3>2, <3>4, <4>1 DEF ListInv
    <3> QED  BY <3>3, <3>4
  <2>2. \A r \in Queue : Range(Chain(r)') \intersect runnable' = {}
    BY <1>2, <2>1 DEF ListInv
  <2>3. \A r, u \in Queue : r # u => Range(Chain(r)') \intersect Range(Chain(u)') = {}
    BY <2>1 DEF ListInv
  <2> QED  BY <1>1, <2>1, <2>2, <2>3 DEF ListInv
<1> QED  BY <1>3, <1>4, <1>5, <1>6

\* Every step preserves the invariant, unless it shortens a queue under a walker.
LEMMA NextIndInv ==
  ASSUME IndInv, [Next]_vars, ~overrun'
  PROVE  IndInv'
<1> USE Sets DEF IndInv
<1>1. ASSUME NEW q \in Queue, walk_begin(q) PROVE IndInv'
  <2>1. ListInv' /\ AwakeEmpty'
    BY <1>1, SamePointers DEF walk_begin
  <2>2. TypeOK'
    BY <1>1 DEF walk_begin, TypeOK
  <2>3. WalkInv'
    <3>1. \A r : Chain(r)' = Chain(r)
      BY <1>1, SameChains DEF walk_begin
    <3> QED  BY <1>1, <3>1 DEF walk_begin, WalkInv, InUser, TypeOK
  <2> QED  BY <1>1, <2>1, <2>2, <2>3 DEF walk_begin
<1>2. CASE walk_empty
  BY <1>2, SleepPreserves
<1>3. CASE walk_end
  BY <1>3, SleepPreserves
<1>4. CASE walk_advance
  <2>1. ListInv' /\ AwakeEmpty'
    BY <1>4, SamePointers DEF walk_advance
  <2>2. /\ cur \in Task /\ walking[cur] \in Queue
        /\ Deref(tmp[cur]) # NULL => Deref(tmp[cur]) \in Range(Chain(walking[cur]))
    BY <1>4, WalkerFinds DEF walk_advance
  <2>3. Range(Chain(walking[cur])) \subseteq Task
    BY <2>2, LenProperties DEF ListInv, Range
  <2>4. TypeOK'
    BY <1>4, <2>2, <2>3 DEF walk_advance, TypeOK
  <2>5. \A q : Chain(q)' = Chain(q)
    BY <1>4, SameChains DEF walk_advance
  <2>6. WalkInv'
    BY <1>4, <2>2, <2>5 DEF walk_advance, WalkInv, TypeOK
  <2> QED  BY <1>4, <2>1, <2>4, <2>6 DEF walk_advance
<1>5. ASSUME NEW q \in MutexQueue, mutex_unlock(q) PROVE IndInv'
  <2>1. \A t \in Task : walking[t] # q
    BY <1>5 DEF mutex_unlock, InUser, WalkInv
  <2>2. flag' \in BOOLEAN /\ overrun' \in BOOLEAN
    BY <1>5 DEF mutex_unlock, TypeOK
  <2> QED  BY <1>5, <2>1, <2>2, WakePreserves DEF mutex_unlock
<1>6. CASE dev_update_begin
  <2>1. ListInv' /\ AwakeEmpty'
    BY <1>6, SamePointers DEF dev_update_begin
  <2>2. TypeOK'
    BY <1>6 DEF dev_update_begin, TypeOK
  <2>3. \A r : Chain(r)' = Chain(r)
    BY <1>6, SameChains DEF dev_update_begin
  <2>4. WalkInv'
    <3>1. \A t \in Task : walking[t] # NoQueue => walking[t] \notin MutexQueue
      BY <1>6, SleepQueueAssumption DEF dev_update_begin, InUser, InLoop, WalkInv
    <3> QED  BY <1>6, <2>3, <3>1 DEF dev_update_begin, WalkInv
  <2> QED  BY <1>6, <2>1, <2>2, <2>4 DEF dev_update_begin
<1>7. ASSUME NEW q \in DevQueue, dev_update_pop(q) PROVE IndInv'
  <2>1. (\A t \in Task : walking[t] # q) /\ overrun' \in BOOLEAN
    BY <1>7 DEF dev_update_pop
  <2> QED  BY <1>7, <2>1, WakePreserves DEF dev_update_pop
<1>8. ASSUME NEW q \in DevQueue, dev_update_next(q) PROVE IndInv'
  <2>1. ListInv' /\ AwakeEmpty'
    BY <1>8, SamePointers DEF dev_update_next
  <2>2. \A r : Chain(r)' = Chain(r)
    BY <1>8, SameChains DEF dev_update_next
  <2> QED  BY <1>8, <2>1, <2>2 DEF dev_update_next, TypeOK, WalkInv
<1>9. CASE dev_update_end
  <2>1. ListInv' /\ AwakeEmpty'
    BY <1>9, SamePointers DEF dev_update_end
  <2>2. runnable \in SUBSET Nat /\ runnable # {}
    BY DEF TypeOK
  <2>3. cur' \in runnable
    BY <1>9, <2>2, MinIsLeast DEF dev_update_end, TypeOK
  <2>4. TypeOK'
    BY <1>9, <2>3 DEF dev_update_end, TypeOK
  <2>5. WalkInv'
    <3>1. \A r : Chain(r)' = Chain(r)
      BY <1>9, SameChains DEF dev_update_end
    <3> QED  BY <1>9, <3>1 DEF dev_update_end, WalkInv
  <2> QED  BY <1>9, <2>1, <2>4, <2>5 DEF dev_update_end
<1>10. CASE UNCHANGED vars
  <2>1. ListInv' /\ AwakeEmpty'
    BY <1>10, SamePointers DEF vars
  <2>2. \A r : Chain(r)' = Chain(r)
    BY <1>10, SameChains DEF vars
  <2> QED  BY <1>10, <2>1, <2>2 DEF vars, TypeOK, WalkInv
<1> QED  BY <1>1, <1>2, <1>3, <1>4, <1>5, <1>6, <1>7, <1>8, <1>9, <1>10
         DEF Next, walk, dev_update

\* What the history variable has recorded stays recorded.
LEMMA OverrunStays == overrun /\ [Next]_vars => overrun'
  BY DEF Next, walk, dev_update, vars, walk_begin, walk_empty, walk_end, walk_advance,
         SwitchAway, mutex_unlock, dev_update_begin, dev_update_pop, dev_update_next,
         dev_update_end

\* The lists are sound until a queue is shortened under a task that walks along it.
THEOREM Invariance == Spec => [](~overrun => IndInv)
<1>1. (~overrun => IndInv) /\ [Next]_vars => (~overrun => IndInv)'
  BY OverrunStays, NextIndInv
<1> QED  BY InitIndInv, <1>1, PTL DEF Spec

-----------------------------------------------------------------------------
(* What it gives *)

\* device.c:75-78 and mutex.c:89-92: a task that goes to sleep in an empty queue
\* has an empty link, although nothing there clears it, until a device is signalled
\* under a task that walks along its queue.
THEOREM LinksOfAwakeTasks == Spec => []AwakeUnlinked
<1>1. (~overrun => IndInv) => AwakeUnlinked
  BY DEF IndInv, AwakeEmpty, AwakeUnlinked
<1> QED  BY Invariance, <1>1, PTL

\* device.c:33-34: the linked lists are first-come first-served queues that hold all
\* the tasks that wait, for any number of tasks, devices and mutexes and wherever the
\* walks are interrupted, until a device is signalled under a task that walks along
\* its queue.
THEOREM QueueRefinement == Spec => ImplementsWaitQueues
<1>1. Init => Abstract!Init
  <2> SUFFICES ASSUME Init PROVE Queues = [q \in Queue |-> <<>>]
    BY DEF Abstract!Init
  <2>1. ASSUME NEW q \in Queue PROVE Chain(q) = <<>>
    <3>1. IndInv /\ head[q] = NULL
      BY InitIndInv DEF Init
    <3> QED  BY <3>1, ListWalk DEF IndInv, ListInv
  <2> QED  BY <2>1 DEF Queues
<1>2. IndInv /\ [Next]_vars => [Abstract!Next]_Queues
  <2> SUFFICES ASSUME IndInv, [Next]_vars PROVE [Abstract!Next]_Queues
    OBVIOUS
  <2>1. ASSUME walk_empty \/ walk_end PROVE Abstract!Next
    <3>1. PICK w \in Queue : w = walking[cur]
      BY <2>1, SleepStep
    <3>2. /\ cur \in Task
          /\ \A q \in Queue : cur \notin Range(Chain(q))
          /\ \A q \in Queue : Chain(q)' = IF q = w THEN Append(Chain(q), cur) ELSE Chain(q)
      BY <2>1, <3>1, SleepStep
    <3>3. Queues' = [Queues EXCEPT ![w] = Append(Queues[w], cur)]
      BY <3>2 DEF Queues
    <3>4. \A r \in Queue : cur \notin Range(Queues[r])
      BY <3>2 DEF Queues
    <3>5. Abstract!Sleep(cur, w)
      BY <3>3, <3>4 DEF Abstract!Sleep, Range, Abstract!Range
    <3> QED  BY <3>2, <3>5 DEF Abstract!Next
  <2>2. ASSUME NEW q \in Queue, TakeFirst(q) PROVE Abstract!Next
    <3>1. /\ Chain(q) # <<>>
          /\ \A r \in Queue : Chain(r)' = IF r = q THEN Tail(Chain(r)) ELSE Chain(r)
      BY <2>2, WakeStep
    <3>2. Queues' = [Queues EXCEPT ![q] = Tail(Queues[q])]
      BY <3>1 DEF Queues
    <3> QED  BY <3>1, <3>2 DEF Abstract!Next, Abstract!Wake, Queues
  <2>3. ASSUME UNCHANGED <<head, link>> PROVE Queues' = Queues
    BY <2>3, SameChains DEF Queues
  <2>4. DevQueue \subseteq Queue /\ MutexQueue \subseteq Queue
    BY Sets
  <2>5. \/ walk_empty \/ walk_end
        \/ \E q \in Queue : TakeFirst(q)
        \/ UNCHANGED <<head, link>>
    BY <2>4 DEF Next, walk, dev_update, vars, walk_begin, walk_advance, mutex_unlock,
                dev_update_begin, dev_update_pop, dev_update_next, dev_update_end
  <2> QED  BY <2>1, <2>2, <2>3, <2>5
<1>3. (~overrun => IndInv) /\ [Next]_vars => [~overrun' => [Abstract!Next]_Queues]_vars
  BY <1>2, OverrunStays
<1> QED  BY <1>1, <1>3, Invariance, PTL DEF Spec, ImplementsWaitQueues
=============================================================================
