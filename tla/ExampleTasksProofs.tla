------------------------- MODULE ExampleTasksProofs -------------------------
(***************************************************************************)
(* Proofs about the example programs.  They are clients of the kernel, so  *)
(* its inductive invariant holds of them; on top of it, a task in the      *)
(* kernel is at the instruction that called it (CallInv), a task of        *)
(* mutex_chaser or dagger holds what its position in the code says         *)
(* (HeldInv), sys_err finds in errno what it expects (SysErrInv), and a    *)
(* number of mutex_chaser is what the tasks that are done with it have made*)
(* of it (NumberInv).  This holds until the timer interrupts the kernel    *)
(* inside its dispatcher, on a processor of any speed: everywhere else the *)
(* timer may interrupt where the kernel does not mask it.  Only the        *)
(* order of the updates of mutex_chaser needs a processor that keeps up:   *)
(* then one task at a time is inside its code (OneAtATime), all tasks agree*)
(* on the time that has passed (ElapsedInv), and a number is updated in the*)
(* order of the priorities (OrderInv).                                     *)
(***************************************************************************)
EXTENDS ExampleTasks, KernelProofs, FiniteSetTheorems

-----------------------------------------------------------------------------
(* The code of the programs *)

\* There are four programs of at most four tasks.
LEMMA ProgramNames ==
  /\ DOMAIN Program = {"mutex_chaser", "simple_mutex", "dagger", "sys_err"}
  /\ Task = {0, 1, 2, 3}
  BY ProgramsAssumption DEF Program, Task

\* The device that task t of mutex_chaser waits on.
ChaserDevice(t) == <<3, 0, 1, 2>>[t + 1]

\* mutex_chaser: lock, load, store, unlock and wait for each mutex but the
\* first, then the wait of while(1).
LEMMA ChaserCode ==
  ASSUME program = "mutex_chaser", NEW t \in Task
  PROVE  /\ Code(t) = [k \in 1..ChaseEnd |-> Code(t)[k]]
         /\ Len(Code(t)) = ChaseEnd /\ Loop(t) = ChaseEnd
         /\ \A m \in 1..(NumMutex - 1) :
              /\ Code(t)[5 * m - 4] = I("lock", m)
              /\ Code(t)[5 * m - 3] = I("load", m)
              /\ Code(t)[5 * m - 2] = I("store", m)
              /\ Code(t)[5 * m - 1] = I("unlock", m)
              /\ Code(t)[5 * m].do = "wait" /\ Code(t)[5 * m].arg = ChaserDevice(t)
         /\ Code(t)[ChaseEnd].do = "wait" /\ Code(t)[ChaseEnd].arg = ChaserDevice(t)
<1>1. PICK dev : Code(t) = Chase(dev) /\ dev = ChaserDevice(t)
  <2>1. Code(t) = Chase(<<3, 0, 1, 2>>[t + 1])
    BY ProgramNames DEF Code, Program, mutex_chaser, Chasers
  <2> QED  BY <2>1 DEF ChaserDevice
<1>2. Loop(t) = ChaseEnd
    BY ProgramNames DEF Loop, Program, mutex_chaser, Chasers
<1>3. ChaseEnd \in Nat /\ NumMutex \in Nat /\ NumMutex >= 2 /\ ChaseEnd = 5 * (NumMutex - 1) + 1
    BY ProgramsAssumption, ConstantsAssumption DEF ChaseEnd
<1>4. Code(t) = [k \in 1..ChaseEnd |-> Code(t)[k]] /\ Len(Code(t)) = ChaseEnd
  BY <1>1, <1>3 DEF Chase
<1>5. ASSUME NEW m \in 1..(NumMutex - 1)
      PROVE  /\ Code(t)[5 * m - 4] = I("lock", m)
             /\ Code(t)[5 * m - 3] = I("load", m)
             /\ Code(t)[5 * m - 2] = I("store", m)
             /\ Code(t)[5 * m - 1] = I("unlock", m)
             /\ Code(t)[5 * m].do = "wait" /\ Code(t)[5 * m].arg = dev
  <2>1. ASSUME NEW k \in 1..(ChaseEnd - 1)
        PROVE  Code(t)[k] = LET n == 1 + (k - 1) \div 5 IN
                 <<I("lock", n), I("load", n), I("store", n), I("unlock", n),
                   I("wait", dev)>>[1 + ((k - 1) % 5)]
    BY <1>1, <1>3 DEF Chase
  <2>2. \A j \in 1..5 : /\ 5 * m - 5 + j \in 1..(ChaseEnd - 1)
                         /\ 1 + (5 * m - 5 + j - 1) \div 5 = m
                         /\ 1 + ((5 * m - 5 + j - 1) % 5) = j
    BY <1>3
  <2>3. \A j \in 1..5 : Code(t)[5 * m - 5 + j] =
                 <<I("lock", m), I("load", m), I("store", m), I("unlock", m),
                   I("wait", dev)>>[j]
    BY <2>1, <2>2
  <2> HIDE DEF I
  <2>4. 5 * m - 4 = 5 * m - 5 + 1 /\ 5 * m - 3 = 5 * m - 5 + 2 /\ 5 * m - 2 = 5 * m - 5 + 3
        /\ 5 * m - 1 = 5 * m - 5 + 4 /\ 5 * m = 5 * m - 5 + 5
    OBVIOUS
  <2> QED  BY <2>3, <2>4 DEF I
<1>6. Code(t)[ChaseEnd].do = "wait" /\ Code(t)[ChaseEnd].arg = dev
  BY <1>1, <1>3 DEF Chase, I
<1> QED  BY <1>1, <1>2, <1>4, <1>5, <1>6

\* dagger: fun1 has mutex 0 from its first instruction to the eleventh, fun3 from
\* its first to its third; the others only print and wait.
LEMMA DaggerCode ==
  ASSUME program = "dagger"
  PROVE  /\ \A t \in Task : Loop(t) = 1
         /\ Len(Code(0)) = 2 /\ Len(Code(1)) = 12 /\ Len(Code(2)) = 2 /\ Len(Code(3)) = 4
         /\ Code(1)[1] = I("lock", 0) /\ Code(1)[11] = I("unlock", 0)
         /\ \A k \in 1..12 \ {1, 11} : Code(1)[k].do \in {"put", "wait"}
         /\ Code(3)[1] = I("lock", 0) /\ Code(3)[3] = I("unlock", 0)
         /\ \A k \in {2, 4} : Code(3)[k].do \in {"put", "wait"}
         /\ \A k \in {1, 2} : Code(0)[k].do \in {"put", "wait"}
         /\ \A k \in {1, 2} : Code(2)[k].do \in {"put", "wait"}
<1>1. Code(1) = dagger_fun1
    BY DEF Code, Program, dagger
<1>2. Code(0) = <<I("put", "*"), I("wait", 3)>> /\ Code(2) = <<I("put", "<"), I("wait", 1)>>
      /\ Code(3) = <<I("lock", 0), I("put", ">"), I("unlock", 0), I("wait", 2)>>
    BY DEF Code, Program, dagger
<1>3. \A t \in Task : Loop(t) = 1
    BY ProgramNames DEF Loop, Program, dagger
<1>5. /\ Len(Code(1)) = 12
      /\ Code(1)[1] = I("lock", 0) /\ Code(1)[11] = I("unlock", 0)
      /\ \A k \in 1..12 \ {1, 11} : Code(1)[k].do \in {"put", "wait"}
    BY <1>1 DEF I, dagger_fun1
<1> QED  BY <1>2, <1>3, <1>5 DEF I

\* simple_mutex: no task computes or checks anything.
LEMMA SimpleCode ==
  ASSUME program = "simple_mutex", NEW t \in Task
  PROVE  /\ Len(Code(t)) \in Nat /\ Loop(t) \in {Spin} \union 1..Len(Code(t))
         /\ \A k \in 1..Len(Code(t)) : Code(t)[k].do \in {"create", "put", "wait", "lock", "unlock"}
<1> DEFINE c0 == <<I("create", 0), I("put", "s"), I("wait", 0), I("lock", 0),
          I("put", "e"), I("unlock", 0), I("wait", 0), I("put", "s"), I("put", "!")>>
           c1 == <<I("put", "u"), I("wait", 1), I("lock", 0), I("put", "S"), I("wait", 1)>>
           c2 == <<I("put", "c"), I("lock", 0), I("wait", 2),
          I("put", "c"), I("unlock", 0), I("wait", 2)>>
<1>0. /\ Code(0) = c0 /\ Code(1) = c1 /\ Code(2) = c2 /\ Code(3) = <<>>
      /\ Loop(0) = Spin /\ Loop(1) = 3 /\ Loop(2) = 4 /\ Loop(3) = Spin
  BY DEF Code, Loop, Program, simple_mutex
<1>1. CASE t = 0
  BY <1>0, <1>1 DEF I
<1>2. CASE t = 1
  <2>1. Len(c1) = 5
    OBVIOUS
  <2>2. \A k \in 1..5 : c1[k].do \in {"create", "put", "wait", "lock", "unlock"}
    BY DEF I
  <2> HIDE DEF c1
  <2>3. Code(t) = c1 /\ Loop(t) = 3
    BY <1>0, <1>2
  <2>4. Len(Code(t)) = 5 /\ Len(Code(t)) \in Nat
    BY <2>1, <2>3
  <2>5. Loop(t) \in 1..Len(Code(t))
    BY <2>3, <2>4
  <2> QED  BY <2>2, <2>3, <2>4, <2>5
<1>3. CASE t = 2
  <2>1. Len(c2) = 6
    OBVIOUS
  <2>2. \A k \in 1..6 : c2[k].do \in {"create", "put", "wait", "lock", "unlock"}
    BY DEF I
  <2> HIDE DEF c2
  <2>3. Code(t) = c2 /\ Loop(t) = 4
    BY <1>0, <1>3
  <2>4. Len(Code(t)) = 6 /\ Len(Code(t)) \in Nat
    BY <2>1, <2>3
  <2>5. Loop(t) \in 1..Len(Code(t))
    BY <2>3, <2>4
  <2> QED  BY <2>2, <2>3, <2>4, <2>5
<1>4. CASE t = 3
  BY <1>0, <1>4 DEF I
<1> QED  BY <1>1, <1>2, <1>3, <1>4, ProgramNames

\* sys_err: one create more than there are mutexes, then each call with its check.
LEMMA SysErrCode ==
  ASSUME program = "sys_err"
  PROVE  /\ \A t \in Task : Loop(t) = Spin
         /\ \A t \in Task \ {0} : Code(t) = <<>>
         /\ Len(Code(0)) = NumMutex + 16
         /\ \A k \in 1..(NumMutex + 1) : Code(0)[k].do = "create"
         /\ Code(0)[NumMutex + 2].do = "expect" /\ Code(0)[NumMutex + 2].arg = ENOMEM
         /\ Code(0)[NumMutex + 3].do = "unlock" /\ Code(0)[NumMutex + 3].arg = NumMutex
         /\ Code(0)[NumMutex + 4].do = "expect" /\ Code(0)[NumMutex + 4].arg = EINVAL
         /\ Code(0)[NumMutex + 5].do = "unlock" /\ Code(0)[NumMutex + 5].arg = 1
         /\ Code(0)[NumMutex + 6].do = "expect" /\ Code(0)[NumMutex + 6].arg = EPERM
         /\ Code(0)[NumMutex + 7].do = "lock" /\ Code(0)[NumMutex + 7].arg = NumMutex
         /\ Code(0)[NumMutex + 8].do = "expect" /\ Code(0)[NumMutex + 8].arg = EINVAL
         /\ Code(0)[NumMutex + 9].do = "lock" /\ Code(0)[NumMutex + 9].arg = 0
         /\ Code(0)[NumMutex + 10].do = "expect" /\ Code(0)[NumMutex + 10].arg = 0
         /\ Code(0)[NumMutex + 11].do = "lock" /\ Code(0)[NumMutex + 11].arg = 0
         /\ Code(0)[NumMutex + 12].do = "expect" /\ Code(0)[NumMutex + 12].arg = EDEADLOCK
         /\ Code(0)[NumMutex + 13].do = "unlock" /\ Code(0)[NumMutex + 13].arg = 0
         /\ Code(0)[NumMutex + 14].do = "expect" /\ Code(0)[NumMutex + 14].arg = 0
         /\ Code(0)[NumMutex + 15].do = "wait" /\ Code(0)[NumMutex + 15].arg = NumDevices
         /\ Code(0)[NumMutex + 16].do = "expect" /\ Code(0)[NumMutex + 16].arg = EINVAL
         /\ \A k \in 1..(NumMutex + 16) : Code(0)[k].do \notin {"load", "store", "put"}
<1> DEFINE c == sys_err_creates
           e == sys_err_checks
           S == {c[k] : k \in DOMAIN c} \union {e[k] : k \in DOMAIN e}
<1>1. /\ \A t \in Task : Loop(t) = Spin
      /\ \A t \in Task \ {0} : Code(t) = <<>>
  BY ProgramNames DEF Loop, Code, Program, sys_err
<1>2. Code(0) = c \o e
  BY DEF Code, Program, sys_err
<1>3. c \in Seq(S) /\ Len(c) = NumMutex /\ NumMutex \in Nat
  BY ConstantsAssumption DEF sys_err_creates
<1>4. e \in Seq(S) /\ Len(e) = 16
  BY DEF sys_err_checks
<1> HIDE DEF S
<1>40. /\ Len(c \o e) = Len(c) + Len(e)
       /\ \A k \in 1 .. Len(c) + Len(e) : (c \o e)[k] = IF k <= Len(c) THEN c[k] ELSE e[k - Len(c)]
  BY ConcatProperties, <1>3, <1>4
<1>5. Len(Code(0)) = NumMutex + 16
  BY <1>2, <1>3, <1>4, <1>40
<1>6. \A k \in 1..NumMutex : Code(0)[k] = c[k]
  BY <1>2, <1>3, <1>4, <1>40
<1>7. \A k \in 1..16 : Code(0)[NumMutex + k] = e[k]
  <2> SUFFICES ASSUME NEW k \in 1..16 PROVE Code(0)[NumMutex + k] = e[k]
    OBVIOUS
  <2>1. NumMutex + k \in 1..(Len(c) + Len(e)) /\ NumMutex + k > Len(c) /\ (NumMutex + k) - Len(c) = k
    BY <1>3, <1>4
  <2> QED  BY <1>2, <1>3, <1>4, <2>1, <1>40
<1>8. \A k \in 1..NumMutex : c[k] = I("create", 0)
  BY DEF sys_err_creates
<1> HIDE DEF I
<1>9. \A k \in 1..(NumMutex + 1) : Code(0)[k].do = "create"
  <2> SUFFICES ASSUME NEW k \in 1..(NumMutex + 1) PROVE Code(0)[k].do = "create"
    OBVIOUS
  <2>1. CASE k \in 1..NumMutex
    BY <1>6, <1>8, <2>1 DEF I
  <2>2. CASE k = NumMutex + 1
    <3>1. Code(0)[NumMutex + 1] = e[1]
      BY <1>7
    <3> QED  BY <2>2, <3>1 DEF sys_err_checks, I
  <2> QED  BY <1>3, <2>1, <2>2
<1>10. \A k \in 1..16 : e[k].do \notin {"load", "store", "put"}
  BY DEF sys_err_checks, I
<1>11. \A k \in 1..(NumMutex + 16) : Code(0)[k].do \notin {"load", "store", "put"}
  <2> SUFFICES ASSUME NEW k \in 1..(NumMutex + 16) PROVE Code(0)[k].do \notin {"load", "store", "put"}
    OBVIOUS
  <2>1. CASE k <= NumMutex
    BY <1>3, <1>6, <1>8, <2>1 DEF I
  <2>2. CASE k > NumMutex
    <3>1. k - NumMutex \in 1..16 /\ k = NumMutex + (k - NumMutex)
      BY <1>3, <2>2
    <3> QED  BY <1>7, <1>10, <3>1
  <2> QED  BY <1>3, <2>1, <2>2
<1>12. /\ e[2].do = "expect" /\ e[2].arg = ENOMEM /\ e[3].do = "unlock" /\ e[3].arg = NumMutex
       /\ e[4].do = "expect" /\ e[4].arg = EINVAL /\ e[5].do = "unlock" /\ e[5].arg = 1
       /\ e[6].do = "expect" /\ e[6].arg = EPERM /\ e[7].do = "lock" /\ e[7].arg = NumMutex
       /\ e[8].do = "expect" /\ e[8].arg = EINVAL /\ e[9].do = "lock" /\ e[9].arg = 0
       /\ e[10].do = "expect" /\ e[10].arg = 0 /\ e[11].do = "lock" /\ e[11].arg = 0
       /\ e[12].do = "expect" /\ e[12].arg = EDEADLOCK /\ e[13].do = "unlock" /\ e[13].arg = 0
       /\ e[14].do = "expect" /\ e[14].arg = 0 /\ e[15].do = "wait" /\ e[15].arg = NumDevices
       /\ e[16].do = "expect" /\ e[16].arg = EINVAL
  BY DEF sys_err_checks, I
<1>13. /\ Code(0)[NumMutex + 2] = e[2] /\ Code(0)[NumMutex + 3] = e[3] /\ Code(0)[NumMutex + 4] = e[4]
       /\ Code(0)[NumMutex + 5] = e[5] /\ Code(0)[NumMutex + 6] = e[6] /\ Code(0)[NumMutex + 7] = e[7]
       /\ Code(0)[NumMutex + 8] = e[8] /\ Code(0)[NumMutex + 9] = e[9] /\ Code(0)[NumMutex + 10] = e[10]
       /\ Code(0)[NumMutex + 11] = e[11] /\ Code(0)[NumMutex + 12] = e[12] /\ Code(0)[NumMutex + 13] = e[13]
       /\ Code(0)[NumMutex + 14] = e[14] /\ Code(0)[NumMutex + 15] = e[15] /\ Code(0)[NumMutex + 16] = e[16]
  BY <1>7
<1>14. /\ Code(0)[NumMutex + 2].do = "expect" /\ Code(0)[NumMutex + 2].arg = ENOMEM
       /\ Code(0)[NumMutex + 3].do = "unlock" /\ Code(0)[NumMutex + 3].arg = NumMutex
       /\ Code(0)[NumMutex + 4].do = "expect" /\ Code(0)[NumMutex + 4].arg = EINVAL
       /\ Code(0)[NumMutex + 5].do = "unlock" /\ Code(0)[NumMutex + 5].arg = 1
       /\ Code(0)[NumMutex + 6].do = "expect" /\ Code(0)[NumMutex + 6].arg = EPERM
       /\ Code(0)[NumMutex + 7].do = "lock" /\ Code(0)[NumMutex + 7].arg = NumMutex
       /\ Code(0)[NumMutex + 8].do = "expect" /\ Code(0)[NumMutex + 8].arg = EINVAL
  BY <1>12, <1>13
<1>15. /\ Code(0)[NumMutex + 9].do = "lock" /\ Code(0)[NumMutex + 9].arg = 0
       /\ Code(0)[NumMutex + 10].do = "expect" /\ Code(0)[NumMutex + 10].arg = 0
       /\ Code(0)[NumMutex + 11].do = "lock" /\ Code(0)[NumMutex + 11].arg = 0
       /\ Code(0)[NumMutex + 12].do = "expect" /\ Code(0)[NumMutex + 12].arg = EDEADLOCK
       /\ Code(0)[NumMutex + 13].do = "unlock" /\ Code(0)[NumMutex + 13].arg = 0
       /\ Code(0)[NumMutex + 14].do = "expect" /\ Code(0)[NumMutex + 14].arg = 0
       /\ Code(0)[NumMutex + 15].do = "wait" /\ Code(0)[NumMutex + 15].arg = NumDevices
       /\ Code(0)[NumMutex + 16].do = "expect" /\ Code(0)[NumMutex + 16].arg = EINVAL
  BY <1>12, <1>13
<1> QED  BY <1>1, <1>5, <1>9, <1>11, <1>14, <1>15

\* sys_err's task is at one of its first creates or in the rest of its code.
LEMMA SysErrPosition ==
  ASSUME NEW k \in 1..(NumMutex + 16)
  PROVE  k \in 1..NumMutex \/ \E j \in 1..16 : k = NumMutex + j
<1>1. ASSUME NEW i \in Int, NEW n \in Nat, i >= 1, i <= n + 16
      PROVE  i \in 1..n \/ \E j \in 1..16 : i = n + j
  <2>1. CASE i <= n
    BY <1>1, <2>1
  <2>2. CASE i > n
    <3>1. i - n \in 1..16 /\ i = n + (i - n)
      BY <1>1, <2>2
    <3> QED  BY <3>1
  <2> QED  BY <2>1, <2>2
<1>2. NumMutex \in Nat
  BY ConstantsAssumption
<1>3. k \in Int /\ k >= 1 /\ k <= NumMutex + 16
  BY <1>2
<1> QED  BY <1>1, <1>2, <1>3

\* Every instruction is followed by one of the same task, or by while(1).
LEMMA CodeShape ==
  ASSUME program \in DOMAIN Program, NEW t \in Task
  PROVE  /\ Len(Code(t)) \in Nat
         /\ Code(t) # <<>> => Len(Code(t)) > 0
         /\ Loop(t) \in {Spin} \union 1..Len(Code(t))
<1>1. CASE program = "mutex_chaser"
  BY <1>1, ChaserCode, ProgramsAssumption, ConstantsAssumption DEF ChaseEnd
<1>2. CASE program = "dagger"
  BY <1>2, DaggerCode, ProgramNames
<1>3. CASE program = "simple_mutex"
  <2>1. Len(Code(t)) \in Nat /\ Loop(t) \in {Spin} \union 1..Len(Code(t))
    BY <1>3, SimpleCode
  <2>2. Code(t) = <<>> \/ Len(Code(t)) > 0
    BY <1>3, ProgramNames DEF Code, Program, simple_mutex
  <2> QED  BY <2>1, <2>2
<1>4. CASE program = "sys_err"
  <2>1. CASE t = 0
    <3>1. Len(Code(0)) = NumMutex + 16 /\ Loop(0) = Spin
      BY <1>4, <2>1, SysErrCode
    <3>2. NumMutex + 16 \in Nat /\ NumMutex + 16 > 0
      BY ConstantsAssumption
    <3> QED  BY <2>1, <3>1, <3>2
  <2>2. CASE t # 0
    <3>1. Code(t) = <<>> /\ Loop(t) = Spin
      BY <1>4, <2>2, SysErrCode
    <3> QED  BY <3>1
  <2> QED  BY <2>1, <2>2
<1> QED  BY <1>1, <1>2, <1>3, <1>4, ProgramNames

\* mutex_chaser has five instructions for each mutex but the first.
LEMMA ChaserPosition ==
  ASSUME NEW k \in 1..ChaseEnd, k # ChaseEnd
  PROVE  \E m \in 1..(NumMutex - 1) : k \in (5 * m - 4)..(5 * m)
<1> DEFINE m == 1 + (k - 1) \div 5
<1>1. NumMutex \in Nat /\ k \in 1..(5 * (NumMutex - 1))
  BY ConstantsAssumption, ProgramsAssumption DEF ChaseEnd
<1>2. m \in 1..(NumMutex - 1) /\ k \in (5 * m - 4)..(5 * m)
  BY <1>1
<1> QED  BY <1>2

\* Only mutex_chaser computes, only sys_err checks.
LEMMA KindsOfCode ==
  ASSUME program \in DOMAIN Program, NEW t \in Task, NEW k \in 1..Len(Code(t))
  PROVE  /\ Code(t)[k].do = "load" =>
                program = "mutex_chaser" /\ Code(t)[k].arg \in 1..(NumMutex - 1) /\ k = 5 * Code(t)[k].arg - 3
         /\ Code(t)[k].do = "store" =>
                program = "mutex_chaser" /\ Code(t)[k].arg \in 1..(NumMutex - 1) /\ k = 5 * Code(t)[k].arg - 2
         /\ Code(t)[k].do = "expect" => program = "sys_err"
<1>1. CASE program = "mutex_chaser"
  <2>1. CASE k = ChaseEnd
    BY <1>1, <2>1, ChaserCode
  <2>2. CASE k # ChaseEnd
    <3>0. k \in 1..ChaseEnd
      BY <1>1, ChaserCode
    <3>1. PICK m \in 1..(NumMutex - 1) : k \in (5 * m - 4)..(5 * m)
      BY <2>2, <3>0, ChaserPosition
    <3>2. m \in Int
      BY <3>1, ConstantsAssumption
    <3>3. k = 5 * m - 4 \/ k = 5 * m - 3 \/ k = 5 * m - 2 \/ k = 5 * m - 1 \/ k = 5 * m
      BY <3>1, <3>2
    <3>4. /\ Code(t)[5 * m - 4].do = "lock" /\ Code(t)[5 * m].do = "wait"
          /\ Code(t)[5 * m - 3].do = "load" /\ Code(t)[5 * m - 3].arg = m
          /\ Code(t)[5 * m - 2].do = "store" /\ Code(t)[5 * m - 2].arg = m
          /\ Code(t)[5 * m - 1].do = "unlock"
      <4>1. /\ Code(t)[5 * m - 4] = I("lock", m) /\ Code(t)[5 * m].do = "wait"
            /\ Code(t)[5 * m - 3] = I("load", m)
            /\ Code(t)[5 * m - 2] = I("store", m)
            /\ Code(t)[5 * m - 1] = I("unlock", m)
        BY <1>1, <3>1, ChaserCode
      <4> QED  BY <4>1 DEF I
    <3>5. CASE k = 5 * m - 3
      <4>1. Code(t)[k].do = "load" /\ Code(t)[k].arg = m
        BY <3>4, <3>5
      <4> QED  BY <1>1, <3>1, <3>5, <4>1
    <3>6. CASE k = 5 * m - 2
      <4>1. Code(t)[k].do = "store" /\ Code(t)[k].arg = m
        BY <3>4, <3>6
      <4> QED  BY <1>1, <3>1, <3>6, <4>1
    <3>7. CASE k = 5 * m - 4 \/ k = 5 * m - 1 \/ k = 5 * m
      BY <3>4, <3>7
    <3> QED  BY <3>3, <3>5, <3>6, <3>7
  <2> QED  BY <2>1, <2>2
<1>2. CASE program = "dagger"
  <2>1. CASE t = 1
    <3>1. k \in 1..12
      BY <1>2, <2>1, DaggerCode
    <3>2. CASE k \in {1, 11}
      BY <1>2, <2>1, <3>2, DaggerCode DEF I
    <3>3. CASE k \notin {1, 11}
      <4>1. Code(1)[k].do \in {"put", "wait"}
        BY <1>2, <3>1, <3>3, DaggerCode
      <4> QED  BY <2>1, <4>1
    <3> QED  BY <3>2, <3>3
  <2>2. CASE t = 3
    <3>1. Len(Code(3)) = 4 /\ Code(3)[1] = I("lock", 0) /\ Code(3)[3] = I("unlock", 0)
          /\ \A j \in {2, 4} : Code(3)[j].do \in {"put", "wait"}
      BY <1>2, DaggerCode
    <3>2. k \in {1, 3} \/ k \in {2, 4}
      <4>1. k \in 1..4
        <5>1. Len(Code(t)) = 4
          BY <2>2, <3>1
        <5> QED  BY <5>1
      <4> QED  BY <4>1
    <3>3. Code(3)[k].do \in {"lock", "unlock", "put", "wait"}
      BY <3>1, <3>2 DEF I
    <3> QED  BY <2>2, <3>3
  <2>3. CASE t \in {0, 2}
    <3>1. Len(Code(t)) = 2 /\ \A j \in {1, 2} : Code(t)[j].do \in {"put", "wait"}
      <4>1. CASE t = 0
        BY <1>2, <4>1, DaggerCode
      <4>2. CASE t = 2
        BY <1>2, <4>2, DaggerCode
      <4> QED  BY <2>3, <4>1, <4>2
    <3>2. k \in {1, 2}
      BY <3>1
    <3>3. Code(t)[k].do \in {"put", "wait"}
      BY <3>1, <3>2
    <3> QED  BY <3>3
  <2> QED  BY <2>1, <2>2, <2>3, ProgramNames
<1>3. CASE program = "simple_mutex"
  BY <1>3, SimpleCode
<1>4. CASE program = "sys_err"
  <2>1. t = 0
    <3>1. Len(Code(t)) # 0
      OBVIOUS
    <3> QED  BY <1>4, <3>1, SysErrCode
  <2>2. Code(0)[k].do \notin {"load", "store", "put"}
    BY <1>4, <2>1, SysErrCode
  <2> QED  BY <1>4, <2>1, <2>2
<1> QED  BY <1>1, <1>2, <1>3, <1>4, ProgramNames

-----------------------------------------------------------------------------
(* The programs are clients of the kernel *)

\* A step of a task is a step of the kernel or leaves the kernel alone.
LEMMA KernelStepOfTask ==
  ASSUME [TasksNext]_allVars
  PROVE  [Next]_vars
<1>1. NumMutex \notin Mutex /\ NumMutex \in 0..NumMutex /\ NumDevices \notin Device
      /\ NumDevices \in 0..NumDevices /\ Mutex \subseteq 0..NumMutex /\ Device \subseteq 0..NumDevices
  BY ConstantsAssumption DEF Mutex, Device
<1>2. CASE event_wait
  <2>1. CASE event_wait_invalid(Arg)
    <3>1. event_wait_invalid(NumDevices)
      BY <1>1, <2>1 DEF event_wait_invalid
    <3> QED  BY <1>1, <3>1 DEF Next, event_wait_syscall
  <2>2. CASE dev_wait_remove(Arg)
    <3>1. Arg \in 0..NumDevices
      BY <1>1, <2>2 DEF dev_wait_remove
    <3> QED  BY <2>2, <3>1 DEF Next, event_wait_syscall
  <2> QED  BY <1>2, <2>1, <2>2 DEF event_wait
<1>3. CASE mutex_create
  BY <1>3 DEF mutex_create, Next, mutex_create_syscall
<1>4. CASE mutex_lock
  <2>1. CASE mutex_lock_invalid(Arg)
    <3>1. mutex_lock_invalid(NumMutex)
      BY <1>1, <2>1 DEF mutex_lock_invalid, InvalidMutex
    <3> QED  BY <1>1, <3>1 DEF Next, mutex_lock_syscall
  <2>2. CASE mutex_lock_own(Arg) \/ mutex_lock_free(Arg) \/ mutex_lock_blocked(Arg)
    <3>1. Arg \in 0..NumMutex
      BY <1>1, <2>2 DEF mutex_lock_own, mutex_lock_free, mutex_lock_blocked, InvalidMutex
    <3> QED  BY <2>2, <3>1 DEF Next, mutex_lock_syscall
  <2> QED  BY <1>4, <2>1, <2>2 DEF mutex_lock
<1>5. CASE mutex_unlock
  <2>1. CASE mutex_unlock_invalid(Arg)
    <3>1. mutex_unlock_invalid(NumMutex)
      BY <1>1, <2>1 DEF mutex_unlock_invalid, InvalidMutex
    <3> QED  BY <1>1, <3>1 DEF Next, mutex_unlock_syscall
  <2>2. CASE mutex_unlock_not_owner(Arg) \/ mutex_unlock_free(Arg) \/ mutex_unlock_handoff(Arg)
    <3>1. Arg \in 0..NumMutex
      BY <1>1, <2>2 DEF mutex_unlock_not_owner, mutex_unlock_free, mutex_unlock_handoff,
                        MayUnlock, InvalidMutex
    <3> QED  BY <2>2, <3>1 DEF Next, mutex_unlock_syscall
  <2> QED  BY <1>5, <2>1, <2>2 DEF mutex_unlock
<1>6. CASE in_kernel
  BY <1>6 DEF in_kernel, KernelStep, Next, event_wait_syscall, mutex_lock_syscall,
              mutex_create_syscall
<1>7. CASE load \/ store \/ put \/ check_return
  BY <1>7 DEF load, store, put, check_return
<1>8. CASE timer
  BY <1>8 DEF timer, Next
<1>9. CASE UNCHANGED allVars
  BY <1>9 DEF allVars
<1> QED  BY <1>2, <1>3, <1>4, <1>5, <1>6, <1>7, <1>8, <1>9 DEF TasksNext, TaskStep

\* The programs of tasks/ run on the kernel of module Kernel, so that every theorem
\* about it holds of them.
THEOREM ClientsOfKernel == TasksSpec => Spec
<1>1. TasksInit => Init
  BY DEF TasksInit
<1>2. [TasksNext]_allVars => [Next]_vars
  BY KernelStepOfTask
<1> QED  BY <1>1, <1>2, PTL DEF TasksSpec, Spec

-----------------------------------------------------------------------------
(* Programs and kernel frames *)

\* A task is at one of its instructions, at rest, or has panicked.
ProgramTypes ==
    /\ program \in DOMAIN Program
    /\ ip \in [Task -> Int]
    /\ \A t \in Task : ip[t] \in {Spin, Panic} \union 1..Len(Code(t))
    /\ reg \in [Task -> Int]
    /\ mutex_val \in [Mutex -> Int]

\* A task in the kernel is at the instruction that called it.
CallInv ==
    \A t \in Task : pc[t] # "user" =>
        /\ ip[t] \in 1..Len(Code(t))
        /\ pc[t] = "found" => op[t] = "mutex_create"
        /\ op[t] = "mutex_create" => Code(t)[ip[t]].do = "create"
        /\ op[t] = "event_wait" => /\ Code(t)[ip[t]].do = "wait"
                                   /\ Code(t)[ip[t]].arg \in Device /\ Code(t)[ip[t]].arg = obj[t]
        /\ op[t] = "mutex_lock" => Code(t)[ip[t]].do = "lock" /\ Code(t)[ip[t]].arg = obj[t]

\* What a system call has done to its caller when it is back.
CallEffect(t, do, arg) ==
    \/ /\ do = "wait"
       /\ value' = IF arg \in Device THEN 0 ELSE EINVAL
       /\ UNCHANGED <<held, bAvailable>>
    \/ /\ do = "create" /\ \A m \in Mutex : ~bAvailable[m]
       /\ value' = -ENOMEM
       /\ UNCHANGED <<held, bAvailable>>
    \/ /\ do = "create" /\ pc[t] = "found" /\ obj[t] \in Mutex
       /\ value' = obj[t]
       /\ bAvailable' = [bAvailable EXCEPT ![obj[t]] = FALSE]
       /\ UNCHANGED held
    \/ /\ do \in {"lock", "unlock"} /\ InvalidMutex(arg)
       /\ value' = EINVAL
       /\ UNCHANGED <<held, bAvailable>>
    \/ /\ do = "lock" /\ ~InvalidMutex(arg) /\ arg \in held[t]
       /\ value' = EDEADLOCK
       /\ UNCHANGED <<held, bAvailable>>
    \/ /\ do = "lock" /\ ~InvalidMutex(arg) /\ arg \notin held[t]
       /\ value' = 0
       /\ held' = [held EXCEPT ![t] = @ \union {arg}]
       /\ UNCHANGED bAvailable
    \/ /\ do = "unlock" /\ ~InvalidMutex(arg) /\ arg \notin held[t]
       /\ value' = EPERM
       /\ UNCHANGED <<held, bAvailable>>
    \/ /\ do = "unlock" /\ ~InvalidMutex(arg) /\ arg \in held[t]
       /\ value' = 0
       /\ held' = [held EXCEPT ![t] = @ \ {arg}]
       /\ UNCHANGED bAvailable

\* Task t comes back from its system call.
Returns(t) ==
    /\ t = running
    /\ ip[t] \in 1..Len(Code(t))
    /\ CallEffect(t, Code(t)[ip[t]].do, Code(t)[ip[t]].arg)
    /\ Return
    /\ pc'[t] = "user"
    /\ \A u \in Task \ {t} : pc'[u] = pc[u] /\ op'[u] = op[u] /\ obj'[u] = obj[u]
    /\ UNCHANGED <<program, prompt, reg, mutex_val, printed, failed>>

\* The frame of a task that is in the kernel, or enters it.
FrameStep(t) ==
    \/ pc'[t] = pc[t] /\ op'[t] = op[t] /\ obj'[t] = obj[t]
    \/ /\ pc[t] \notin {"user", "found"} /\ pc'[t] \notin {"user", "found"}
       /\ op'[t] = op[t] /\ obj'[t] = obj[t]
    \/ /\ pc[t] = "user" /\ pc'[t] # "user" /\ ip[t] \in 1..Len(Code(t))
       /\ \/ /\ pc'[t] = "unlinked" /\ op'[t] = "event_wait"
             /\ Code(t)[ip[t]].do = "wait" /\ Code(t)[ip[t]].arg \in Device
             /\ obj'[t] = Code(t)[ip[t]].arg
          \/ /\ pc'[t] = "queued" /\ op'[t] = "mutex_lock"
             /\ Code(t)[ip[t]].do = "lock" /\ obj'[t] = Code(t)[ip[t]].arg
          \/ /\ pc'[t] = "found" /\ op'[t] = "mutex_create"
             /\ Code(t)[ip[t]].do = "create"
             /\ obj'[t] \in Mutex /\ bAvailable[obj'[t]]
             /\ \A k \in Mutex : k < obj'[t] => ~bAvailable[k]

\* No task comes back from a call or executes an instruction of its own.
Inside ==
    /\ \A t \in Task : FrameStep(t)
    /\ UNCHANGED <<taskVars, held, bAvailable>>

\* A task executes an instruction of its own.
Local(t) ==
    /\ t = running /\ pc[t] = "user"
    /\ ip[t] \in 1..Len(Code(t))
    /\ load \/ store \/ put \/ check_return

\* What the programs see of a step.
LEMMA StepOfTask ==
  ASSUME IndInv, ProgramTypes, CallInv, TasksNext
  PROVE  Inside \/ \E t \in Task : Returns(t) \/ Local(t)
<1> USE DEF IndInv
<1>1. Task = Thread \ {IDLE_PRIO} /\ running \in Thread
  BY Sets DEF TypeOK
<1>2. ASSUME running # IDLE_PRIO, pc[running] # "switching"
      PROVE  running \in Task /\ cur_tcb = running
  BY <1>1, <1>2 DEF DispatchInv, OwnContext
<1>3. ASSUME NEW kind, Doing(kind)
      PROVE  /\ running \in Task /\ cur_tcb = running /\ pc[running] = "user"
             /\ ip[running] \in 1..Len(Code(running))
             /\ Code(running)[ip[running]].do = kind /\ Arg = Code(running)[ip[running]].arg
  BY <1>2, <1>3 DEF Doing, At, ProgramTypes, Arg
<1>4. ASSUME NEW code, ReturnError(code), At("user"), AndReturn,
             CallEffect(running, Code(running)[ip[running]].do, Code(running)[ip[running]].arg),
             ip[running] \in 1..Len(Code(running))
      PROVE  Returns(running) /\ running \in Task
  <2>1. pc' = pc /\ op' = op /\ obj' = obj /\ pc[running] = "user"
    BY <1>4 DEF ReturnError, frameVars, At
  <2> QED  BY <1>4, <1>2, <2>1 DEF AndReturn, Returns, At
<1>5. CASE event_wait
  <2>1. CASE event_wait_invalid(Arg)
    BY <1>3, <1>4, <1>5, <2>1 DEF event_wait, event_wait_invalid, ReturnError, mutexVars, CallEffect
  <2>2. CASE dev_wait_remove(Arg)
    <3>1. UNCHANGED <<taskVars, held, bAvailable>>
      BY <1>1, <1>3, <1>5, <2>2 DEF event_wait, dev_wait_remove, AndReturn, mutexVars, taskVars, TypeOK
    <3>2. \A t \in Task : FrameStep(t)
      BY <1>1, <1>3, <1>5, <2>2 DEF event_wait, dev_wait_remove, FrameStep, TypeOK
    <3> QED  BY <3>1, <3>2 DEF Inside
  <2> QED  BY <1>5, <2>1, <2>2 DEF event_wait
<1>6. CASE mutex_create
  <2>1. CASE mutex_create_full
    BY <1>3, <1>4, <1>6, <2>1 DEF mutex_create, mutex_create_full, ReturnError, mutexVars, CallEffect
  <2>2. CASE mutex_create_find
    <3>1. UNCHANGED <<taskVars, held, bAvailable>>
      BY <1>1, <1>3, <1>6, <2>2 DEF mutex_create, mutex_create_find, AndReturn, mutexVars, taskVars, TypeOK
    <3>2. \A t \in Task : FrameStep(t)
      BY <1>1, <1>3, <1>6, <2>2 DEF mutex_create, mutex_create_find, FrameStep, TypeOK
    <3> QED  BY <3>1, <3>2 DEF Inside
  <2> QED  BY <1>6, <2>1, <2>2 DEF mutex_create
<1>7. ASSUME NEW m \in Mutex, ~bAvailable[m], running \in Task, pc[running] = "user"
      PROVE  pHolding_Tcb[m] = running <=> m \in held[running]
  BY <1>7, <1>1 DEF HolderInv, Blocking
<1>8. CASE mutex_lock
  <2> USE <1>3, <1>8 DEF mutex_lock
  <2>1. CASE mutex_lock_invalid(Arg)
    BY <1>4, <2>1 DEF mutex_lock_invalid, ReturnError, mutexVars, CallEffect
  <2>2. CASE mutex_lock_own(Arg)
    BY <1>4, <1>7, <2>2 DEF mutex_lock_own, ReturnError, mutexVars, CallEffect, InvalidMutex
  <2>3. CASE mutex_lock_free(Arg)
    <3>1. CallEffect(running, "lock", Arg)
      BY <1>7, <2>3 DEF mutex_lock_free, TakeMutex, CallEffect, InvalidMutex
    <3>2. pc' = pc /\ op' = op /\ obj' = obj
      BY <2>3 DEF mutex_lock_free, frameVars
    <3> QED  BY <3>1, <3>2 DEF AndReturn, Returns
  <2>4. CASE mutex_lock_blocked(Arg)
    <3>1. UNCHANGED <<taskVars, held, bAvailable>>
      BY <1>1, <2>4 DEF mutex_lock_blocked, AndReturn, taskVars, TypeOK
    <3>2. \A t \in Task : FrameStep(t)
      BY <1>1, <2>4 DEF mutex_lock_blocked, FrameStep, TypeOK
    <3> QED  BY <3>1, <3>2 DEF Inside
  <2> QED  BY <2>1, <2>2, <2>3, <2>4
<1>9. CASE mutex_unlock
  <2> USE <1>3, <1>9 DEF mutex_unlock
  <2>1. CASE mutex_unlock_invalid(Arg)
    BY <1>4, <2>1 DEF mutex_unlock_invalid, ReturnError, mutexVars, CallEffect
  <2>2. CASE mutex_unlock_not_owner(Arg)
    BY <1>4, <1>7, <2>2 DEF mutex_unlock_not_owner, ReturnError, mutexVars, CallEffect, InvalidMutex
  <2>3. CASE mutex_unlock_free(Arg) \/ mutex_unlock_handoff(Arg)
    <3>1. CallEffect(running, "unlock", Arg)
      BY <1>7, <2>3 DEF mutex_unlock_free, mutex_unlock_handoff, MayUnlock, GiveUp, CallEffect, InvalidMutex
    <3>2. pc' = pc /\ op' = op /\ obj' = obj
      BY <2>3 DEF mutex_unlock_free, mutex_unlock_handoff, GiveUp, frameVars
    <3> QED  BY <3>1, <3>2 DEF AndReturn, Returns
  <2> QED  BY <2>1, <2>2, <2>3
<1>10. CASE in_kernel
  <2>1. CASE dev_wait_link \/ dispatch
    <3>1. UNCHANGED <<taskVars, held, bAvailable>>
      BY <1>1, <1>10, <2>1 DEF in_kernel, dev_wait_link, dispatch, dispatch_pick, dispatch_set_cur,
         dispatch_switch, AndReturn, mutexVars, taskVars, TypeOK
    <3>2. \A t \in Task : FrameStep(t)
      BY <1>1, <2>1 DEF dev_wait_link, dispatch, dispatch_pick, dispatch_set_cur,
         dispatch_switch, At, FrameStep, TypeOK
    <3> QED  BY <3>1, <3>2 DEF Inside
  <2>2. ASSUME At("resumed") \/ At("found"), ReturnToUser,
               CallEffect(running, Code(running)[ip[running]].do, Code(running)[ip[running]].arg)
        PROVE  Returns(running) /\ running \in Task
    <3>1. running \in Task /\ pc[running] # "user"
      BY <1>2, <2>2 DEF At
    <3>2. pc'[running] = "user" /\ \A u \in Task \ {running} : pc'[u] = pc[u] /\ op'[u] = op[u] /\ obj'[u] = obj[u]
      BY <1>1, <2>2 DEF ReturnToUser, TypeOK
    <3> QED  BY <1>10, <2>2, <3>1, <3>2 DEF in_kernel, AndReturn, Returns, CallInv
  <2>3. CASE event_wait_return
    BY <1>2, <2>2, <2>3 DEF event_wait_return, At, CallInv, CallEffect, mutexVars
  <2>4. CASE mutex_create_grab
    BY <1>1, <1>2, <2>2, <2>4 DEF mutex_create_grab, At, CallInv, CallEffect, FrameInv
  <2>5. CASE mutex_lock_return
    <3>1. running \in Task /\ pc[running] = "resumed" /\ op[running] = "mutex_lock" /\ running \in runnable
      BY <1>2, <2>5 DEF mutex_lock_return, At, ReadyInv
    <3>2. LockFrame(running) /\ pHolding_Tcb[obj[running]] = running
      BY <1>1, <3>1 DEF FrameInv, Blocking, WaitFrame, LockFrame
    <3>3. ~InvalidMutex(obj[running]) /\ obj[running] \notin held[running]
      BY <1>1, <3>2, Sets DEF LockFrame, InvalidMutex, MutexInv
    <3>4. Code(running)[ip[running]].do = "lock" /\ Code(running)[ip[running]].arg = obj[running]
      BY <3>1 DEF CallInv
    <3> QED  BY <2>2, <2>5, <3>3, <3>4 DEF mutex_lock_return, TakeMutex, CallEffect
  <2> QED  BY <1>10, <2>1, <2>3, <2>4, <2>5 DEF in_kernel, KernelStep
<1>11. CASE load \/ store \/ put \/ check_return
  BY <1>3, <1>11 DEF load, store, put, check_return, Local
<1>12. CASE timer
  BY <1>12 DEF timer, C_IRQ_Handler, C_IRQ_Handler_quiet, C_IRQ_Handler_dispatch, TimerTick,
               frameVars, mutexVars, Inside, FrameStep
<1> QED  BY <1>5, <1>6, <1>8, <1>9, <1>10, <1>11, <1>12 DEF TasksNext, TaskStep

\* The mutexes of mutex_chaser are mutexes of the kernel.
LEMMA KernelMutexes == 1..(NumMutex - 1) \subseteq Mutex /\ NumMutex \in Nat /\ NumMutex >= 2
  BY ConstantsAssumption, ProgramsAssumption DEF Mutex

\* An update of a number is a number.
LEMMA UpdateIsNumber ==
  ASSUME NEW t \in Task, NEW v \in Int
  PROVE  Update(t, v) \in Int
  BY ProgramNames DEF Update, fun1_opval, fun2_opval, fun3_opval, fun4_opval

\* After its instruction a task is at another one, or at rest.
LEMMA NextInstruction ==
  ASSUME ProgramTypes, NEW t \in Task, ip[t] \in 1..Len(Code(t))
  PROVE  Following(t) \in {Spin} \union 1..Len(Code(t))
  BY CodeShape DEF ProgramTypes, Following

\* A return or an instruction of its own moves the running task only.
LEMMA Moves ==
  ASSUME ProgramTypes, NEW t \in Task, Returns(t) \/ Local(t)
  PROVE  /\ program' = program
         /\ ip' \in [Task -> Int]
         /\ \A u \in Task \ {t} : ip'[u] = ip[u]
         /\ ip'[t] = Following(t) \/ (Returns(t) /\ ip'[t] = Panic)
         /\ ip[t] \in 1..Len(Code(t))
<1>1. Following(t) \in Int
  BY NextInstruction, CodeShape DEF Returns, Local, ProgramTypes, Spin
<1>2. CASE Returns(t)
  BY <1>1, <1>2 DEF Returns, Return, Advance, Panic, ProgramTypes
<1>3. CASE Local(t)
  BY <1>1, <1>3 DEF Local, load, store, put, check_return, Advance, ProgramTypes
<1> QED  BY <1>2, <1>3

\* The two invariants hold when the tasks are launched.
LEMMA InitProgram == TasksInit => ProgramTypes /\ CallInv
<1> SUFFICES ASSUME TasksInit PROVE ProgramTypes /\ CallInv
  OBVIOUS
<1>1. CallInv
  BY Sets DEF TasksInit, Init, CallInv
<1>2. program \in DOMAIN Program
  BY DEF TasksInit
<1>3. \A t \in Task : ip[t] \in {Spin} \union 1..Len(Code(t)) /\ ip[t] \in Int
  BY <1>2, CodeShape DEF TasksInit, Spin
<1> QED  BY <1>1, <1>2, <1>3 DEF TasksInit, ProgramTypes, init_val

\* Every step preserves them.
LEMMA ProgramStep ==
  ASSUME IndInv, ProgramTypes, CallInv, [TasksNext]_allVars
  PROVE  ProgramTypes' /\ CallInv'
<1>1. CASE Inside
  <2>1. ProgramTypes'
    BY <1>1 DEF Inside, taskVars, ProgramTypes, Code
  <2>2. CallInv'
    <3> SUFFICES ASSUME NEW t \in Task, pc'[t] # "user"
                 PROVE  /\ ip[t] \in 1..Len(Code(t))
                        /\ pc'[t] = "found" => op'[t] = "mutex_create"
                        /\ op'[t] = "mutex_create" => Code(t)[ip[t]].do = "create"
                        /\ op'[t] = "event_wait" =>
                              /\ Code(t)[ip[t]].do = "wait"
                              /\ Code(t)[ip[t]].arg \in Device /\ Code(t)[ip[t]].arg = obj'[t]
                        /\ op'[t] = "mutex_lock" => Code(t)[ip[t]].do = "lock" /\ Code(t)[ip[t]].arg = obj'[t]
      BY <1>1 DEF Inside, taskVars, CallInv, Code
    <3>1. FrameStep(t)
      BY <1>1 DEF Inside
    <3> QED  BY <3>1 DEF FrameStep, CallInv
  <2> QED  BY <2>1, <2>2
<1>2. ASSUME NEW t \in Task, Returns(t) \/ Local(t)
      PROVE  ProgramTypes' /\ CallInv'
  <2>1. \A u : Code(u)' = Code(u)
    BY <1>2, Moves DEF Code
  <2>2. \A u \in Task : ip'[u] \in {Spin, Panic} \union 1..Len(Code(u))
    BY <1>2, Moves, NextInstruction DEF ProgramTypes
  <2>3. reg' \in [Task -> Int] /\ mutex_val' \in [Mutex -> Int]
    <3>1. CASE Returns(t)
      BY <3>1 DEF Returns, ProgramTypes
    <3>2. CASE load
      <4>1. mutex_val[Arg] \in Int
        BY <1>2, <3>2, KernelMutexes, KindsOfCode DEF load, Doing, Arg, Returns, Local, ProgramTypes
      <4> QED  BY <3>2, <4>1 DEF load, ProgramTypes
    <3>3. CASE store
      <4>1. running \in Task /\ reg[running] \in Int
        BY <1>2, <3>3 DEF Returns, Local, ProgramTypes
      <4>2. Update(running, reg[running]) \in Int
        BY <4>1, UpdateIsNumber
      <4>3. mutex_val' = [mutex_val EXCEPT ![Arg] = Update(running, reg[running])]
        BY <3>3 DEF store
      <4>7. reg' = [reg EXCEPT ![running] = 0]
        BY <3>3 DEF store
      <4>4. mutex_val \in [Mutex -> Int] /\ reg \in [Task -> Int]
        BY DEF ProgramTypes
      <4>5. reg' \in [Task -> Int]
        <5>1. \A u \in Task : reg'[u] \in Int
          BY <4>4, <4>7
        <5>2. reg' = [u \in Task |-> reg'[u]]
          BY <4>4, <4>7
        <5> QED  BY <5>1, <5>2
      <4>6. mutex_val' \in [Mutex -> Int]
        BY <4>2, <4>3, <4>4
      <4> QED  BY <4>5, <4>6
    <3>4. CASE put \/ check_return
      BY <3>4 DEF put, check_return, ProgramTypes
    <3> QED  BY <1>2, <3>1, <3>2, <3>3, <3>4 DEF Local
  <2>4. ProgramTypes'
    BY <1>2, <2>1, <2>2, <2>3, Moves DEF ProgramTypes
  <2>5. CallInv'
    <3>1. CASE Returns(t)
      BY <3>1, <2>1, Moves DEF Returns, CallInv
    <3>2. CASE Local(t)
      <4>1. pc' = pc /\ op' = op /\ obj' = obj /\ pc[t] = "user"
        BY <3>2 DEF Local, load, store, put, check_return, vars, frameVars
      <4> QED  BY <3>2, <2>1, <4>1, Moves DEF CallInv
    <3> QED  BY <1>2, <3>1, <3>2
  <2> QED  BY <2>4, <2>5
<1>3. CASE UNCHANGED allVars
  BY <1>3 DEF allVars, vars, taskVars, frameVars, ProgramTypes, CallInv, Code
<1> QED  BY <1>1, <1>2, <1>3, StepOfTask

-----------------------------------------------------------------------------
(* What the tasks hold *)

\* The programs that take their mutexes and give them up again.
Disciplined == {"mutex_chaser", "dagger"}

\* What task t holds at instruction k.
Holds(t, k) ==
    IF program = "mutex_chaser" THEN {m \in 1..(NumMutex - 1) : k \in (5 * m - 3)..(5 * m - 1)}
    ELSE {m \in {0} : (t = 1 /\ k \in 2..11) \/ (t = 3 /\ k \in 2..3)}

\* The instruction after instruction k.
After(t, k) == IF k < Len(Code(t)) THEN k + 1 ELSE Loop(t)

\* Nobody is at rest or has panicked, and everybody holds what its code says.
HeldInv ==
    program \in Disciplined =>
        /\ \A m \in Mutex : m < Program[program].created => ~bAvailable[m]
        /\ \A t \in Task : ip[t] \in 1..Len(Code(t)) /\ held[t] = Holds(t, ip[t])

\* The instructions take and give up what Holds says.
FollowsCode(t, k, do, arg) ==
    /\ After(t, k) \in 1..Len(Code(t))
    /\ do = "lock" => /\ arg \in Mutex /\ arg < Program[program].created /\ arg \notin Holds(t, k)
                      /\ Holds(t, After(t, k)) = Holds(t, k) \union {arg}
    /\ do = "unlock" => /\ arg \in Mutex /\ arg < Program[program].created /\ arg \in Holds(t, k)
                        /\ Holds(t, After(t, k)) = Holds(t, k) \ {arg}
    /\ do \notin {"lock", "unlock"} => do # "create" /\ Holds(t, After(t, k)) = Holds(t, k)

\* mutex_chaser locks what it does not hold and unlocks what it holds.
LEMMA ChaserDiscipline ==
  ASSUME program = "mutex_chaser", NEW t \in Task, NEW k \in 1..Len(Code(t))
  PROVE  FollowsCode(t, k, Code(t)[k].do, Code(t)[k].arg)
<1>1. NumMutex \in Nat /\ NumMutex >= 2 /\ ChaseEnd = 5 * (NumMutex - 1) + 1
  BY KernelMutexes DEF ChaseEnd
<1>2. Len(Code(t)) = ChaseEnd /\ Loop(t) = ChaseEnd /\ Code(t)[ChaseEnd].do = "wait"
  BY ChaserCode
<1>3. CASE k = ChaseEnd
  <2>1. After(t, k) = k
    BY <1>1, <1>2, <1>3 DEF After
  <2> QED  BY <1>2, <1>3, <2>1 DEF FollowsCode
<1>4. CASE k # ChaseEnd
  <2>1. PICK m \in 1..(NumMutex - 1) : k \in (5 * m - 4)..(5 * m)
    BY <1>2, <1>4, ChaserPosition
  <2>2. After(t, k) = k + 1 /\ After(t, k) \in 1..Len(Code(t)) /\ m \in Int /\ k \in Int
    BY <1>1, <1>2, <1>4, <2>1 DEF After
  <2>3. m \in Mutex /\ m < Program[program].created
    BY <1>1, <2>1 DEF Program, mutex_chaser, Chasers, Mutex
  <2>4. /\ Code(t)[5 * m - 4] = I("lock", m)
        /\ Code(t)[5 * m - 3] = I("load", m)
        /\ Code(t)[5 * m - 2] = I("store", m)
        /\ Code(t)[5 * m - 1] = I("unlock", m)
        /\ Code(t)[5 * m].do = "wait"
    BY <2>1, ChaserCode
  <2>5. \A j \in (5 * m - 3)..(5 * m - 1) : Holds(t, j) = {m}
    <3>1. ASSUME NEW j \in (5 * m - 3)..(5 * m - 1), NEW n \in 1..(NumMutex - 1),
                 j \in (5 * n - 3)..(5 * n - 1)
          PROVE  n = m
      BY <1>1, <2>2, <3>1
    <3> QED  BY <2>1, <3>1 DEF Holds
  <2>6. \A j \in {5 * m - 4, 5 * m, 5 * m + 1} : Holds(t, j) = {}
    <3>1. ASSUME NEW j \in {5 * m - 4, 5 * m, 5 * m + 1}, NEW n \in 1..(NumMutex - 1)
          PROVE  j \notin (5 * n - 3)..(5 * n - 1)
      BY <1>1, <2>2
    <3> QED  BY <3>1 DEF Holds
  <2>7. CASE k = 5 * m - 4
    <3>1. Holds(t, k) = {} /\ Holds(t, k + 1) = {m}
      BY <2>2, <2>5, <2>6, <2>7
    <3>2. Code(t)[k].do = "lock" /\ Code(t)[k].arg = m
      BY <2>4, <2>7 DEF I
    <3> QED  BY <2>2, <2>3, <3>1, <3>2 DEF FollowsCode
  <2>8. CASE k = 5 * m - 3 \/ k = 5 * m - 2
    <3>1. Holds(t, k) = {m} /\ Holds(t, k + 1) = {m}
      BY <2>2, <2>5, <2>8
    <3>2. Code(t)[k].do \in {"load", "store"}
      BY <2>4, <2>8 DEF I
    <3> QED  BY <2>2, <3>1, <3>2 DEF FollowsCode
  <2>9. CASE k = 5 * m - 1
    <3>1. Holds(t, k) = {m} /\ Holds(t, k + 1) = {}
      BY <2>2, <2>5, <2>6, <2>9
    <3>2. Code(t)[k].do = "unlock" /\ Code(t)[k].arg = m
      BY <2>4, <2>9 DEF I
    <3> QED  BY <2>2, <2>3, <3>1, <3>2 DEF FollowsCode
  <2>10. CASE k = 5 * m
    <3>1. Holds(t, k) = {} /\ Holds(t, k + 1) = {}
      BY <2>2, <2>6, <2>10
    <3>2. Code(t)[k].do = "wait"
      BY <2>4, <2>10
    <3> QED  BY <2>2, <3>1, <3>2 DEF FollowsCode
  <2> QED  BY <2>1, <2>2, <2>7, <2>8, <2>9, <2>10
<1> QED  BY <1>3, <1>4

\* dagger locks what it does not hold and unlocks what it holds.
LEMMA DaggerDiscipline ==
  ASSUME program = "dagger", NEW t \in Task, NEW k \in 1..Len(Code(t))
  PROVE  FollowsCode(t, k, Code(t)[k].do, Code(t)[k].arg)
<1>1. 0 \in Mutex /\ 0 < Program[program].created
  BY KernelMutexes DEF Program, dagger, Mutex
<1>2. CASE t = 1
  <2>1. k \in 1..12 /\ Len(Code(t)) = 12 /\ After(t, k) = IF k < 12 THEN k + 1 ELSE 1
    BY <1>2, DaggerCode DEF After
  <2>2. \A j \in 1..12 : Holds(t, j) = IF j \in 2..11 THEN {0} ELSE {}
    BY <1>2 DEF Holds
  <2>3. CASE k = 1
    <3>1. Code(t)[k].do = "lock" /\ Code(t)[k].arg = 0
      BY <1>2, <2>3, DaggerCode DEF I
    <3> QED  BY <1>1, <2>1, <2>2, <2>3, <3>1 DEF FollowsCode
  <2>4. CASE k = 11
    <3>1. Code(t)[k].do = "unlock" /\ Code(t)[k].arg = 0
      BY <1>2, <2>4, DaggerCode DEF I
    <3> QED  BY <1>1, <2>1, <2>2, <2>4, <3>1 DEF FollowsCode
  <2>5. CASE k \notin {1, 11}
    <3>1. Code(t)[k].do \in {"put", "wait"}
      BY <1>2, <2>1, <2>5, DaggerCode
    <3> QED  BY <2>1, <2>2, <2>5, <3>1 DEF FollowsCode
  <2> QED  BY <2>3, <2>4, <2>5
<1>3. CASE t = 3
  <2>1. k \in 1..4 /\ Len(Code(t)) = 4 /\ After(t, k) = IF k < 4 THEN k + 1 ELSE 1
    BY <1>3, DaggerCode DEF After
  <2>2. \A j \in 1..4 : Holds(t, j) = IF j \in 2..3 THEN {0} ELSE {}
    BY <1>3 DEF Holds
  <2>3. CASE k = 1
    <3>1. Code(t)[k].do = "lock" /\ Code(t)[k].arg = 0
      BY <1>3, <2>3, DaggerCode DEF I
    <3> QED  BY <1>1, <2>1, <2>2, <2>3, <3>1 DEF FollowsCode
  <2>4. CASE k = 3
    <3>1. Code(t)[k].do = "unlock" /\ Code(t)[k].arg = 0
      BY <1>3, <2>4, DaggerCode DEF I
    <3> QED  BY <1>1, <2>1, <2>2, <2>4, <3>1 DEF FollowsCode
  <2>5. CASE k \in {2, 4}
    <3>1. Code(t)[k].do \in {"put", "wait"}
      BY <1>3, <2>5, DaggerCode
    <3> QED  BY <2>1, <2>2, <2>5, <3>1 DEF FollowsCode
  <2> QED  BY <2>1, <2>3, <2>4, <2>5
<1>4. CASE t \in {0, 2}
  <2>1. k \in 1..2 /\ Len(Code(t)) = 2 /\ After(t, k) = IF k < 2 THEN k + 1 ELSE 1
    BY <1>4, DaggerCode, ProgramNames DEF After
  <2>2. \A j \in 1..2 : Holds(t, j) = {}
    BY <1>4 DEF Holds
  <2>3. Code(t)[k].do \in {"put", "wait"}
    BY <1>4, <2>1, DaggerCode
  <2> QED  BY <2>1, <2>2, <2>3 DEF FollowsCode
<1> QED  BY <1>2, <1>3, <1>4, ProgramNames

\* Nobody holds anything when the tasks are launched.
LEMMA InitHeld == TasksInit => HeldInv
<1> SUFFICES ASSUME TasksInit, program \in Disciplined
             PROVE  /\ \A m \in Mutex : m < Program[program].created => ~bAvailable[m]
                    /\ \A t \in Task : ip[t] \in 1..Len(Code(t)) /\ held[t] = Holds(t, ip[t])
  BY DEF HeldInv
<1>1. Program[program].created \in Int /\ Mutex \subseteq Int
  BY KernelMutexes DEF Disciplined, Program, mutex_chaser, Chasers, dagger, Mutex
<1>2. \A m \in Mutex : m < Program[program].created => ~bAvailable[m]
  <2> SUFFICES ASSUME NEW m \in Mutex, m < Program[program].created PROVE ~bAvailable[m]
    OBVIOUS
  <2>1. ~(m >= Program[program].created)
    BY <1>1
  <2>2. bAvailable = [n \in Mutex |-> n >= Program[program].created]
    BY DEF TasksInit
  <2> QED  BY <2>1, <2>2
<1>3. \A t \in Task : held[t] = {}
  BY Sets DEF TasksInit, Init
<1>4. \A t \in Task : Len(Code(t)) > 0 /\ Len(Code(t)) \in Nat
  <2>1. CASE program = "mutex_chaser"
    BY <2>1, ChaserCode, KernelMutexes DEF ChaseEnd
  <2>2. CASE program = "dagger"
    BY <2>2, DaggerCode, ProgramNames
  <2> QED  BY <2>1, <2>2 DEF Disciplined
<1>5. \A t \in Task : ip[t] = 1
  BY <1>4 DEF TasksInit
<1>6. \A t \in Task : Holds(t, 1) = {}
  BY KernelMutexes DEF Holds
<1>7. \A t \in Task : ip[t] \in 1..Len(Code(t))
  BY <1>4, <1>5
<1> QED  BY <1>2, <1>3, <1>5, <1>6, <1>7

\* A call on which mutex_chaser or dagger depends succeeds and takes or gives up
\* the mutex it names; everything else leaves the mutexes held alone.
LEMMA HeldStep ==
  ASSUME IndInv, ProgramTypes, CallInv, HeldInv, [TasksNext]_allVars
  PROVE  HeldInv'
<1> SUFFICES ASSUME program' \in Disciplined PROVE HeldInv'
  BY DEF HeldInv
<1>1. CASE Inside
  BY <1>1 DEF Inside, taskVars, HeldInv, Holds, Code
<1>2. ASSUME NEW t \in Task, Returns(t) \/ Local(t)
      PROVE  HeldInv'
  <2> DEFINE do == Code(t)[ip[t]].do
             arg == Code(t)[ip[t]].arg
  <2>1. /\ program' = program
        /\ \A u \in Task \ {t} : ip'[u] = ip[u]
        /\ ip[t] \in 1..Len(Code(t))
    BY <1>2, Moves
  <2>2. program \in Disciplined
    BY <2>1
  <2>3. FollowsCode(t, ip[t], do, arg)
    BY <2>1, <2>2, ChaserDiscipline, DaggerDiscipline DEF Disciplined
  <2>4. Following(t) = After(t, ip[t])
    BY DEF Following, After
  <2>6. ASSUME ip'[t] = After(t, ip[t]), held'[t] = Holds(t, After(t, ip[t])),
               \A u \in Task \ {t} : held'[u] = held[u],
               \A m \in Mutex : ~bAvailable[m] => ~bAvailable'[m]
        PROVE  HeldInv'
    <3>1. \A u \in Task : ip'[u] \in 1..Len(Code(u)) /\ held'[u] = Holds(u, ip'[u])
      BY <2>1, <2>2, <2>3, <2>6 DEF HeldInv, FollowsCode
    <3>2. \A m \in Mutex : m < Program[program].created => ~bAvailable'[m]
      BY <2>2, <2>6 DEF HeldInv
    <3> QED  BY <2>1, <3>1, <3>2 DEF HeldInv, Code, Holds
  <2>7. CASE Local(t)
    <3>1. held' = held /\ bAvailable' = bAvailable /\ ip'[t] = Following(t)
      BY <2>7, <2>1, Moves DEF Local, load, store, put, check_return, vars, mutexVars, Advance, ProgramTypes
    <3>2. do \notin {"lock", "unlock"}
      BY <2>7 DEF Local, load, store, put, check_return, Doing
    <3> QED  BY <2>2, <2>3, <2>4, <2>6, <3>1, <3>2 DEF HeldInv, FollowsCode
  <2>8. CASE Returns(t)
    <3>1. held[t] = Holds(t, ip[t]) /\ \A m \in Mutex : m < Program[program].created => ~bAvailable[m]
      BY <2>2 DEF HeldInv
    <3>2. CallEffect(t, do, arg)
      BY <2>8 DEF Returns
    <3>3. do \in {"lock", "unlock"} => ~InvalidMutex(arg)
      BY <2>3, <3>1 DEF FollowsCode, InvalidMutex
    <3>4. do \in {"lock", "unlock"} => value' = 0
      BY <2>3, <3>1, <3>2, <3>3 DEF FollowsCode, CallEffect
    <3>5. ip'[t] = After(t, ip[t])
      BY <2>4, <2>8, <3>4 DEF Returns, Return, Checked, Advance, ProgramTypes
    <3>6. bAvailable' = bAvailable
      BY <2>3, <3>2 DEF FollowsCode, CallEffect
    <3>7. held'[t] = Holds(t, After(t, ip[t])) /\ \A u \in Task \ {t} : held'[u] = held[u]
      <4>1. held \in [Thread -> SUBSET Mutex] /\ Task \subseteq Thread
        BY Sets DEF IndInv, TypeOK
      <4>2. CASE do = "lock"
        BY <2>3, <3>1, <3>2, <3>3, <4>1, <4>2 DEF FollowsCode, CallEffect
      <4>3. CASE do = "unlock"
        BY <2>3, <3>1, <3>2, <3>3, <4>1, <4>3 DEF FollowsCode, CallEffect
      <4>4. CASE do \notin {"lock", "unlock"}
        BY <2>3, <3>1, <3>2, <4>4 DEF FollowsCode, CallEffect
      <4> QED  BY <4>2, <4>3, <4>4
    <3> QED  BY <2>6, <3>5, <3>6, <3>7
  <2> QED  BY <1>2, <2>7, <2>8
<1>3. CASE UNCHANGED allVars
  BY <1>3 DEF allVars, vars, taskVars, mutexVars, HeldInv, Code, Holds
<1> QED  BY <1>1, <1>2, <1>3, StepOfTask

-----------------------------------------------------------------------------
(* sys_err *)

\* sys_err's task has created as many mutexes as it has asked for, holds mutex 0
\* between its lock and its unlock, and finds in errno what it expects.
SysErrInv ==
    program = "sys_err" =>
        /\ \A t \in Task \ {0} : ip[t] = Spin
        /\ ip[0] \in 1..(NumMutex + 1) => \A m \in Mutex : bAvailable[m] <=> m >= ip[0] - 1
        /\ ip[0] \notin 1..(NumMutex + 1) => \A m \in Mutex : ~bAvailable[m]
        /\ pc[0] = "found" => ip[0] \in 1..NumMutex /\ obj[0] = ip[0] - 1
        /\ held[0] = IF ip[0] \in (NumMutex + 10)..(NumMutex + 13) THEN {0} ELSE {}
        /\ ip[0] \in 1..Len(Code(0)) /\ Code(0)[ip[0]].do = "expect" => errno = Code(0)[ip[0]].arg

\* sys_err starts with all mutexes free to create.
LEMMA InitSysErr == TasksInit => SysErrInv
<1> SUFFICES ASSUME TasksInit, program = "sys_err" PROVE SysErrInv
  BY DEF SysErrInv
<1>1. NumMutex \in Nat /\ NumMutex >= 2 /\ 0 \in Task /\ 0 \in Thread /\ Mutex \subseteq Nat
  BY KernelMutexes, ProgramNames, Sets DEF Mutex
<1>2. Code(0) # <<>> /\ \A t \in Task \ {0} : Code(t) = <<>>
  BY <1>1, SysErrCode
<1>3. ip[0] = 1 /\ \A t \in Task \ {0} : ip[t] = Spin
  BY <1>1, <1>2 DEF TasksInit
<1>4. \A m \in Mutex : bAvailable[m]
  <2>1. Program[program].created = 0
    BY DEF Program, sys_err
  <2> QED  BY <1>1, <2>1 DEF TasksInit
<1>5. \A m \in Mutex : m >= 1 - 1
  BY <1>1
<1>6. pc[0] # "found" /\ held[0] = {} /\ Code(0)[1].do # "expect"
  <2>1. pc[0] # "found" /\ held[0] = {}
    BY <1>1 DEF TasksInit, Init
  <2>2. 1 \in 1..(NumMutex + 1)
    BY <1>1
  <2>3. Code(0)[1].do = "create"
    BY <2>2, SysErrCode
  <2> QED  BY <2>1, <2>3
<1>7. 1 \in 1..(NumMutex + 1) /\ 1 \notin (NumMutex + 10)..(NumMutex + 13)
  BY <1>1
<1> QED  BY <1>3, <1>4, <1>5, <1>6, <1>7 DEF SysErrInv

\* The kernel's answer to each call of sys_err, and what the wrapper makes of it.
LEMMA SysErrReturn ==
  ASSUME IndInv, ProgramTypes, CallInv, SysErrInv, program = "sys_err", Returns(0)
  PROVE  SysErrInv'
<1> DEFINE k == ip[0]
           do == Code(0)[k].do
           arg == Code(0)[k].arg
<1>1. /\ NumMutex \in Nat /\ NumMutex >= 2 /\ 0 \in Task /\ 0 \in Thread /\ Mutex = 0..(NumMutex - 1)
      /\ NumDevices \notin Device
  BY KernelMutexes, ProgramNames, Sets, ConstantsAssumption DEF Mutex, Device
<1>2. k \in 1..(NumMutex + 16) /\ Len(Code(0)) = NumMutex + 16 /\ Loop(0) = Spin
  <2>1. Len(Code(0)) = NumMutex + 16 /\ Loop(0) = Spin
    BY <1>1, SysErrCode
  <2>2. k \in 1..Len(Code(0))
    BY DEF Returns
  <2> QED  BY <2>1, <2>2
<1>3. /\ program' = program /\ Code(0)' = Code(0) /\ pc'[0] = "user"
      /\ \A t \in Task \ {0} : ip'[t] = Spin
      /\ errno' = swi_errno(do, value')
  BY <1>1, Moves DEF Returns, SysErrInv, Code, Return
<1>4. ip'[0] = IF k < NumMutex + 16 THEN k + 1 ELSE Spin
  BY <1>1, <1>2 DEF Returns, Return, Checked, Advance, Following, ProgramTypes
<1>5. CallEffect(0, do, arg)
  BY DEF Returns
<1>6. held \in [Thread -> SUBSET Mutex] /\ bAvailable \in [Mutex -> BOOLEAN]
  BY DEF IndInv, TypeOK
<1>7. ASSUME k >= NumMutex + 1, k < NumMutex + 16,
             \A m \in Mutex : ~bAvailable'[m],
             held'[0] = IF k + 1 \in (NumMutex + 10)..(NumMutex + 13) THEN {0} ELSE {},
             Code(0)[k + 1].do = "expect" => errno' = Code(0)[k + 1].arg
      PROVE  SysErrInv'
  <2>1. ip'[0] = k + 1 /\ k + 1 \notin 1..(NumMutex + 1) /\ pc'[0] # "found"
    BY <1>1, <1>2, <1>3, <1>4, <1>7
  <2> HIDE DEF k
  <2> QED  BY <1>3, <1>7, <2>1 DEF SysErrInv
<1>8. k >= NumMutex + 1 => \A m \in Mutex : ~bAvailable[m]
  <2>1. CASE k = NumMutex + 1
    <3>1. \A m \in Mutex : ~(m >= k - 1)
      BY <1>1, <2>1
    <3>2. \A m \in Mutex : bAvailable[m] <=> m >= k - 1
      BY <1>1, <2>1 DEF SysErrInv
    <3> QED  BY <3>1, <3>2
  <2>2. CASE k > NumMutex + 1
    BY <1>1, <1>2, <2>2 DEF SysErrInv
  <2> QED  BY <1>1, <1>2, <2>1, <2>2
<1>9. held[0] = IF k \in (NumMutex + 10)..(NumMutex + 13) THEN {0} ELSE {}
  BY DEF SysErrInv
<1>10. CASE k \in 1..NumMutex
  <2>1. do = "create" /\ k \in 1..(NumMutex + 1)
    <3>1. k \in 1..(NumMutex + 1)
      BY <1>1, <1>10
    <3> QED  BY <3>1, SysErrCode
  <2>2. bAvailable[k - 1] /\ k - 1 \in Mutex
    <3>1. k - 1 \in Mutex /\ k - 1 >= k - 1
      BY <1>1, <1>10
    <3> QED  BY <2>1, <3>1 DEF SysErrInv
  <2>3. /\ pc[0] = "found" /\ obj[0] \in Mutex /\ held' = held
        /\ bAvailable' = [bAvailable EXCEPT ![obj[0]] = FALSE]
    BY <1>5, <2>1, <2>2 DEF CallEffect
  <2>4. obj[0] = k - 1
    BY <2>3 DEF SysErrInv
  <2>5. ip'[0] = k + 1 /\ k + 1 \in 1..(NumMutex + 1) /\ held'[0] = {}
        /\ k + 1 \notin (NumMutex + 10)..(NumMutex + 13)
    BY <1>1, <1>4, <1>9, <1>10, <2>3
  <2>6. ASSUME NEW m \in Mutex PROVE bAvailable'[m] <=> m >= ip'[0] - 1
    <3>1. CASE m = k - 1
      <4>1. ~bAvailable'[m]
        BY <1>6, <2>3, <2>4, <3>1
      <4>2. ~(m >= ip'[0] - 1)
        BY <1>1, <1>10, <2>5, <3>1
      <4> QED  BY <4>1, <4>2
    <3>2. CASE m # k - 1
      <4>1. bAvailable'[m] = bAvailable[m]
        BY <1>6, <2>3, <2>4, <3>2
      <4>2. bAvailable[m] <=> m >= k - 1
        BY <2>1 DEF SysErrInv
      <4>3. (m >= k - 1) <=> (m >= ip'[0] - 1)
        BY <1>1, <1>10, <2>5, <3>2
      <4> QED  BY <4>1, <4>2, <4>3
    <3> QED  BY <3>1, <3>2
  <2>7. Code(0)[k + 1].do # "expect"
    BY <2>5, SysErrCode
  <2> HIDE DEF k
  <2> QED  BY <1>3, <2>5, <2>6, <2>7 DEF SysErrInv
<1>11. CASE k = NumMutex + 1
  <2>1. do = "create" /\ pc[0] # "found" /\ k + 1 = NumMutex + 2
    <3>1. k \in 1..(NumMutex + 1) /\ k \notin 1..NumMutex /\ k + 1 = NumMutex + 2
      BY <1>1, <1>11
    <3>2. do = "create"
      BY <3>1, SysErrCode
    <3>3. pc[0] # "found"
      BY <3>1 DEF SysErrInv
    <3> QED  BY <3>1, <3>2, <3>3
  <2>2. value' = -ENOMEM /\ held' = held /\ bAvailable' = bAvailable
    BY <1>5, <2>1 DEF CallEffect
  <2>3. errno' = ENOMEM
    <3>1. ENOMEM \in Int /\ ENOMEM > 0
      BY DEF ENOMEM
    <3>2. value' \in Int /\ value' < 0 /\ -value' = ENOMEM
      BY <2>2, <3>1
    <3>3. swi_errno("create", value') = -value'
      BY <3>2 DEF swi_errno
    <3> QED  BY <1>3, <2>1, <3>2, <3>3
  <2>4. held'[0] = IF k + 1 \in (NumMutex + 10)..(NumMutex + 13) THEN {0} ELSE {}
    BY <1>1, <1>9, <1>11, <2>2
  <2>5. Code(0)[k + 1].arg = ENOMEM
    BY <2>1, SysErrCode
  <2> QED  BY <1>1, <1>7, <1>8, <1>11, <2>2, <2>3, <2>4, <2>5
<1>12. ASSUME do \in {"lock", "unlock", "wait"}
       PROVE  errno' = value' /\ bAvailable' = bAvailable
  BY <1>3, <1>5, <1>12 DEF swi_errno, CallEffect
<1>13. ASSUME k >= NumMutex + 1, arg \in Mutex
       PROVE  ~InvalidMutex(arg)
  BY <1>8, <1>13 DEF InvalidMutex
<1>14. InvalidMutex(NumMutex)
  BY <1>1 DEF InvalidMutex
<1>15. CASE k \in {NumMutex + 3, NumMutex + 7}
  <2>1. do \in {"lock", "unlock"} /\ arg = NumMutex
    BY <1>15, SysErrCode
  <2>2. value' = EINVAL /\ held' = held
    BY <1>5, <1>14, <2>1 DEF CallEffect
  <2>3. k + 1 \in {NumMutex + 4, NumMutex + 8} /\ k >= NumMutex + 1 /\ k < NumMutex + 16
    BY <1>1, <1>15
  <2>4. Code(0)[k + 1].arg = EINVAL
    BY <2>3, SysErrCode
  <2>5. held'[0] = IF k + 1 \in (NumMutex + 10)..(NumMutex + 13) THEN {0} ELSE {}
    BY <1>1, <1>9, <1>15, <2>2
  <2> QED  BY <1>7, <1>8, <1>12, <2>1, <2>2, <2>3, <2>4, <2>5
<1>16. CASE k = NumMutex + 5
  <2>1. do = "unlock" /\ arg = 1 /\ k + 1 = NumMutex + 6 /\ k >= NumMutex + 1 /\ k < NumMutex + 16
    <3>1. do = "unlock" /\ arg = 1
      BY <1>16, SysErrCode
    <3>2. k + 1 = NumMutex + 6 /\ k >= NumMutex + 1 /\ k < NumMutex + 16
      BY <1>1, <1>16
    <3> QED  BY <3>1, <3>2
  <2>2. held[0] = {} /\ arg \in Mutex
    BY <1>1, <1>9, <1>16, <2>1
  <2>3. value' = EPERM /\ held' = held
    BY <1>5, <1>13, <2>1, <2>2 DEF CallEffect
  <2>4. Code(0)[k + 1].arg = EPERM
    BY <2>1, SysErrCode
  <2>5. held'[0] = IF k + 1 \in (NumMutex + 10)..(NumMutex + 13) THEN {0} ELSE {}
    BY <1>1, <1>16, <2>2, <2>3
  <2> QED  BY <1>7, <1>8, <1>12, <2>1, <2>3, <2>4, <2>5
<1>17. CASE k = NumMutex + 9
  <2>1. do = "lock" /\ arg = 0 /\ k + 1 = NumMutex + 10 /\ k >= NumMutex + 1 /\ k < NumMutex + 16
    <3>1. do = "lock" /\ arg = 0
      BY <1>17, SysErrCode
    <3>2. k + 1 = NumMutex + 10 /\ k >= NumMutex + 1 /\ k < NumMutex + 16
      BY <1>1, <1>17
    <3> QED  BY <3>1, <3>2
  <2>2. held[0] = {} /\ arg \in Mutex
    BY <1>1, <1>9, <1>17, <2>1
  <2>3. value' = 0 /\ held' = [held EXCEPT ![0] = @ \union {0}]
    BY <1>5, <1>13, <2>1, <2>2 DEF CallEffect
  <2>4. Code(0)[k + 1].arg = 0
    BY <2>1, SysErrCode
  <2>5. held'[0] = {0}
    BY <1>1, <1>6, <2>2, <2>3
  <2>6. k + 1 \in (NumMutex + 10)..(NumMutex + 13)
    BY <1>1, <1>17
  <2> QED  BY <1>7, <1>8, <1>12, <2>1, <2>3, <2>4, <2>5, <2>6
<1>18. CASE k = NumMutex + 11
  <2>1. do = "lock" /\ arg = 0 /\ k + 1 = NumMutex + 12 /\ k >= NumMutex + 1 /\ k < NumMutex + 16
    <3>1. do = "lock" /\ arg = 0
      BY <1>18, SysErrCode
    <3>2. k + 1 = NumMutex + 12 /\ k >= NumMutex + 1 /\ k < NumMutex + 16
      BY <1>1, <1>18
    <3> QED  BY <3>1, <3>2
  <2>2. held[0] = {0} /\ arg \in Mutex
    BY <1>1, <1>9, <1>18, <2>1
  <2>3. value' = EDEADLOCK /\ held' = held
    BY <1>5, <1>13, <2>1, <2>2 DEF CallEffect
  <2>4. Code(0)[k + 1].arg = EDEADLOCK
    BY <2>1, SysErrCode
  <2>5. k + 1 \in (NumMutex + 10)..(NumMutex + 13)
    BY <1>1, <1>18
  <2> QED  BY <1>7, <1>8, <1>12, <2>1, <2>2, <2>3, <2>4, <2>5
<1>19. CASE k = NumMutex + 13
  <2>1. do = "unlock" /\ arg = 0 /\ k + 1 = NumMutex + 14 /\ k >= NumMutex + 1 /\ k < NumMutex + 16
    <3>1. do = "unlock" /\ arg = 0
      BY <1>19, SysErrCode
    <3>2. k + 1 = NumMutex + 14 /\ k >= NumMutex + 1 /\ k < NumMutex + 16
      BY <1>1, <1>19
    <3> QED  BY <3>1, <3>2
  <2>2. held[0] = {0} /\ arg \in Mutex
    BY <1>1, <1>9, <1>19, <2>1
  <2>3. value' = 0 /\ held' = [held EXCEPT ![0] = @ \ {0}]
    BY <1>5, <1>13, <2>1, <2>2 DEF CallEffect
  <2>4. Code(0)[k + 1].arg = 0
    BY <2>1, SysErrCode
  <2>5. held'[0] = {}
    BY <1>1, <1>6, <2>2, <2>3
  <2>6. k + 1 \notin (NumMutex + 10)..(NumMutex + 13)
    BY <1>1, <1>19
  <2> QED  BY <1>7, <1>8, <1>12, <2>1, <2>3, <2>4, <2>5, <2>6
<1>20. CASE k = NumMutex + 15
  <2>1. do = "wait" /\ arg = NumDevices /\ k + 1 = NumMutex + 16 /\ k >= NumMutex + 1 /\ k < NumMutex + 16
    <3>1. do = "wait" /\ arg = NumDevices
      BY <1>20, SysErrCode
    <3>2. k + 1 = NumMutex + 16 /\ k >= NumMutex + 1 /\ k < NumMutex + 16
      BY <1>1, <1>20
    <3> QED  BY <3>1, <3>2
  <2>2. value' = EINVAL /\ held' = held
    BY <1>1, <1>5, <2>1 DEF CallEffect
  <2>3. Code(0)[k + 1].arg = EINVAL
    BY <2>1, SysErrCode
  <2>4. held'[0] = IF k + 1 \in (NumMutex + 10)..(NumMutex + 13) THEN {0} ELSE {}
    BY <1>1, <1>9, <1>20, <2>2
  <2> QED  BY <1>7, <1>8, <1>12, <2>1, <2>2, <2>3, <2>4
<1>21. do # "expect"
  BY <1>5 DEF CallEffect
<1>23. k \notin {NumMutex + 2, NumMutex + 4, NumMutex + 6, NumMutex + 8, NumMutex + 10,
                 NumMutex + 12, NumMutex + 14, NumMutex + 16}
  BY <1>21, SysErrCode
<1>24. k \in 1..NumMutex \/ k \in {NumMutex + 1, NumMutex + 3, NumMutex + 5, NumMutex + 7,
                                  NumMutex + 9, NumMutex + 11, NumMutex + 13, NumMutex + 15}
  <2>1. CASE k \in 1..NumMutex
    BY <2>1
  <2>2. ASSUME NEW j \in 1..16, k = NumMutex + j
        PROVE  j \in {1, 3, 5, 7, 9, 11, 13, 15}
    <3>1. j \notin {2, 4, 6, 8, 10, 12, 14, 16}
      BY <1>23, <2>2
    <3> QED  BY <3>1
  <2> QED  BY <1>2, <2>1, <2>2, SysErrPosition
<1> QED  BY <1>10, <1>11, <1>15, <1>16, <1>17, <1>18, <1>19, <1>20, <1>24

\* The other steps leave errno alone, for no other task of sys_err makes a call.
LEMMA SysErrStep ==
  ASSUME IndInv, ProgramTypes, CallInv, SysErrInv, [TasksNext]_allVars
  PROVE  SysErrInv'
<1> SUFFICES ASSUME program' = "sys_err" PROVE SysErrInv'
  BY DEF SysErrInv
<1>1. NumMutex \in Nat /\ NumMutex >= 2 /\ 0 \in Task /\ Mutex = 0..(NumMutex - 1)
  BY KernelMutexes, ProgramNames DEF Mutex
<1>2. CASE Inside
  <2>1. program = "sys_err" /\ UNCHANGED <<ip, errno, held, bAvailable>> /\ Code(0)' = Code(0) /\ FrameStep(0)
    BY <1>1, <1>2 DEF Inside, taskVars, Code
  <2>2. ASSUME pc'[0] = "found" PROVE ip[0] \in 1..NumMutex /\ obj'[0] = ip[0] - 1
    <3>1. CASE pc[0] = "found"
      BY <2>1, <2>2, <3>1 DEF FrameStep, SysErrInv
    <3>2. CASE pc[0] # "found"
      <4>1. /\ Code(0)[ip[0]].do = "create" /\ ip[0] \in 1..(NumMutex + 16)
            /\ obj'[0] \in Mutex /\ bAvailable[obj'[0]]
            /\ \A k \in Mutex : k < obj'[0] => ~bAvailable[k]
        BY <2>1, <2>2, <3>2, SysErrCode DEF FrameStep
      <4>2. ip[0] \in 1..(NumMutex + 1)
        BY <2>1, <4>1 DEF SysErrInv
      <4>3. \A m \in Mutex : bAvailable[m] <=> m >= ip[0] - 1
        BY <2>1, <4>2 DEF SysErrInv
      <4>4. obj'[0] >= ip[0] - 1 /\ ip[0] - 1 \in Mutex
        BY <1>1, <4>1, <4>2, <4>3
      <4>5. bAvailable[ip[0] - 1]
        <5>1. ip[0] - 1 >= ip[0] - 1
          BY <4>2, <1>1
        <5> QED  BY <4>3, <4>4, <5>1
      <4> QED  BY <1>1, <4>1, <4>2, <4>4, <4>5
    <3> QED  BY <3>1, <3>2
  <2> QED  BY <2>1, <2>2 DEF SysErrInv
<1>3. ASSUME NEW t \in Task, Returns(t) \/ Local(t)
      PROVE  SysErrInv'
  <2>1. program = "sys_err" /\ ip[t] \in 1..Len(Code(t))
    BY <1>3, Moves
  <2>2. t = 0
    <3>1. ip[t] # Spin
      BY <2>1 DEF Spin
    <3> QED  BY <2>1, <3>1 DEF SysErrInv
  <2>3. CASE Returns(t)
    BY <2>1, <2>2, <2>3, SysErrReturn
  <2>4. CASE Local(t)
    <3>1. Code(0)[ip[0]].do = "expect" /\ check_return
      <4>1. Code(0)[ip[0]].do \notin {"load", "store", "put"}
        BY <2>1, <2>2, SysErrCode
      <4> QED  BY <2>2, <2>4, <4>1 DEF Local, load, store, put, check_return, Doing
    <3>2. pc' = pc /\ obj' = obj /\ held' = held /\ bAvailable' = bAvailable /\ errno' = errno
          /\ pc[0] = "user" /\ \A u \in Task \ {0} : ip'[u] = ip[u]
      BY <2>2, <2>4, <3>1, Moves DEF Local, check_return, vars, frameVars, mutexVars
    <3>3. ip'[0] = IF ip[0] < NumMutex + 16 THEN ip[0] + 1 ELSE Spin
      <4>1. running = 0 /\ ip' = [ip EXCEPT ![0] = Following(0)] /\ ip \in [Task -> Int]
        BY <2>2, <2>4, <3>1 DEF Local, check_return, Advance, ProgramTypes
      <4>2. Len(Code(0)) = NumMutex + 16 /\ Loop(0) = Spin
        BY <1>1, <2>1, SysErrCode
      <4> QED  BY <1>1, <4>1, <4>2 DEF Following
    <3>4. ip[0] \in {NumMutex + 2, NumMutex + 4, NumMutex + 6, NumMutex + 8, NumMutex + 10,
                     NumMutex + 12, NumMutex + 14, NumMutex + 16}
      <4>1. ip[0] \in 1..(NumMutex + 16)
        BY <2>1, <2>2, SysErrCode
      <4>2. ip[0] \notin {NumMutex + 3, NumMutex + 5, NumMutex + 7, NumMutex + 9, NumMutex + 11,
                        NumMutex + 13, NumMutex + 15}
        BY <2>1, <3>1, SysErrCode
      <4>3. ip[0] \notin 1..(NumMutex + 1)
        BY <2>1, <3>1, SysErrCode
      <4>4. PICK j \in 1..16 : ip[0] = NumMutex + j
        <5>1. 1..NumMutex \subseteq 1..(NumMutex + 1)
          BY <1>1
        <5> QED  BY <4>1, <4>3, <5>1, SysErrPosition
      <4>5. j # 1
        <5>1. NumMutex + 1 \in 1..(NumMutex + 1)
          BY <1>1
        <5> QED  BY <4>3, <4>4, <5>1
      <4>6. j \notin {3, 5, 7, 9, 11, 13, 15}
        BY <4>2, <4>4
      <4>7. j \in {2, 4, 6, 8, 10, 12, 14, 16}
        BY <4>4, <4>5, <4>6
      <4> QED  BY <4>4, <4>7
    <3>5. /\ ip'[0] \notin 1..(NumMutex + 1) /\ ip[0] \notin 1..(NumMutex + 1)
          /\ ip'[0] \in (NumMutex + 10)..(NumMutex + 13) <=> ip[0] \in (NumMutex + 10)..(NumMutex + 13)
          /\ ip'[0] \in {NumMutex + 3, NumMutex + 5, NumMutex + 7, NumMutex + 9, NumMutex + 11,
                         NumMutex + 13, NumMutex + 15, Spin}
      <4>1. PICK j \in {2, 4, 6, 8, 10, 12, 14, 16} : ip[0] = NumMutex + j
        BY <3>4
      <4>2. CASE j = 16
        <5>1. ip[0] = NumMutex + 16 /\ ip'[0] = 0
          BY <1>1, <3>3, <4>1, <4>2 DEF Spin
        <5> QED  BY <1>1, <5>1 DEF Spin
      <4>3. CASE j # 16
        <5>0. j \in 2..14 /\ j \notin {9, 13}
          BY <4>1, <4>3
        <5>1. j \in 2..14 /\ j \notin {9, 13} /\ ip'[0] = NumMutex + (j + 1)
          <6>1. \A i \in 2..14, n \in Nat : n + i < n + 16 /\ n + i + 1 = n + (i + 1)
            OBVIOUS
          <6>2. ip[0] < NumMutex + 16 /\ ip[0] + 1 = NumMutex + (j + 1)
            BY <1>1, <4>1, <5>0, <6>1
          <6> QED  BY <3>3, <5>0, <6>2
        <5>2. j + 1 \in {3, 5, 7, 9, 11, 13, 15}
          BY <4>1, <4>3
        <5>3. ip'[0] \notin 1..(NumMutex + 1) /\ ip[0] \notin 1..(NumMutex + 1)
          BY <1>1, <4>1, <5>1
        <5>4. ip'[0] \in (NumMutex + 10)..(NumMutex + 13) <=> ip[0] \in (NumMutex + 10)..(NumMutex + 13)
          BY <1>1, <4>1, <5>1
        <5> QED  BY <5>1, <5>2, <5>3, <5>4
      <4> QED  BY <4>2, <4>3
    <3>6. ip'[0] \notin 1..Len(Code(0)) \/ Code(0)[ip'[0]].do # "expect"
      <4>1. CASE ip'[0] = Spin
        BY <1>1, <2>1, <4>1, SysErrCode DEF Spin
      <4>2. CASE ip'[0] # Spin
        <5>1. Code(0)[ip'[0]].do \in {"lock", "unlock", "wait"}
          BY <2>1, <3>5, <4>2, SysErrCode
        <5> QED  BY <5>1
      <4> QED  BY <4>1, <4>2
    <3>7. Code(0)' = Code(0)
      BY <2>1 DEF Code
    <3> QED  BY <2>1, <3>2, <3>5, <3>6, <3>7 DEF SysErrInv
  <2> QED  BY <1>3, <2>3, <2>4
<1>4. CASE UNCHANGED allVars
  BY <1>4 DEF allVars, vars, taskVars, frameVars, mutexVars, SysErrInv, Code
<1> QED  BY <1>2, <1>3, <1>4, StepOfTask

-----------------------------------------------------------------------------
(* The numbers of mutex_chaser *)

\* The tasks that have updated number m.
Done(m) == {t \in Task : ip[t] > 5 * m - 2}

\* v[k] is number m after k of its n updates, in the given order.
Explains(m, n, order, v) ==
    /\ Done(m) = {order[k] : k \in 1..n}
    /\ \A j, k \in 1..n : order[j] = order[k] => j = k
    /\ v[0] = init_val
    /\ \A k \in 1..n : v[k] = Update(order[k], v[k - 1])
    /\ mutex_val[m] = v[n]

\* A number is the result of one update by each task that is done with it, and
\* a task that has loaded it has its present value.
NumberInv ==
    program = "mutex_chaser" =>
        \A m \in 1..(NumMutex - 1) :
            /\ \A t \in Task : ip[t] = 5 * m - 2 => reg[t] = mutex_val[m]
            /\ \E n \in 0..4, order \in [1..4 -> Task], v \in [0..4 -> Int] : Explains(m, n, order, v)

\* No update has been made when the tasks are launched.
LEMMA InitNumber == TasksInit => NumberInv
<1> SUFFICES ASSUME TasksInit, program = "mutex_chaser", NEW m \in 1..(NumMutex - 1)
             PROVE  /\ \A t \in Task : ip[t] = 5 * m - 2 => reg[t] = mutex_val[m]
                    /\ \E n \in 0..4, order \in [1..4 -> Task], v \in [0..4 -> Int] : Explains(m, n, order, v)
  BY DEF NumberInv
<1>1. NumMutex \in Nat /\ m \in Mutex /\ m \in Int /\ m >= 1
  BY KernelMutexes
<1>2. \A t \in Task : ip[t] = 1
  <2>1. \A t \in Task : Code(t) # <<>>
    BY ChaserCode, KernelMutexes DEF ChaseEnd
  <2> QED  BY <2>1 DEF TasksInit
<1>3. Done(m) = {} /\ \A t \in Task : ip[t] # 5 * m - 2
  BY <1>1, <1>2 DEF Done
<1> DEFINE order == [k \in 1..4 |-> 0]
           v == [k \in 0..4 |-> init_val]
<1>4. order \in [1..4 -> Task] /\ v \in [0..4 -> Int] /\ v[0] = init_val
  BY ProgramNames DEF init_val
<1>5. mutex_val[m] = init_val
  BY <1>1 DEF TasksInit
<1>6. Explains(m, 0, order, v)
  BY <1>3, <1>4, <1>5 DEF Explains
<1> QED  BY <1>3, <1>4, <1>6

\* A store adds the update of its task: nobody else can have changed the number
\* since it was loaded, because its mutex is held from the load to the store.
LEMMA NumberStep ==
  ASSUME IndInv, ProgramTypes, CallInv, HeldInv, NumberInv, [TasksNext]_allVars
  PROVE  NumberInv'
<1> SUFFICES ASSUME program' = "mutex_chaser" PROVE NumberInv'
  BY DEF NumberInv
<1>1. CASE UNCHANGED taskVars
  BY <1>1 DEF taskVars, NumberInv, Explains, Done
<1>2. ASSUME NEW t \in Task, Returns(t) \/ Local(t)
      PROVE  NumberInv'
  <2>1. /\ program = "mutex_chaser" /\ ip[t] \in 1..Len(Code(t))
        /\ \A u \in Task \ {t} : ip'[u] = ip[u]
        /\ Len(Code(t)) = ChaseEnd /\ Loop(t) = ChaseEnd
        /\ program' = program
    BY <1>2, Moves, ChaserCode
  <2>2. ip'[t] = Following(t)
    <3>1. ip'[t] # Panic
      <4>1. ip'[t] \in 1..Len(Code(t))
        BY <2>1, HeldStep DEF HeldInv, Disciplined, Code
      <4> QED  BY <4>1 DEF Panic
    <3> QED  BY <1>2, <3>1, Moves
  <2>3. /\ NumMutex \in Nat /\ NumMutex >= 2 /\ ChaseEnd = 5 * (NumMutex - 1) + 1
        /\ ip[t] \in 1..ChaseEnd
    BY <2>1, KernelMutexes DEF ChaseEnd
  <2>4. ip'[t] = IF ip[t] < ChaseEnd THEN ip[t] + 1 ELSE ChaseEnd
    BY <2>1, <2>2 DEF Following
  <2>5. ASSUME NEW m \in 1..(NumMutex - 1)
        PROVE  /\ ip[t] # 5 * m - 2 => Done(m)' = Done(m)
               /\ ip[t] = 5 * m - 2 => Done(m)' = Done(m) \union {t} /\ t \notin Done(m)
               /\ ip'[t] = 5 * m - 2 => ip[t] = 5 * m - 3
    <3>1. m \in Int
      BY <2>3
    <3>2. /\ ip[t] # 5 * m - 2 => (ip'[t] > 5 * m - 2 <=> ip[t] > 5 * m - 2)
          /\ ip[t] = 5 * m - 2 => ip'[t] > 5 * m - 2 /\ ~(ip[t] > 5 * m - 2)
          /\ ip'[t] = 5 * m - 2 => ip[t] = 5 * m - 3
      BY <2>3, <2>4, <3>1
    <3> QED  BY <2>1, <3>2 DEF Done
  <2>6. CASE ~store
    <3>1. mutex_val' = mutex_val
      BY <1>2, <2>6 DEF Returns, Local, load, put, check_return
    <3>2. ASSUME NEW m \in 1..(NumMutex - 1)
          PROVE  ip[t] # 5 * m - 2
      <4>1. ASSUME ip[t] = 5 * m - 2 PROVE Code(t)[ip[t]].do = "store"
        <5>1. Code(t)[5 * m - 2] = I("store", m)
          BY <2>1, ChaserCode
        <5> QED  BY <4>1, <5>1 DEF I
      <4>2. Code(t)[ip[t]].do # "store"
        BY <1>2, <2>6 DEF Returns, CallEffect, Local, load, put, check_return, Doing
      <4> QED  BY <4>1, <4>2
    <3>3. ASSUME NEW m \in 1..(NumMutex - 1)
          PROVE  Done(m)' = Done(m)
      BY <2>5, <3>2
    <3>4. ASSUME NEW m \in 1..(NumMutex - 1), NEW u \in Task, ip'[u] = 5 * m - 2
          PROVE  reg'[u] = mutex_val[m]
      <4>1. CASE u = t
        <5>1. ip[t] = 5 * m - 3
          BY <2>5, <3>4, <4>1
        <5>2. Code(t)[ip[t]].do = "load" /\ Code(t)[ip[t]].arg = m
          <6>1. Code(t)[5 * m - 3] = I("load", m)
            BY <2>1, ChaserCode
          <6> QED  BY <5>1, <6>1 DEF I
        <5>3. load /\ running = t
          BY <1>2, <5>2, <2>6 DEF Returns, CallEffect, Local, put, check_return, Doing
        <5> QED  BY <4>1, <5>2, <5>3 DEF load, Arg, ProgramTypes
      <4>2. CASE u # t
        <5>1. reg'[u] = reg[u] /\ ip[u] = 5 * m - 2
          BY <1>2, <2>1, <2>6, <3>4, <4>2 DEF Returns, Local, load, put, check_return, ProgramTypes
        <5> QED  BY <2>1, <5>1 DEF NumberInv
      <4> QED  BY <4>1, <4>2
    <3>5. ASSUME NEW m \in 1..(NumMutex - 1)
          PROVE  \E n \in 0..4, order \in [1..4 -> Task], v \in [0..4 -> Int] : Explains(m, n, order, v)'
      <4>1. PICK n \in 0..4, order \in [1..4 -> Task], v \in [0..4 -> Int] : Explains(m, n, order, v)
        BY <2>1 DEF NumberInv
      <4>2. Explains(m, n, order, v)'
        BY <3>1, <3>3, <4>1 DEF Explains
      <4> QED  BY <4>2
    <3> QED  BY <3>1, <3>4, <3>5 DEF NumberInv
  <2>7. CASE store
    <3>1. running = t /\ Code(t)[ip[t]].do = "store"
      BY <1>2, <2>7 DEF Returns, Local, store, Doing
    <3>2. PICK m \in Mutex : m \in 1..(NumMutex - 1) /\ ip[t] = 5 * m - 2 /\ m = Code(t)[ip[t]].arg
      BY <2>1, <3>1, KindsOfCode, KernelMutexes DEF ProgramTypes
    <3>3. /\ mutex_val' = [mutex_val EXCEPT ![m] = Update(t, reg[t])]
          /\ reg' = [reg EXCEPT ![t] = 0]
      BY <2>7, <3>1, <3>2 DEF store, Arg
    <3>4. ASSUME NEW l \in 1..(NumMutex - 1), NEW u \in Task, ip'[u] = 5 * l - 2
          PROVE  u # t /\ l # m /\ ip[u] = 5 * l - 2
      <4>1. u # t
        <5>1. l \in Int /\ m \in Int
          BY <2>3, <3>2
        <5>2. ip'[t] = 5 * l - 2 => ip[t] = 5 * l - 3
          BY <2>5
        <5>3. 5 * l - 3 # 5 * m - 2
          BY <5>1
        <5> QED  BY <3>2, <3>4, <5>2, <5>3
      <4>2. ip[u] = 5 * l - 2
        BY <2>1, <3>4, <4>1
      <4>3. l # m
        <5> SUFFICES ASSUME l = m PROVE FALSE
          OBVIOUS
        <5>1. m \in Holds(t, ip[t]) /\ m \in Holds(u, ip[u])
          <6>1. m \in Int /\ 5 * m - 2 \in (5 * m - 3)..(5 * m - 1)
            BY <2>3, <3>2
          <6>2. ip[t] = 5 * m - 2 /\ ip[u] = 5 * m - 2
            BY <3>2, <4>2
          <6> QED  BY <2>1, <3>2, <6>1, <6>2 DEF Holds
        <5>2. m \in held[t] /\ m \in held[u]
          BY <2>1, <5>1 DEF HeldInv, Disciplined
        <5> QED  BY <3>2, <4>1, <5>2, Sets DEF IndInv, HolderInv
      <4> QED  BY <4>1, <4>2, <4>3
    <3>5. ASSUME NEW l \in 1..(NumMutex - 1), l # m
          PROVE  mutex_val'[l] = mutex_val[l] /\ Done(l)' = Done(l)
      <4>1. l \in Mutex /\ ip[t] # 5 * l - 2
        BY <2>3, <3>2, <3>5, KernelMutexes
      <4> QED  BY <2>5, <3>3, <3>5, <4>1 DEF ProgramTypes
    <3>6. ASSUME NEW l \in 1..(NumMutex - 1), NEW u \in Task, ip'[u] = 5 * l - 2
          PROVE  reg'[u] = mutex_val'[l]
      <4>1. reg'[u] = reg[u] /\ ip[u] = 5 * l - 2 /\ mutex_val'[l] = mutex_val[l]
        BY <3>3, <3>4, <3>5, <3>6 DEF ProgramTypes
      <4> QED  BY <2>1, <4>1 DEF NumberInv
    <3>7. ASSUME NEW l \in 1..(NumMutex - 1)
          PROVE  \E n \in 0..4, order \in [1..4 -> Task], v \in [0..4 -> Int] : Explains(l, n, order, v)'
      <4>1. PICK n \in 0..4, order \in [1..4 -> Task], v \in [0..4 -> Int] : Explains(l, n, order, v)
        BY <2>1 DEF NumberInv
      <4>2. CASE l # m
        <5>1. Explains(l, n, order, v)'
          BY <3>5, <4>1, <4>2 DEF Explains
        <5> QED  BY <5>1
      <4>3. CASE l = m
        <5>1. Done(m)' = Done(m) \union {t} /\ t \notin Done(m)
          <6>1. ip[t] = 5 * l - 2
            BY <3>2, <4>3
          <6>2. Done(l)' = Done(l) \union {t} /\ t \notin Done(l)
            BY <2>5, <6>1
          <6> QED  BY <4>3, <6>2
        <5>2. n < 4
          <6> SUFFICES ASSUME n = 4 PROVE FALSE
            OBVIOUS
          <6>1. t # order[1] /\ t # order[2] /\ t # order[3] /\ t # order[4]
            BY <4>1, <4>3, <5>1 DEF Explains
          <6>2. /\ order[1] # order[2] /\ order[1] # order[3] /\ order[1] # order[4]
                /\ order[2] # order[3] /\ order[2] # order[4] /\ order[3] # order[4]
            BY <4>1 DEF Explains
          <6>3. {t, order[1], order[2], order[3], order[4]} \subseteq {0, 1, 2, 3}
            BY ProgramNames
          <6> QED  BY <6>1, <6>2, <6>3
        <5>3. Update(t, v[n]) \in Int /\ n + 1 \in 0..4 /\ n + 1 \in 1..4
          BY <5>2, UpdateIsNumber
        <5>4. PICK order2 \in [1..4 -> Task], v2 \in [0..4 -> Int] :
                /\ order2 = [order EXCEPT ![n + 1] = t]
                /\ v2 = [v EXCEPT ![n + 1] = Update(t, v[n])]
          BY <5>3
        <5>5. /\ \A k \in 1..n : order2[k] = order[k] /\ v2[k] = v[k] /\ v2[k - 1] = v[k - 1]
              /\ order2[n + 1] = t /\ v2[n + 1] = Update(t, v[n]) /\ v2[n] = v[n] /\ v2[0] = v[0]
          BY <5>3, <5>4
        <5>6. mutex_val'[m] = Update(t, v[n])
          <6>1. reg[t] = mutex_val[m]
            BY <2>1, <3>2 DEF NumberInv
          <6>2. mutex_val[m] = v[n]
            BY <4>1, <4>3 DEF Explains
          <6> QED  BY <3>2, <3>3, <6>1, <6>2 DEF ProgramTypes
        <5>7. Done(m)' = {order2[k] : k \in 1..(n + 1)}
          <6>1. Done(m) = {order[k] : k \in 1..n}
            BY <4>1, <4>3 DEF Explains
          <6>2. \A k \in 1..(n + 1) : k \in 1..n \/ k = n + 1
            OBVIOUS
          <6>3. 1..n \subseteq 1..(n + 1) /\ n + 1 \in 1..(n + 1)
            OBVIOUS
          <6> QED  BY <5>1, <5>5, <6>1, <6>2, <6>3
        <5>8. ASSUME NEW j \in 1..(n + 1), NEW k \in 1..(n + 1), order2[j] = order2[k]
              PROVE  j = k
          <6>1. \A i \in 1..n : order2[i] # t /\ order2[i] = order[i]
            BY <4>1, <4>3, <5>1, <5>5 DEF Explains
          <6>2. CASE j \in 1..n /\ k \in 1..n
            BY <4>1, <5>8, <6>1, <6>2 DEF Explains
          <6>3. CASE j = n + 1 \/ k = n + 1
            <7>1. (j \in 1..n \/ j = n + 1) /\ (k \in 1..n \/ k = n + 1)
              OBVIOUS
            <7> QED  BY <5>5, <5>8, <6>1, <6>3, <7>1
          <6> QED  BY <6>2, <6>3
        <5>9. ASSUME NEW k \in 1..(n + 1)
              PROVE  v2[k] = Update(order2[k], v2[k - 1])
          <6>1. CASE k \in 1..n
            BY <4>1, <5>5, <6>1 DEF Explains
          <6>2. CASE k = n + 1
            <7>1. k - 1 = n
              BY <6>2
            <7> QED  BY <5>5, <6>2, <7>1
          <6> QED  BY <6>1, <6>2
        <5>10. Explains(l, n + 1, order2, v2)'
          <6>1. v2[0] = init_val
            BY <4>1, <5>5 DEF Explains
          <6>2. Done(l)' = {order2[k] : k \in 1..(n + 1)} /\ mutex_val'[l] = v2[n + 1]
            BY <4>3, <5>5, <5>6, <5>7
          <6> QED  BY <5>8, <5>9, <6>1, <6>2 DEF Explains
        <5> QED  BY <5>3, <5>4, <5>10
      <4> QED  BY <4>2, <4>3
    <3> QED  BY <3>6, <3>7 DEF NumberInv
  <2> QED  BY <2>6, <2>7
<1>3. CASE UNCHANGED allVars
  BY <1>1, <1>3 DEF allVars
<1>4. CASE Inside
  BY <1>1, <1>4 DEF Inside
<1> QED  BY <1>2, <1>3, <1>4, StepOfTask

-----------------------------------------------------------------------------
(* mutex_chaser on a processor that keeps up *)

\* The program is mutex_chaser, and all work is done between two ticks.
Keeping == program = "mutex_chaser" /\ prompt

\* At most one task is inside its code; the others have not started or have come
\* to rest in event_wait.  Nobody ever waits for a mutex, and a task on its way to
\* sleep is not released before it sleeps.
OneAtATime ==
    Keeping => \A t \in Task :
        /\ op[t] # "mutex_lock"
        /\ t # running => pc[t] = "resumed" \/ (pc[t] = "user" /\ ip[t] = 1)
        /\ pc[t] \in {"queued", "picked", "switching"} => t \notin runnable

\* An instruction of mutex_chaser is one of the five for a mutex, or a wait.
LEMMA ChaserInstruction ==
  ASSUME program = "mutex_chaser", NEW t \in Task, NEW k \in 1..ChaseEnd
  PROVE  /\ Code(t)[k].do = "wait" =>
               /\ Code(t)[k].arg = ChaserDevice(t)
               /\ k = ChaseEnd \/ \E m \in 1..(NumMutex - 1) : k = 5 * m
         /\ Code(t)[k].do # "wait" => \E m \in 1..(NumMutex - 1) :
               /\ Code(t)[k].arg = m
               /\ \/ k = 5 * m - 4 /\ Code(t)[k].do = "lock"
                  \/ k = 5 * m - 3 /\ Code(t)[k].do = "load"
                  \/ k = 5 * m - 2 /\ Code(t)[k].do = "store"
                  \/ k = 5 * m - 1 /\ Code(t)[k].do = "unlock"
<1>1. CASE k = ChaseEnd
  BY <1>1, ChaserCode
<1>2. CASE k # ChaseEnd
  <2>1. PICK m \in 1..(NumMutex - 1) : k \in (5 * m - 4)..(5 * m)
    BY <1>2, ChaserPosition
  <2>2. m \in Int /\ k \in Int
    BY <2>1, KernelMutexes DEF ChaseEnd
  <2>3. k = 5 * m - 4 \/ k = 5 * m - 3 \/ k = 5 * m - 2 \/ k = 5 * m - 1 \/ k = 5 * m
    BY <2>1, <2>2
  <2>4. /\ Code(t)[5 * m - 4] = I("lock", m)
        /\ Code(t)[5 * m - 3] = I("load", m)
        /\ Code(t)[5 * m - 2] = I("store", m)
        /\ Code(t)[5 * m - 1] = I("unlock", m)
        /\ Code(t)[5 * m].do = "wait" /\ Code(t)[5 * m].arg = ChaserDevice(t)
    BY <2>1, ChaserCode
  <2>5. CASE k = 5 * m
    BY <2>1, <2>4, <2>5
  <2>6. CASE k = 5 * m - 4 /\ Code(t)[k] = I("lock", m)
    BY <2>1, <2>6 DEF I
  <2>7. CASE k = 5 * m - 3 /\ Code(t)[k] = I("load", m)
    BY <2>1, <2>7 DEF I
  <2>8. CASE k = 5 * m - 2 /\ Code(t)[k] = I("store", m)
    BY <2>1, <2>8 DEF I
  <2>9. CASE k = 5 * m - 1 /\ Code(t)[k] = I("unlock", m)
    BY <2>1, <2>9 DEF I
  <2> QED  BY <2>3, <2>4, <2>5, <2>6, <2>7, <2>8, <2>9
<1> QED  BY <1>1, <1>2

\* A task of mutex_chaser that is blocked waits for its device at a wait.
LEMMA ChaserSleeper ==
  ASSUME IndInv, ProgramTypes, CallInv, HeldInv, OneAtATime, Keeping,
         NEW t \in Task, pc[t] \in Blocking
  PROVE  /\ WaitFrame(t) /\ obj[t] = ChaserDevice(t) /\ ChaserDevice(t) \in Device
         /\ ip[t] = ChaseEnd \/ \E m \in 1..(NumMutex - 1) : ip[t] = 5 * m
         /\ held[t] = {}
<1>1. WaitFrame(t)
  <2>1. t \in Thread /\ op[t] # "mutex_lock"
    BY Sets DEF OneAtATime
  <2> QED  BY <2>1 DEF IndInv, FrameInv, LockFrame
<1>2. /\ ip[t] \in 1..Len(Code(t)) /\ Code(t)[ip[t]].do = "wait"
      /\ Code(t)[ip[t]].arg \in Device /\ Code(t)[ip[t]].arg = obj[t]
  BY <1>1 DEF CallInv, WaitFrame, Blocking
<1>3. ip[t] \in 1..ChaseEnd
  BY <1>2, ChaserCode DEF Keeping
<1>4. Code(t)[ip[t]].arg = ChaserDevice(t) /\ (ip[t] = ChaseEnd \/ \E m \in 1..(NumMutex - 1) : ip[t] = 5 * m)
  BY <1>2, <1>3, ChaserInstruction DEF Keeping
<1>5. held[t] = {}
  <2>1. held[t] = Holds(t, ip[t])
    BY DEF HeldInv, Disciplined, Keeping
  <2>2. ASSUME NEW n \in 1..(NumMutex - 1) PROVE ip[t] \notin (5 * n - 3)..(5 * n - 1)
    <3>1. n \in Int /\ NumMutex \in Int /\ n <= NumMutex - 1
      BY KernelMutexes
    <3>2. CASE ip[t] = ChaseEnd
      BY <3>1, <3>2 DEF ChaseEnd
    <3>3. CASE \E m \in 1..(NumMutex - 1) : ip[t] = 5 * m
      <4>1. PICK m \in 1..(NumMutex - 1) : ip[t] = 5 * m
        BY <3>3
      <4>2. m \in Int
        BY <3>1
      <4> QED  BY <3>1, <4>1, <4>2
    <3> QED  BY <1>4, <3>2, <3>3
  <2> QED  BY <2>1, <2>2 DEF Holds, Keeping
<1> QED  BY <1>1, <1>2, <1>4, <1>5

\* A task that is not on the processor holds no mutex.
LEMMA ChaserHoldsNothing ==
  ASSUME IndInv, ProgramTypes, CallInv, HeldInv, OneAtATime, Keeping,
         NEW t \in Task, t # running
  PROVE  held[t] = {}
<1>1. CASE pc[t] = "resumed"
  BY <1>1, ChaserSleeper DEF Blocking
<1>2. CASE pc[t] = "user" /\ ip[t] = 1
  <2>1. held[t] = Holds(t, 1)
    BY <1>2 DEF HeldInv, Disciplined, Keeping
  <2>2. Holds(t, 1) = {}
    BY KernelMutexes DEF Holds, Keeping
  <2> QED  BY <2>1, <2>2
<1> QED  BY <1>1, <1>2 DEF OneAtATime

\* The running task has the highest priority of the runnable ones.
LEMMA NobodyAbove ==
  ASSUME IndInv, OneAtATime, Keeping, NEW t \in runnable
  PROVE  running <= t
<1>1. t \in Thread /\ running \in Thread
  BY DEF IndInv, TypeOK
<1>2. t \in Task => op[t] # "mutex_lock"
  BY DEF OneAtATime
<1>3. t \notin Task => t = IDLE_PRIO
  BY <1>1, Sets
<1>4. t < running => op[t] = "mutex_lock"
  BY DEF IndInv, RateMonotonic
<1>5. running <= IDLE_PRIO /\ running \in Nat /\ t \in Nat
  BY <1>1, Sets, ConstantsAssumption DEF Thread, IDLE_PRIO
<1> QED  BY <1>2, <1>3, <1>4, <1>5

\* Task t executes one of its four instructions for mutex m.
Works(t, m) ==
    /\ t = running /\ pc[t] = "user"
    /\ ip[t] \in (5 * m - 4)..(5 * m - 1)
    /\ ip' = [ip EXCEPT ![t] = ip[t] + 1]
    /\ mutex_val' = IF ip[t] = 5 * m - 2 THEN [mutex_val EXCEPT ![m] = Update(t, reg[t])]
                                         ELSE mutex_val
    /\ UNCHANGED <<pc, op, runnable, running, next_match, system_time>>

\* Task t goes one step further into event_wait.
FallsAsleep(t) ==
    /\ t = running
    /\ \A u \in Task \ {t} : pc'[u] = pc[u] /\ op'[u] = op[u]
    /\ op'[t] = "event_wait"
    /\ \/ /\ pc[t] = "user" /\ pc'[t] = "unlinked"
          /\ runnable' = runnable \ {t} /\ running' = running
       \/ /\ pc[t] \in {"unlinked", "queued", "picked"} /\ pc'[t] \in {"queued", "picked", "switching"}
          /\ t \notin runnable /\ runnable' = runnable /\ running' = running
       \/ /\ pc[t] = "switching" /\ pc'[t] = "resumed"
          /\ t \notin runnable /\ runnable' = runnable
    /\ UNCHANGED <<ip, mutex_val, next_match, system_time>>

\* Task t comes back from event_wait.
GoesOn(t) ==
    /\ t = running /\ pc[t] = "resumed" /\ t \in runnable
    /\ pc' = [pc EXCEPT ![t] = "user"]
    /\ op' = [op EXCEPT ![t] = "none"]
    /\ ip' = [ip EXCEPT ![t] = Following(t)]
    /\ UNCHANGED <<mutex_val, runnable, running, next_match, system_time>>

\* The timer interrupts the idle task, while everybody sleeps.
Ticks ==
    /\ \A t \in Task : pc[t] = "resumed" /\ t \notin runnable
    /\ TimerTick
    /\ UNCHANGED <<pc, op, ip, mutex_val>>

\* The timer waits until all tasks sleep.
LEMMA TimerOfChaser ==
  ASSUME IndInv, ProgramTypes, CallInv, HeldInv, OneAtATime, Keeping, timer
  PROVE  Ticks
<1>1. TimerTick /\ UNCHANGED <<pc, op, ip, mutex_val>> /\ Resting
  BY DEF timer, C_IRQ_Handler, C_IRQ_Handler_quiet, C_IRQ_Handler_dispatch, TimerTick, frameVars,
         taskVars, Keeping
<1>2. running = IDLE_PRIO
  <2> SUFFICES ASSUME running # IDLE_PRIO PROVE FALSE
    OBVIOUS
  <2>1. running \in Task
    BY Sets DEF IndInv, TypeOK
  <2>2. ip[running] \in 1..Len(Code(running))
    BY <2>1 DEF HeldInv, Disciplined, Keeping
  <2> QED  BY <1>1, <2>2 DEF Resting, Spin, Panic
<1>3. ASSUME NEW t \in Task PROVE pc[t] = "resumed" /\ t \notin runnable
  <2>1. t < IDLE_PRIO /\ t \in Thread /\ t # running
    BY <1>2, Sets, ConstantsAssumption DEF Task, IDLE_PRIO
  <2>2. t \notin runnable
    <3> SUFFICES ASSUME t \in runnable PROVE FALSE
      OBVIOUS
    <3>1. IDLE_PRIO <= t
      BY <1>2, NobodyAbove
    <3> QED  BY <2>1, <3>1, Sets, ConstantsAssumption DEF IDLE_PRIO
  <2>3. pc[t] # "user"
    BY <2>1, <2>2 DEF IndInv, ReadyInv
  <2> QED  BY <2>1, <2>2, <2>3 DEF OneAtATime
<1> QED  BY <1>1, <1>3 DEF Ticks

\* What a step of mutex_chaser is on a processor that keeps up: a mutex is always
\* free when it is asked for, so that nothing but event_wait blocks.
LEMMA StepOfChaser ==
  ASSUME IndInv, ProgramTypes, CallInv, HeldInv, OneAtATime, Keeping, TasksNext
  PROVE  \/ \E t \in Task, m \in 1..(NumMutex - 1) : Works(t, m)
         \/ \E t \in Task : FallsAsleep(t) \/ GoesOn(t)
         \/ Ticks
<1> USE DEF IndInv
<1>1. Task = Thread \ {IDLE_PRIO} /\ running \in Thread
  BY Sets DEF TypeOK
<1>2. ASSUME running # IDLE_PRIO, pc[running] # "switching"
      PROVE  running \in Task /\ cur_tcb = running
  BY <1>1, <1>2 DEF DispatchInv, OwnContext
<1>3. \A t \in Task : /\ Len(Code(t)) = ChaseEnd /\ Loop(t) = ChaseEnd
                       /\ ip[t] \in 1..ChaseEnd /\ held[t] = Holds(t, ip[t])
  BY ChaserCode DEF HeldInv, Disciplined, Keeping
<1>4. ASSUME NEW kind, Doing(kind)
      PROVE  /\ running \in Task /\ cur_tcb = running /\ pc[running] = "user"
             /\ Code(running)[ip[running]].do = kind /\ Arg = Code(running)[ip[running]].arg
  BY <1>2, <1>4 DEF Doing, At, Arg
<1>5. ASSUME NEW kind, Doing(kind), kind # "wait"
      PROVE  \E m \in 1..(NumMutex - 1) :
               /\ Arg = m
               /\ \/ ip[running] = 5 * m - 4 /\ kind = "lock"
                  \/ ip[running] = 5 * m - 3 /\ kind = "load"
                  \/ ip[running] = 5 * m - 2 /\ kind = "store"
                  \/ ip[running] = 5 * m - 1 /\ kind = "unlock"
  <2>1. /\ program = "mutex_chaser" /\ running \in Task /\ ip[running] \in 1..ChaseEnd
        /\ Code(running)[ip[running]].do = kind /\ Arg = Code(running)[ip[running]].arg
    BY <1>3, <1>4, <1>5 DEF Keeping
  <2>2. \E m \in 1..(NumMutex - 1) :
           /\ Code(running)[ip[running]].arg = m
           /\ \/ ip[running] = 5 * m - 4 /\ Code(running)[ip[running]].do = "lock"
              \/ ip[running] = 5 * m - 3 /\ Code(running)[ip[running]].do = "load"
              \/ ip[running] = 5 * m - 2 /\ Code(running)[ip[running]].do = "store"
              \/ ip[running] = 5 * m - 1 /\ Code(running)[ip[running]].do = "unlock"
    BY <1>5, <2>1, ChaserInstruction
  <2> QED  BY <2>1, <2>2
<1>6. ASSUME NEW m \in 1..(NumMutex - 1)
      PROVE  m \in Mutex /\ ~bAvailable[m] /\ ~InvalidMutex(m)
  <2>1. m \in Mutex /\ m < NumMutex
    BY KernelMutexes DEF Mutex
  <2>2. Program[program].created = NumMutex
    BY DEF Keeping, Program, mutex_chaser, Chasers
  <2> QED  BY <2>1, <2>2 DEF HeldInv, Disciplined, Keeping, InvalidMutex
<1>7. ASSUME NEW m \in Mutex
      PROVE  /\ pSleep_queue[m] = <<>>
             /\ pHolding_Tcb[m] \in Task => pHolding_Tcb[m] = running /\ m \in held[running]
  <2>1. \A t \in Task : op[t] # "mutex_lock"
    BY DEF OneAtATime
  <2>2. pHolding_Tcb[m] \in Task => m \in held[pHolding_Tcb[m]]
    BY <1>1, <2>1 DEF HolderInv
  <2>3. pHolding_Tcb[m] \in Task => pHolding_Tcb[m] = running
    BY <2>2, ChaserHoldsNothing
  <2>4. ASSUME pSleep_queue[m] # <<>> PROVE FALSE
    <3>1. pSleep_queue[m] \in Seq(Thread)
      BY DEF TypeOK
    <3>2. Head(pSleep_queue[m]) \in Range(pSleep_queue[m]) /\ Head(pSleep_queue[m]) \in Thread
      BY <2>4, <3>1, HeadInQueue
    <3>3. PICK t \in Thread : t \in Range(pSleep_queue[m])
      BY <3>2
    <3>4. op[t] = "mutex_lock" /\ pc[t] \in Blocking
      BY <3>3 DEF QueueInv
    <3>5. t # IDLE_PRIO
      BY <3>4 DEF ReadyInv, Blocking
    <3> QED  BY <1>1, <2>1, <3>4, <3>5
  <2> QED  BY <2>2, <2>3, <2>4
<1>8. ASSUME NEW m \in 1..(NumMutex - 1), running \in Task, pc[running] = "user",
             ip[running] \in (5 * m - 4)..(5 * m - 1), Advance,
             mutex_val' = IF ip[running] = 5 * m - 2
                          THEN [mutex_val EXCEPT ![m] = Update(running, reg[running])]
                          ELSE mutex_val,
             UNCHANGED <<pc, op, runnable, running, next_match, system_time>>
      PROVE  \E t \in Task, n \in 1..(NumMutex - 1) : Works(t, n)
  <2>1. ip[running] < ChaseEnd
    BY <1>8, KernelMutexes DEF ChaseEnd
  <2>2. Following(running) = ip[running] + 1
    BY <1>3, <1>8, <2>1 DEF Following
  <2>3. Works(running, m)
    BY <1>8, <2>2 DEF Works, Advance
  <2> QED  BY <1>8, <2>3
<1>9. CASE event_wait
  <2>1. running \in Task /\ Arg = ChaserDevice(running) /\ cur_tcb = running
    BY <1>3, <1>4, <1>9, ChaserInstruction DEF event_wait, Keeping
  <2>2. ChaserDevice(running) \in Device
    BY <2>1, ProgramNames, ProgramsAssumption DEF ChaserDevice, Device
  <2>3. dev_wait_remove(Arg) /\ AndReturn
    BY <1>9, <2>1, <2>2 DEF event_wait, event_wait_invalid
  <2>4. /\ pc' = [pc EXCEPT ![running] = "unlinked"] /\ op' = [op EXCEPT ![running] = "event_wait"]
        /\ runnable' = runnable \ {running} /\ running' = running
        /\ pc[running] = "user" /\ UNCHANGED <<next_match, system_time>>
    BY <2>1, <2>3 DEF dev_wait_remove, At, deviceVars
  <2>5. pc'[running] = "unlinked" /\ op'[running] = "event_wait"
        /\ \A u \in Task \ {running} : pc'[u] = pc[u] /\ op'[u] = op[u]
    BY <1>1, <2>1, <2>4 DEF TypeOK
  <2>6. UNCHANGED <<ip, mutex_val>>
    BY <2>3, <2>5 DEF AndReturn
  <2> QED  BY <2>1, <2>4, <2>5, <2>6 DEF FallsAsleep
<1>10. CASE mutex_create
  BY <1>5, <1>10 DEF mutex_create
<1>11. CASE mutex_lock
  <2>1. running \in Task /\ cur_tcb = running /\ pc[running] = "user"
    BY <1>4, <1>11 DEF mutex_lock
  <2>2. PICK m \in 1..(NumMutex - 1) : Arg = m /\ ip[running] = 5 * m - 4
    BY <1>5, <1>11 DEF mutex_lock
  <2>3. m \in Mutex /\ ~InvalidMutex(m)
    BY <1>6
  <2>4. m \notin held[running]
    <3>1. held[running] = Holds(running, ip[running])
      BY <1>3, <2>1
    <3>2. m \in Int
      BY KernelMutexes
    <3>3. ip[running] \notin (5 * m - 3)..(5 * m - 1)
      BY <2>2, <3>2
    <3> QED  BY <3>1, <3>3 DEF Holds, Keeping
  <2>5. pHolding_Tcb[m] \notin Task
    BY <1>7, <2>3, <2>4
  <2>6. ~bLock[m]
    BY <2>3, <2>5 DEF MutexInv
  <2>7. mutex_lock_free(m) /\ AndReturn /\ Doing("lock")
    BY <1>11, <2>1, <2>2, <2>3, <2>5, <2>6
       DEF mutex_lock, mutex_lock_invalid, mutex_lock_own, mutex_lock_blocked
  <2>8. UNCHANGED <<pc, op, runnable, running, next_match, system_time>> /\ value' = 0
    BY <2>7 DEF mutex_lock_free, TakeMutex, frameVars, schedVars, deviceVars
  <2>9. Advance /\ mutex_val' = mutex_val
    BY <2>1, <2>7, <2>8 DEF AndReturn, Return
  <2>10. ip[running] \in (5 * m - 4)..(5 * m - 1) /\ ip[running] # 5 * m - 2
    BY <2>2, KernelMutexes
  <2> QED  BY <1>8, <2>1, <2>8, <2>9, <2>10
<1>12. CASE mutex_unlock
  <2>1. running \in Task /\ cur_tcb = running /\ pc[running] = "user"
    BY <1>4, <1>12 DEF mutex_unlock
  <2>2. PICK m \in 1..(NumMutex - 1) : Arg = m /\ ip[running] = 5 * m - 1
    BY <1>5, <1>12 DEF mutex_unlock
  <2>3. m \in Mutex /\ ~InvalidMutex(m) /\ pSleep_queue[m] = <<>>
    BY <1>6, <1>7
  <2>4. pHolding_Tcb[m] = running
    <3>1. held[running] = Holds(running, ip[running])
      BY <1>3, <2>1
    <3>2. m \in Int
      BY KernelMutexes
    <3>3. ip[running] \in (5 * m - 3)..(5 * m - 1)
      BY <2>2, <3>2
    <3>4. m \in held[running]
      BY <3>1, <3>3 DEF Holds, Keeping
    <3> QED  BY <1>1, <2>3, <3>4 DEF HolderInv
  <2>5. mutex_unlock_free(m) /\ AndReturn /\ Doing("unlock")
    BY <1>12, <2>1, <2>2, <2>3, <2>4
       DEF mutex_unlock, mutex_unlock_invalid, mutex_unlock_not_owner, mutex_unlock_handoff
  <2>6. UNCHANGED <<pc, op, runnable, running, next_match, system_time>> /\ value' = 0
    BY <2>5 DEF mutex_unlock_free, GiveUp, frameVars, deviceVars
  <2>7. Advance /\ mutex_val' = mutex_val
    BY <2>1, <2>5, <2>6 DEF AndReturn, Return
  <2>8. ip[running] \in (5 * m - 4)..(5 * m - 1) /\ ip[running] # 5 * m - 2
    BY <2>2, KernelMutexes
  <2> QED  BY <1>8, <2>1, <2>6, <2>7, <2>8
<1>13. CASE load \/ store
  <2>1. running \in Task /\ pc[running] = "user"
    BY <1>4, <1>13 DEF load, store
  <2>2. UNCHANGED <<pc, op, runnable, running, next_match, system_time>> /\ Advance
    BY <1>13 DEF load, store, vars, frameVars, schedVars, deviceVars
  <2>3. PICK m \in 1..(NumMutex - 1) :
          /\ Arg = m
          /\ (load /\ ip[running] = 5 * m - 3) \/ (store /\ ip[running] = 5 * m - 2)
    BY <1>5, <1>13 DEF load, store
  <2>4. ip[running] \in (5 * m - 4)..(5 * m - 1) /\ 5 * m - 3 # 5 * m - 2
    BY <2>3, KernelMutexes
  <2>5. mutex_val' = IF ip[running] = 5 * m - 2
                     THEN [mutex_val EXCEPT ![m] = Update(running, reg[running])]
                     ELSE mutex_val
    BY <2>3, <2>4 DEF load, store
  <2> QED  BY <1>8, <2>1, <2>2, <2>4, <2>5
<1>14. CASE put \/ check_return
  BY <1>5, <1>14 DEF put, check_return
<1>15. CASE timer
  BY <1>15, TimerOfChaser
<1>16. CASE in_kernel
  <2>1. KernelStep /\ AndReturn
    BY <1>16 DEF in_kernel
  <2>2. running \in Task
    BY <1>1, <2>1 DEF KernelStep, dev_wait_link, event_wait_return, mutex_lock_return, mutex_create_grab,
                      dispatch, dispatch_pick, dispatch_set_cur, dispatch_switch, At
  <2>3. ~mutex_lock_return
    BY <2>2 DEF mutex_lock_return, OneAtATime
  <2>4. ~mutex_create_grab
    <3> SUFFICES ASSUME mutex_create_grab PROVE FALSE
      OBVIOUS
    <3>1. Code(running)[ip[running]].do = "create"
      BY <2>2 DEF mutex_create_grab, At, CallInv
    <3> QED  BY <1>3, <2>2, <3>1, ChaserInstruction DEF Keeping
  <2>5. CASE event_wait_return
    <3>1. /\ pc[running] = "resumed" /\ pc' = [pc EXCEPT ![running] = "user"]
          /\ op' = [op EXCEPT ![running] = "none"] /\ op[running] = "event_wait"
          /\ UNCHANGED <<runnable, running, next_match, system_time>>
      BY <2>5 DEF event_wait_return, ReturnToUser, At, schedVars, deviceVars
    <3>2. pc'[running] = "user" /\ running \in runnable
      BY <1>1, <3>1 DEF TypeOK, ReadyInv
    <3>3. Code(running)[ip[running]].do = "wait"
      BY <2>2, <3>1 DEF CallInv
    <3>4. Advance /\ mutex_val' = mutex_val
      BY <2>1, <3>2, <3>3 DEF AndReturn, Return, Checked
    <3>5. GoesOn(running)
      BY <3>1, <3>2, <3>4 DEF GoesOn, Advance
    <3> QED  BY <2>2, <3>5
  <2>6. ASSUME NEW p, pc' = [pc EXCEPT ![running] = p], p # "user", op' = op,
               pc[running] \in {"unlinked", "queued", "picked", "switching"}
        PROVE  /\ pc'[running] = p /\ op'[running] = "event_wait" /\ UNCHANGED <<ip, mutex_val>>
               /\ \A u \in Task \ {running} : pc'[u] = pc[u] /\ op'[u] = op[u]
               /\ running \notin runnable
    <3>1. pc'[running] = p /\ \A u \in Task \ {running} : pc'[u] = pc[u] /\ op'[u] = op[u]
      BY <1>1, <2>6 DEF TypeOK
    <3>2. UNCHANGED <<ip, mutex_val>>
      BY <2>1, <2>6, <3>1 DEF AndReturn
    <3>3. CASE pc[running] = "unlinked"
      <4>1. op[running] = "event_wait" /\ running \notin runnable
        BY <1>1, <3>3 DEF FrameInv
      <4> QED  BY <2>6, <3>1, <3>2, <4>1
    <3>4. CASE pc[running] \in {"queued", "picked", "switching"}
      <4>1. running \notin runnable
        BY <2>2, <3>4 DEF OneAtATime
      <4>2. WaitFrame(running)
        BY <2>2, <3>4, ChaserSleeper DEF Blocking
      <4> QED  BY <2>6, <3>1, <3>2, <4>1, <4>2 DEF WaitFrame
    <3> QED  BY <2>6, <3>3, <3>4
  <2>7. CASE dev_wait_link
    <3>1. /\ pc[running] = "unlinked" /\ pc' = [pc EXCEPT ![running] = "queued"] /\ op' = op
          /\ UNCHANGED <<runnable, running, next_match, system_time>>
      BY <2>7 DEF dev_wait_link, At, schedVars
    <3>2. FallsAsleep(running)
      BY <2>6, <3>1 DEF FallsAsleep
    <3> QED  BY <2>2, <3>2
  <2>8. CASE dispatch_pick
    <3>1. /\ pc[running] = "queued" /\ pc' = [pc EXCEPT ![running] = "picked"] /\ op' = op
          /\ UNCHANGED <<runnable, running, next_match, system_time>>
      BY <2>8 DEF dispatch_pick, At, schedVars, deviceVars
    <3>2. FallsAsleep(running)
      BY <2>6, <3>1 DEF FallsAsleep
    <3> QED  BY <2>2, <3>2
  <2>9. CASE dispatch_set_cur
    <3>1. /\ pc[running] = "picked" /\ pc' = [pc EXCEPT ![running] = "switching"] /\ op' = op
          /\ UNCHANGED <<runnable, running, next_match, system_time>>
      BY <2>9 DEF dispatch_set_cur, At, deviceVars
    <3>2. FallsAsleep(running)
      BY <2>6, <3>1 DEF FallsAsleep
    <3> QED  BY <2>2, <3>2
  <2>10. CASE dispatch_switch
    <3>1. /\ pc[running] = "switching" /\ pc' = [pc EXCEPT ![running] = "resumed"] /\ op' = op
          /\ UNCHANGED <<runnable, next_match, system_time>>
      BY <2>10 DEF dispatch_switch, At, deviceVars
    <3>2. FallsAsleep(running)
      BY <2>6, <3>1 DEF FallsAsleep
    <3> QED  BY <2>2, <3>2
  <2> QED  BY <2>1, <2>3, <2>4, <2>5, <2>7, <2>8, <2>9, <2>10 DEF KernelStep, dispatch
<1> QED  BY <1>9, <1>10, <1>11, <1>12, <1>13, <1>14, <1>15, <1>16 DEF TasksNext, TaskStep

\* The program and the speed of the processor are chosen once.
LEMMA ProgramStays ==
  ASSUME [TasksNext]_allVars
  PROVE  UNCHANGED <<program, prompt>>
  BY DEF TasksNext, TaskStep, event_wait, mutex_create, mutex_lock, mutex_unlock, in_kernel,
         AndReturn, load, store, put, check_return, timer, taskVars, allVars

\* Every step preserves it.
LEMMA OneAtATimeStep ==
  ASSUME IndInv, ProgramTypes, CallInv, HeldInv, OneAtATime, [TasksNext]_allVars
  PROVE  OneAtATime'
<1>1. UNCHANGED <<program, prompt>>
  BY ProgramStays
<1> SUFFICES ASSUME Keeping, TasksNext PROVE OneAtATime'
  BY <1>1 DEF OneAtATime, Keeping, allVars, vars, taskVars, schedVars, frameVars
<1> USE DEF OneAtATime
<1>0. Task \subseteq Thread /\ pc \in [Thread -> Point] /\ ip \in [Task -> Int]
      /\ DOMAIN op = Thread
  BY Sets DEF IndInv, TypeOK, ProgramTypes
<1>2. ASSUME NEW t \in Task, NEW m \in 1..(NumMutex - 1), Works(t, m) PROVE OneAtATime'
  BY <1>0, <1>2 DEF Works
<1>3. ASSUME NEW t \in Task, FallsAsleep(t) PROVE OneAtATime'
  BY <1>0, <1>3 DEF FallsAsleep
<1>4. ASSUME NEW t \in Task, GoesOn(t) PROVE OneAtATime'
  BY <1>0, <1>4 DEF GoesOn
<1>5. CASE Ticks
  BY <1>5 DEF Ticks
<1> QED  BY <1>2, <1>3, <1>4, <1>5, StepOfChaser

\* The period of task t of mutex_chaser.
Period(t) == DevFreq[ChaserDevice(t)]

\* The tasks have periods, and a higher priority means a period that is no longer:
\* the order into which task_create sorts them (proc.c:95-103), by the periods that
\* device.c:45 gives the devices and mutex_chaser.c:163-186 the tasks.
PeriodsInOrder ==
    \A t \in Task : Period(t) > 0 /\ \A u \in Task : u < t => Period(u) <= Period(t)

\* Task t was released by its device and has not come back from event_wait.
Released(t) == pc[t] = "resumed" /\ t \in runnable

\* Task t is in the period in which it works on mutex m.
InRound(t, m) == IF Released(t) THEN ip[t] = 5 * (m - 1) ELSE ip[t] \in (5 * m - 4)..(5 * m)

\* The ticks since the launch, by the rounds of task t and the clock of its device.
Elapsed(t, m) == m * Period(t) - TicksLeft(ChaserDevice(t))

\* All tasks agree how much time has passed: nobody has missed a signal.
ElapsedInv ==
    Keeping => \A t, u \in Task, m, n \in 1..(NumMutex - 1) :
        InRound(t, m) /\ InRound(u, n) => Elapsed(t, m) = Elapsed(u, n)

\* What the arguments about time need of the constants.
LEMMA PeriodOfTask ==
  ASSUME PeriodsInOrder, NEW t \in Task
  PROVE  ChaserDevice(t) \in Device /\ Period(t) \in 1..(TimeMod - 1)
<1>1. ChaserDevice(t) \in Device
  BY ProgramNames, ProgramsAssumption DEF ChaserDevice, Device
<1>2. Period(t) \in Nat /\ Period(t) < TimeMod
  BY <1>1, FrequencyAssumption DEF Period, Device
<1>3. Period(t) > 0
  BY DEF PeriodsInOrder
<1> QED  BY <1>1, <1>2, <1>3, Sets

\* Time passes for all tasks alike: a step of a task takes none, a tick takes one.
LEMMA TimePasses ==
  ASSUME IndInv, ProgramTypes, CallInv, HeldInv, OneAtATime, Keeping, TasksNext,
         PeriodsInOrder, SignalAhead
  PROVE  \E c \in {0, 1} : \A t \in Task, m \in 1..(NumMutex - 1) :
             InRound(t, m)' => \E n \in 1..(NumMutex - 1) :
                 InRound(t, n) /\ Elapsed(t, m)' = Elapsed(t, n) + c
<1>1. Task \subseteq Thread /\ pc \in [Thread -> Point] /\ ip \in [Task -> Int]
      /\ running \in Thread
  BY Sets DEF IndInv, TypeOK, ProgramTypes
<1>2. \A t \in Task, m \in 1..(NumMutex - 1) :
         /\ ChaserDevice(t) \in Device /\ Period(t) \in 1..(TimeMod - 1)
         /\ TicksLeft(ChaserDevice(t)) \in 1..Period(t)
         /\ Elapsed(t, m) \in Int
  <2> SUFFICES ASSUME NEW t \in Task, NEW m \in 1..(NumMutex - 1)
               PROVE  /\ ChaserDevice(t) \in Device /\ Period(t) \in 1..(TimeMod - 1)
                      /\ TicksLeft(ChaserDevice(t)) \in 1..Period(t)
                      /\ Elapsed(t, m) \in Int
    OBVIOUS
  <2>1. ChaserDevice(t) \in Device /\ Period(t) \in 1..(TimeMod - 1)
    BY PeriodOfTask
  <2>2. TicksLeft(ChaserDevice(t)) \in 1..Period(t)
    BY <2>1 DEF SignalAhead, TicksLeft, Period
  <2>3. m \in Int /\ Period(t) \in Int /\ TicksLeft(ChaserDevice(t)) \in Int
    BY <2>1, <2>2, Sets
  <2> QED  BY <2>1, <2>2, <2>3 DEF Elapsed
<1>3. ASSUME UNCHANGED <<next_match, system_time>>,
             \A t \in Task, m \in 1..(NumMutex - 1) : InRound(t, m)' => InRound(t, m)
      PROVE  \A t \in Task, m \in 1..(NumMutex - 1) :
             InRound(t, m)' => \E n \in 1..(NumMutex - 1) :
                 InRound(t, n) /\ Elapsed(t, m)' = Elapsed(t, n) + 0
  <2> SUFFICES ASSUME NEW t \in Task, NEW m \in 1..(NumMutex - 1), InRound(t, m)'
               PROVE  InRound(t, m) /\ Elapsed(t, m)' = Elapsed(t, m) + 0
    OBVIOUS
  <2>1. Elapsed(t, m)' = Elapsed(t, m)
    BY <1>3 DEF Elapsed, TicksLeft
  <2> QED  BY <1>2, <1>3, <2>1
<1>4. ASSUME NEW t \in Task, NEW n \in 1..(NumMutex - 1), Works(t, n)
      PROVE  \A u \in Task, m \in 1..(NumMutex - 1) : InRound(u, m)' => InRound(u, m)
  <2> SUFFICES ASSUME NEW u \in Task, NEW m \in 1..(NumMutex - 1), InRound(u, m)' PROVE InRound(u, m)
    OBVIOUS
  <2>1. Released(u)' = Released(u)
    BY <1>4 DEF Works, Released
  <2>2. CASE u # t
    <3>1. ip'[u] = ip[u]
      BY <1>1, <1>4, <2>2 DEF Works
    <3> QED  BY <2>1, <3>1 DEF InRound
  <2>3. CASE u = t
    <3>1. ~Released(t) /\ ip'[t] = ip[t] + 1 /\ ip[t] \in (5 * n - 4)..(5 * n - 1)
      BY <1>1, <1>4 DEF Works, Released
    <3>2. ip[t] + 1 \in (5 * m - 4)..(5 * m)
      BY <2>1, <2>3, <3>1 DEF InRound
    <3>3. m \in Int /\ n \in Int
      BY KernelMutexes
    <3>4. ip[t] \in (5 * m - 4)..(5 * m)
      BY <3>1, <3>2, <3>3
    <3> QED  BY <2>3, <3>1, <3>4 DEF InRound
  <2> QED  BY <2>2, <2>3
<1>5. ASSUME NEW t \in Task, FallsAsleep(t)
      PROVE  \A u \in Task, m \in 1..(NumMutex - 1) : InRound(u, m)' => InRound(u, m)
  <2>1. \A u \in Task : Released(u)' <=> Released(u)
    <3>1. ~Released(t) /\ ~Released(t)'
      BY <1>5 DEF FallsAsleep, Released
    <3>2. ASSUME NEW u \in Task, u # t PROVE Released(u)' <=> Released(u)
      <4>1. pc'[u] = pc[u]
        BY <1>5, <3>2 DEF FallsAsleep
      <4>2. u \in runnable' <=> u \in runnable
        BY <1>5, <3>2 DEF FallsAsleep
      <4> QED  BY <4>1, <4>2 DEF Released
    <3> QED  BY <3>1, <3>2
  <2>2. ip' = ip
    BY <1>5 DEF FallsAsleep
  <2> QED  BY <2>1, <2>2 DEF InRound
<1>6. ASSUME NEW t \in Task, GoesOn(t)
      PROVE  \A u \in Task, m \in 1..(NumMutex - 1) : InRound(u, m)' => InRound(u, m)
  <2> SUFFICES ASSUME NEW u \in Task, NEW m \in 1..(NumMutex - 1), InRound(u, m)' PROVE InRound(u, m)
    OBVIOUS
  <2>2. CASE u # t
    <3>1. ip'[u] = ip[u] /\ Released(u)' = Released(u)
      BY <1>1, <1>6, <2>2 DEF GoesOn, Released
    <3> QED  BY <3>1 DEF InRound
  <2>3. CASE u = t
    <3>1. Released(t) /\ ~Released(t)' /\ ip'[t] = Following(t)
      BY <1>1, <1>6 DEF GoesOn, Released
    <3>2. Following(t) \in (5 * m - 4)..(5 * m)
      BY <2>3, <3>1 DEF InRound
    <3>3. ip[t] = ChaseEnd \/ \E k \in 1..(NumMutex - 1) : ip[t] = 5 * k
      BY <3>1, ChaserSleeper DEF Released, Blocking
    <3>4. Following(t) = IF ip[t] < ChaseEnd THEN ip[t] + 1 ELSE ChaseEnd
      BY ChaserCode DEF Following, Keeping
    <3>5. m \in Int /\ NumMutex \in Int /\ m <= NumMutex - 1 /\ ChaseEnd = 5 * (NumMutex - 1) + 1
      BY KernelMutexes DEF ChaseEnd
    <3>6. CASE ip[t] = ChaseEnd
      BY <3>2, <3>4, <3>5, <3>6
    <3>7. CASE \E k \in 1..(NumMutex - 1) : ip[t] = 5 * k
      <4>1. PICK k \in 1..(NumMutex - 1) : ip[t] = 5 * k
        BY <3>7
      <4>2. ip[t] = 5 * (m - 1)
        BY <3>2, <3>4, <3>5, <4>1
      <4> QED  BY <2>3, <3>1, <4>2 DEF InRound
    <3> QED  BY <3>3, <3>6, <3>7
  <2> QED  BY <2>2, <2>3
<1>7. ASSUME Ticks, NEW t \in Task, NEW m \in 1..(NumMutex - 1), InRound(t, m)'
      PROVE  \E n \in 1..(NumMutex - 1) : InRound(t, n) /\ Elapsed(t, m)' = Elapsed(t, n) + 1
  <2>1. /\ pc[t] = "resumed" /\ t \notin runnable /\ TimerTick /\ pc' = pc /\ ip' = ip
        /\ ~Released(t)
    BY <1>7 DEF Ticks, Released
  <2>2. PICK d \in Device, P \in Int, L \in Int :
            d = ChaserDevice(t) /\ P = Period(t) /\ L = TicksLeft(d) /\ L \in 1..P /\ DevFreq[d] = P
    BY <1>2 DEF Period
  <2>3. /\ WaitFrame(t) /\ obj[t] = d
        /\ ip[t] = ChaseEnd \/ \E k \in 1..(NumMutex - 1) : ip[t] = 5 * k
    BY <2>1, <2>2, ChaserSleeper DEF Blocking
  <2>4. t \in Range(sleep_queue[d])
    BY <2>1, <2>3 DEF WaitFrame
  <2>5. t \in runnable' <=> next_match[d] = system_time'
    <3>1. t \in runnable' <=> \E e \in Device : next_match[e] = system_time' /\ t \in Range(sleep_queue[e])
      BY <2>1 DEF TimerTick, Woken, Matching
    <3>2. \A e \in Device : t \in Range(sleep_queue[e]) => e = d
      BY <2>3 DEF IndInv, QueueInv
    <3> QED  BY <2>4, <3>1, <3>2
  <2>6. /\ next_match[d] = system_time' => L = 1 /\ TicksLeft(d)' = P
        /\ next_match[d] # system_time' => TicksLeft(d)' = L - 1
    <3>1. next_match \in [Device -> 0..(TimeMod - 1)] /\ system_time \in 0..(TimeMod - 1)
      BY DEF IndInv, TypeOK
    <3>2. DevFreq[d] > 0 /\ TicksLeft(d) \in 1..DevFreq[d]
      BY <2>2
    <3> QED  BY <2>1, <2>2, <3>1, <3>2, TickBringsSignal
  <2>7. m \in Int /\ NumMutex \in Int /\ m >= 1 /\ m <= NumMutex - 1 /\ ChaseEnd = 5 * (NumMutex - 1) + 1
    BY KernelMutexes DEF ChaseEnd
  <2>8. Elapsed(t, m)' = m * P - TicksLeft(d)'
    BY <2>2 DEF Elapsed, Period
  <2>9. \A n : Elapsed(t, n) = n * P - L
    BY <2>2 DEF Elapsed
  <2>10. CASE next_match[d] = system_time'
    <3>1. ip[t] = 5 * (m - 1)
      BY <1>7, <2>1, <2>5, <2>10 DEF InRound, Released
    <3>2. m - 1 \in 1..(NumMutex - 1)
      BY <2>3, <2>7, <3>1
    <3>3. InRound(t, m - 1)
      <4>1. ip[t] \in (5 * (m - 1) - 4)..(5 * (m - 1))
        BY <2>7, <3>1
      <4> QED  BY <2>1, <4>1 DEF InRound
    <3>4. m * P - P = (m - 1) * P - 1 + 1
      BY <2>2, <2>7
    <3>5. Elapsed(t, m)' = Elapsed(t, m - 1) + 1
      BY <2>6, <2>8, <2>9, <2>10, <3>4
    <3> QED  BY <3>2, <3>3, <3>5
  <2>11. CASE next_match[d] # system_time'
    <3>1. ~Released(t)'
      BY <2>5, <2>11 DEF Released
    <3>2. InRound(t, m)
      BY <1>7, <2>1, <3>1 DEF InRound
    <3>3. m * P - (L - 1) = m * P - L + 1
      <4>1. \A x, y \in Int : x - (y - 1) = x - y + 1
        OBVIOUS
      <4>2. m * P \in Int
        BY <2>2, <2>7
      <4> QED  BY <2>2, <4>1, <4>2
    <3>4. Elapsed(t, m)' = Elapsed(t, m) + 1
      BY <2>6, <2>8, <2>9, <2>11, <3>3
    <3> QED  BY <3>2, <3>4
  <2> QED  BY <2>10, <2>11
<1>8. CASE UNCHANGED <<next_match, system_time>> /\
           \A t \in Task, m \in 1..(NumMutex - 1) : InRound(t, m)' => InRound(t, m)
  BY <1>3, <1>8
<1>9. CASE Ticks
  BY <1>7, <1>9
<1> QED
  <2>1. ASSUME NEW t \in Task, NEW n \in 1..(NumMutex - 1), Works(t, n) PROVE UNCHANGED <<next_match, system_time>>
    BY <2>1 DEF Works
  <2>2. ASSUME NEW t \in Task, FallsAsleep(t) \/ GoesOn(t) PROVE UNCHANGED <<next_match, system_time>>
    BY <2>2 DEF FallsAsleep, GoesOn
  <2> QED  BY <1>4, <1>5, <1>6, <1>8, <1>9, <2>1, <2>2, StepOfChaser

\* Every step preserves the agreement.
LEMMA ElapsedStep ==
  ASSUME IndInv, ProgramTypes, CallInv, HeldInv, OneAtATime, SignalAhead, PeriodsInOrder,
         ElapsedInv, [TasksNext]_allVars
  PROVE  ElapsedInv'
<1>1. CASE UNCHANGED allVars
  BY <1>1 DEF allVars, vars, taskVars, schedVars, frameVars, deviceVars, ElapsedInv, Keeping,
              InRound, Released, Elapsed, TicksLeft
<1>2. CASE TasksNext
  <2> SUFFICES ASSUME Keeping', NEW t \in Task, NEW u \in Task,
                      NEW m \in 1..(NumMutex - 1), NEW n \in 1..(NumMutex - 1),
                      InRound(t, m)', InRound(u, n)'
               PROVE  Elapsed(t, m)' = Elapsed(u, n)'
    BY DEF ElapsedInv
  <2>1. Keeping
    BY <1>2, ProgramStays DEF Keeping
  <2>2. PICK c \in {0, 1} : \A v \in Task, k \in 1..(NumMutex - 1) :
             InRound(v, k)' => \E j \in 1..(NumMutex - 1) :
                 InRound(v, j) /\ Elapsed(v, k)' = Elapsed(v, j) + c
    BY <1>2, <2>1, TimePasses
  <2>3. PICK i \in 1..(NumMutex - 1) : InRound(t, i) /\ Elapsed(t, m)' = Elapsed(t, i) + c
    BY <2>2
  <2>4. PICK j \in 1..(NumMutex - 1) : InRound(u, j) /\ Elapsed(u, n)' = Elapsed(u, j) + c
    BY <2>2
  <2>5. Elapsed(t, i) = Elapsed(u, j)
    BY <2>1, <2>3, <2>4 DEF ElapsedInv
  <2> QED  BY <2>3, <2>4, <2>5
<1> QED  BY <1>1, <1>2

\* In the same time, the task with the shorter period is in no earlier round.
LEMMA NoEarlierRound ==
  ASSUME NEW P \in Int, NEW Q \in Int, NEW K \in Int, NEW L \in Int, NEW k \in Int, NEW m \in Int,
         0 < P, P <= Q, 1 <= K, L <= Q, 1 <= m, k * P - K = m * Q - L
  PROVE  m <= k
<1> SUFFICES ASSUME k <= m - 1 PROVE FALSE
  OBVIOUS
<1>1. \A a, b, c \in Int : a <= b /\ 0 <= c => a * c <= b * c
  OBVIOUS
<1>2. k * P <= (m - 1) * P
  BY <1>1
<1>3. (m - 1) * P <= (m - 1) * Q
  <2>1. P * (m - 1) <= Q * (m - 1)
    BY <1>1
  <2> QED  BY <2>1
<1>4. (m - 1) * Q = m * Q - Q
  OBVIOUS
<1>5. ASSUME NEW x \in Int, NEW y \in Int, NEW z \in Int, NEW w \in Int,
             x <= y, y <= z, z = w - Q, x - K = w - L
      PROVE  FALSE
  BY <1>5
<1> QED  BY <1>2, <1>3, <1>4, <1>5

\* The number after the updates of the first n tasks.
Partial(n) ==
    <<init_val, init_val + fun1_opval, (init_val + fun1_opval) * fun2_opval,
      (init_val + fun1_opval) * fun2_opval - fun3_opval, result_val>>[n + 1]

\* The tasks update each number in the order of their priorities.
OrderInv ==
    Keeping => \A m \in 1..(NumMutex - 1) :
        \E n \in 0..4 : Done(m) = 0..(n - 1) /\ mutex_val[m] = Partial(n)

\* The task that updates a number comes after all tasks of higher priority.
LEMMA HigherDoneBefore ==
  ASSUME IndInv, ProgramTypes, CallInv, HeldInv, OneAtATime, Keeping, SignalAhead, PeriodsInOrder,
         ElapsedInv, NEW t \in Task, NEW m \in 1..(NumMutex - 1),
         t = running, pc[t] = "user", ip[t] = 5 * m - 2, NEW u \in Task, u < t
  PROVE  u \in Done(m)
<1>1. m \in Int /\ NumMutex \in Int /\ 1 <= m /\ m <= NumMutex - 1 /\ ChaseEnd = 5 * (NumMutex - 1) + 1
      /\ t \in Int /\ u \in Int
  BY KernelMutexes, ProgramNames DEF ChaseEnd
<1>2. u \notin runnable /\ u # running
  BY <1>1, NobodyAbove
<1>3. pc[u] = "resumed"
  BY <1>2, Sets DEF OneAtATime, IndInv, ReadyInv
<1>4. ip[u] = ChaseEnd \/ \E k \in 1..(NumMutex - 1) : ip[u] = 5 * k
  BY <1>3, ChaserSleeper DEF Blocking
<1>5. CASE ip[u] = ChaseEnd
  <2>1. ip[u] > 5 * m - 2
    BY <1>1, <1>5
  <2> QED  BY <2>1 DEF Done
<1>6. CASE \E k \in 1..(NumMutex - 1) : ip[u] = 5 * k
  <2>1. PICK k \in 1..(NumMutex - 1) : ip[u] = 5 * k
    BY <1>6
  <2>2. k \in Int
    BY <1>1
  <2>3. InRound(u, k)
    <3>1. ip[u] \in (5 * k - 4)..(5 * k)
      BY <2>1, <2>2
    <3> QED  BY <1>2, <3>1 DEF InRound, Released
  <2>4. InRound(t, m)
    <3>1. ip[t] \in (5 * m - 4)..(5 * m)
      BY <1>1
    <3> QED  BY <3>1 DEF InRound, Released
  <2>5. Elapsed(u, k) = Elapsed(t, m)
    BY <2>3, <2>4 DEF ElapsedInv
  <2>6. \A v \in Task : Period(v) \in Int /\ TicksLeft(ChaserDevice(v)) \in 1..Period(v) /\ 0 < Period(v)
    <3> SUFFICES ASSUME NEW v \in Task
                 PROVE  Period(v) \in Int /\ TicksLeft(ChaserDevice(v)) \in 1..Period(v) /\ 0 < Period(v)
      OBVIOUS
    <3>1. ChaserDevice(v) \in Device /\ Period(v) \in 1..(TimeMod - 1)
      BY PeriodOfTask
    <3>2. TicksLeft(ChaserDevice(v)) \in 1..Period(v)
      BY <3>1 DEF SignalAhead, TicksLeft, Period
    <3> QED  BY <3>1, <3>2, Sets
  <2>7. Period(u) <= Period(t)
    BY DEF PeriodsInOrder
  <2>8. PICK P \in Int, Q \in Int, K \in Int, L \in Int :
          /\ P = Period(u) /\ Q = Period(t)
          /\ K = TicksLeft(ChaserDevice(u)) /\ L = TicksLeft(ChaserDevice(t))
    BY <2>6
  <2>9. 0 < P /\ P <= Q /\ 1 <= K /\ L <= Q /\ k * P - K = m * Q - L
    BY <2>5, <2>6, <2>7, <2>8 DEF Elapsed
  <2>10. m <= k
    BY <1>1, <2>2, <2>9, NoEarlierRound
  <2>11. ip[u] > 5 * m - 2
    BY <1>1, <2>1, <2>2, <2>10
  <2> QED  BY <2>11 DEF Done
<1> QED  BY <1>4, <1>5, <1>6

\* The update of task n turns one partial result into the next.
LEMMA PartialStep ==
  ASSUME NEW n \in Task
  PROVE  Update(n, Partial(n)) = Partial(n + 1)
<1> USE DEF Update, Partial, result_val
<1>1. CASE n = 0  BY <1>1
<1>2. CASE n = 1  BY <1>2
<1>3. CASE n = 2  BY <1>3
<1>4. CASE n = 3  BY <1>4
<1> QED  BY <1>1, <1>2, <1>3, <1>4, ProgramNames

\* Every step preserves the order.
LEMMA OrderStep ==
  ASSUME IndInv, ProgramTypes, CallInv, HeldInv, NumberInv, OneAtATime, SignalAhead, PeriodsInOrder,
         ElapsedInv, OrderInv, [TasksNext]_allVars
  PROVE  OrderInv'
<1>1. CASE UNCHANGED <<program, prompt, ip, mutex_val>>
  BY <1>1 DEF OrderInv, Keeping, Done
<1> SUFFICES ASSUME Keeping, TasksNext PROVE OrderInv'
  BY <1>1, ProgramStays DEF OrderInv, Keeping, allVars, taskVars
<1>2. UNCHANGED <<program, prompt>>
  BY ProgramStays
<1>3. CASE Ticks \/ \E t \in Task : FallsAsleep(t)
  BY <1>1, <1>2, <1>3 DEF Ticks, FallsAsleep
<1>4. NumMutex \in Int /\ ChaseEnd = 5 * (NumMutex - 1) + 1 /\ ip \in [Task -> Int]
  BY KernelMutexes DEF ChaseEnd, ProgramTypes
<1>5. ASSUME NEW t \in Task, GoesOn(t) PROVE OrderInv'
  <2>1. ip'[t] = Following(t) /\ \A u \in Task \ {t} : ip'[u] = ip[u]
    BY <1>4, <1>5 DEF GoesOn
  <2>2. Following(t) = IF ip[t] < ChaseEnd THEN ip[t] + 1 ELSE ChaseEnd
    BY ChaserCode DEF Following, Keeping
  <2>3. ip[t] = ChaseEnd \/ \E k \in 1..(NumMutex - 1) : ip[t] = 5 * k
    BY <1>5, ChaserSleeper DEF GoesOn, Blocking
  <2>4. ASSUME NEW m \in 1..(NumMutex - 1) PROVE Done(m)' = Done(m)
    <3>1. m \in Int
      BY <1>4
    <3>2. ip'[t] > 5 * m - 2 <=> ip[t] > 5 * m - 2
      <4>1. CASE ip[t] = ChaseEnd
        BY <1>4, <2>1, <2>2, <4>1
      <4>2. CASE \E k \in 1..(NumMutex - 1) : ip[t] = 5 * k
        <5>1. PICK k \in 1..(NumMutex - 1) : ip[t] = 5 * k
          BY <4>2
        <5> QED  BY <1>4, <2>1, <2>2, <3>1, <5>1
      <4> QED  BY <2>3, <4>1, <4>2
    <3> QED  BY <2>1, <3>2 DEF Done
  <2>5. mutex_val' = mutex_val
    BY <1>5 DEF GoesOn
  <2> QED  BY <1>2, <2>4, <2>5 DEF OrderInv, Keeping
<1>6. ASSUME NEW t \in Task, NEW l \in 1..(NumMutex - 1), Works(t, l) PROVE OrderInv'
  <2>1. /\ t = running /\ pc[t] = "user" /\ ip[t] \in (5 * l - 4)..(5 * l - 1)
        /\ ip'[t] = ip[t] + 1 /\ \A u \in Task \ {t} : ip'[u] = ip[u]
        /\ l \in Int
    BY <1>4, <1>6 DEF Works
  <2>2. ASSUME NEW m \in 1..(NumMutex - 1)
        PROVE  /\ ~(m = l /\ ip[t] = 5 * l - 2) => Done(m)' = Done(m)
               /\ m = l /\ ip[t] = 5 * l - 2 => t \notin Done(m) /\ Done(m)' = Done(m) \union {t}
    <3>1. m \in Int
      BY <1>4
    <3>2. /\ ~(m = l /\ ip[t] = 5 * l - 2) => (ip'[t] > 5 * m - 2 <=> ip[t] > 5 * m - 2)
          /\ m = l /\ ip[t] = 5 * l - 2 => ip'[t] > 5 * m - 2 /\ ~(ip[t] > 5 * m - 2)
      BY <2>1, <3>1
    <3> QED  BY <2>1, <3>2 DEF Done
  <2>3. SUFFICES ASSUME NEW m \in 1..(NumMutex - 1)
                 PROVE  \E n \in 0..4 : Done(m)' = 0..(n - 1) /\ mutex_val'[m] = Partial(n)
    BY DEF OrderInv
  <2>4. PICK n \in 0..4 : Done(m) = 0..(n - 1) /\ mutex_val[m] = Partial(n)
    BY DEF OrderInv
  <2>5. CASE ~(m = l /\ ip[t] = 5 * l - 2)
    <3>1. mutex_val'[m] = mutex_val[m]
      BY <1>6, <2>5, KernelMutexes DEF Works, ProgramTypes
    <3> QED  BY <2>2, <2>4, <2>5, <3>1
  <2>6. CASE m = l /\ ip[t] = 5 * l - 2
    <3>1. t \notin 0..(n - 1) /\ Done(m)' = 0..(n - 1) \union {t}
      BY <2>2, <2>4, <2>6
    <3>2. \A u \in Task : u < t => u \in 0..(n - 1)
      BY <2>1, <2>4, <2>6, HigherDoneBefore
    <3>3. t = n
      BY <3>1, <3>2, ProgramNames
    <3>4. reg[t] = mutex_val[m]
      BY <2>6 DEF NumberInv, Keeping
    <3>5. mutex_val'[m] = Update(t, reg[t])
      BY <1>6, <2>6, KernelMutexes DEF Works, ProgramTypes
    <3>6. mutex_val'[m] = Partial(n + 1)
      BY <2>4, <3>3, <3>4, <3>5, PartialStep
    <3>7. n + 1 \in 0..4 /\ 0..(n - 1) \union {n} = 0..((n + 1) - 1)
      BY <3>3, ProgramNames
    <3> QED  BY <3>1, <3>3, <3>6, <3>7
  <2> QED  BY <2>5, <2>6
<1> QED  BY <1>3, <1>5, <1>6, StepOfChaser

\* The three hold when the tasks are launched.
LEMMA InitChaser == TasksInit /\ PeriodsInOrder => OneAtATime /\ ElapsedInv /\ OrderInv
<1> SUFFICES ASSUME TasksInit, PeriodsInOrder, Keeping
             PROVE  OneAtATime /\ ElapsedInv /\ OrderInv
  BY DEF OneAtATime, ElapsedInv, OrderInv
<1>1. \A t \in Task : pc[t] = "user" /\ op[t] = "none"
  BY Sets DEF TasksInit, Init
<1>2. \A t \in Task : ip[t] = 1
  <2>1. \A t \in Task : Code(t) # <<>>
    BY ChaserCode, KernelMutexes DEF ChaseEnd, Keeping
  <2> QED  BY <2>1 DEF TasksInit
<1>3. OneAtATime
  BY <1>1, <1>2 DEF OneAtATime
<1>4. ElapsedInv
  <2>1. ASSUME NEW t \in Task, NEW m \in 1..(NumMutex - 1), InRound(t, m)
        PROVE  Elapsed(t, m) = 0
    <3>1. 1 \in (5 * m - 4)..(5 * m) /\ m \in Int
      BY <1>1, <1>2, <2>1, KernelMutexes DEF InRound, Released
    <3>2. m = 1
      BY <3>1
    <3>3. TicksLeft(ChaserDevice(t)) = Period(t) /\ Period(t) \in Int
      BY FirstSignal, PeriodOfTask, Sets DEF Period, TasksInit
    <3> QED  BY <3>2, <3>3 DEF Elapsed
  <2> QED  BY <2>1 DEF ElapsedInv
<1>5. ASSUME NEW m \in 1..(NumMutex - 1)
      PROVE  Done(m) = 0..(0 - 1) /\ mutex_val[m] = Partial(0)
  <2>1. m \in Mutex /\ m \in Int /\ m >= 1
    BY KernelMutexes
  <2>2. Done(m) = {}
    BY <1>2, <2>1 DEF Done
  <2>3. mutex_val[m] = init_val
    BY <2>1 DEF TasksInit
  <2> QED  BY <2>2, <2>3 DEF Partial
<1>6. OrderInv
  BY <1>5 DEF OrderInv
<1> QED  BY <1>3, <1>4, <1>6

-----------------------------------------------------------------------------
(* The theorems *)

\* No check has failed and nobody has panicked.
NoFailure == ~failed /\ \A t \in Task : ip[t] # Panic

\* It stays so: a check comes after the call it is about, and only the calls of
\* mutex_chaser may panic.
LEMMA CheckStep ==
  ASSUME IndInv, ProgramTypes, CallInv, HeldInv, SysErrInv, NoFailure, [TasksNext]_allVars
  PROVE  NoFailure'
<1>1. CASE UNCHANGED taskVars
  BY <1>1 DEF taskVars, NoFailure
<1>2. ASSUME NEW t \in Task, Returns(t) \/ Local(t)
      PROVE  NoFailure'
  <2>1. /\ program' = program /\ ip[t] \in 1..Len(Code(t))
        /\ \A u \in Task \ {t} : ip'[u] = ip[u]
        /\ ip'[t] = Following(t) \/ (Returns(t) /\ ip'[t] = Panic)
    BY <1>2, Moves
  <2>2. ip'[t] # Panic
    <3>1. CASE program = "mutex_chaser"
      <4>1. program' \in Disciplined
        BY <2>1, <3>1 DEF Disciplined
      <4>2. ip'[t] \in 1..Len(Code(t)')
        BY <4>1, HeldStep DEF HeldInv
      <4> QED  BY <4>2 DEF Panic
    <3>2. CASE program # "mutex_chaser"
      <4>1. ip'[t] = Following(t)
        BY <1>2, <2>1, <3>2 DEF Returns, Return, Checked, Advance, Local, load, store, put, check_return, ProgramTypes
      <4>2. Following(t) \in {Spin} \union 1..Len(Code(t))
        BY <2>1, NextInstruction
      <4> QED  BY <4>1, <4>2 DEF Spin, Panic
    <3> QED  BY <3>1, <3>2
  <2>3. ~failed'
    <3>1. CASE check_return
      <4>1. running = t /\ Code(t)[ip[t]].do = "expect"
        BY <1>2, <3>1 DEF check_return, Doing, Returns, Local
      <4>2. program = "sys_err"
        BY <2>1, <4>1, KindsOfCode DEF ProgramTypes
      <4>3. t = 0
        <5>1. ip[t] # Spin
          BY <2>1 DEF Spin
        <5> QED  BY <4>2, <5>1 DEF SysErrInv
      <4>4. errno = Code(t)[ip[t]].arg
        BY <2>1, <4>1, <4>2, <4>3 DEF SysErrInv
      <4> QED  BY <3>1, <4>1, <4>4 DEF check_return, Arg, NoFailure
    <3>2. CASE ~check_return
      BY <1>2, <3>2 DEF Returns, Local, load, store, put, NoFailure
    <3> QED  BY <3>1, <3>2
  <2> QED  BY <2>1, <2>2, <2>3 DEF NoFailure
<1>3. CASE UNCHANGED allVars
  BY <1>1, <1>3 DEF allVars
<1>4. CASE Inside
  BY <1>1, <1>4 DEF Inside
<1> QED  BY <1>2, <1>3, <1>4, StepOfTask

\* The inductive invariant of the programs and the kernel under them.
ProgramInv ==
    /\ IndInv
    /\ ProgramTypes
    /\ CallInv
    /\ HeldInv
    /\ SysErrInv
    /\ NumberInv
    /\ NoFailure

\* The invariant of the programs on their kernel holds up to the first interrupt
\* inside the dispatcher.
THEOREM ProgramInvariance == TasksSpec => [](DispatcherQuiet => ProgramInv)
<1>1. TasksInit => ProgramInv
  <2> SUFFICES ASSUME TasksInit PROVE ProgramInv
    OBVIOUS
  <2>1. IndInv
    BY InitIndInv DEF TasksInit
  <2>2. NoFailure
    BY DEF TasksInit, NoFailure, Spin, Panic
  <2> QED  BY <2>1, <2>2, InitProgram, InitHeld, InitSysErr, InitNumber DEF ProgramInv
<1>2. (DispatcherQuiet => ProgramInv) /\ [TasksNext]_allVars => (DispatcherQuiet => ProgramInv)'
  <2> SUFFICES ASSUME ProgramInv, [TasksNext]_allVars, DispatcherQuiet' PROVE ProgramInv'
    BY KernelStepOfTask, DisturbedGrows DEF DispatcherQuiet
  <2> USE DEF ProgramInv
  <2>1. IndInv'
    BY KernelStepOfTask, NextIndInv
  <2>2. ProgramTypes' /\ CallInv'
    BY ProgramStep
  <2>3. HeldInv' /\ SysErrInv' /\ NumberInv' /\ NoFailure'
    BY HeldStep, SysErrStep, NumberStep, CheckStep
  <2> QED  BY <2>1, <2>2, <2>3
<1> QED  BY <1>1, <1>2, PTL DEF TasksSpec

\* sys_err.c:33-47, mutex_chaser.c:52-61: the checks of sys_err's task succeed and
\* mutex_chaser does not panic, up to the first interrupt inside the dispatcher.
THEOREM ProgramChecks == TasksSpec => []ChecksSucceed
<1>1. (DispatcherQuiet => ProgramInv) => ChecksSucceed
  BY DEF ProgramInv, ChecksSucceed, NoFailure
<1> QED  BY <1>1, ProgramInvariance, PTL

\* dagger.c:27-39, 63-67: fun3 never prints inside the burst of fun1, up to the first
\* interrupt inside the dispatcher.
THEOREM BurstsAreWhole == TasksSpec => []WholeBursts
<1>1. (DispatcherQuiet => ProgramInv) => WholeBursts
  <2> SUFFICES ASSUME ProgramInv, program = "dagger", ip[1] \in 3..10, ip[3] = 3
               PROVE  FALSE
    BY DEF WholeBursts
  <2>1. 1 \in Task /\ 3 \in Task /\ 0 \in Mutex
    BY ProgramNames, KernelMutexes DEF Mutex
  <2>2. 0 \in Holds(1, ip[1]) /\ 0 \in Holds(3, ip[3])
    BY DEF Holds
  <2>3. 0 \in held[1] /\ 0 \in held[3]
    BY <2>1, <2>2 DEF ProgramInv, HeldInv, Disciplined
  <2> QED  BY <2>1, <2>3, Sets DEF ProgramInv, IndInv, HolderInv
<1> QED  BY <1>1, ProgramInvariance, PTL

\* mutex_chaser: once all tasks are done, each number is the result of their four
\* updates in some order, up to the first interrupt inside the dispatcher.
THEOREM UpdatesAreKept == TasksSpec => []NoLostUpdate
<1>1. (DispatcherQuiet => ProgramInv) => NoLostUpdate
  <2> SUFFICES ASSUME ProgramInv, program = "mutex_chaser", \A t \in Task : ip[t] = ChaseEnd,
                      NEW m \in 1..(NumMutex - 1)
               PROVE  \E order \in SetToSeqs(Task) :
                        mutex_val[m] = Update(order[4], Update(order[3],
                                   Update(order[2], Update(order[1], init_val))))
    BY DEF NoLostUpdate
  <2>1. PICK n \in 0..4, order \in [1..4 -> Task], v \in [0..4 -> Int] : Explains(m, n, order, v)
    BY DEF ProgramInv, NumberInv
  <2>2. Done(m) = {0, 1, 2, 3}
    <3>1. ChaseEnd > 5 * m - 2
      BY KernelMutexes DEF ChaseEnd
    <3> QED  BY <3>1, ProgramNames DEF Done
  <2>3. n = 4
    <3> SUFFICES ASSUME n \in 0..3 PROVE FALSE
      OBVIOUS
    <3>1. {0, 1, 2, 3} \subseteq {order[k] : k \in 1..n}
      BY <2>1, <2>2 DEF Explains
    <3>2. {0, 1, 2, 3} \subseteq {order[1], order[2], order[3]}
      BY <3>1
    <3> QED  BY <3>2
  <2>4. order \in SetToSeqs(Task)
    <3>1. Cardinality(Task) = 4
      <4>1. Task = 0..3
        BY ProgramNames
      <4>2. Cardinality(0..3) = 4
        <5>1. 0 \in Int /\ 3 \in Int
          OBVIOUS
        <5>2. Cardinality(0..3) = IF 0 > 3 THEN 0 ELSE 3 - 0 + 1
          BY <5>1, FS_Interval, Zenon
        <5> QED  BY <5>2
      <4> QED  BY <4>1, <4>2
    <3>2. \A j, k \in 1..4 : j # k => order[j] # order[k]
      BY <2>1, <2>3 DEF Explains
    <3> QED  BY <3>1, <3>2 DEF SetToSeqs
  <2>5. /\ v[0] = init_val
        /\ v[1] = Update(order[1], v[0]) /\ v[2] = Update(order[2], v[1])
        /\ v[3] = Update(order[3], v[2]) /\ v[4] = Update(order[4], v[3])
        /\ mutex_val[m] = v[4]
    <3>1. \A k \in 1..4 : v[k] = Update(order[k], v[k - 1])
      BY <2>1, <2>3 DEF Explains
    <3>2. 1 - 1 = 0 /\ 2 - 1 = 1 /\ 3 - 1 = 2 /\ 4 - 1 = 3
      OBVIOUS
    <3>3. v[0] = init_val /\ mutex_val[m] = v[4]
      BY <2>1, <2>3 DEF Explains
    <3> QED  BY <3>1, <3>2, <3>3
  <2> QED  BY <2>4, <2>5
<1> QED  BY <1>1, ProgramInvariance, PTL

\* A processor that keeps up is never interrupted inside the dispatcher: it rests in
\* its own code when the tick comes.
LEMMA PromptIsQuiet == TasksSpec => [](prompt => DispatcherQuiet)
<1>1. TasksInit => (prompt => DispatcherQuiet)
  BY DEF TasksInit, Init, DispatcherQuiet
<1>2. (prompt => DispatcherQuiet) /\ [TasksNext]_allVars => (prompt => DispatcherQuiet)'
  <2> SUFFICES ASSUME DispatcherQuiet, prompt, [TasksNext]_allVars PROVE DispatcherQuiet'
    BY ProgramStays
  <2>1. CASE timer
    BY <2>1 DEF timer, Resting, C_IRQ_Handler, C_IRQ_Handler_quiet, C_IRQ_Handler_dispatch,
                TimerTick, DispatcherQuiet, DispatchWindows
  <2>2. CASE load \/ store \/ put \/ check_return \/ UNCHANGED allVars
    BY <2>2 DEF load, store, put, check_return, allVars, vars, deviceVars, DispatcherQuiet
  <2>3. CASE event_wait \/ mutex_create \/ mutex_lock \/ mutex_unlock \/ in_kernel
    BY <2>3 DEF event_wait, mutex_create, mutex_lock, mutex_unlock, in_kernel, KernelStep,
                event_wait_invalid, dev_wait_remove, dev_wait_link, event_wait_return,
                mutex_create_full, mutex_create_find, mutex_create_grab, mutex_lock_invalid,
                mutex_lock_own, mutex_lock_free, mutex_lock_blocked, mutex_lock_return,
                mutex_unlock_invalid, mutex_unlock_not_owner, mutex_unlock_free,
                mutex_unlock_handoff, GiveUp, dispatch, dispatch_pick, dispatch_set_cur,
                dispatch_switch, ReturnError, deviceVars, DispatcherQuiet
  <2> QED  BY <2>1, <2>2, <2>3 DEF TasksNext, TaskStep
<1> QED  BY <1>1, <1>2, PTL DEF TasksSpec

\* No task of mutex_chaser updates number 0.
LEMMA FirstNumberStep ==
  ASSUME ProgramTypes, CallInv, IndInv, program = "mutex_chaser",
         mutex_val[0] = init_val, [TasksNext]_allVars
  PROVE  mutex_val'[0] = init_val
<1>1. CASE store
  <2>1. running \in Task /\ ip[running] \in 1..Len(Code(running)) /\ Code(running)[ip[running]].do = "store"
    BY <1>1, Sets DEF store, Doing, At, ProgramTypes, IndInv, TypeOK
  <2>2. ip[running] \in 1..ChaseEnd
    BY <2>1, ChaserCode
  <2>3. PICK m \in 1..(NumMutex - 1) : Arg = m
    BY <2>1, <2>2, ChaserInstruction DEF Arg
  <2>4. Arg # 0
    BY <2>3, KernelMutexes
  <2>5. mutex_val' = [mutex_val EXCEPT ![Arg] = Update(running, reg[running])]
    BY <1>1 DEF store
  <2> QED  BY <2>4, <2>5
<1>2. CASE ~store
  BY <1>2 DEF TasksNext, TaskStep, event_wait, mutex_create, mutex_lock, mutex_unlock, in_kernel,
              AndReturn, load, put, check_return, timer, taskVars, allVars
<1> QED  BY <1>1, <1>2

\* mutex_chaser: on a processor that keeps up, each number but the first is
\* result_val when fun4, the last task, has done its updates, whatever periods the
\* devices have as long as a shorter one means a higher priority, and wherever the
\* interrupt may be taken.
THEOREM UpdatesInOrder ==
  ASSUME PeriodsInOrder
  PROVE  TasksSpec => []ChaserResult
<1> DEFINE FirstNumber == Keeping => mutex_val[0] = init_val
           Inv == OneAtATime /\ ElapsedInv /\ OrderInv /\ FirstNumber
<1>1. TasksInit => Inv
  <2>1. 0 \in Mutex
    BY KernelMutexes DEF Mutex
  <2>2. TasksInit => FirstNumber
    BY <2>1 DEF TasksInit
  <2> QED  BY <2>2, InitChaser
<1>2. (DispatcherQuiet => ProgramInv) /\ (prompt => DispatcherQuiet) /\ SignalAhead /\ Inv
        /\ [TasksNext]_allVars => Inv'
  <2> SUFFICES ASSUME DispatcherQuiet => ProgramInv, prompt => DispatcherQuiet, SignalAhead, Inv,
                      [TasksNext]_allVars
               PROVE  Inv'
    OBVIOUS
  <2>1. CASE Keeping
    <3>1. ProgramInv
      BY <2>1 DEF Keeping
    <3>2. OneAtATime' /\ ElapsedInv' /\ OrderInv'
      BY <3>1, OneAtATimeStep, ElapsedStep, OrderStep DEF ProgramInv
    <3>3. FirstNumber'
      BY <2>1, <3>1, FirstNumberStep DEF ProgramInv, Keeping
    <3> QED  BY <3>2, <3>3
  <2>2. CASE ~Keeping
    <3>1. ~Keeping'
      BY <2>2, ProgramStays DEF Keeping
    <3> QED  BY <3>1 DEF OneAtATime, ElapsedInv, OrderInv
  <2> QED  BY <2>1, <2>2
<1>3. Inv => ChaserResult
  <2>0. ASSUME Inv, Keeping, ip[3] = ChaseEnd, NEW m \in 1..(NumMutex - 1)
        PROVE  mutex_val[m] = result_val
    <3>1. PICK n \in 0..4 : Done(m) = 0..(n - 1) /\ mutex_val[m] = Partial(n)
      BY <2>0 DEF OrderInv
    <3>2. 3 \in Done(m)
      <4>1. ChaseEnd > 5 * m - 2
        BY KernelMutexes DEF ChaseEnd
      <4> QED  BY <2>0, <4>1, ProgramNames DEF Done
    <3>3. n = 4
      BY <3>1, <3>2
    <3> QED  BY <3>1, <3>3 DEF Partial
  <2>1. \A m \in Mutex : m = 0 \/ m \in 1..(NumMutex - 1)
    BY KernelMutexes DEF Mutex
  <2> QED  BY <2>0, <2>1 DEF ChaserResult, Keeping
<1> HIDE DEF Inv
<1>4. TasksSpec => [](DispatcherQuiet => ProgramInv)
  BY ProgramInvariance
<1>5. TasksSpec => []SignalAhead
  BY ClientsOfKernel, SignalsAhead, PTL
<1> QED  BY <1>1, <1>2, <1>3, <1>4, <1>5, PromptIsQuiet, PTL DEF TasksSpec
=============================================================================
