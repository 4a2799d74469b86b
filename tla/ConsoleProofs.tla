---------------------------- MODULE ConsoleProofs ---------------------------
(***************************************************************************)
(* What holds of the start of the board and of the programs that wait in a *)
(* system call, for every buffer size, word width, clock and command line. *)
(***************************************************************************)
EXTENDS Console, QueueTheorems, TLAPS

-----------------------------------------------------------------------------
(* The start of the board *)

\* The vectors the board may have.
Boards == [Vectors -> [enc : {"plus", "minus", "other"}, offset : {1}]]

\* Memory as U-Boot leaves it.
LowMemory ==
    [a \in 0..31 |-> CASE a = Entry(VECTORTABLE_SWI_ENTRY) -> 20
                       [] a = Entry(VECTORTABLE_IRQ_ENTRY) -> 24
                       [] a \in 20..31 -> UBoot
                       [] OTHER -> 28]

\* Where the handlers are patched: U-Boot's own, or with a negative offset the
\* word that the positive one leads to.
SwiAddress == IF vector[VECTORTABLE_SWI_ENTRY].enc = "plus" THEN 20 ELSE 28
IrqAddress == IF vector[VECTORTABLE_IRQ_ENTRY].enc = "plus" THEN 24 ELSE 28

Patch(m, a, handler) ==
    [b \in DOMAIN m |-> CASE b = a -> LOAD_PC_PC_4_ENCODING
                          [] b = a + 1 -> handler
                          [] OTHER -> m[b]]
Kept(m, a) == [iaddr |-> a, instruction1 |-> m[a], instruction2 |-> m[a + 1]]

SwiPatched == Patch(LowMemory, SwiAddress, S_Handler)
BothPatched == Patch(SwiPatched, IrqAddress, IRQ_Handler)

Booted == {"usermode", "stack", "setup", "crt0", "user", "kernel"}
Stages == {"start", "swi", "irq", "halt"} \union Booted

\* Memory and what is kept of it, after none, one or both installations.
MemInv ==
    /\ at \in Stages
    /\ vector \in Boards
    /\ at \in {"start", "swi"} => mem = LowMemory /\ saved = <<>>
    /\ at = "irq" => mem = SwiPatched /\ saved = <<Kept(LowMemory, SwiAddress)>>
    /\ at \in Booted =>
          /\ mem = BothPatched
          /\ saved = <<Kept(LowMemory, SwiAddress), Kept(SwiPatched, IrqAddress)>>

\* The copies of U-Boot's table: r8 alone, then global_data too, then rr8.
TableInv ==
    /\ at \in {"start", "swi", "irq", "usermode", "kernel"} => r8 = Table
    /\ at \in {"swi", "irq"} \union Booted => global_data = Table
    /\ at \in Booted \ {"usermode"} => rr8 = Table

\* The command line, the stack made of it, and what crt0 makes of the stack.
Pushed ==
    [k \in (-Len(argv) - 1)..0 |-> CASE k = -Len(argv) - 1 -> Len(argv)
                                     [] k = 0 -> 0
                                     [] OTHER -> argv[k + Len(argv) + 1]]

ArgInv ==
    /\ \E n \in Nat : argv \in [1..n -> Argument]
    /\ at \in {"setup", "crt0"} => stack = Pushed
    /\ at = "user" => entered = argv \o <<0>>

BootInv == MemInv /\ TableInv /\ ArgInv

\* The jump table that install reads is the one U-Boot left.
LEMMA JumpEntries ==
  ASSUME vector \in Boards
  PROVE  /\ jump_entry(VECTORTABLE_SWI_ENTRY) = 5
         /\ jump_entry(VECTORTABLE_IRQ_ENTRY) = 9
         /\ Entry(VECTORTABLE_SWI_ENTRY) =
                IF vector[VECTORTABLE_SWI_ENTRY].enc = "plus" THEN 5 ELSE 3
         /\ Entry(VECTORTABLE_IRQ_ENTRY) =
                IF vector[VECTORTABLE_IRQ_ENTRY].enc = "plus" THEN 9 ELSE 7
  BY DEF Boards, Vectors, jump_entry, Entry, VECTORTABLE_SWI_ENTRY,
         VECTORTABLE_IRQ_ENTRY, PC_CURRENTADDR_OFFSET

\* The words of memory as U-Boot leaves it, where install looks.
LEMMA LowWords ==
  ASSUME vector \in Boards
  PROVE  /\ LowMemory[5] = SwiAddress
         /\ LowMemory[9] = IrqAddress
         /\ \A a \in 20..31 : LowMemory[a] = UBoot
         /\ DOMAIN LowMemory = 0..31
         /\ \A a \in 0..31 : LowMemory[a] \in {20, 24, 28, UBoot}
<1>1. \A a \in 0..31 :
         LowMemory[a] = CASE a = Entry(VECTORTABLE_SWI_ENTRY) -> 20
                          [] a = Entry(VECTORTABLE_IRQ_ENTRY) -> 24
                          [] a \in 20..31 -> UBoot
                          [] OTHER -> 28
  BY DEF LowMemory
<1>2. DOMAIN LowMemory = 0..31
  BY DEF LowMemory
<1> QED  BY <1>1, <1>2, JumpEntries DEF SwiAddress, IrqAddress

\* The words of a patched memory.
LEMMA PatchedWords ==
  ASSUME vector \in Boards
  PROVE  /\ SwiAddress \in {20, 28} /\ IrqAddress \in {24, 28}
         /\ DOMAIN SwiPatched = 0..31
         /\ \A a \in 0..31 : SwiPatched[a] = CASE a = SwiAddress -> LOAD_PC_PC_4_ENCODING
                                               [] a = SwiAddress + 1 -> S_Handler
                                               [] OTHER -> LowMemory[a]
         /\ DOMAIN BothPatched = 0..31
         /\ \A a \in 0..31 : BothPatched[a] = CASE a = IrqAddress -> LOAD_PC_PC_4_ENCODING
                                                [] a = IrqAddress + 1 -> IRQ_Handler
                                                [] OTHER -> SwiPatched[a]
<1>1. SwiAddress \in {20, 28} /\ IrqAddress \in {24, 28}
  BY DEF SwiAddress, IrqAddress
<1>2. SwiAddress \in 0..30 /\ IrqAddress \in 0..30
  BY <1>1
<1>3. DOMAIN LowMemory = 0..31
  BY LowWords
<1> QED  BY <1>1, <1>2, <1>3 DEF SwiPatched, BothPatched, Patch

\* The state in which U-Boot jumps to the kernel satisfies the invariant.
LEMMA BootInit_BootInv ==
  ASSUME BootInit
  PROVE  BootInv
<1>1. MemInv
  BY DEF BootInit, MemInv, Stages, Booted, Boards, LowMemory
<1>2. TableInv
  BY DEF BootInit, TableInv, Booted
<1>3. ArgInv
  BY BootAssumption DEF BootInit, ArgInv
<1> QED  BY <1>1, <1>2, <1>3 DEF BootInv

\* One installation: iaddr is the word that jump_entry leads to.
LEMMA Install ==
  ASSUME NEW v, NEW handler, NEW from, NEW to, NEW a \in 0..30,
         install(v, handler, from, to), mem[jump_entry(v)] = a,
         DOMAIN mem = 0..31, mem = [b \in DOMAIN mem |-> mem[b]]
  PROVE  /\ mem' = Patch(mem, a, handler)
         /\ saved' = Append(saved, Kept(mem, a))
<1>1. PICK m : m = mem
  OBVIOUS
<1>2. mem' = [m EXCEPT ![a] = LOAD_PC_PC_4_ENCODING, ![a + 1] = handler]
  BY <1>1 DEF install
<1>3. PICK n : n = [m EXCEPT ![a] = LOAD_PC_PC_4_ENCODING]
  OBVIOUS
<1>4. mem' = [n EXCEPT ![a + 1] = handler]
  BY <1>2, <1>3
<1>5. DOMAIN m = 0..31 /\ m = [b \in 0..31 |-> m[b]]
  BY <1>1
<1>6. n = [b \in 0..31 |-> IF b = a THEN LOAD_PC_PC_4_ENCODING ELSE m[b]]
  BY <1>3, <1>5
<1>7. mem' = [b \in 0..31 |-> IF b = a + 1 THEN handler ELSE n[b]]
  BY <1>4, <1>6
<1>8. mem' = Patch(mem, a, handler)
  BY <1>1, <1>5, <1>6, <1>7 DEF Patch
<1>9. saved' = Append(saved, Kept(mem, a))
  BY DEF install, Kept
<1> QED  BY <1>8, <1>9

\* Nobody rewrites the vectors.
LEMMA SameBoard ==
  ASSUME vector' = vector
  PROVE  /\ LowMemory' = LowMemory
         /\ SwiAddress' = SwiAddress /\ IrqAddress' = IrqAddress
         /\ SwiPatched' = SwiPatched /\ BothPatched' = BothPatched
  BY DEF LowMemory, SwiAddress, IrqAddress, SwiPatched, BothPatched, Patch, Entry

\* The two installations patch the words of MemInv and nothing else does
\* (hijack.c:23-75).
LEMMA MemStep ==
  ASSUME MemInv, BootStep \/ Exception \/ UNCHANGED bootVars
  PROVE  MemInv'
<1> USE DEF Stages, Booted, Go
<1>1. vector' = vector /\ vector \in Boards
  BY DEF BootStep, Exception, kmain, install, install_bad, Usermode, push_arguments, setup,
         crt0, user_changes_r8, exception, bootVars, MemInv
<1>2. CASE install(VECTORTABLE_SWI_ENTRY, S_Handler, "swi", "irq")
  <2>1. mem = LowMemory /\ saved = <<>> /\ at' = "irq"
    BY <1>2 DEF MemInv, install
  <2>2. /\ mem[jump_entry(VECTORTABLE_SWI_ENTRY)] = SwiAddress /\ SwiAddress \in 0..30
        /\ DOMAIN mem = 0..31 /\ mem = [b \in DOMAIN mem |-> mem[b]]
    <3>1. LowMemory = [b \in DOMAIN LowMemory |-> LowMemory[b]]
      BY DEF LowMemory
    <3>2. jump_entry(VECTORTABLE_SWI_ENTRY) = 5
      BY <1>1, JumpEntries
    <3>3. LowMemory[5] = SwiAddress /\ DOMAIN LowMemory = 0..31
      BY <1>1, LowWords
    <3>4. SwiAddress \in 0..30
      BY <1>1, PatchedWords
    <3> QED  BY <2>1, <3>1, <3>2, <3>3, <3>4
  <2>3. mem' = Patch(LowMemory, SwiAddress, S_Handler) /\ saved' = Append(<<>>, Kept(LowMemory, SwiAddress))
    BY <1>2, <2>1, <2>2, Install
  <2>4. mem' = SwiPatched /\ saved' = <<Kept(LowMemory, SwiAddress)>>
    BY <2>3 DEF SwiPatched
  <2> QED  BY <1>1, <2>1, <2>4, SameBoard DEF MemInv, Kept
<1>3. CASE install(VECTORTABLE_IRQ_ENTRY, IRQ_Handler, "irq", "usermode")
  <2>1. mem = SwiPatched /\ saved = <<Kept(LowMemory, SwiAddress)>> /\ at' = "usermode"
    BY <1>3 DEF MemInv, install
  <2>2. /\ mem[jump_entry(VECTORTABLE_IRQ_ENTRY)] = IrqAddress /\ IrqAddress \in 0..30
        /\ DOMAIN mem = 0..31 /\ mem = [b \in DOMAIN mem |-> mem[b]]
    <3>1. SwiPatched = [b \in DOMAIN SwiPatched |-> SwiPatched[b]]
      BY DEF SwiPatched, Patch
    <3>2. jump_entry(VECTORTABLE_IRQ_ENTRY) = 9
      BY <1>1, JumpEntries
    <3>3. SwiPatched[9] = LowMemory[9] /\ DOMAIN SwiPatched = 0..31
      BY <1>1, PatchedWords
    <3>4. LowMemory[9] = IrqAddress /\ IrqAddress \in 0..30
      BY <1>1, LowWords, PatchedWords
    <3> QED  BY <2>1, <3>1, <3>2, <3>3, <3>4
  <2>3. /\ mem' = Patch(SwiPatched, IrqAddress, IRQ_Handler)
        /\ saved' = Append(<<Kept(LowMemory, SwiAddress)>>, Kept(SwiPatched, IrqAddress))
    BY <1>3, <2>1, <2>2, Install
  <2>4. /\ mem' = BothPatched
        /\ saved' = <<Kept(LowMemory, SwiAddress), Kept(SwiPatched, IrqAddress)>>
    <3>1. ASSUME NEW a, NEW b PROVE Append(<<a>>, b) = <<a, b>>
      <4>1. <<a>> \in Seq({a, b}) /\ Len(<<a>>) = 1 /\ <<a>>[1] = a
        OBVIOUS
      <4>2. <<a, b>> \in Seq({a, b}) /\ Len(<<a, b>>) = 2 /\ <<a, b>>[1] = a /\ <<a, b>>[2] = b
        OBVIOUS
      <4>3. /\ Append(<<a>>, b) \in Seq({a, b}) /\ Len(Append(<<a>>, b)) = 2
            /\ Append(<<a>>, b)[1] = a /\ Append(<<a>>, b)[2] = b
        BY <4>1, AppendProperties
      <4>4. ASSUME NEW s \in Seq({a, b}), NEW t \in Seq({a, b}), Len(s) = 2, Len(t) = 2,
                   s[1] = t[1], s[2] = t[2]
            PROVE  s = t
        <5>1. \A k \in 1..Len(s) : s[k] = t[k]
          BY <4>4
        <5> QED  BY <4>4, <5>1, SeqEqual
      <4> QED  BY <4>2, <4>3, <4>4, Zenon
    <3> QED  BY <2>3, <3>1, Zenon DEF BothPatched
  <2> QED  BY <1>1, <2>1, <2>4, SameBoard DEF MemInv, Kept
<1>4. ASSUME mem' = mem, saved' = saved,
             \/ at' = at \/ at' = "halt"
             \/ at = "start" /\ at' = "swi"
             \/ at \in Booted /\ at' \in Booted
      PROVE  MemInv'
  <2>1. Kept(LowMemory, SwiAddress)' = Kept(LowMemory, SwiAddress)
    BY <1>1, SameBoard DEF Kept
  <2>2. Kept(SwiPatched, IrqAddress)' = Kept(SwiPatched, IrqAddress)
    BY <1>1, SameBoard DEF Kept
  <2> QED  BY <1>1, <1>4, <2>1, <2>2, SameBoard DEF MemInv
<1>5. \/ install(VECTORTABLE_SWI_ENTRY, S_Handler, "swi", "irq")
      \/ install(VECTORTABLE_IRQ_ENTRY, IRQ_Handler, "irq", "usermode")
      \/ /\ mem' = mem /\ saved' = saved
         /\ \/ at' = at \/ at' = "halt"
            \/ at = "start" /\ at' = "swi"
            \/ at \in Booted /\ at' \in Booted
  BY DEF BootStep, Exception, kmain, install_bad, Usermode, push_arguments, setup, crt0,
         user_changes_r8, exception, bootVars
<1> QED  BY <1>2, <1>3, <1>4, <1>5

\* kmain and Usermode copy the table before user code can change r8 (main.c,
\* Usermode.S).
LEMMA TableStep ==
  ASSUME TableInv, BootStep \/ Exception \/ UNCHANGED bootVars
  PROVE  TableInv'
  BY DEF TableInv, Booted, Go, BootStep, Exception, kmain, install, install_bad, Usermode,
         push_arguments, setup, crt0, user_changes_r8, exception, bootVars

\* crt0 finds the command line where Usermode put it (Usermode.S:24-56,
\* crt0.S:18-19).
LEMMA ArgStep ==
  ASSUME ArgInv, BootStep \/ Exception \/ UNCHANGED bootVars
  PROVE  ArgInv'
<1> USE DEF Go
<1>1. argv' = argv
  BY DEF BootStep, Exception, kmain, install, install_bad, Usermode, push_arguments, setup,
         crt0, user_changes_r8, exception, bootVars
<1>2. PICK n \in Nat : argv \in [1..n -> Argument]
  BY DEF ArgInv
<1>3. Len(argv) = n /\ argv \in Seq(Argument)
  BY <1>2
<1>4. CASE push_arguments
  BY <1>1, <1>4 DEF ArgInv, push_arguments, Pushed
<1>5. CASE crt0
  <2>1. stack = Pushed
    BY <1>5 DEF crt0, ArgInv
  <2>2. DOMAIN stack = (-n - 1)..0
    BY <1>3, <2>1 DEF Pushed
  <2>3. Min(DOMAIN stack) = -n - 1
    BY <2>2 DEF Min
  <2>4. stack[-n - 1] = n
    BY <1>3, <2>1 DEF Pushed
  <2>5. entered' = [k \in 1..(n + 1) |-> stack[-n - 1 + k]]
    BY <1>5, <2>3, <2>4 DEF crt0
  <2>6. entered' = argv \o <<0>>
    <3>1. argv \o <<0>> = [k \in 1..(n + 1) |-> IF k <= n THEN argv[k] ELSE 0]
      BY <1>3
    <3>2. ASSUME NEW k \in 1..(n + 1)
          PROVE  stack[-n - 1 + k] = IF k <= n THEN argv[k] ELSE 0
      BY <1>3, <2>1 DEF Pushed
    <3> QED  BY <2>5, <3>1, <3>2
  <2> QED  BY <1>1, <1>5, <2>6 DEF ArgInv, crt0
<1>6. CASE UNCHANGED <<stack, entered>> /\ (at' = at \/ at' \notin {"setup", "user"})
           /\ (at' = "crt0" => at \in {"setup", "crt0"})
  BY <1>1, <1>6 DEF ArgInv, Pushed
<1>7. CASE at' = "kernel"
  BY <1>1, <1>7 DEF ArgInv
<1> QED  BY <1>4, <1>5, <1>6, <1>7
         DEF BootStep, Exception, kmain, install, install_bad, Usermode, setup,
             user_changes_r8, exception, bootVars

\* Every step preserves the invariant of the start of the board.
LEMMA BootInvStep ==
  ASSUME BootInv, [Next]_<<vars, bootVars>>
  PROVE  BootInv'
<1>1. BootStep \/ Exception \/ UNCHANGED bootVars
  BY DEF Next
<1> QED  BY <1>1, MemStep, TableStep, ArgStep DEF BootInv

\* The inductive invariant of the start of the board.
THEOREM BootInvariance == Spec => []BootInv
<1>1. Init => BootInv
  BY BootInit_BootInv DEF Init
<1> QED  BY <1>1, BootInvStep, PTL DEF Spec

\* S_Handler.S:28-29, IRQ_Handler.S:53-54: in either handler r8 holds U-Boot's
\* table, whatever it is and whatever user code did to the register.
THEOREM TableInHandlers == Spec => []ExportsReachable
<1>1. BootInv => ExportsReachable
  BY DEF BootInv, TableInv, ExportsReachable
<1> QED  BY <1>1, BootInvariance, PTL

\* A chain of two records: the first that keeps a word is what restores it.
LEMMA RestoredWord ==
  ASSUME MemInv, at \in Booted
  PROVE  SavedSuffices
<1> DEFINE Keeps(a) == {k \in DOMAIN saved : a \in {saved[k].iaddr, saved[k].iaddr + 1}}
           First(a) == saved[Min(Keeps(a))]
           Restored(a) == CASE Keeps(a) = {} -> mem[a]
                            [] Keeps(a) # {} /\ a = First(a).iaddr -> First(a).instruction1
                            [] OTHER -> First(a).instruction2
<1>1. vector \in Boards /\ mem = BothPatched
  BY DEF MemInv
<1>2. /\ DOMAIN saved = {1, 2}
      /\ saved[1].iaddr = SwiAddress
      /\ saved[1].instruction1 = LowMemory[SwiAddress]
      /\ saved[1].instruction2 = LowMemory[SwiAddress + 1]
      /\ saved[2].iaddr = IrqAddress
      /\ saved[2].instruction1 = SwiPatched[IrqAddress]
      /\ saved[2].instruction2 = SwiPatched[IrqAddress + 1]
  BY DEF MemInv, Kept
<1>3. SwiAddress \in {20, 28} /\ IrqAddress \in {24, 28}
  BY <1>1, PatchedWords
<1> DEFINE Foreign == {LOAD_PC_PC_4_ENCODING, S_Handler, IRQ_Handler}
<1>4. \A a \in 0..31 : LowMemory[a] \notin Foreign
  BY <1>1, LowWords DEF UBoot, LOAD_PC_PC_4_ENCODING, S_Handler, IRQ_Handler
<1>5. ASSUME NEW a \in 0..31 PROVE Restored(a) \notin Foreign
  <2>1. Keeps(a) \in SUBSET {1, 2}
    BY <1>2
  <2>2. CASE a \in {SwiAddress, SwiAddress + 1}
    <3>1. 1 \in Keeps(a)
      BY <1>2, <2>2
    <3>2. Min(Keeps(a)) = 1
      BY <2>1, <3>1, MinIsLeast
    <3>3. Keeps(a) # {} /\ First(a) = saved[1]
      BY <3>1, <3>2
    <3>4. Restored(a) = IF a = saved[1].iaddr THEN saved[1].instruction1
                                             ELSE saved[1].instruction2
      BY <3>3
    <3> QED  BY <1>2, <1>3, <1>4, <2>2, <3>4
  <2>3. CASE a \notin {SwiAddress, SwiAddress + 1} /\ a \in {IrqAddress, IrqAddress + 1}
    <3>1. Keeps(a) = {2}
      BY <1>2, <2>3
    <3>2. Min(Keeps(a)) = 2
      BY <3>1, MinIsLeast
    <3>3. Keeps(a) # {} /\ First(a) = saved[2]
      BY <3>1, <3>2
    <3>4. Restored(a) = IF a = saved[2].iaddr THEN saved[2].instruction1
                                             ELSE saved[2].instruction2
      BY <3>3
    <3>5. Restored(a) = SwiPatched[a]
      BY <1>2, <2>3, <3>4
    <3>6. SwiPatched[a] = LowMemory[a]
      BY <1>1, <2>3, PatchedWords
    <3> QED  BY <1>4, <3>5, <3>6
  <2>4. CASE a \notin {SwiAddress, SwiAddress + 1, IrqAddress, IrqAddress + 1}
    <3>1. Keeps(a) = {}
      BY <1>2, <2>4
    <3>2. Restored(a) = mem[a]
      BY <3>1
    <3>3. mem[a] = LowMemory[a]
      BY <1>1, <2>4, PatchedWords
    <3> QED  BY <1>4, <3>2, <3>3
  <2> QED  BY <2>2, <2>3, <2>4
<1>6. DOMAIN mem = 0..31
  BY <1>1, PatchedWords
<1> QED  BY <1>5, <1>6 DEF SavedSuffices

\* main.c, hijack.c:23-75, Usermode.S:24-56: user code begins with both handlers
\* installed, U-Boot's words kept, and exactly its command line, of any length.
THEOREM BootIsComplete == Spec => []BootComplete
<1>1. ASSUME BootInv PROVE HandlersReached
  <2> SUFFICES ASSUME at \in {"crt0", "user"}, \A v \in Vectors : vector[v].enc = "plus"
               PROVE  /\ Reached(VECTORTABLE_SWI_ENTRY) = S_Handler
                      /\ Reached(VECTORTABLE_IRQ_ENTRY) = IRQ_Handler
    BY DEF HandlersReached
  <2>1. vector \in Boards /\ mem = BothPatched
    BY <1>1 DEF BootInv, MemInv, Booted
  <2>2. /\ vector[VECTORTABLE_SWI_ENTRY].enc = "plus"
        /\ vector[VECTORTABLE_IRQ_ENTRY].enc = "plus"
    BY DEF Vectors
  <2>3. /\ Entry(VECTORTABLE_SWI_ENTRY) = 5 /\ Entry(VECTORTABLE_IRQ_ENTRY) = 9
        /\ SwiAddress = 20 /\ IrqAddress = 24
    BY <2>1, <2>2, JumpEntries DEF SwiAddress, IrqAddress
  <2>4. mem[5] = 20 /\ mem[9] = 24
    BY <2>1, <2>3, PatchedWords, LowWords
  <2>5. /\ mem[20] = LOAD_PC_PC_4_ENCODING /\ mem[21] = S_Handler
        /\ mem[24] = LOAD_PC_PC_4_ENCODING /\ mem[25] = IRQ_Handler
    BY <2>1, <2>3, PatchedWords
  <2> QED  BY <2>3, <2>4, <2>5 DEF Reached
<1>2. ASSUME BootInv PROVE SavedSuffices
  <2>1. CASE at \in Booted
    BY <1>2, <2>1, RestoredWord DEF BootInv
  <2> QED  BY <2>1 DEF Booted, SavedSuffices
<1>3. BootInv => ArgumentsArrive
  BY DEF BootInv, ArgInv, ArgumentsArrive
<1>4. BootInv => BootComplete
  BY <1>1, <1>2, <1>3 DEF BootComplete
<1> QED  BY <1>4, BootInvariance, PTL

-----------------------------------------------------------------------------
(* The terminal *)

Displays == [line : Seq(Int), last : Seq(Int)]

\* A character continues the line, a newline completes it.
LEMMA PutcDisplay ==
  ASSUME NEW d \in Displays, NEW c \in Int
  PROVE  /\ putc(d, c) \in Displays
         /\ putc(d, c).line = IF c = NL THEN <<>> ELSE Append(d.line, c)
<1>1. d.line \in Seq(Int) /\ d.last \in Seq(Int) /\ d = [line |-> d.line, last |-> d.last]
  BY DEF Displays
<1>2. <<>> \in Seq(Int) /\ Append(d.line, c) \in Seq(Int)
  BY <1>1, EmptySeq, AppendProperties
<1>3. CASE c = NL
  BY <1>1, <1>2, <1>3 DEF putc, Displays
<1>4. CASE c # NL
  <2>1. putc(d, c) = [d EXCEPT !.line = Append(d.line, c)]
    BY <1>4 DEF putc
  <2>2. PICK l \in Seq(Int) : l = Append(d.line, c)
    BY <1>2
  <2>3. putc(d, c) = [line |-> l, last |-> d.last]
    BY <1>1, <2>1, <2>2 DEF Displays
  <2> QED  BY <1>1, <1>4, <2>2, <2>3 DEF Displays
<1> QED  BY <1>3, <1>4

\* "\b \b" takes the last character of the line away.
LEMMA EraseDisplay ==
  ASSUME NEW d \in Displays
  PROVE  /\ erase(d) \in Displays
         /\ d.line # <<>> => erase(d).line = Front(d.line)
<1>1. d.line \in Seq(Int) /\ d.last \in Seq(Int) /\ d = [line |-> d.line, last |-> d.last]
  BY DEF Displays
<1>2. CASE d.line = <<>>
  BY <1>2 DEF erase
<1>3. CASE d.line # <<>>
  <2>1. PICK l \in Seq(Int) : l = Front(d.line)
    BY <1>1, <1>3, FrontProperties
  <2>2. erase(d) = [d EXCEPT !.line = l]
    BY <1>3, <2>1 DEF erase
  <2>3. erase(d) = [line |-> l, last |-> d.last]
    BY <1>1, <2>1, <2>2 DEF Displays
  <2> QED  BY <1>1, <2>1, <2>3 DEF Displays
<1> QED  BY <1>2, <1>3

\* Text without a newline continues the line.
LEMMA PutText ==
  ASSUME NEW d \in Displays, NEW text \in Seq(Int),
         \A k \in 1..Len(d.line) : d.line[k] # NL,
         \A k \in 1..Len(text) : text[k] # NL
  PROVE  putAll(d, text) = [line |-> d.line \o text, last |-> d.last]
<1>1. d.line \in Seq(Int) /\ d.last \in Seq(Int) /\ d = [line |-> d.line, last |-> d.last]
  BY DEF Displays
<1>2. PICK l \in Seq(Int) : l = d.line
  BY <1>1
<1>3. PICK all : all = l \o text
  OBVIOUS
<1>4. /\ all \in Seq(Int) /\ Len(l) \in Nat /\ Len(text) \in Nat
      /\ Len(all) = Len(l) + Len(text) /\ DOMAIN all = 1..Len(all)
      /\ \A k \in 1..(Len(l) + Len(text)) :
            all[k] = IF k <= Len(l) THEN l[k] ELSE text[k - Len(l)]
  BY <1>3, ConcatProperties, LenProperties
<1>5. ASSUME NEW k \in 1..(Len(l) + Len(text)) PROVE all[k] # NL
  <2>1. CASE k <= Len(l)
    <3>1. k \in 1..Len(l) /\ all[k] = l[k]
      BY <1>4, <2>1
    <3> QED  BY <1>2, <3>1
  <2>2. CASE k > Len(l)
    <3>1. k - Len(l) \in 1..Len(text) /\ all[k] = text[k - Len(l)]
      BY <1>4, <2>2
    <3> QED  BY <3>1
  <2> QED  BY <1>4, <2>1, <2>2
<1>6. {k \in DOMAIN all : all[k] = NL} = {}
  BY <1>4, <1>5
<1>7. putAll(d, text) = [d EXCEPT !.line = all]
  BY <1>2, <1>3, <1>6 DEF putAll
<1> QED  BY <1>1, <1>2, <1>3, <1>7 DEF Displays

\* A newline behind it completes the line.
LEMMA PutLine ==
  ASSUME NEW d \in Displays, NEW text \in Seq(Int), text # <<>>, Last(text) = NL,
         \A k \in 1..Len(d.line) : d.line[k] # NL,
         \A k \in 1..(Len(text) - 1) : text[k] # NL
  PROVE  putAll(d, text) = [line |-> <<>>, last |-> d.line \o Front(text)]
<1>1. PICK l \in Seq(Int) : l = d.line
  BY DEF Displays
<1>2. PICK all : all = l \o text
  OBVIOUS
<1>3. PICK m \in Nat, n \in Nat : m = Len(l) /\ n = Len(text) - 1
  <2>1. Len(l) \in Nat /\ Len(text) \in Nat \ {0}
    BY LenProperties, EmptySeq
  <2>2. Len(text) - 1 \in Nat
    BY <2>1
  <2> QED  BY <2>1, <2>2
<1>4. Len(l) = m /\ Len(text) = n + 1
  <2>1. Len(text) \in Nat
    BY LenProperties
  <2> QED  BY <1>3, <2>1
<1>5. /\ all \in Seq(Int) /\ Len(all) = m + n + 1 /\ DOMAIN all = 1..(m + n + 1)
      /\ \A k \in 1..m : all[k] = l[k]
      /\ \A k \in 1..(n + 1) : all[m + k] = text[k]
  <2>1. /\ all \in Seq(Int) /\ Len(all) = m + (n + 1)
        /\ \A k \in 1..(m + (n + 1)) : all[k] = IF k <= m THEN l[k] ELSE text[k - m]
    <3>1. /\ all \in Seq(Int) /\ Len(all) = Len(l) + Len(text)
          /\ \A k \in 1..(Len(l) + Len(text)) :
                all[k] = IF k <= Len(l) THEN l[k] ELSE text[k - Len(l)]
      BY <1>2, ConcatProperties
    <3> QED  BY <1>4, <3>1
  <2>2. ASSUME NEW k \in 1..(n + 1) PROVE all[m + k] = text[k]
    <3>1. m + k \in 1..(m + (n + 1)) /\ ~(m + k <= m) /\ m + k - m = k
      OBVIOUS
    <3> QED  BY <2>1, <3>1
  <2>3. ASSUME NEW k \in 1..m PROVE all[k] = l[k]
    <3>1. k \in 1..(m + (n + 1)) /\ k <= m
      OBVIOUS
    <3> QED  BY <2>1, <3>1
  <2> QED  BY <2>1, <2>2, <2>3, LenProperties
<1>6. all[m + n + 1] = NL
  <2>1. n + 1 \in 1..(n + 1) /\ m + (n + 1) = m + n + 1
    OBVIOUS
  <2> QED  BY <1>4, <1>5, <2>1 DEF Last
<1>7. ASSUME NEW k \in 1..(m + n) PROVE all[k] # NL
  <2>1. CASE k \in 1..m
    BY <1>1, <1>4, <1>5, <2>1
  <2>2. CASE k \notin 1..m
    <3>1. PICK j \in 1..n : k = m + j
      <4>1. k - m \in 1..n /\ k = m + (k - m)
        BY <2>2
      <4> QED  BY <4>1
    <3>2. text[j] # NL /\ j \in 1..(n + 1)
      BY <1>3, <3>1
    <3> QED  BY <1>5, <3>1, <3>2
  <2> QED  BY <2>1, <2>2
<1> DEFINE ends == {k \in DOMAIN all : all[k] = NL}
<1>8. ends = {m + n + 1}
  <2>1. m + n + 1 \in DOMAIN all
    BY <1>5
  <2>2. ASSUME NEW k \in 1..(m + n + 1), k # m + n + 1 PROVE k \in 1..(m + n)
    BY <2>2
  <2> QED  BY <1>5, <1>6, <1>7, <2>1, <2>2
<1>9. Max(ends) = m + n + 1
  BY <1>8 DEF Max
<1> DEFINE begins == {0} \union (ends \ {Max(ends)})
<1>10. begins = {0}
  BY <1>8, <1>9
<1>11. Max(begins) = 0
  BY <1>10 DEF Max
<1>12. putAll(d, text) = [line |-> SubSeq(all, m + n + 1 + 1, m + n + 1),
                          last |-> SubSeq(all, 1, m + n + 1 - 1)]
  <2>1. ends # {}
    BY <1>8
  <2> HIDE DEF ends
  <2>2. putAll(d, text) = [line |-> SubSeq(all, Max(ends) + 1, Len(all)),
                           last |-> SubSeq(all, Max(begins) + 1, Max(ends) - 1)]
    BY <1>1, <1>2, <2>1 DEF putAll, ends
  <2> HIDE DEF begins
  <2>3. Len(all) = m + n + 1 /\ 0 + 1 = 1
    BY <1>5
  <2> QED  BY <1>9, <1>11, <2>2, <2>3
<1>13. SubSeq(all, m + n + 1 + 1, m + n + 1) = <<>>
  BY SubSeqEmpty
<1>14. SubSeq(all, 1, m + n + 1 - 1) = l \o Front(text)
  <2>1. all # <<>> /\ SubSeq(all, 1, m + n + 1 - 1) = Front(all)
    BY <1>5, EmptySeq DEF Front
  <2>2. PICK g \in Seq(Int) : g = Front(all)
    BY <1>5, <2>1, FrontProperties
  <2>3. Len(g) = m + n /\ \A k \in 1..(m + n) : g[k] = all[k]
    BY <1>5, <2>1, <2>2, FrontProperties
  <2>4. PICK f \in Seq(Int) : f = Front(text)
    BY FrontProperties
  <2>5. Len(f) = n /\ \A k \in 1..n : f[k] = text[k]
    <3>1. Len(f) = Len(text) - 1 /\ \A k \in 1..(Len(text) - 1) : f[k] = text[k]
      BY <2>4, FrontProperties
    <3> QED  BY <1>3, <3>1
  <2>6. PICK r : r = l \o f
    OBVIOUS
  <2>7. /\ r \in Seq(Int) /\ Len(r) = m + n
        /\ \A k \in 1..(m + n) : r[k] = IF k <= m THEN l[k] ELSE f[k - m]
    BY <1>4, <2>5, <2>6, ConcatProperties, ZenonT(30)
  <2>8. ASSUME NEW k \in 1..(m + n) PROVE r[k] = g[k]
    <3>1. CASE k \in 1..m
      <4>1. k <= m
        BY <3>1
      <4>2. r[k] = l[k] /\ g[k] = all[k]
        BY <2>3, <2>7, <4>1
      <4> QED  BY <1>5, <3>1, <4>2
    <3>2. CASE k \notin 1..m
      <4>1. k - m \in 1..n /\ k = m + (k - m) /\ ~(k <= m) /\ k - m \in 1..(n + 1)
        BY <3>2
      <4>2. r[k] = text[k - m]
        BY <2>5, <2>7, <4>1
      <4>3. g[k] = text[k - m]
        BY <1>5, <2>3, <4>1
      <4> QED  BY <4>2, <4>3
    <3> QED  BY <3>1, <3>2
  <2>9. r = g
    BY <2>3, <2>7, <2>8, SeqEqual
  <2> QED  BY <2>1, <2>2, <2>4, <2>6, <2>9
<1> QED  BY <1>1, <1>12, <1>13, <1>14

\* Whatever is put, a display it remains.
LEMMA PutAllDisplay ==
  ASSUME NEW d \in Displays, NEW text \in Seq(Int)
  PROVE  putAll(d, text) \in Displays
<1>1. d.line \in Seq(Int) /\ d.last \in Seq(Int) /\ d = [line |-> d.line, last |-> d.last]
  BY DEF Displays
<1>2. PICK all : all = d.line \o text
  OBVIOUS
<1>3. /\ all \in Seq(Int) /\ Len(all) \in Nat /\ DOMAIN all = 1..Len(all)
      /\ \A k \in 1..Len(all) : all[k] \in Int
  BY <1>1, <1>2, ConcatProperties, LenProperties, ElementOfSeq
<1> DEFINE ends == {k \in DOMAIN all : all[k] = NL}
           begins == {0} \union (ends \ {Max(ends)})
<1>4. CASE ends = {}
  <2>1. putAll(d, text) = [d EXCEPT !.line = all]
    BY <1>2, <1>4 DEF putAll
  <2> QED  BY <1>1, <1>3, <2>1 DEF Displays
<1>5. CASE ends # {}
  <2>1. Max(ends) \in 1..Len(all)
    <3>1. ends \in SUBSET (0..Len(all)) /\ ends \subseteq 1..Len(all)
      BY <1>3
    <3> HIDE DEF ends
    <3>2. Max(ends) \in ends
      BY <1>3, <1>5, <3>1, MaxIsGreatest
    <3> QED  BY <3>1, <3>2
  <2>2. Max(begins) \in 0..Len(all)
    <3>1. begins \in SUBSET (0..Len(all)) /\ begins # {}
      BY <1>3
    <3> HIDE DEF begins
    <3> QED  BY <1>3, <3>1, MaxIsGreatest
  <2> HIDE DEF ends
  <2>3. putAll(d, text) = [line |-> SubSeq(all, Max(ends) + 1, Len(all)),
                           last |-> SubSeq(all, Max(begins) + 1, Max(ends) - 1)]
    BY <1>2, <1>5 DEF putAll, ends
  <2> HIDE DEF begins
  <2>4. ASSUME NEW m \in 1..(Len(all) + 1), NEW n \in 0..Len(all)
        PROVE  SubSeq(all, m, n) \in Seq(Int)
    BY <1>3, SubSeqProperties
  <2>5. /\ Max(ends) + 1 \in 1..(Len(all) + 1) /\ Len(all) \in 0..Len(all)
        /\ Max(begins) + 1 \in 1..(Len(all) + 1) /\ Max(ends) - 1 \in 0..Len(all)
    BY <1>3, <2>1, <2>2
  <2> QED  BY <2>3, <2>4, <2>5 DEF Displays
<1> QED  BY <1>4, <1>5

\* So does what write_syscall makes of it.
LEMMA WriteDisplay ==
  ASSUME NEW d \in Displays, NEW before, NEW text \in Seq(Int)
  PROVE  write_syscall(d, before, text) \in Displays
<1>1. write_bytes(before, text) \in Seq(Int)
  <2>1. <<Runaway, NL>> \in Seq(Int) /\ <<NL>> \in Seq(Int)
    BY DEF Runaway, NL
  <2>2. ASSUME text # <<>> PROVE Front(text) \o <<NL>> \in Seq(Int)
    BY <2>1, <2>2, FrontProperties, ConcatProperties
  <2> QED  BY <2>1, <2>2 DEF write_bytes
<1> QED  BY <1>1, PutAllDisplay DEF write_syscall

-----------------------------------------------------------------------------
(* The programs: types and control *)

\* What the assumption on the constants says of each.
LEMMA Constants ==
  /\ Keys \subseteq 1..127 /\ EOT_CHAR \in Keys /\ DEL_CHAR \in Keys
  /\ NL \in Keys /\ CR \in Keys
  /\ N \in Nat /\ N >= 1 /\ Word \in Nat /\ Word > N
  /\ MaxWait \in Nat /\ Word > 2 * MaxWait
  /\ SYSTIME_PRECISION \in Nat /\ SYSTIME_PRECISION >= 1
  /\ Tenth \in Nat /\ Tenth >= 1 /\ ITE \in Nat
  BY ConsoleAssumption

\* What may be in a line.
TextKeys == Keys \ {EOT_CHAR, DEL_CHAR, NL, CR}

ProgTypes ==
    /\ program \in Programs
    /\ pc \in {"main", "start", "getc", "got", "wrote", "sleep", "awake", "done"}
    /\ buf \in [0..(N - 1) -> Keys \union {NUL}]
    /\ i \in 0..N
    /\ result \in -14..N
    /\ display \in Displays
    /\ base \in Seq(Int)
    /\ system_time \in 0..(Word - 1)
    /\ mark \in Nat /\ waited \in Nat /\ msec \in Nat /\ ct \in Nat

\* Which program can be where.
ControlInv ==
    /\ pc \in {"getc", "got", "wrote"} => Reads
    /\ pc \in {"got", "wrote"} => result \in 0..N
    /\ pc \in {"sleep", "awake"} => program \in {"splat", "cyclone"}
    /\ program = "any" => pc \in {"main", "start", "done"} /\ result <= 0
    /\ program = "splat" => ct \in 0..3

\* The unsigned index, decreased past zero and increased again.
LEMMA BackProperties ==
  ASSUME i \in 0..(N - 1)
  PROVE  Back(IF i # 0 THEN 2 ELSE 1) = IF i # 0 THEN i - 1 ELSE 0
<1>1. N \in Nat /\ N >= 1 /\ Word \in Nat \ {0} /\ Word > N
  BY Constants
<1>2. ASSUME NEW c \in 0..(Word - 1) PROVE c % Word = c
  BY <1>1, <1>2
<1>3. (-1) % Word = Word - 1 /\ Word % Word = 0
  BY <1>1
<1>4. CASE i = 0
  <2>1. Back(1) = (((0 - 1) % Word) + 1) % Word
    BY <1>4 DEF Back
  <2>2. 0 - 1 = -1 /\ Word - 1 + 1 = Word
    BY <1>1
  <2> QED  BY <1>3, <1>4, <2>1, <2>2
<1>5. CASE i = 1
  <2>1. Back(2) = (((1 - 2) % Word) + 1) % Word
    BY <1>5 DEF Back
  <2>2. 1 - 2 = -1 /\ Word - 1 + 1 = Word
    BY <1>1
  <2> QED  BY <1>3, <1>5, <2>1, <2>2
<1>6. CASE i >= 2
  <2>1. i - 2 \in 0..(Word - 1) /\ i - 1 \in 0..(Word - 1) /\ i - 2 + 1 = i - 1
    BY <1>1, <1>6
  <2> QED  BY <1>2, <1>6, <2>1 DEF Back
<1> QED  BY <1>1, <1>4, <1>5, <1>6

\* The programs start with values of the right types.
LEMMA InitTypes ==
  ASSUME Init
  PROVE  ProgTypes /\ ControlInv
<1>1. display \in Displays /\ base \in Seq(Int)
  BY EmptySeq DEF Init, BlankDisplay, Displays
<1>2. buf \in [0..(N - 1) -> Keys \union {NUL}] /\ i \in 0..N /\ result \in -14..N
  BY Constants DEF Init
<1>3. system_time \in 0..(Word - 1) /\ mark \in Nat
  BY Constants DEF Init
<1> QED  BY <1>1, <1>2, <1>3 DEF Init, ProgTypes, ControlInv

\* What programs write is text.
LEMMA Texts ==
  ASSUME ProgTypes
  PROVE  /\ \A argc : greeting(argc) \in Seq(Int)
         /\ \A n \in 0..N : [k \in 1..n |-> buf[k - 1]] \in Seq(Keys \union {NUL})
         /\ Bytes \in Seq(Int)
         /\ result \in 0..N => [k \in 1..result |-> rot13(Bytes[k])] \in Seq(Int)
<1>1. ASSUME NEW argc PROVE greeting(argc) \in Seq(Int)
  <2>1. SPACE \in Int /\ NL \in Int /\ CR \in Int
    BY DEF SPACE, NL, CR
  <2>2. <<SPACE, CR, NL>> \in Seq(Int) /\ <<SPACE, NL, SPACE>> \in Seq(Int)
    BY <2>1
  <2>3. <<SPACE, NL>> \in Seq(Int) /\ <<NL>> \in Seq(Int) /\ <<>> \in Seq(Int)
    BY <2>1
  <2>4. <<SPACE, NL, SPACE>> \o (IF argc = 0 THEN <<>> ELSE <<NL>>) \in Seq(Int)
    BY <2>2, <2>3, ConcatProperties
  <2> QED  BY <2>2, <2>3, <2>4 DEF greeting
<1>2. N \in Nat /\ Keys \union {NUL} \subseteq Int
  BY Constants DEF NUL
<1>3. \A n \in 0..N : \A k \in 1..n : buf[k - 1] \in Keys \union {NUL}
  BY <1>2 DEF ProgTypes
<1>4. ASSUME NEW n \in 0..N PROVE [k \in 1..n |-> buf[k - 1]] \in Seq(Keys \union {NUL})
  BY <1>2, <1>3
<1>5. Bytes \in Seq(Int)
  <2>1. CASE result \in 0..N
    BY <1>2, <1>4, <2>1, SeqMonotonic DEF Bytes
  <2>2. CASE result \notin 0..N
    <3>1. result \in Int /\ result < 0
      BY <1>2, <2>2 DEF ProgTypes
    <3>2. 1..result = {}
      BY <3>1
    <3>3. Bytes = <<>>
      BY <3>2 DEF Bytes
    <3> QED  BY <3>3, EmptySeq
  <2> QED  BY <2>1, <2>2
<1>6. ASSUME result \in 0..N PROVE [k \in 1..result |-> rot13(Bytes[k])] \in Seq(Int)
  <2>1. \A k \in 1..result : Bytes[k] \in Int
    BY <1>2, <1>3, <1>6 DEF Bytes
  <2>2. \A k \in 1..result : rot13(Bytes[k]) \in Int
    BY <2>1 DEF rot13
  <2> QED  BY <1>6, <2>2
<1> QED  BY <1>1, <1>4, <1>5, <1>6

\* The outcomes of one character.
LEMMA GetcCases ==
  ASSUME NEW c \in Keys, read_getc(c)
  PROVE  \/ c = EOT_CHAR /\ getc_end(i, display)
         \/ c = DEL_CHAR /\ getc_delete
         \/ c \in {NL, CR} /\ getc_end(i + 1, putc(display, NL))
         \/ /\ c \in TextKeys /\ i' = i + 1 /\ display' = putc(display, c)
            /\ UNCHANGED <<pc, result>>
<1>1. CASE c = EOT_CHAR
  BY <1>1 DEF read_getc, EOT_CHAR, DEL_CHAR, NL, CR
<1>2. CASE c = DEL_CHAR
  BY <1>2 DEF read_getc, EOT_CHAR, DEL_CHAR, NL, CR
<1>3. CASE c \in {NL, CR}
  BY <1>3 DEF read_getc, EOT_CHAR, DEL_CHAR, NL, CR
<1>4. CASE c \in TextKeys
  BY <1>4 DEF read_getc, TextKeys
<1> QED  BY <1>1, <1>2, <1>3, <1>4 DEF TextKeys

\* Every step of a program preserves types and control.
LEMMA TypesStep ==
  ASSUME ProgTypes, ControlInv, ProgramStep
  PROVE  ProgTypes' /\ ControlInv'
<1> USE DEF ProgTypes, ControlInv, Reads, Programs
<1>1. N \in Nat /\ N >= 1 /\ Word \in Nat \ {0} /\ Keys \subseteq 1..127
  BY Constants
<1>2. CASE main(Len(entered) - 1)
  <2>1. display' \in Displays
    BY <1>2, WriteDisplay, Texts DEF main
  <2> QED  BY <1>1, <1>2, <2>1 DEF main
<1>3. ASSUME NEW fd \in 0..1, NEW addr \in 0..(AddrWord - 1), NEW count \in 0..(AddrWord - 1),
             any_call(read_check, 0, fd, addr, count) \/ any_call(write_check, 1, fd, addr, count)
      PROVE  ProgTypes' /\ ControlInv'
  <2>1. read_check(fd, addr, count) \in {-14, -9, 0} /\ write_check(fd, addr, count) \in {-14, -9, 0}
    BY DEF read_check, write_check
  <2>2. result' \in {-14, -9, 0} /\ addr \in Nat /\ count \in Nat
    BY <1>3, <2>1 DEF any_call, AddrWord
  <2> QED  BY <1>1, <1>3, <2>2 DEF any_call
<1>4. CASE read_begin
  BY <1>1, <1>4 DEF read_begin, Displays
<1>5. ASSUME NEW c \in Keys, read_getc(c) PROVE ProgTypes' /\ ControlInv'
  <2>1. i \in 0..(N - 1) /\ c \in Int /\ NL \in Int
    <3>1. i < N
      BY <1>5 DEF read_getc
    <3> QED  BY <1>1, <3>1 DEF NL
  <2>2. buf' \in [0..(N - 1) -> Keys \union {NUL}]
    BY <1>5 DEF read_getc
  <2>3. /\ putc(display, c) \in Displays /\ putc(display, NL) \in Displays
        /\ erase(display) \in Displays
    BY <2>1, PutcDisplay, EraseDisplay
  <2>4. CASE c = EOT_CHAR /\ getc_end(i, display)
    BY <1>1, <1>5, <2>1, <2>2, <2>4 DEF read_getc, getc_end
  <2>5. CASE c = DEL_CHAR /\ getc_delete
    <3>1. i' = IF i # 0 THEN i - 1 ELSE 0
      BY <2>1, <2>5, BackProperties DEF getc_delete
    <3>2. display' \in Displays /\ UNCHANGED <<pc, result>>
      BY <2>3, <2>5 DEF getc_delete
    <3> QED  BY <1>1, <1>5, <2>1, <2>2, <3>1, <3>2 DEF read_getc
  <2>6. CASE c \in {NL, CR} /\ getc_end(i + 1, putc(display, NL))
    BY <1>1, <1>5, <2>1, <2>2, <2>3, <2>6 DEF read_getc, getc_end
  <2>7. CASE i' = i + 1 /\ display' = putc(display, c) /\ UNCHANGED <<pc, result>>
    BY <1>1, <1>5, <2>1, <2>2, <2>3, <2>7 DEF read_getc
  <2> QED  BY <1>5, <2>4, <2>5, <2>6, <2>7, GetcCases
<1>6. CASE read_full
  <2>1. putc(display, NL) \in Displays
    BY PutcDisplay DEF NL
  <2> QED  BY <1>1, <1>6, <2>1 DEF read_full, getc_end
<1>7. CASE rot13_output
  <2>1. result \in 0..N
    BY <1>7 DEF rot13_output
  <2>2. rot13_write \in Displays
    <3>1. <<NL>> \in Seq(Int)
      BY DEF NL
    <3> QED  BY <2>1, <3>1, Texts, WriteDisplay DEF rot13_write
  <2> QED  BY <1>1, <1>7, <2>1, <2>2 DEF rot13_output
<1>8. CASE typo_output
  <2>1. display' \in Displays
    <3>1. write_syscall(display, NUL, Bytes) \in Displays
      BY Texts, WriteDisplay
    <3>2. NL \in Int
      BY DEF NL
    <3>3. putc(write_syscall(display, NUL, Bytes), NL) \in Displays
      BY <3>1, <3>2, PutcDisplay
    <3> QED  BY <1>8, <3>3 DEF typo_output
  <2>2. msec' \in Nat
    <3>1. PICK Time \in Nat : Time = (system_time - mark) % Word
      <4>1. system_time - mark \in Int
        BY <1>1
      <4>2. (system_time - mark) % Word \in 0..(Word - 1)
        BY <1>1, <4>1, WrapInRange
      <4> QED  BY <1>1, <4>2
    <3>2. msec' = Time \div Tenth
      <4>1. msec' = 10 * (Time \div (10 * Tenth)) + (Time \div Tenth - (Time \div (10 * Tenth)) * 10)
        BY <1>8, <3>1 DEF typo_output
      <4>2. Tenth \in Nat /\ Tenth >= 1
        BY Constants
      <4>3. Time \div Tenth \in Int /\ Time \div (10 * Tenth) \in Int
        BY <4>2
      <4> QED  BY <4>1, <4>3
    <3>3. Time \div Tenth \in Nat
      <4>1. Tenth \in Nat /\ Tenth >= 1
        BY Constants
      <4> QED  BY <4>1
    <3> QED  BY <3>2, <3>3
  <2> QED  BY <1>1, <1>8, <2>1, <2>2 DEF typo_output
<1>9. CASE again
  <2>1. display' \in Displays
    BY <1>9, EmptySeq DEF again, Displays
  <2> QED  BY <1>1, <1>9, <2>1 DEF again
<1>10. CASE leave
  BY <1>1, <1>10 DEF leave
<1>11. CASE sleep_end
  BY <1>1, <1>11 DEF sleep_end
<1>12. CASE splat_turn
  <2>1. ct \in 0..3 /\ ct' \in 0..3
    BY <1>12 DEF splat_turn
  <2>2. <<124, 47, 45, 92>>[ct + 1] \in Int
    BY <2>1
  <2>3. display' \in Displays
    BY <1>12, <2>2, EraseDisplay, PutcDisplay DEF splat_turn
  <2>4. 2 * SYSTIME_PRECISION \in Nat
    BY Constants
  <2> QED  BY <1>1, <1>12, <2>1, <2>3, <2>4 DEF splat_turn, sleep_begin
<1>13. CASE cyclone_round
  <2>1. ct' \in Nat /\ ct' * SYSTIME_PRECISION \in Nat
    BY <1>13, Constants DEF cyclone_round
  <2> QED  BY <1>1, <1>13, <2>1 DEF cyclone_round, sleep_begin
<1>14. CASE cyclone_ends
  BY <1>1, <1>14 DEF cyclone_ends
<1>15. CASE tick
  <2>1. system_time' \in 0..(Word - 1)
    BY <1>1, <1>15 DEF tick
  <2> QED  BY <1>1, <1>15, <2>1 DEF tick
<1> QED  BY <1>2, <1>3, <1>4, <1>5, <1>6, <1>7, <1>8, <1>9, <1>10, <1>11, <1>12, <1>13,
            <1>14, <1>15 DEF ProgramStep

\* Steps of the board leave the programs alone, and the other way round.
LEMMA ConsoleStep ==
  ASSUME [Next]_<<vars, bootVars>>
  PROVE  ProgramStep \/ UNCHANGED vars
  BY DEF Next

\* The types of the console, Boot aside.
THEOREM ConsoleTypes == Spec => [](ProgTypes /\ ControlInv)
<1>1. ASSUME ProgTypes, ControlInv, UNCHANGED vars PROVE ProgTypes' /\ ControlInv'
  BY <1>1 DEF vars, ProgTypes, ControlInv, Reads
<1>2. ProgTypes /\ ControlInv /\ [Next]_<<vars, bootVars>> => ProgTypes' /\ ControlInv'
  BY <1>1, TypesStep, ConsoleStep
<1> QED  BY <1>2, InitTypes, PTL DEF Spec

\* The variables of the console keep their types, the unsigned index of
\* read_syscall in the buffer above all (io.c:39-60).
THEOREM Types == Spec => []TypeOK
<1>1. ProgTypes => TypeOK
  BY DEF ProgTypes, TypeOK, Displays
<1> QED  BY <1>1, ConsoleTypes, PTL

-----------------------------------------------------------------------------
(* The clock *)

\* waited counts the ticks since mark, as far as a word can.
ClockInv ==
    /\ program # "any" => mark \in 0..(Word - 1)
    /\ program = "typo" =>
          /\ waited <= MaxWait
          /\ IF pc = "main" THEN waited = 0 ELSE system_time = (mark + waited) % Word
    /\ pc = "sleep" =>
          /\ waited <= Word
          /\ waited < Word => system_time = (mark + waited) % Word

\* A tick more, on both sides.
LEMMA TickWraps ==
  ASSUME NEW M \in Nat \ {0}, NEW a \in 0..(M - 1), NEW b \in Nat, b < M
  PROVE  (((a + b) % M) + 1) % M = (a + (b + 1)) % M
<1>1. b \in 0..(M - 1)
  OBVIOUS
<1>2. (a + b) % M = IF a + b < M THEN a + b ELSE a + b - M
  BY <1>1, WrapSum
<1>3. CASE a + b < M
  BY <1>2, <1>3
<1>4. CASE a + b >= M
  <2>1. a + b - M + 1 \in 0..(M - 1) /\ a + (b + 1) - M = a + b - M + 1
    BY <1>1, <1>4
  <2>2. (a + b - M + 1) % M = a + b - M + 1
    BY <2>1
  <2>3. (a + (b + 1)) % M = a + (b + 1) - M
    <3>1. ASSUME NEW c \in M..(2 * M - 1) PROVE c % M = c - M
      BY <3>1
    <3> QED  BY <1>1, <1>4, <3>1
  <2> QED  BY <1>2, <1>4, <2>1, <2>2, <2>3
<1> QED  BY <1>1, <1>3, <1>4

\* Every step of a program keeps mark and waited in line with system_time.
LEMMA ClockStep ==
  ASSUME ProgTypes, ControlInv, ClockInv, ProgramStep
  PROVE  ClockInv'
<1> USE DEF ClockInv
<1>1. Word \in Nat \ {0} /\ MaxWait \in Nat /\ Word > 2 * MaxWait
  BY Constants
<1>2. /\ system_time \in 0..(Word - 1) /\ waited \in Nat /\ mark \in Nat
      /\ (system_time + 0) % Word = system_time
  BY <1>1 DEF ProgTypes
<1>3. CASE main(Len(entered) - 1)
  BY <1>1, <1>2, <1>3 DEF main, ControlInv
<1>4. ASSUME program = "any", program' = program, pc' = "done" PROVE ClockInv'
  BY <1>4
<1>5. CASE again
  BY <1>1, <1>2, <1>5 DEF again, ControlInv, Reads
<1>6. CASE splat_turn \/ cyclone_round
  BY <1>1, <1>2, <1>6 DEF splat_turn, cyclone_round, sleep_begin
<1>7. CASE tick
  <2>1. waited < Word => waited' = waited + 1 /\ waited + 1 <= Word
    BY <1>1, <1>2, <1>7 DEF tick
  <2>2. CASE pc = "sleep"
    <3>1. program \in {"splat", "cyclone"} /\ mark \in 0..(Word - 1)
      BY <2>2 DEF ControlInv
    <3>2. CASE waited < Word
      <4>1. system_time' = (mark + waited') % Word
        BY <1>1, <1>2, <1>7, <2>1, <2>2, <3>1, <3>2, TickWraps DEF tick
      <4> QED  BY <1>2, <1>7, <2>1, <3>1, <3>2, <4>1 DEF tick
    <3>3. CASE ~(waited < Word)
      BY <1>1, <1>2, <1>7, <2>2, <3>1, <3>3 DEF tick
    <3> QED  BY <3>2, <3>3
  <2>3. CASE pc # "sleep"
    <3>1. /\ pc \in {"got", "wrote"} /\ program = "typo" /\ waited < MaxWait
          /\ mark \in 0..(Word - 1) /\ system_time = (mark + waited) % Word
      BY <1>7, <2>3 DEF tick
    <3>2. waited < Word /\ waited' = waited + 1 /\ waited' <= MaxWait
      BY <1>1, <1>2, <2>1, <3>1
    <3>3. system_time' = (mark + waited') % Word
      BY <1>1, <1>2, <1>7, <3>1, <3>2, TickWraps DEF tick
    <3> QED  BY <1>7, <2>3, <3>1, <3>2, <3>3 DEF tick
  <2> QED  BY <2>2, <2>3
<1>8. ASSUME UNCHANGED <<program, system_time, mark, waited>>, pc # "main" /\ pc' # "main", pc' # "sleep"
      PROVE  ClockInv'
  BY <1>8
<1>9. \/ main(Len(entered) - 1) \/ again \/ splat_turn \/ cyclone_round \/ tick
      \/ program = "any" /\ program' = program /\ pc' = "done"
      \/ UNCHANGED <<program, system_time, mark, waited>> /\ pc # "main" /\ pc' \notin {"main", "sleep"}
  <2>1. ASSUME NEW c \in Keys, read_getc(c)
        PROVE  UNCHANGED <<program, system_time, mark, waited>> /\ pc = "getc" /\ pc' \in {"getc", "got"}
    BY <2>1, GetcCases DEF read_getc, getc_end, getc_delete
  <2> QED  BY <2>1 DEF ProgramStep, any_call, read_begin, read_full, getc_end, rot13_output, typo_output,
                     leave, sleep_end, cyclone_ends
<1> QED  BY <1>3, <1>4, <1>5, <1>6, <1>7, <1>8, <1>9

\* The clock starts anywhere, with nothing waited.
LEMMA InitClock ==
  ASSUME Init
  PROVE  ClockInv
<1>1. Word \in Nat \ {0} /\ MaxWait \in Nat /\ Word > 2 * MaxWait /\ Word > 1
  BY ConsoleAssumption
<1>2. system_time \in 0..(Word - 1)
  BY <1>1 DEF Init
<1> QED  BY <1>1, <1>2 DEF Init, ClockInv

\* waited and mark measure system_time in typo and in sleep_syscall.
THEOREM ClockInvariance == Spec => []ClockInv
<1>1. ASSUME ClockInv, UNCHANGED vars PROVE ClockInv'
  BY <1>1 DEF vars, ClockInv
<1>2. ProgTypes /\ ControlInv /\ ClockInv /\ [Next]_<<vars, bootVars>> => ClockInv'
  BY <1>1, ClockStep, ConsoleStep
<1> QED  BY <1>2, InitClock, ConsoleTypes, PTL DEF Spec

\* typo.c:31-34: the seconds and tenths that typo prints make the ticks that have
\* passed since lasttime, in tenths, although system_time may have wrapped.
THEOREM TypoReportsElapsed == Spec => ReportsElapsed
<1>1. ASSUME ProgTypes, ControlInv, ClockInv, [Next]_<<vars, bootVars>>
      PROVE  [program = "typo" /\ pc = "got" /\ pc' = "wrote" => msec' = waited \div Tenth]_vars
  <2> SUFFICES ASSUME ProgramStep, program = "typo", pc = "got", pc' = "wrote"
               PROVE  msec' = waited \div Tenth
    BY <1>1, ConsoleStep
  <2>1. typo_output
    <3>1. ASSUME NEW c \in Keys PROVE ~read_getc(c)
      BY DEF read_getc
    <3> QED  BY <3>1 DEF ProgramStep, main, any_call, read_begin, read_full, rot13_output, again,
                  leave, sleep_end, splat_turn, cyclone_round, cyclone_ends, tick
  <2>2. /\ Word \in Nat \ {0} /\ MaxWait \in Nat /\ Word > 2 * MaxWait
        /\ Tenth \in Nat /\ Tenth >= 1
    BY Constants
  <2>3. /\ mark \in 0..(Word - 1) /\ waited \in 0..(Word - 1)
        /\ system_time \in 0..(Word - 1) /\ system_time = (mark + waited) % Word
    BY <1>1, <2>2 DEF ClockInv, ProgTypes
  <2>4. system_time = IF mark + waited < Word THEN mark + waited ELSE mark + waited - Word
    BY <2>2, <2>3, WrapSum
  <2>5. (system_time - mark) % Word =
            IF system_time >= mark THEN system_time - mark ELSE system_time - mark + Word
    BY <2>2, <2>3, WrapDifference
  <2>6. (system_time - mark) % Word = waited
    BY <2>2, <2>3, <2>4, <2>5
  <2>7. msec' = 10 * (waited \div (10 * Tenth)) + (waited \div Tenth - (waited \div (10 * Tenth)) * 10)
    BY <2>1, <2>6 DEF typo_output
  <2>8. waited \div Tenth \in Int /\ waited \div (10 * Tenth) \in Int
    BY <2>2, <2>3
  <2> QED  BY <2>7, <2>8
<1>2. ProgTypes /\ ControlInv /\ ClockInv /\ [Next]_<<vars, bootVars>> =>
          [program = "typo" /\ pc = "got" /\ pc' = "wrote" => msec' = waited \div Tenth]_vars
  BY <1>1
<1> QED  BY <1>2, ConsoleTypes, ClockInvariance, PTL DEF Spec, ReportsElapsed

\* Whole multiples come out of a division.
LEMMA DivideSum ==
  ASSUME NEW p \in Int, p > 0, NEW a \in Nat, NEW b \in Nat
  PROVE  (a + p * b) \div p = a \div p + b
  BY SMTT(30)

\* time.c:27, 40: sleep returns no earlier than the milliseconds it was given,
\* at any precision and word width, provided the product has not wrapped.
THEOREM SleepIsLongEnough == Spec => []SleepsLongEnough
<1>1. Init => SleepsLongEnough
  BY DEF Init, SleepsLongEnough
<1>2. ASSUME ProgTypes, ControlInv, ClockInv, SleepsLongEnough, [Next]_<<vars, bootVars>>
      PROVE  SleepsLongEnough'
  <2>1. CASE UNCHANGED vars
    BY <1>2, <2>1 DEF vars, SleepsLongEnough
  <2>2. CASE sleep_end
    <3> SUFFICES ASSUME msec + SYSTIME_PRECISION * mark < Word
                 PROVE  waited >= msec \div SYSTIME_PRECISION
      BY <2>2 DEF sleep_end, SleepsLongEnough
    <3>1. PICK p \in Nat \ {0} : p = SYSTIME_PRECISION
      BY Constants
    <3>2. Word \in Nat \ {0} /\ msec \in Nat /\ mark \in Nat /\ waited \in Nat
      BY <1>2, Constants DEF ProgTypes
    <3>3. pc = "sleep" /\ mark \in 0..(Word - 1)
      BY <1>2, <2>2 DEF sleep_end, ControlInv, ClockInv
    <3>4. msec \div p \in Nat /\ msec \div p <= msec
      BY <3>1, <3>2
    <3>5. p * mark \in Nat /\ msec < Word
      BY <3>1, <3>2
    <3>6. CASE ~(waited < Word)
      BY <3>1, <3>2, <3>4, <3>5, <3>6
    <3>7. CASE msec = 0
      <4>1. 0 \div p = 0
        BY <3>1
      <4> QED  BY <3>1, <3>2, <3>7, <4>1
    <3>8. CASE waited < Word /\ msec # 0
      <4>1. ~(sleep_target > system_time)
        BY <2>2, <3>8 DEF sleep_end
      <4>2. (msec + p * mark) % Word = msec + p * mark
        BY <3>1, <3>2, <3>5
      <4>3. sleep_target = msec \div p + mark
        <5>1. sleep_target = ((msec + p * mark) % Word) \div p
          BY <3>1 DEF sleep_target
        <5>2. sleep_target = (msec + p * mark) \div p
          BY <4>2, <5>1
        <5> QED  BY <3>1, <3>2, <5>2, DivideSum
      <4>4. system_time = (mark + waited) % Word /\ system_time \in Nat
        BY <1>2, <3>3, <3>8 DEF ClockInv, ProgTypes
      <4>5. (mark + waited) % Word = IF mark + waited < Word THEN mark + waited ELSE mark + waited - Word
        BY <3>2, <3>3, <3>8, WrapSum
      <4> QED  BY <3>1, <3>2, <3>4, <4>1, <4>3, <4>4, <4>5
    <3> QED  BY <3>6, <3>7, <3>8
  <2>3. CASE pc' # "awake"
    BY <2>3 DEF SleepsLongEnough
  <2>4. UNCHANGED vars \/ sleep_end \/ pc' # "awake"
    <3>1. ASSUME NEW c \in Keys, read_getc(c) PROVE pc' # "awake"
      BY <3>1, GetcCases DEF read_getc, getc_end, getc_delete
    <3>2. CASE ProgramStep
      BY <3>1, <3>2 DEF ProgramStep, main, any_call, read_begin, read_full, getc_end, rot13_output,
                 typo_output, again, leave, splat_turn, cyclone_round, sleep_begin, cyclone_ends, tick
    <3> QED  BY <1>2, <3>2, ConsoleStep
  <2> QED  BY <2>1, <2>2, <2>3, <2>4
<1>3. ProgTypes /\ ControlInv /\ ClockInv /\ SleepsLongEnough /\ [Next]_<<vars, bootVars>>
          => SleepsLongEnough'
  BY <1>2
<1> QED  BY <1>1, <1>3, ConsoleTypes, ClockInvariance, PTL DEF Spec

-----------------------------------------------------------------------------
(* The checks of read and write *)

\* io.c:30-36, 91-97: a buffer that read or write accepts lies in the memory it
\* is allowed to use, if its end can be represented.
THEOREM BuffersChecked == Spec => []RangeChecked
<1>1. Init => RangeChecked
  BY DEF Init, RangeChecked
<1>2. ASSUME ControlInv, RangeChecked, [Next]_<<vars, bootVars>>
      PROVE  RangeChecked'
  <2>1. ASSUME NEW fd \in 0..1, NEW addr \in 0..(AddrWord - 1), NEW count \in 0..(AddrWord - 1),
               any_call(read_check, 0, fd, addr, count)
        PROVE  RangeChecked'
    BY <2>1 DEF any_call, read_check, RangeChecked, valid_addr, AddrWord, LEGEL_MEM_START_ADDR,
                KERNEL_START_ADDR, ABORT_STACK_END_ADDR, LEGEL_MEM_END_ADDR
  <2>2. ASSUME NEW fd \in 0..1, NEW addr \in 0..(AddrWord - 1), NEW count \in 0..(AddrWord - 1),
               any_call(write_check, 1, fd, addr, count)
        PROVE  RangeChecked'
    BY <2>2 DEF any_call, write_check, RangeChecked, valid_addr, AddrWord, LEGEL_MEM_START_ADDR,
                KERNEL_START_ADDR, ABORT_STACK_END_ADDR, LEGEL_MEM_END_ADDR
  <2>3. CASE UNCHANGED vars
    BY <1>2, <2>3 DEF vars, RangeChecked
  <2>4. CASE program' # "any" \/ pc' # "done"
    BY <2>4 DEF RangeChecked
  <2>5. ASSUME ProgramStep
        PROVE  \/ program' # "any" \/ pc' # "done"
               \/ \E fd \in 0..1, addr, count \in 0..(AddrWord - 1) :
                     \/ any_call(read_check, 0, fd, addr, count)
                     \/ any_call(write_check, 1, fd, addr, count)
    <3>1. ASSUME NEW c \in Keys, read_getc(c) PROVE program' # "any"
      BY <1>2, <3>1 DEF read_getc, ControlInv, Reads
    <3>2. ASSUME read_full \/ leave PROVE program' # "any"
      BY <1>2, <3>2 DEF read_full, leave, ControlInv, Reads
    <3>3. ASSUME sleep_end \/ tick \/ main(Len(entered) - 1) PROVE pc' # "done" \/ program' # "any"
      BY <1>2, <3>3 DEF sleep_end, tick, main, ControlInv, Reads
    <3>4. ASSUME read_begin \/ rot13_output \/ typo_output \/ again PROVE pc' # "done"
      BY <3>4 DEF read_begin, rot13_output, typo_output, again
    <3>5. ASSUME splat_turn \/ cyclone_round \/ cyclone_ends PROVE program' # "any"
      BY <3>5 DEF splat_turn, cyclone_round, cyclone_ends, sleep_begin
    <3> QED  BY <2>5, <3>1, <3>2, <3>3, <3>4, <3>5 DEF ProgramStep
  <2> QED  BY <1>2, <2>1, <2>2, <2>3, <2>4, <2>5, ConsoleStep
<1>3. ControlInv /\ RangeChecked /\ [Next]_<<vars, bootVars>> => RangeChecked'
  BY <1>2
<1> QED  BY <1>1, <1>3, ConsoleTypes, PTL DEF Spec

-----------------------------------------------------------------------------
(* The line that is read *)

\* The first n bytes of a buffer.
FirstBytes(f, n) == [k \in 1..n |-> f[k - 1]]
Buffers == [0..(N - 1) -> Keys \union {NUL}]

\* The first n bytes are a sequence of length n.
LEMMA FirstBytesProperties ==
  ASSUME NEW f \in Buffers, NEW n \in 0..N
  PROVE  /\ FirstBytes(f, n) \in Seq(Int) /\ Len(FirstBytes(f, n)) = n
         /\ \A k \in 1..n : FirstBytes(f, n)[k] = f[k - 1]
<1>1. n \in Nat /\ N \in Nat /\ Keys \union {NUL} \subseteq Int
  BY Constants DEF NUL
<1>2. \A k \in 1..n : f[k - 1] \in Int
  BY <1>1 DEF Buffers
<1> QED  BY <1>1, <1>2 DEF FirstBytes

\* A character stored at an index extends the line and touches nothing before.
LEMMA StoreByte ==
  ASSUME NEW f \in Buffers, NEW m \in 0..(N - 1), NEW c \in Keys,
         NEW g, g = [f EXCEPT ![m] = c]
  PROVE  /\ g \in Buffers
         /\ FirstBytes(g, m) = FirstBytes(f, m)
         /\ FirstBytes(g, m + 1) = Append(FirstBytes(f, m), c)
         /\ m # 0 => FirstBytes(g, m - 1) = Front(FirstBytes(f, m))
<1>1. N \in Nat /\ N >= 1 /\ Keys \subseteq 1..127
  BY Constants
<1>2. m \in 0..N /\ m + 1 \in 0..N /\ m \in Nat /\ c \in Int
  BY <1>1
<1>3. g \in Buffers /\ g[m] = c /\ \A k \in 0..(N - 1) : k # m => g[k] = f[k]
  BY DEF Buffers
<1>4. \A k \in 1..m : k - 1 \in 0..(N - 1) /\ k - 1 # m
  BY <1>1
<1>5. FirstBytes(g, m) = FirstBytes(f, m)
  BY <1>3, <1>4 DEF FirstBytes
<1>6. PICK s \in Seq(Int) : s = FirstBytes(f, m)
  BY <1>2, FirstBytesProperties
<1>7. Len(s) = m /\ \A k \in 1..m : s[k] = f[k - 1]
  BY <1>2, <1>6, FirstBytesProperties
<1>8. FirstBytes(g, m + 1) = Append(s, c)
  <2>1. PICK a : a = Append(s, c)
    OBVIOUS
  <2>2. /\ a \in Seq(Int) /\ Len(a) = m + 1
        /\ \A k \in 1..m : a[k] = s[k]
        /\ a[m + 1] = c
    BY <1>2, <1>7, <2>1, AppendProperties
  <2>3. PICK b : b = FirstBytes(g, m + 1)
    OBVIOUS
  <2>4. b \in Seq(Int) /\ Len(b) = m + 1 /\ \A k \in 1..(m + 1) : b[k] = g[k - 1]
    BY <1>2, <1>3, <2>3, FirstBytesProperties
  <2>5. ASSUME NEW k \in 1..(m + 1) PROVE a[k] = b[k]
    <3>1. CASE k \in 1..m
      BY <1>3, <1>4, <1>7, <2>2, <2>4, <3>1
    <3>2. CASE k = m + 1
      <4>1. k - 1 = m
        BY <1>2, <3>2
      <4> QED  BY <1>3, <2>2, <2>4, <3>2, <4>1
    <3> QED  BY <1>2, <3>1, <3>2
  <2>6. a = b
    BY <2>2, <2>4, <2>5, SeqEqual
  <2> QED  BY <2>1, <2>3, <2>6
<1>9. ASSUME m # 0 PROVE FirstBytes(g, m - 1) = Front(s)
  <2>1. m - 1 \in 0..N /\ s # <<>>
    <3>1. m - 1 \in 0..N
      BY <1>1, <1>2, <1>9
    <3>2. Len(<<>>) = 0
      BY EmptySeq
    <3> QED  BY <1>7, <1>9, <3>1, <3>2
  <2>2. PICK a : a = Front(s)
    OBVIOUS
  <2>3. a \in Seq(Int) /\ Len(a) = m - 1 /\ \A k \in 1..(m - 1) : a[k] = s[k]
    BY <1>7, <2>1, <2>2, FrontProperties
  <2>4. PICK b : b = FirstBytes(g, m - 1)
    OBVIOUS
  <2>5. b \in Seq(Int) /\ Len(b) = m - 1 /\ \A k \in 1..(m - 1) : b[k] = g[k - 1]
    BY <1>3, <2>1, <2>4, FirstBytesProperties
  <2>6. ASSUME NEW k \in 1..(m - 1) PROVE a[k] = b[k]
    <3>1. k \in 1..m
      BY <1>2
    <3> QED  BY <1>3, <1>4, <1>7, <2>3, <2>5, <3>1
  <2>7. a = b
    BY <2>3, <2>5, <2>6, SeqEqual
  <2> QED  BY <2>2, <2>4, <2>7
<1> QED  BY <1>3, <1>5, <1>6, <1>8, <1>9

\* Before the first character the line is empty; so is one that was not read.
LEMMA NoBytes ==
  ASSUME NEW f, NEW n \in Int, n <= 0
  PROVE  FirstBytes(f, n) = <<>>
<1>1. 1..n = {}
  OBVIOUS
<1> QED  BY <1>1 DEF FirstBytes

\* While a line is read, the terminal shows it behind what it showed before, and
\* what is in front of the index is text.
LineInv ==
    pc = "getc" =>
        /\ display.line = base \o FirstBytes(buf, i)
        /\ \A k \in 0..(i - 1) : buf[k] \in TextKeys

\* Every step of a program keeps the terminal in line with the buffer
\* (io.c:39-78).
LEMMA LineStep ==
  ASSUME ProgTypes, ControlInv, LineInv, ProgramStep
  PROVE  LineInv'
<1>1. N \in Nat /\ N >= 1 /\ Keys \subseteq 1..127
  BY Constants
<1>2. CASE read_begin
  <2>1. FirstBytes(buf', i') = <<>> /\ i' = 0
    BY <1>2, NoBytes DEF read_begin
  <2>2. display.line \in Seq(Int)
    BY DEF ProgTypes, Displays
  <2>3. display.line \o <<>> = display.line
    BY <2>2, ConcatEmptySeq
  <2>4. display'.line = base' \o FirstBytes(buf', i')
    BY <1>2, <2>1, <2>3 DEF read_begin
  <2>5. \A k \in 0..(i' - 1) : buf'[k] \in TextKeys
    BY <2>1
  <2> QED  BY <2>4, <2>5 DEF LineInv
<1>3. ASSUME NEW c \in Keys, read_getc(c), pc' = "getc" PROVE LineInv'
  <2>1. /\ i \in 0..(N - 1) /\ buf \in Buffers /\ display \in Displays
        /\ base \in Seq(Int) /\ buf' = [buf EXCEPT ![i] = c] /\ base' = base
    BY <1>1, <1>3 DEF read_getc, ProgTypes, Buffers
  <2>2. /\ display.line = base \o FirstBytes(buf, i) /\ display.line \in Seq(Int)
        /\ \A k \in 0..(i - 1) : buf[k] \in TextKeys
    BY <1>3, <2>1 DEF read_getc, LineInv, Displays
  <2>3. PICK s \in Seq(Int) : s = FirstBytes(buf, i)
    BY <1>1, <2>1, FirstBytesProperties
  <2>4. Len(s) = i
    BY <1>1, <2>1, <2>3, FirstBytesProperties
  <2>5. /\ FirstBytes(buf', i) = s
        /\ FirstBytes(buf', i + 1) = Append(s, c)
        /\ i # 0 => FirstBytes(buf', i - 1) = Front(s)
    BY <2>1, <2>3, StoreByte
  <2>6. \A k \in 0..(i - 1) : buf'[k] \in TextKeys
    BY <1>1, <2>1, <2>2 DEF Buffers
  <2>7. CASE c \in TextKeys /\ i' = i + 1 /\ display' = putc(display, c)
    <3>1. c # NL /\ c \in Int
      <4>1. c # NL
        BY <2>7 DEF TextKeys
      <4> QED  BY <1>1, <4>1
    <3>2. display'.line = Append(base \o s, c)
      BY <2>1, <2>2, <2>3, <2>7, <3>1, PutcDisplay
    <3>3. Append(base \o s, c) = base \o Append(s, c)
      <4>1. <<c>> \in Seq(Int) /\ base \o s \in Seq(Int)
        BY <2>1, <3>1, ConcatProperties
      <4>2. Append(base \o s, c) = (base \o s) \o <<c>>
        BY <3>1, <4>1, AppendIsConcat
      <4>3. Append(s, c) = s \o <<c>>
        BY <3>1, AppendIsConcat
      <4> QED  BY <2>1, <4>1, <4>2, <4>3, ConcatAssociative, SMTT(30)
    <3>4. \A k \in 0..i : buf'[k] \in TextKeys
      BY <1>1, <2>1, <2>6, <2>7 DEF Buffers
    <3>5. display'.line = base' \o FirstBytes(buf', i')
      BY <2>1, <2>5, <2>7, <3>2, <3>3
    <3>6. \A k \in 0..(i' - 1) : buf'[k] \in TextKeys
      <4>1. i' - 1 = i
        BY <2>1, <2>7
      <4> QED  BY <3>4, <4>1
    <3> QED  BY <3>5, <3>6 DEF LineInv
  <2>8. CASE getc_delete
    <3>1. i' = IF i # 0 THEN i - 1 ELSE 0
      BY <2>1, <2>8, BackProperties DEF getc_delete
    <3>2. CASE i = 0
      <4>1. display' = display /\ i' = i
        BY <2>8, <3>1, <3>2 DEF getc_delete
      <4> QED  BY <2>1, <2>2, <2>3, <2>5, <2>6, <4>1 DEF LineInv
    <3>3. CASE i # 0
      <4>1. display' = erase(display) /\ i' = i - 1
        BY <2>8, <3>1, <3>3 DEF getc_delete
      <4>2. PICK e \in Int : s # <<>> /\ s = Append(Front(s), e)
        <5>1. s # <<>>
          BY <2>4, <3>3, EmptySeq
        <5>2. PICK r \in Seq(Int), e \in Int : s = Append(r, e)
          BY <5>1, SequenceEmptyOrAppend
        <5>3. Front(s) = r
          BY <5>2, FrontAppend
        <5> QED  BY <5>1, <5>2, <5>3
      <4>3. PICK r \in Seq(Int) : r = Front(s)
        BY <4>2, FrontProperties
      <4>4. base \o s = Append(base \o r, e)
        <5>1. <<e>> \in Seq(Int) /\ base \o r \in Seq(Int)
          BY <2>1, ConcatProperties
        <5>2. Append(base \o r, e) = (base \o r) \o <<e>>
          BY <5>1, AppendIsConcat
        <5>3. Append(r, e) = r \o <<e>>
          BY AppendIsConcat
        <5>4. (base \o r) \o <<e>> = base \o (r \o <<e>>)
          BY <2>1, <5>1, ConcatAssociative, SMTT(30)
        <5>5. s = Append(r, e)
          BY <4>2, <4>3
        <5> QED  BY <5>2, <5>3, <5>4, <5>5
      <4>5. base \o r \in Seq(Int)
        BY <2>1, ConcatProperties
      <4>6. display.line # <<>> /\ Front(display.line) = base \o r
        <5>1. display.line = Append(base \o r, e)
          BY <2>2, <2>3, <4>4
        <5>2. Append(base \o r, e) # <<>>
          BY <4>5, AppendProperties, ZenonT(30)
        <5>3. Front(Append(base \o r, e)) = base \o r
          BY <4>5, FrontAppend
        <5> QED  BY <5>1, <5>2, <5>3
      <4>7. display'.line = base \o r
        BY <2>1, <4>1, <4>6, EraseDisplay
      <4>8. \A k \in 0..(i - 1 - 1) : buf'[k] \in TextKeys
        BY <1>1, <2>1, <2>6
      <4> QED  BY <2>1, <2>5, <3>3, <4>1, <4>3, <4>7, <4>8 DEF LineInv
    <3> QED  BY <3>2, <3>3
  <2> QED  BY <1>3, <2>7, <2>8, GetcCases DEF getc_end
<1>4. CASE pc' # "getc"
  BY <1>4 DEF LineInv
<1>5. \/ read_begin \/ (\E c \in Keys : read_getc(c)) \/ pc' # "getc"
  BY DEF ProgramStep, main, any_call, read_full, getc_end, rot13_output, typo_output, again, leave,
         sleep_end, splat_turn, cyclone_round, sleep_begin, cyclone_ends, tick
<1> QED  BY <1>2, <1>3, <1>4, <1>5

\* The terminal and the buffer agree while a line is read.
THEOREM LineInvariance == Spec => []LineInv
<1>1. Init => LineInv
  BY DEF Init, LineInv
<1>2. ASSUME LineInv, UNCHANGED vars PROVE LineInv'
  BY <1>2 DEF vars, LineInv, FirstBytes
<1>3. ProgTypes /\ ControlInv /\ LineInv /\ [Next]_<<vars, bootVars>> => LineInv'
  BY <1>2, LineStep, ConsoleStep
<1> QED  BY <1>1, <1>3, ConsoleTypes, PTL DEF Spec

\* io.c:55-60: the terminal shows the line that is read, and deletion never
\* erases what a program had printed.
THEOREM EchoIsTheLine == Spec => []EchoFollowsLine
<1>1. LineInv => EchoFollowsLine
  BY DEF LineInv, EchoFollowsLine, FirstBytes
<1> QED  BY <1>1, LineInvariance, PTL

-----------------------------------------------------------------------------
(* The answer of rot13 *)

\* A read ends with EOT, with a terminator, or with a full buffer; after the last
\* two the terminal is at the start of a line.
EndInv ==
    pc = "got" =>
        \/ result < N /\ buf[result] = EOT_CHAR
        \/ /\ result > 0
           /\ \A k \in 0..(result - 2) : buf[k] \in TextKeys
           /\ \/ buf[result - 1] \in {NL, CR}
              \/ result = N /\ buf[result - 1] \in TextKeys
           /\ display.line = <<>>

\* Every step of a program preserves EndInv, when the buffer has the size that
\* read_syscall compares with (io.c:76).
LEMMA EndStep ==
  ASSUME BUF_SIZE = N, ProgTypes, ControlInv, LineInv, EndInv, ProgramStep
  PROVE  EndInv'
<1>1. N \in Nat /\ N >= 1 /\ NL \in Int
  BY Constants DEF NL
<1>2. display \in Displays /\ buf \in Buffers /\ i \in 0..N
  BY DEF ProgTypes, Buffers
<1>3. putc(display, NL).line = <<>>
  BY <1>1, <1>2, PutcDisplay
<1>4. ASSUME NEW c \in Keys, read_getc(c), pc' = "got" PROVE EndInv'
  <2>1. /\ pc = "getc" /\ i \in 0..(N - 1) /\ buf' = [buf EXCEPT ![i] = c]
        /\ \A k \in 0..(i - 1) : buf[k] \in TextKeys
    BY <1>1, <1>2, <1>4 DEF read_getc, LineInv
  <2>2. buf'[i] = c /\ \A k \in 0..(i - 1) : buf'[k] \in TextKeys
    BY <1>2, <2>1 DEF Buffers
  <2>3. CASE c = EOT_CHAR /\ getc_end(i, display)
    <3>1. result' = i /\ i < N
      BY <1>1, <2>1, <2>3 DEF getc_end
    <3> QED  BY <2>2, <2>3, <3>1 DEF EndInv
  <2>4. CASE c \in {NL, CR} /\ getc_end(i + 1, putc(display, NL))
    <3>1. result' = i + 1 /\ display'.line = <<>>
      BY <1>3, <2>4 DEF getc_end
    <3>2. result' > 0 /\ result' - 1 = i /\ result' - 2 = i - 1
      BY <2>1, <3>1
    <3> QED  BY <2>2, <2>4, <3>1, <3>2 DEF EndInv
  <2> QED  BY <1>4, <2>1, <2>3, <2>4, GetcCases DEF getc_delete
<1>5. CASE read_full
  <2>1. pc = "getc" /\ i = N /\ result' = N /\ buf' = buf
    BY <1>5 DEF read_full, getc_end
  <2>2. \A k \in 0..(N - 1) : buf[k] \in TextKeys
    BY <2>1 DEF LineInv
  <2>3. buf[N - 1] \in TextKeys /\ buf[N - 1] \notin {NL, CR}
    BY <1>1, <2>2 DEF TextKeys
  <2>4. display' = putc(display, NL)
    BY <1>5, <2>1, <2>3 DEF read_full, getc_end
  <2>5. \A k \in 0..(N - 2) : buf[k] \in TextKeys
    BY <1>1, <2>2
  <2> QED  BY <1>1, <1>3, <2>1, <2>3, <2>4, <2>5 DEF EndInv
<1>6. CASE pc' # "got"
  BY <1>6 DEF EndInv
<1>7. CASE pc' = pc /\ UNCHANGED <<buf, result, display>>
  BY <1>7 DEF EndInv
<1>8. \/ read_full \/ (\E c \in Keys : read_getc(c)) \/ pc' # "got"
      \/ pc' = pc /\ UNCHANGED <<buf, result, display>>
  BY DEF ProgramStep, main, any_call, read_begin, rot13_output, typo_output, again, leave,
         sleep_end, splat_turn, cyclone_round, sleep_begin, cyclone_ends, tick
<1> QED  BY <1>4, <1>5, <1>6, <1>7, <1>8

\* rot13 is its own inverse and moves no character to or from a terminator.
LEMMA Rot13Properties ==
  ASSUME NEW c \in 0..127
  PROVE  /\ rot13(c) \in Int
         /\ rot13(rot13(c)) = c
         /\ c \in {NL, CR} => rot13(c) = c
         /\ c \notin {NL, CR} => rot13(c) \notin {NL, CR}
  BY DEF rot13, NL, CR

\* A terminated line written at the start of a line completes it, a carriage
\* return as well as a newline.
LEMMA WriteTerminated ==
  ASSUME NEW d \in Displays, d.line = <<>>, NEW out \in Seq(Int), out # <<>>,
         \A k \in 1..(Len(out) - 1) : out[k] # NL, Last(out) \in {NL, CR}
  PROVE  write_syscall(d, NUL, out) = [line |-> <<>>, last |-> Front(out)]
<1>1. PICK f \in Seq(Int) : f = Front(out)
  BY FrontProperties
<1>2. /\ Len(out) \in Nat \ {0} /\ Len(f) = Len(out) - 1
      /\ \A k \in 1..(Len(out) - 1) : f[k] = out[k]
  BY <1>1, FrontProperties
<1>3. <<>> \o f = f /\ NL \in Int /\ <<NL>> \in Seq(Int)
  BY ConcatEmptySeq DEF NL
<1>4. \A k \in 1..Len(d.line) : d.line[k] # NL
  BY EmptySeq
<1>5. CASE Last(out) = CR
  <2>1. write_bytes(NUL, out) = f \o <<NL>>
    BY <1>1, <1>5 DEF write_bytes
  <2>2. f \o <<NL>> = Append(f, NL)
    BY <1>3, AppendIsConcat
  <2>3. PICK t : t = Append(f, NL)
    OBVIOUS
  <2>4. /\ t \in Seq(Int) /\ t # <<>> /\ Len(t) = Len(f) + 1 /\ t[Len(f) + 1] = NL
        /\ \A k \in 1..Len(f) : t[k] = f[k]
        /\ Front(t) = f
    BY <1>3, <2>3, AppendProperties, FrontAppend
  <2>5. Last(t) = NL /\ Len(t) - 1 = Len(out) - 1
    BY <1>2, <2>4 DEF Last
  <2>6. \A k \in 1..(Len(t) - 1) : t[k] # NL
    BY <1>2, <2>4, <2>5
  <2>7. putAll(d, t) = [line |-> <<>>, last |-> d.line \o Front(t)]
    BY <1>4, <2>4, <2>5, <2>6, PutLine
  <2> QED  BY <1>1, <1>3, <2>1, <2>2, <2>3, <2>4, <2>7 DEF write_syscall
<1>6. CASE Last(out) = NL
  <2>1. Last(out) # CR /\ NUL # CR
    BY <1>6 DEF NL, CR, NUL
  <2>2. write_bytes(NUL, out) = out
    BY <2>1 DEF write_bytes
  <2>3. putAll(d, out) = [line |-> <<>>, last |-> d.line \o Front(out)]
    BY <1>4, <1>6, PutLine
  <2> QED  BY <1>1, <1>3, <2>2, <2>3 DEF write_syscall
<1> QED  BY <1>5, <1>6

\* Text that fills the buffer is followed by a newline.
LEMMA WriteFull ==
  ASSUME NEW d \in Displays, d.line = <<>>, NEW out \in Seq(Int), out # <<>>,
         \A k \in 1..Len(out) : out[k] \notin {NL, CR}
  PROVE  write_syscall(write_syscall(d, NUL, out), NUL, <<NL>>) = [line |-> <<>>, last |-> out]
<1>1. <<>> \o out = out /\ NL \in Int /\ <<NL>> \in Seq(Int) /\ <<NL>> # <<>> /\ NL # CR /\ NUL # CR
  BY ConcatEmptySeq DEF NL, CR, NUL
<1>2. Last(out) # CR
  <2>1. Len(out) \in Nat \ {0}
    BY EmptySeq
  <2> QED  BY <2>1 DEF Last
<1>3. write_bytes(NUL, out) = out
  BY <1>1, <1>2 DEF write_bytes
<1>4. \A k \in 1..Len(d.line) : d.line[k] # NL
  BY EmptySeq
<1>5. write_syscall(d, NUL, out) = [line |-> d.line \o out, last |-> d.last]
  BY <1>3, <1>4, PutText DEF write_syscall
<1>6. PICK e \in Displays : e = write_syscall(d, NUL, out)
  BY WriteDisplay
<1>7. e.line = out
  BY <1>1, <1>5, <1>6
<1>8. Len(<<NL>>) = 1 /\ Last(<<NL>>) = NL
  BY DEF Last
<1>9. write_bytes(NUL, <<NL>>) = <<NL>>
  BY <1>1, <1>8 DEF write_bytes
<1>10. \A k \in 1..(Len(<<NL>>) - 1) : <<NL>>[k] # NL
  BY <1>8
<1>11. putAll(e, <<NL>>) = [line |-> <<>>, last |-> e.line \o Front(<<NL>>)]
  BY <1>1, <1>7, <1>8, <1>10, PutLine
<1>12. Front(<<NL>>) = <<>>
  <2>1. 1 - 1 < 1 /\ SubSeq(<<NL>>, 1, 1 - 1) = <<>>
    BY SubSeqEmpty
  <2> QED  BY <1>8, <2>1 DEF Front
<1>13. out \o <<>> = out
  BY ConcatEmptySeq
<1> QED  BY <1>6, <1>7, <1>9, <1>11, <1>12, <1>13 DEF write_syscall

\* rot13 writes the image of the line and completes it (rot13.c:52-76).
LEMMA AnswerStep ==
  ASSUME ProgTypes, ControlInv, EndInv, rot13_output
  PROVE  AnswersOnOwnLine'
<1> SUFFICES ASSUME ~(result < N /\ buf[result] = EOT_CHAR) PROVE AnswersOnOwnLine'
  BY DEF rot13_output, AnswersOnOwnLine
<1>1. /\ N \in Nat /\ N >= 1 /\ result \in 1..N /\ buf \in Buffers /\ display \in Displays
      /\ Keys \subseteq 1..127
  BY Constants DEF ProgTypes, ControlInv, rot13_output, Buffers
<1>2. /\ \A k \in 0..(result - 2) : buf[k] \in TextKeys
      /\ buf[result - 1] \in {NL, CR} \/ (result = N /\ buf[result - 1] \in TextKeys)
      /\ display.line = <<>>
  BY DEF EndInv, rot13_output
<1>3. PICK n \in 1..N : n = result
  BY <1>1
<1>4. PICK b \in Seq(Int) : b = Bytes
  BY Texts
<1>5. /\ Len(b) = n /\ b # <<>>
      /\ \A k \in 1..n : b[k] = buf[k - 1] /\ b[k] \in 0..127
  <2>1. Len(b) = n /\ \A k \in 1..n : b[k] = buf[k - 1]
    BY <1>1, <1>3, <1>4, FirstBytesProperties DEF Bytes, FirstBytes
  <2>2. \A k \in 1..n : k - 1 \in 0..(N - 1)
    BY <1>1
  <2>3. \A k \in 1..n : b[k] \in 0..127
    <3>1. \A k \in 0..(N - 1) : buf[k] \in Keys \union {NUL}
      BY <1>1 DEF Buffers
    <3>2. Keys \union {NUL} \subseteq 0..127
      BY <1>1 DEF NUL
    <3> QED  BY <2>1, <2>2, <3>1, <3>2
  <2>4. b # <<>>
    BY <1>1, <2>1, EmptySeq
  <2> QED  BY <2>1, <2>3, <2>4
<1>6. ASSUME NEW k \in 1..(n - 1) PROVE b[k] \notin {NL, CR}
  <2>1. k \in 1..n /\ k - 1 \in 0..(result - 2)
    BY <1>1, <1>3
  <2> QED  BY <1>2, <1>5, <2>1 DEF TextKeys
<1>7. PICK out \in Seq(Int) : out = [k \in 1..result |-> rot13(Bytes[k])]
  <2>1. result \in 0..N
    BY <1>1
  <2> QED  BY <2>1, Texts
<1>8. /\ Len(out) = n /\ out # <<>>
      /\ \A k \in 1..n : out[k] = rot13(b[k]) /\ rot13(out[k]) = b[k]
  <2>1. n \in Nat /\ n >= 1
    BY <1>1
  <2>2. Len(out) = n /\ \A k \in 1..n : out[k] = rot13(b[k])
    BY <1>3, <1>4, <1>7, <2>1
  <2>3. \A k \in 1..n : rot13(out[k]) = b[k]
    BY <1>5, <2>2, Rot13Properties
  <2>4. out # <<>>
    BY <2>1, <2>2, EmptySeq
  <2> QED  BY <2>2, <2>3, <2>4
<1>9. ASSUME NEW k \in 1..(n - 1) PROVE out[k] \notin {NL, CR}
  <2>1. k \in 1..n
    BY <1>1
  <2> QED  BY <1>5, <1>6, <1>8, <2>1, Rot13Properties, ZenonT(30)
<1>10. n \in 1..n /\ b[n] = buf[result - 1] /\ Last(b) = b[n] /\ Last(out) = out[n]
  BY <1>1, <1>3, <1>5, <1>8 DEF Last
<1>11. rot13_write = IF result = N /\ out[N] \notin {NL, CR}
                     THEN write_syscall(write_syscall(display, NUL, out), NUL, <<NL>>)
                     ELSE write_syscall(display, NUL, out)
  BY <1>7 DEF rot13_write
<1>12. Bytes' = b /\ display' = rot13_write
  BY <1>4 DEF rot13_output, Bytes
<1>13. CASE b[n] \in {NL, CR}
  <2>1. out[n] \in {NL, CR}
    BY <1>5, <1>8, <1>10, <1>13, Rot13Properties
  <2>2. write_syscall(display, NUL, out) = [line |-> <<>>, last |-> Front(out)]
    BY <1>1, <1>2, <1>8, <1>9, <1>10, <2>1, WriteTerminated
  <2>3. display' = [line |-> <<>>, last |-> Front(out)]
    BY <1>3, <1>11, <1>12, <2>1, <2>2
  <2>4. /\ Len(Front(out)) = n - 1 /\ Len(Front(b)) = n - 1
        /\ \A k \in 1..(n - 1) : Front(out)[k] = out[k] /\ Front(b)[k] = b[k]
    BY <1>5, <1>8, FrontProperties
  <2>5. \A k \in 1..(n - 1) : rot13(Front(out)[k]) = Front(b)[k]
    BY <1>1, <1>8, <2>4
  <2>6. (IF Last(b) \in {NL, CR} THEN Front(b) ELSE b) = Front(b)
    BY <1>10, <1>13
  <2>7. /\ display'.line = <<>> /\ Len(display'.last) = Len(Front(b))
        /\ \A k \in 1..Len(Front(b)) : rot13(display'.last[k]) = Front(b)[k]
    BY <2>3, <2>4, <2>5
  <2> QED  BY <1>12, <2>6, <2>7 DEF AnswersOnOwnLine
<1>14. CASE b[n] \notin {NL, CR}
  <2>1. n = N /\ out[n] \notin {NL, CR}
    BY <1>2, <1>3, <1>5, <1>8, <1>10, <1>14, Rot13Properties
  <2>2. \A k \in 1..n : out[k] \notin {NL, CR}
    BY <1>1, <1>9, <2>1
  <2>3. write_syscall(write_syscall(display, NUL, out), NUL, <<NL>>) = [line |-> <<>>, last |-> out]
    BY <1>1, <1>2, <1>8, <2>2, WriteFull
  <2>4. display' = [line |-> <<>>, last |-> out]
    BY <1>3, <1>11, <1>12, <2>1, <2>3
  <2>5. (IF Last(b) \in {NL, CR} THEN Front(b) ELSE b) = b
    BY <1>10, <1>14
  <2>6. /\ display'.line = <<>> /\ Len(display'.last) = Len(b)
        /\ \A k \in 1..Len(b) : rot13(display'.last[k]) = b[k]
    BY <1>5, <1>8, <2>4
  <2> QED  BY <1>12, <2>5, <2>6 DEF AnswersOnOwnLine
<1> QED  BY <1>13, <1>14

\* rot13.c:52-76 and io.c:76: with a buffer of the size that read_syscall knows,
\* a line that ended is answered on a line of its own by its image.
THEOREM AnswersAlone ==
  ASSUME BUF_SIZE = N
  PROVE  Spec => []AnswersOnOwnLine
<1>1. Init => EndInv /\ AnswersOnOwnLine
  BY DEF Init, EndInv, AnswersOnOwnLine
<1>2. ASSUME EndInv, AnswersOnOwnLine, UNCHANGED vars PROVE EndInv' /\ AnswersOnOwnLine'
  BY <1>2 DEF vars, EndInv, AnswersOnOwnLine, Bytes
<1>3. ASSUME ProgTypes, ControlInv, EndInv, AnswersOnOwnLine, ProgramStep PROVE AnswersOnOwnLine'
  <2>1. CASE pc' # "wrote" \/ program' # "rot13"
    BY <2>1 DEF AnswersOnOwnLine
  <2>2. rot13_output \/ pc' # "wrote" \/ program' # "rot13"
    <3>1. ASSUME NEW c \in Keys, read_getc(c) PROVE pc' # "wrote"
      BY <3>1, GetcCases DEF read_getc, getc_end, getc_delete
    <3> QED  BY <1>3, <3>1 DEF ProgramStep, main, any_call, read_begin, read_full, getc_end, typo_output,
               again, leave, sleep_end, splat_turn, cyclone_round, sleep_begin, cyclone_ends, tick, ControlInv
  <2> QED  BY <1>3, <2>1, <2>2, AnswerStep
<1>4. ProgTypes /\ ControlInv /\ LineInv /\ EndInv /\ AnswersOnOwnLine /\ [Next]_<<vars, bootVars>>
          => EndInv' /\ AnswersOnOwnLine'
  BY <1>2, <1>3, EndStep, ConsoleStep
<1> QED  BY <1>1, <1>4, ConsoleTypes, LineInvariance, PTL DEF Spec

-----------------------------------------------------------------------------
(* read_syscall is a line editor *)

\* The line of the abstract editor.
Line == IF pc = "getc" THEN [k \in 1..i |-> buf[k - 1]] ELSE Bytes

\* One character, for the editor.
LEMMA GetcEdits ==
  ASSUME ProgTypes, NEW c \in Keys, read_getc(c)
  PROVE  Editor!Next \/ (Line' = Line /\ pc' = pc)
<1>1. /\ N \in Nat /\ i \in 0..(N - 1) /\ buf \in Buffers /\ buf' = [buf EXCEPT ![i] = c]
      /\ pc = "getc"
  BY Constants, SMTT(30) DEF read_getc, ProgTypes, Buffers
<1>2. PICK s \in Seq(Int) : s = FirstBytes(buf, i)
  BY <1>1, FirstBytesProperties
<1>3. Len(s) = i /\ Line = s
  BY <1>1, <1>2, FirstBytesProperties DEF FirstBytes, Line
<1>4. /\ FirstBytes(buf', i) = s
      /\ FirstBytes(buf', i + 1) = Append(s, c)
      /\ i # 0 => FirstBytes(buf', i - 1) = Front(s)
  BY <1>1, <1>2, StoreByte
<1>5. CASE c = EOT_CHAR /\ getc_end(i, display)
  <2>1. pc' = "got" /\ Line' = FirstBytes(buf', i)
    BY <1>5 DEF getc_end, Line, Bytes, FirstBytes
  <2>2. Editor!End
    BY <1>1, <1>3, <1>4, <2>1 DEF Editor!End, Line
  <2> QED  BY <2>2 DEF Editor!Next
<1>6. CASE c \in {NL, CR} /\ getc_end(i + 1, putc(display, NL))
  <2>1. pc' = "got" /\ Line' = FirstBytes(buf', i + 1)
    BY <1>6 DEF getc_end, Line, Bytes, FirstBytes
  <2>2. Line' = Append(Line, c) /\ Len(Line) < N
    <3>1. i < N /\ Append(Line, c) = Append(s, c)
      BY <1>1, <1>3
    <3> QED  BY <1>3, <1>4, <2>1, <3>1
  <2>3. Editor!End
    BY <1>1, <1>6, <2>1, <2>2 DEF Editor!End, Line
  <2> QED  BY <2>3 DEF Editor!Next
<1>7. CASE c \in TextKeys /\ i' = i + 1 /\ display' = putc(display, c) /\ UNCHANGED <<pc, result>>
  <2>1. pc' = "getc" /\ Line' = FirstBytes(buf', i + 1)
    BY <1>1, <1>7 DEF Line, FirstBytes
  <2>2. Line' = Append(Line, c) /\ Len(Line) < N
    <3>1. i < N /\ Append(Line, c) = Append(s, c)
      BY <1>1, <1>3
    <3> QED  BY <1>3, <1>4, <2>1, <3>1
  <2>3. Editor!Type
    BY <1>1, <1>7, <2>1, <2>2 DEF Editor!Type, Line, TextKeys
  <2> QED  BY <2>3 DEF Editor!Next
<1>8. CASE getc_delete
  <2>1. i' = (IF i # 0 THEN i - 1 ELSE 0) /\ pc' = "getc"
    BY <1>1, <1>8, BackProperties DEF getc_delete
  <2>2. Line' = FirstBytes(buf', i')
    BY <2>1 DEF Line, FirstBytes
  <2>3. CASE i = 0
    BY <1>1, <1>3, <1>4, <2>1, <2>2, <2>3
  <2>4. CASE i # 0
    <3>1. Line' = Front(Line) /\ Line # <<>>
      BY <1>1, <1>3, <1>4, <2>1, <2>2, <2>4, EmptySeq
    <3>2. Editor!Delete
      BY <1>1, <2>1, <3>1 DEF Editor!Delete, Editor!Front, Front, Line
    <3> QED  BY <3>2 DEF Editor!Next
  <2> QED  BY <2>3, <2>4
<1> QED  BY <1>5, <1>6, <1>7, <1>8, GetcCases

\* io.c:39-78 implements LineEditor, for every buffer and whatever is typed.
THEOREM ReadIsLineEditor == Spec => ImplementsLineEditor
<1>1. Init => Editor!Init
  <2> SUFFICES ASSUME Init PROVE Line = <<>> /\ pc # "getc"
    BY DEF Editor!Init, Line
  <2>1. FirstBytes(buf, 0) = <<>>
    BY NoBytes
  <2> QED  BY <2>1 DEF Init, Line, Bytes, FirstBytes
<1>2. ASSUME ProgTypes, ControlInv, [Next]_<<vars, bootVars>>
      PROVE  Editor!Next \/ (Line' = Line /\ (pc' = "getc") = (pc = "getc"))
  <2>1. CASE UNCHANGED vars
    BY <2>1 DEF vars, Line, Bytes
  <2>2. CASE read_begin
    <3>1. pc # "getc" /\ pc' = "getc" /\ i' = 0
      BY <2>2 DEF read_begin
    <3>2. Line' = <<>>
      BY <3>1, NoBytes DEF Line, FirstBytes
    <3>3. Editor!Start
      BY <3>1, <3>2 DEF Editor!Start, Line
    <3> QED  BY <3>3 DEF Editor!Next
  <2>3. ASSUME NEW c \in Keys, read_getc(c)
        PROVE  Editor!Next \/ (Line' = Line /\ (pc' = "getc") = (pc = "getc"))
    BY <1>2, <2>3, GetcEdits
  <2>4. CASE read_full
    <3>1. pc = "getc" /\ pc' = "got" /\ result' = i /\ buf' = buf
      BY <2>4 DEF read_full, getc_end
    <3>2. Line' = Line
      BY <3>1 DEF Line, Bytes
    <3>3. Editor!End
      BY <3>1, <3>2 DEF Editor!End, Line
    <3> QED  BY <3>3 DEF Editor!Next
  <2>5. ASSUME NEW fd \in 0..1, NEW addr \in 0..(AddrWord - 1), NEW count \in 0..(AddrWord - 1),
               any_call(read_check, 0, fd, addr, count) \/ any_call(write_check, 1, fd, addr, count)
        PROVE  Line' = Line /\ (pc' = "getc") = (pc = "getc")
    <3>1. result' \in {-14, -9, 0}
      BY <2>5 DEF any_call, read_check, write_check
    <3>2. result \in Int /\ result <= 0 /\ pc = "start" /\ pc' = "done" /\ buf' = buf
      BY <1>2, <2>5 DEF any_call, ControlInv, ProgTypes
    <3>3. FirstBytes(buf, result) = <<>> /\ FirstBytes(buf, result') = <<>>
      BY <3>1, <3>2, NoBytes
    <3> QED  BY <3>2, <3>3 DEF Line, Bytes, FirstBytes
  <2>6. CASE UNCHANGED <<buf, result>> /\ pc # "getc" /\ pc' # "getc"
    BY <2>6 DEF Line, Bytes
  <2>7. ASSUME ProgramStep
        PROVE  \/ read_begin \/ (\E c \in Keys : read_getc(c)) \/ read_full
               \/ \E fd \in 0..1, addr, count \in 0..(AddrWord - 1) :
                     \/ any_call(read_check, 0, fd, addr, count)
                     \/ any_call(write_check, 1, fd, addr, count)
               \/ UNCHANGED <<buf, result>> /\ pc # "getc" /\ pc' # "getc"
    BY <2>7 DEF ProgramStep, main, rot13_output, typo_output, again, leave, sleep_end, splat_turn,
                cyclone_round, sleep_begin, cyclone_ends, tick
  <2> QED  BY <1>2, <2>1, <2>2, <2>3, <2>4, <2>5, <2>6, <2>7, ConsoleStep
<1>3. ProgTypes /\ ControlInv /\ [Next]_<<vars, bootVars>> =>
          [Editor!Next]_<<Line, pc = "getc">>
  BY <1>2
<1> QED  BY <1>1, <1>3, ConsoleTypes, PTL
         DEF Spec, ImplementsLineEditor, Editor!Spec, Line
=============================================================================
