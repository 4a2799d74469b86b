-------------------------------- MODULE Boot --------------------------------
(***************************************************************************)
(* From U-Boot's jump to the kernel to main of the user program: kmain,    *)
(* the installation of the two handlers over U-Boot's, the switch to user  *)
(* mode with the arguments on the stack, and crt0.  U-Boot finds its       *)
(* functions through r8, which user code may change.                       *)
(*                                                                         *)
(* mem holds the words at U-Boot's low addresses, counted in words, pc     *)
(* reads as two words ahead.  An instruction at a vector is a load of pc   *)
(* from pc plus or minus an offset, or something else.                     *)
(***************************************************************************)
EXTENDS Integers, SequencesExt

CONSTANTS Table,    \* U-Boot's global data, in r8 when the kernel starts
          Argument, \* what may be passed on the command line
          MaxArgs   \* how many of them

ASSUME BootAssumption == MaxArgs \in Nat

VECTORTABLE_SWI_ENTRY == 2
VECTORTABLE_IRQ_ENTRY == 6
PC_CURRENTADDR_OFFSET == 2

LOAD_PC_PC_4_ENCODING == 100   \* ldr pc, [pc, #-4]
S_Handler == 101
IRQ_Handler == 102
UBoot == 103                   \* an instruction of U-Boot's handlers

VARIABLES
    at,           \* start, swi, irq, usermode, stack, setup, crt0, user,
                  \* kernel (an exception is handled), halt
    vector,       \* vector[v]: the instruction at v
    mem,
    saved,        \* saved[v]: iaddr and instruction of both words replaced
    r8, rr8, global_data,
    argv,         \* the command line
    stack,        \* stack[k]: the word k words above 0xa3000000
    entered       \* what main was given; the handler of the last exception

bootVars == <<at, vector, mem, saved, r8, rr8, global_data, argv, stack, entered>>

Vectors == {VECTORTABLE_SWI_ENTRY, VECTORTABLE_IRQ_ENTRY}

\* Where the processor reads the address of a handler.
Entry(v) ==
    v + PC_CURRENTADDR_OFFSET
        + (IF vector[v].enc = "plus" THEN vector[v].offset ELSE -vector[v].offset)

\* Where an exception ends up.
Reached(v) ==
    LET target == mem[Entry(v)]
    IN  IF mem[target] = LOAD_PC_PC_4_ENCODING THEN mem[target + 1] ELSE UBoot

\* The addresses of U-Boot's handlers are at Entry; they are at 20 and 24, and
\* other words lead to 28.
BootInit ==
    /\ at = "start"
    /\ vector \in [Vectors -> [enc : {"plus", "minus", "other"}, offset : {1}]]
    /\ mem = [a \in 0..31 |->
                 CASE a = Entry(VECTORTABLE_SWI_ENTRY) -> 20
                   [] a = Entry(VECTORTABLE_IRQ_ENTRY) -> 24
                   [] a \in 20..31 -> UBoot
                   [] OTHER -> 28]
    /\ saved = <<>>
    /\ r8 = Table /\ rr8 = 0 /\ global_data = 0
    /\ argv \in UNION {[1..n -> Argument] : n \in 0..MaxArgs}
    /\ stack = <<>>
    /\ entered = <<>>

-----------------------------------------------------------------------------
Go(from, to) == at = from /\ at' = to

\* Faulty variant: the table is kept before BSS is cleared.
kmain_late_startup ==
    /\ Go("start", "swi")
    /\ global_data' = 0 /\ rr8' = 0
    /\ UNCHANGED <<vector, mem, saved, r8, argv, stack, entered>>

\* _start and kmain: app_startup clears BSS, then the table is kept.
kmain ==
    /\ Go("start", "swi")
    /\ rr8' = 0
    /\ global_data' = r8
    /\ UNCHANGED <<vector, mem, saved, r8, argv, stack, entered>>

\* Faulty variant: pc is taken as the address of the instruction.
jump_entry_no_pc(v) == v + vector[v].offset

\* The offset is added, whatever its sign.
jump_entry(v) == v + PC_CURRENTADDR_OFFSET + vector[v].offset

\* install_handler and install_irqhandler.
install(v, handler, from, to) ==
    LET iaddrptr == mem[jump_entry(v)]
    IN  /\ vector[v].enc \in {"plus", "minus"}
        /\ Go(from, to)
        /\ saved' = Append(saved, [iaddr |-> iaddrptr,
                                   instruction1 |-> mem[iaddrptr],
                                   instruction2 |-> mem[iaddrptr + 1]])
        /\ mem' = [mem EXCEPT ![iaddrptr] = LOAD_PC_PC_4_ENCODING, ![iaddrptr + 1] = handler]
        /\ UNCHANGED <<vector, r8, rr8, global_data, argv, stack, entered>>

\* 0x0badc0de: kmain prints "Bad Code!" and stops.
install_bad(v, from) ==
    /\ vector[v].enc = "other"
    /\ Go(from, "halt")
    /\ UNCHANGED <<vector, mem, saved, r8, rr8, global_data, argv, stack, entered>>

\* Usermode: r8 is kept, then the mode changes.
Usermode ==
    /\ Go("usermode", "stack")
    /\ rr8' = r8
    /\ UNCHANGED <<vector, mem, saved, r8, global_data, argv, stack, entered>>

\* The labels of Usermode: 0 at 0xa3000000, the arguments below it, argc below
\* them.
push_arguments ==
    LET argc == Len(argv)
    IN  /\ Go("stack", "setup")
        /\ stack' = [k \in (-argc - 1)..0 |->
                        CASE k = -argc - 1 -> argc
                          [] k = 0 -> 0
                          [] OTHER -> argv[k + argc + 1]]
        /\ UNCHANGED <<vector, mem, saved, r8, rr8, global_data, argv, entered>>

\* The interrupt controller and the timer are set up: interrupts may come.
setup ==
    /\ Go("setup", "crt0")
    /\ UNCHANGED <<vector, mem, saved, r8, rr8, global_data, argv, stack, entered>>

\* crt0: sp is at the lowest word of the stack.
crt0 ==
    LET sp == Min(DOMAIN stack)
        argc == stack[sp]
    IN  /\ Go("crt0", "user")
        /\ entered' = [k \in 1..(argc + 1) |-> stack[sp + k]]
        /\ UNCHANGED <<vector, mem, saved, r8, rr8, global_data, argv, stack>>

\* User code may use r8.
user_changes_r8 ==
    /\ at \in {"crt0", "user"}
    /\ r8' = 0
    /\ UNCHANGED <<at, vector, mem, saved, rr8, global_data, argv, stack, entered>>

\* An exception, up to the C code of its handler: S_Handler takes r8 from rr8,
\* IRQ_Handler from global_data.
exception(v, table) ==
    /\ at \in {"crt0", "user"}
    /\ at' = "kernel"
    /\ r8' = table
    /\ entered' = <<Reached(v)>>
    /\ UNCHANGED <<vector, mem, saved, rr8, global_data, argv, stack>>

BootStep ==
    \/ kmain
    \/ install(VECTORTABLE_SWI_ENTRY, S_Handler, "swi", "irq")
    \/ install_bad(VECTORTABLE_SWI_ENTRY, "swi")
    \/ install(VECTORTABLE_IRQ_ENTRY, IRQ_Handler, "irq", "usermode")
    \/ install_bad(VECTORTABLE_IRQ_ENTRY, "irq")
    \/ Usermode
    \/ push_arguments
    \/ setup
    \/ crt0

Exception ==
    \/ user_changes_r8
    \/ exception(VECTORTABLE_SWI_ENTRY, rr8)
    \/ exception(VECTORTABLE_IRQ_ENTRY, global_data)

-----------------------------------------------------------------------------
(* Properties *)

\* hijack.c:23-75: with vectors that load from a positive offset, as U-Boot's,
\* a SWI and an interrupt reach the kernel's handlers from the moment user code
\* runs, both of them although each is patched on its own.  A negative offset
\* is accepted (hijack.c:27) and then added.
HandlersReached ==
    at \in {"crt0", "user"} /\ (\A v \in Vectors : vector[v].enc = "plus") =>
        /\ Reached(VECTORTABLE_SWI_ENTRY) = S_Handler
        /\ Reached(VECTORTABLE_IRQ_ENTRY) = IRQ_Handler

\* S_Handler.S:28-29, IRQ_Handler.S:53-54: the kernel's calls of U-Boot find its
\* table in r8, whatever user code did to the register, and although BSS, where
\* both copies are, has been cleared in between.
ExportsReachable == at = "kernel" => r8 = Table

\* Usermode.S:24-56, crt0.S:18-19: main is given the command line and the 0
\* behind it.
ArgumentsArrive == at = "user" => entered = argv \o <<0>>

\* hijack.c:37-40: what is kept suffices to put U-Boot's handlers back.  The
\* word at a is restored last from the record that was kept first.
SavedSuffices ==
    LET Keeps(a) == {k \in DOMAIN saved : a \in {saved[k].iaddr, saved[k].iaddr + 1}}
        First(a) == saved[Min(Keeps(a))]
        Restored(a) == CASE Keeps(a) = {} -> mem[a]
                         [] Keeps(a) # {} /\ a = First(a).iaddr -> First(a).instruction1
                         [] OTHER -> First(a).instruction2
    IN  at \in {"crt0", "user"} =>
            \A a \in DOMAIN mem :
                Restored(a) \notin {LOAD_PC_PC_4_ENCODING, S_Handler, IRQ_Handler}

\* What main.c has set up when user code begins: both handlers are installed,
\* U-Boot's can be restored, and main has its arguments.
BootComplete == HandlersReached /\ SavedSuffices /\ ArgumentsArrive
=============================================================================
