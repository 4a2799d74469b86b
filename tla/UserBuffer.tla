----------------------------- MODULE UserBuffer -----------------------------
(***************************************************************************)
(* The range checks that read_syscall and write_syscall make of the buffer *)
(* a program passes, and valid_addr of memcheck.c, which no system call    *)
(* uses.  Addresses are unsigned and wrap.                                 *)
(***************************************************************************)
EXTENDS Integers

\* The memory map of stack.h, in sixteenths of the address space.  The abort and
\* the supervisor stack lie between KERNEL_START_ADDR and ABORT_STACK_END_ADDR.
AddrWord == 16
LEGEL_MEM_START_ADDR == 10
KERNEL_START_ADDR == 12
ABORT_STACK_END_ADDR == 13
LEGEL_MEM_END_ADDR == 14

\* Faulty variant: the end of the buffer is not compared.
read_check_start_only(fd, addr, count) ==
    CASE fd # 0 -> -9
      [] addr < LEGEL_MEM_START_ADDR -> -14
      [] OTHER -> 0

\* The checks: -EBADF, -EFAULT, or 0 to go on.  Addresses are unsigned.
read_check(fd, addr, count) ==
    LET end == (addr + count) % AddrWord IN
    CASE fd # 0 -> -9
      [] fd = 0 /\ (addr < LEGEL_MEM_START_ADDR \/ end > LEGEL_MEM_END_ADDR) -> -14
      [] fd = 0 /\ end > KERNEL_START_ADDR -> -14
      [] OTHER -> 0

\* memcheck.c, which no system call uses.
valid_addr(start, count, from, bound) ==
    LET end == (start + count) % AddrWord IN
    /\ start >= from /\ start < bound
    /\ end >= start /\ end <= bound

\* The checks of write_syscall.
write_check(fd, addr, count) ==
    LET end == (addr + count) % AddrWord
        Crosses(border) == addr < border /\ end > border
    IN  CASE fd # 1 -> -9
          [] fd = 1 /\ (addr < LEGEL_MEM_START_ADDR \/ end > LEGEL_MEM_END_ADDR) -> -14
          [] fd = 1 /\ (Crosses(ABORT_STACK_END_ADDR) \/ Crosses(KERNEL_START_ADDR)) -> -14
          [] OTHER -> 0

\* io.c:95: a buffer that write accepts is not in memory "that is not readable by
\* a user application, namely abort stack and supervisor stack".  Ends that wrap
\* (io.c:91) are not looked at here.
StacksUnread(addr, count) ==
    write_check(1, addr, count) = 0 /\ count > 0 /\ addr + count < AddrWord =>
        \/ addr + count <= KERNEL_START_ADDR
        \/ addr >= ABORT_STACK_END_ADDR
=============================================================================
