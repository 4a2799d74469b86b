------------------------------ MODULE Console ------------------------------
(***************************************************************************)
(* The system calls that wait in a tight loop, read and sleep, with write  *)
(* and time, and the single-threaded programs that use them: hello, rot13, *)
(* typo, splat and cyclone, started by Boot.  The timer interrupt advances *)
(* system_time while a call waits.  "any" is a program that passes any     *)
(* buffer to read or write.                                                *)
(*                                                                         *)
(* Unsigned numbers are modulo Word, 2^32 in the code.  typo's divisors of *)
(* ticks, 10 and 100, are Tenth and 10 * Tenth.  What the buffer held      *)
(* before a call is never read and is taken as zero.                       *)
(***************************************************************************)
EXTENDS Terminal, Boot, UserBuffer

CONSTANTS
    Keys,               \* the characters that are typed
    N,                  \* the buffer of rot13 and typo
    BUF_SIZE,           \* the buffer size io.c knows
    Word,               \* number of values of an unsigned int
    SYSTIME_PRECISION,  \* milliseconds per tick
    Tenth,              \* ticks in a tenth of a second
    ITE,                \* cyclone's number of rounds
    MaxWait,            \* ticks that may pass while typo reads
    MaxColumn           \* columns of the terminal

ASSUME ConsoleAssumption ==
    /\ Keys \subseteq 1..127 /\ {EOT_CHAR, DEL_CHAR, NL, CR} \subseteq Keys
    /\ {N, BUF_SIZE, Word, SYSTIME_PRECISION, Tenth, ITE, MaxWait, MaxColumn} \subseteq Nat \ {0}
    /\ Word > N /\ Word > 2 * MaxWait

VARIABLES
    program,      \* the program that runs
    pc,           \* main, start, getc, got, wrote, sleep, awake, done
    buf,          \* its buffer, 0..N-1
    i,            \* the index of read_syscall
    result,       \* what the last read or sleep returned
    display,      \* the terminal
    base,         \* the current line when the read began (an observation)
    system_time,  \* global.c
    mark,         \* lasttime of typo, start_time of sleep_syscall
    waited,       \* ticks since then (an observation)
    msec,         \* the argument of sleep_syscall; typo: what was reported
    ct            \* cyclone's counter, splat's position, the fd of "any"

vars == <<program, pc, buf, i, result, display, base, system_time, mark,
          waited, msec, ct>>

Programs == {"hello", "rot13", "typo", "splat", "cyclone", "any"}

TypeOK ==
    /\ program \in Programs
    /\ pc \in {"main", "start", "getc", "got", "wrote", "sleep", "awake", "done"}
    /\ buf \in [0..(N - 1) -> Keys \union {NUL}]
    /\ i \in 0..N
    /\ result \in -14..N
    /\ {display.line, display.last, base} \subseteq Seq(Int)
    /\ system_time \in 0..(Word - 1)
    /\ {mark, waited, msec, ct} \subseteq Nat

Reads == program \in {"rot13", "typo"}

-----------------------------------------------------------------------------
(* read_syscall *)

\* Any buffer: mark, waited and ct keep it for RangeChecked.
any_call(check(_, _, _), std, fd, addr, count) ==
    /\ program = "any"
    /\ pc = "start"
    /\ result' = check(fd, addr, count)
    /\ mark' = addr
    /\ waited' = count
    /\ ct' = std
    /\ pc' = "done"
    /\ UNCHANGED <<program, buf, i, display, base, system_time, msec>>

read_begin ==
    /\ Reads
    /\ pc = "start"
    /\ Len(display.line) <= MaxColumn
    /\ i' = 0
    /\ buf' = [k \in 0..(N - 1) |-> NUL]
    /\ base' = display.line
    /\ pc' = "getc"
    /\ UNCHANGED <<program, result, display, system_time, mark, waited, msec, ct>>

\* Faulty variant: at the first column the index is left alone.
Back_stays(n) == IF n = 1 THEN i + 1 ELSE i - 1

\* The unsigned i, decreased by n, and the i++ of the loop.
Back(n) == (((i - n) % Word) + 1) % Word

\* Faulty variant: the first column is not respected.
getc_delete_always ==
    /\ i' = Back(IF i # 0 THEN 2 ELSE 1)
    /\ display' = erase(display)
    /\ UNCHANGED <<pc, result>>

getc_delete ==
    /\ i' = Back(IF i # 0 THEN 2 ELSE 1)
    /\ display' = IF i # 0 THEN erase(display) ELSE display
    /\ UNCHANGED <<pc, result>>

getc_end(n, shown) ==
    /\ result' = n
    /\ display' = shown
    /\ pc' = "got"
    /\ UNCHANGED i

\* One turn of the loop: a character is stored, then looked at.
read_getc(c) ==
    /\ pc = "getc"
    /\ i < N
    /\ buf' = [buf EXCEPT ![i] = c]
    /\ CASE c = EOT_CHAR -> getc_end(i, display)
         [] c = DEL_CHAR -> getc_delete
         [] c \in {NL, CR} -> getc_end(i + 1, putc(display, NL))
         [] OTHER -> /\ i' = i + 1
                     /\ display' = putc(display, c)
                     /\ UNCHANGED <<pc, result>>
    /\ UNCHANGED <<program, base, system_time, mark, waited, msec, ct>>

\* Faulty variant: the newline after a full buffer is forgotten.
read_full_silent ==
    /\ pc = "getc"
    /\ i = N
    /\ getc_end(i, display)
    /\ UNCHANGED <<program, buf, base, system_time, mark, waited, msec, ct>>

\* The loop has ended: the buffer is full.
read_full ==
    /\ pc = "getc"
    /\ i = N
    /\ getc_end(i, IF i = BUF_SIZE /\ buf[N - 1] \notin {NL, CR}
                   THEN putc(display, NL) ELSE display)
    /\ UNCHANGED <<program, buf, base, system_time, mark, waited, msec, ct>>

-----------------------------------------------------------------------------
(* rot13.c and typo.c: main *)

\* What a program writes first, a blank for each stretch of text: rot13 does not
\* end its line when it was given no argument.
greeting(argc) ==
    CASE program = "hello" -> <<SPACE, CR, NL>>
      [] program = "rot13" -> <<SPACE, NL, SPACE>> \o (IF argc = 0 THEN <<>> ELSE <<NL>>)
      [] program \in {"splat", "cyclone"} -> <<SPACE, NL>>
      [] OTHER -> <<>>

\* main up to its loop: typo takes lasttime, and hello returns.
main(argc) ==
    /\ pc = "main"
    /\ display' = write_syscall(display, NUL, greeting(argc))
    /\ mark' = IF program = "typo" THEN system_time ELSE mark
    /\ pc' = IF program = "hello" THEN "done" ELSE "start"
    /\ UNCHANGED <<program, buf, i, result, base, system_time, waited, msec, ct>>

Bytes == [k \in 1..result |-> buf[k - 1]]

\* Faulty variant: N and n are left out.
rot13_off(c) ==
    CASE c \in 65..77 \/ c \in 97..109 -> c + 13
      [] c \in 79..90 \/ c \in 111..122 -> c - 13
      [] OTHER -> c

rot13(c) ==
    CASE c \in 65..77 \/ c \in 97..109 -> c + 13
      [] c \in 78..90 \/ c \in 110..122 -> c - 13
      [] OTHER -> c

\* write returns the whole count, so the do loop runs once; then the newline
\* of a full buffer.
rot13_write ==
    LET outBuffer == [k \in 1..result |-> rot13(Bytes[k])]
        written == write_syscall(display, NUL, outBuffer)
    IN  IF result = N /\ outBuffer[N] \notin {NL, CR}
        THEN write_syscall(written, NUL, <<NL>>)
        ELSE written

rot13_output ==
    /\ program = "rot13"
    /\ pc = "got"
    /\ result > 0
    /\ display' = rot13_write
    /\ pc' = "wrote"
    /\ UNCHANGED <<program, buf, i, result, base, system_time, mark, waited, msec, ct>>

\* The line, then the seconds and the tenths since lasttime, an int that stays
\* positive below half a Word; msec keeps the number they make.
typo_output ==
    LET Time == (system_time - mark) % Word
        timeSpentInt == Time \div (10 * Tenth)
        timeSpentFloat == Time \div Tenth - timeSpentInt * 10
    IN  /\ program = "typo"
        /\ pc = "got"
        /\ result > 0
        /\ msec' = 10 * timeSpentInt + timeSpentFloat
        /\ display' = putc(write_syscall(display, NUL, Bytes), NL)
        /\ pc' = "wrote"
        /\ UNCHANGED <<program, buf, i, result, base, system_time, mark, waited, ct>>

\* Faulty variant: lasttime is taken once only.
again_keeps ==
    /\ pc = "wrote"
    /\ pc' = "start"
    /\ waited' = 0
    /\ msec' = 0
    /\ display' = [display EXCEPT !.last = <<>>]
    /\ UNCHANGED <<program, buf, i, result, base, system_time, mark, ct>>

\* Back to the read; typo takes lasttime.
again ==
    /\ pc = "wrote"
    /\ pc' = "start"
    /\ waited' = 0
    /\ mark' = IF program = "typo" THEN system_time ELSE mark
    /\ msec' = 0
    /\ display' = [display EXCEPT !.last = <<>>]
    /\ UNCHANGED <<program, buf, i, result, base, system_time, ct>>

\* read returned 0: main returns.
leave ==
    /\ pc = "got"
    /\ result = 0
    /\ pc' = "done"
    /\ UNCHANGED <<program, buf, i, result, display, base, system_time, mark,
                   waited, msec, ct>>

-----------------------------------------------------------------------------
(* sleep_syscall, splat.c and cyclone.c *)

\* Faulty variant: the current time is not added.
sleep_target_absolute == msec \div SYSTIME_PRECISION

\* Faulty variant: a target that does not wrap, which the clock never reaches.
sleep_target_unbounded == mark + msec \div SYSTIME_PRECISION

\* (msec + SYSTIME_PRECISION * start_time) / SYSTIME_PRECISION, in 32 bits.
sleep_target == ((msec + SYSTIME_PRECISION * mark) % Word) \div SYSTIME_PRECISION

sleep_begin(millis) ==
    /\ mark' = system_time
    /\ msec' = millis
    /\ waited' = 0
    /\ pc' = "sleep"
    /\ UNCHANGED <<program, buf, i, result, base, system_time>>

sleep_end ==
    /\ pc = "sleep"
    /\ msec = 0 \/ ~(sleep_target > system_time)
    /\ pc' = "awake"
    /\ UNCHANGED <<program, buf, i, result, display, base, system_time, mark,
                   waited, msec, ct>>

\* printf("\b \b|"), or one of / - \, then sleep(200).
splat_turn ==
    /\ program = "splat"
    /\ pc \in {"start", "awake"}
    /\ display' = putc(erase(display), <<124, 47, 45, 92>>[ct + 1])
    /\ ct' = (ct + 1) % 4
    /\ sleep_begin(2 * SYSTIME_PRECISION)

\* fun1 of cyclone: a longer sleep in every round, the next round by
\* task_create, which starts fun1 anew (TaskCreate).
cyclone_round ==
    /\ program = "cyclone"
    /\ pc \in {"start", "awake"}
    /\ ct < ITE
    /\ ct' = ct + 1
    /\ sleep_begin(ct' * SYSTIME_PRECISION)
    /\ UNCHANGED display

cyclone_ends ==
    /\ program = "cyclone"
    /\ pc = "awake"
    /\ ct = ITE
    /\ pc' = "done"
    /\ UNCHANGED <<program, buf, i, result, display, base, system_time, mark,
                   waited, msec, ct>>

\* C_IRQ_Handler, where a program looks at the clock.  Nobody does while a line
\* is typed, so the ticks of a read are taken to come at its end.
tick ==
    /\ \/ pc = "sleep"
       \/ pc \in {"got", "wrote"} /\ program = "typo" /\ waited < MaxWait
    /\ system_time' = (system_time + 1) % Word
    /\ waited' = IF waited < Word THEN waited + 1 ELSE waited
    /\ UNCHANGED <<program, pc, buf, i, result, display, base, mark, msec, ct>>

\* The board as U-Boot leaves it; hello is also started on other ones, and
\* rot13 with an argument.
Plain ==
    /\ argv \in {<<>>} \union (IF program = "rot13" THEN {<<Min(Argument)>>} ELSE {})
    /\ \A v \in Vectors : vector[v].enc = "plus"

Init ==
    /\ BootInit
    /\ program \in Programs
    /\ program = "hello" \/ Plain
    /\ pc = "main"
    /\ buf = [k \in 0..(N - 1) |-> NUL]
    /\ i = 0 /\ result = 0
    /\ display = BlankDisplay
    /\ base = <<>>
    /\ system_time \in IF program \in {"splat", "cyclone"} THEN 0..(Word - 1) ELSE {Word - 2}
    /\ mark = system_time
    /\ waited = 0 /\ msec = 0 /\ ct = 0

ProgramStep ==
    \/ main(Len(entered) - 1)
    \/ \E fd \in 0..1, addr, count \in 0..(AddrWord - 1) :
           \/ any_call(read_check, 0, fd, addr, count)
           \/ any_call(write_check, 1, fd, addr, count)
    \/ read_begin \/ (\E c \in Keys : read_getc(c)) \/ read_full
    \/ rot13_output \/ typo_output \/ again \/ leave
    \/ sleep_end \/ splat_turn \/ cyclone_round \/ cyclone_ends \/ tick

Next ==
    \/ at = "user" /\ ProgramStep /\ UNCHANGED bootVars
    \/ BootStep /\ UNCHANGED vars
    \/ program = "hello" /\ pc = "main" /\ Exception /\ UNCHANGED vars

\* The processor looks at system_time many times in a tick, so the loop of
\* sleep_syscall sees every value; the timer goes on.
Spec ==
    /\ Init
    /\ [][Next]_<<vars, bootVars>>
    /\ WF_vars(tick /\ UNCHANGED bootVars)
    /\ SF_vars(sleep_end /\ UNCHANGED bootVars)

-----------------------------------------------------------------------------
(* Properties *)

\* io.c:39-78 reads a line and returns it as LineEditor says, whatever is typed:
\* deletions at the first columns included, where the unsigned index wraps, and
\* with what was deleted or left over nowhere in the bytes that are returned.
Editor == INSTANCE LineEditor WITH
    Text <- Keys \ {EOT_CHAR, DEL_CHAR, NL, CR},
    Ends <- {NL, CR},
    Room <- N,
    line <- IF pc = "getc" THEN [k \in 1..i |-> buf[k - 1]] ELSE Bytes,
    open <- pc = "getc"

ImplementsLineEditor == Editor!Spec

\* While a line is read, the terminal shows it after what it showed before,
\* and deletion never erases what the program had printed (io.c:55-60).
EchoFollowsLine ==
    pc = "getc" => display.line = base \o [k \in 1..i |-> buf[k - 1]]

\* rot13.c:52-76 on top of io.c: a line that a newline or the end of the buffer
\* ended is answered on a line of its own by its image, alone and complete.
AnswersOnOwnLine ==
    program = "rot13" /\ pc = "wrote" /\ ~(result < N /\ buf[result] = EOT_CHAR) =>
        LET text == IF Last(Bytes) \in {NL, CR} THEN Front(Bytes) ELSE Bytes
        IN  /\ display.line = <<>>
            /\ Len(display.last) = Len(text)
            /\ \A k \in 1..Len(text) : rot13(display.last[k]) = text[k]

\* typo.c:31-34: seconds and tenths make the time since lasttime, a wrap-around
\* of system_time and ticks during the output included.
ReportsElapsed ==
    [][program = "typo" /\ pc = "got" /\ pc' = "wrote" => msec' = waited \div Tenth]_vars

\* time.c:27 as far as it goes: sleep waits for the ticks the milliseconds make,
\* unless the 32-bit product has wrapped (time.c:40).
SleepsLongEnough ==
    pc = "awake" /\ msec + SYSTIME_PRECISION * mark < Word =>
        waited >= msec \div SYSTIME_PRECISION

\* sleep returns, even when its target has wrapped (time.c:42-44).
SleepEnds == (pc = "sleep") ~> (pc = "awake")

\* io.c:30-36, 91-97: what the two checks amount to.  A buffer that is accepted,
\* if its end can be represented, lies in user memory for read; for write, in
\* user memory, above the stacks, or wholly inside the stacks, for the second
\* test looks only for buffers that reach over a border.  The last case is not
\* what the comment at io.c:95 announces (see MCPromises).
RangeChecked ==
    program = "any" /\ pc = "done" /\ result = 0 /\ waited > 0
        /\ mark + waited < AddrWord =>
            \/ valid_addr(mark, waited, LEGEL_MEM_START_ADDR, KERNEL_START_ADDR)
            \/ /\ ct = 1
               /\ \/ valid_addr(mark, waited, KERNEL_START_ADDR, ABORT_STACK_END_ADDR)
                  \/ valid_addr(mark, waited, ABORT_STACK_END_ADDR, LEGEL_MEM_END_ADDR)
=============================================================================
