------------------------------ MODULE Terminal ------------------------------
(***************************************************************************)
(* What the console shows, and write_syscall, the kernel's way to it.      *)
(* U-Boot's putc is external: it appends to the current line and a newline *)
(* completes it.  A character is its ASCII code.                           *)
(***************************************************************************)
EXTENDS Integers, SequencesExt

NUL == 0
EOT_CHAR == 4
NL == 10
CR == 13
SPACE == 32
DEL_CHAR == 127

\* What a write of 2^32 - 1 bytes puts on the console.
Runaway == -1

\* The current line and the one completed before it.
BlankDisplay == [line |-> <<>>, last |-> <<>>]

putc(display, c) ==
    IF c = NL THEN [line |-> <<>>, last |-> display.line]
    ELSE [display EXCEPT !.line = Append(@, c)]

\* putc of every character of the text: the line is what follows the last
\* newline, the one completed before it lies between the last two.
putAll(display, text) ==
    LET all == display.line \o text
        ends == {k \in DOMAIN all : all[k] = NL}
        end == Max(ends)
        start == Max({0} \union (ends \ {end})) + 1
    IN  IF ends = {} THEN [display EXCEPT !.line = all]
        ELSE [line |-> SubSeq(all, end + 1, Len(all)), last |-> SubSeq(all, start, end - 1)]

\* "\b \b": the last character of the line disappears.
erase(display) ==
    IF display.line = <<>> THEN display ELSE [display EXCEPT !.line = Front(@)]

\* What write_syscall puts, its checks passed: a carriage return at the end
\* becomes a newline; with count = 0 the byte tested is the one before the
\* buffer, and the loop bound count - 1 wraps.
write_bytes(before, text) ==
    CASE text = <<>> /\ before = CR -> <<Runaway, NL>>
      [] text # <<>> /\ Last(text) = CR -> Front(text) \o <<NL>>
      [] OTHER -> text

write_syscall(display, before, text) == putAll(display, write_bytes(before, text))
=============================================================================
