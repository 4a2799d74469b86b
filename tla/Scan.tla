-------------------------------- MODULE Scan --------------------------------
(***************************************************************************)
(* _doscan and sscanf of tasks/libc/stdio.  The input is a text with its   *)
(* final 0; %s does not stop there, so a text that ends in a %s without    *)
(* white space behind it is read past its end (Overrun).                   *)
(***************************************************************************)
EXTENDS Numbers

Overrun == -1

\* The input after the white space at its start.
SkipSpace(in) == Drop(in, Span(in, isspace))

\* Faulty variant: the sign is skipped and forgotten.
scan_number_unsigned(in, base) ==
    LET text == IF StartsWith(in, {45}) THEN Tail(in) ELSE in
    IN  [value |-> Signed(Value(text, base)), in |-> Drop(text, Span(text, Digits(base)))]

\* %d and %x: an optional sign and digits, perhaps none.
scan_number(in, base) ==
    LET neg == StartsWith(in, {45})
        text == IF neg THEN Tail(in) ELSE in
        v == Value(text, base)
    IN  [value |-> Signed(IF neg THEN -v ELSE v), in |-> Drop(text, Span(text, Digits(base)))]

\* %s: everything up to white space.
scan_string(in) ==
    LET k == Span(in, Code \ isspace)
    IN  [value |-> IF k = Len(in) THEN Overrun ELSE SubSeq(in, 1, k), in |-> Drop(in, k)]

\* The conversion with letter c.
scan_conversion(in, c) ==
    CASE c = 100 -> scan_number(in, 10)
      [] c = 120 -> scan_number(in, 16)
      [] c = 115 -> scan_string(in)

\* What is stored and returned; vals counts conversions that found nothing
\* too, and unknown letters.
RECURSIVE doscan(_, _, _)
doscan(fmt, in, got) ==
    LET c == Head(fmt)
        discard == fmt[2] = 42
        letter == IF discard THEN fmt[3] ELSE fmt[2]
        rest == Drop(fmt, IF discard THEN 3 ELSE 2)
        scanned == scan_conversion(in, letter)
    IN  CASE fmt = <<>> -> got
          [] fmt # <<>> /\ c \in isspace -> doscan(Tail(fmt), SkipSpace(in), got)
          [] fmt # <<>> /\ c \notin isspace \union {37} ->
                IF Head(in) = c THEN doscan(Tail(fmt), Tail(in), got) ELSE got
          [] OTHER ->
                IF letter \notin {100, 120, 115}
                THEN doscan(rest, in, [got EXCEPT !.vals = IF discard THEN @ ELSE @ + 1])
                ELSE doscan(rest, scanned.in,
                            IF discard THEN got
                            ELSE [vals |-> got.vals + 1,
                                  stored |-> Append(got.stored, scanned.value)])

sscanf(s, fmt) == doscan(fmt, Append(s, 0), [vals |-> 0, stored |-> <<>>])
=============================================================================
