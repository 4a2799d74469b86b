------------------------------- MODULE Format -------------------------------
(***************************************************************************)
(* _doprnt of tasks/libc/stdio: the sequence of characters it gives to     *)
(* putc for a format and its arguments.  Both are sequences; an argument   *)
(* is an integer, a text (for %s), or for %b an integer and a description  *)
(* of its bits, [base, fields], whose fields have a name and either one    *)
(* bit hi (lo = 0) or the bits lo..hi.  _doprnt_truncates is FALSE, as     *)
(* nobody sets it.                                                         *)
(***************************************************************************)
EXTENDS Numbers

\* The characters with a meaning in a format.
PERCENT == 37
HASH == 35
MINUS == 45
PLUS == 43
BLANK == 32
ZERO == 48
STAR == 42
DOT == 46
ELL == 108
EX == 120

Repeat(c, n) == IF n <= 0 THEN <<>> ELSE [k \in 1..n |-> c]

digs(d) == IF d < 10 THEN 48 + d ELSE 87 + d

RECURSIVE printnum(_, _)
printnum(u, base) ==
    IF u < base THEN <<digs(u)>> ELSE Append(printnum(u \div base, base), digs(u % base))

printnum_16(u) == [k \in 1..8 |-> digs((u \div 16^(8 - k)) % 16)]

-----------------------------------------------------------------------------
(* Between % and the conversion *)

\* Digits, or the next argument for a '*', or neither.
number(fmt, args, absent) ==
    LET k == Span(fmt, isdigit) IN
    CASE k > 0 -> [n |-> Value(SubSeq(fmt, 1, k), 10), fmt |-> Drop(fmt, k), args |-> args]
      [] k = 0 /\ StartsWith(fmt, {STAR}) ->
            [n |-> Head(args), fmt |-> Tail(fmt), args |-> Tail(args)]
      [] OTHER -> [n |-> absent, fmt |-> fmt, args |-> args]

\* fmt is what follows the %.  A negative width from an argument turns the
\* adjustment round; rest begins at the conversion.
directive(fmt, args) ==
    LET flags == Span(fmt, {HASH, MINUS, PLUS, BLANK})
        Flag(c) == \E k \in 1..flags : fmt[k] = c
        zero == StartsWith(Drop(fmt, flags), {ZERO})
        width == number(Drop(fmt, flags + (IF zero THEN 1 ELSE 0)), args, 0)
        prec == IF StartsWith(width.fmt, {DOT})
                THEN LET p == number(Tail(width.fmt), width.args, 0)
                     IN  IF p.fmt = Tail(width.fmt) THEN [p EXCEPT !.n = -1] ELSE p
                ELSE [width EXCEPT !.n = -1]
        longs == Span(prec.fmt, {ELL})
    IN  [altfmt |-> Flag(HASH),
         ladjust |-> Flag(MINUS) # (width.n < 0),
         plus_sign |-> IF Flag(PLUS) THEN <<PLUS>> ELSE IF Flag(BLANK) THEN <<BLANK>> ELSE <<>>,
         padc |-> IF zero THEN ZERO ELSE BLANK,
         length |-> IF width.n < 0 THEN -width.n ELSE width.n,
         prec |-> prec.n,
         longopt |-> longs,
         rest |-> Drop(prec.fmt, longs),
         args |-> prec.args]

-----------------------------------------------------------------------------
(* The conversions *)

\* Faulty variant: sign and prefix do not count.
Missing_digits_only(d, sign, pre, digits) == d.length - Len(digits)

\* The padding that is left when the number is built.
Missing(d, sign, pre, digits) == d.length - Len(digits) - Len(sign) - Len(pre)

print_num(d, base, sign, u) ==
    LET pre == IF u # 0 /\ d.altfmt
               THEN CASE base = 8 -> <<ZERO>> [] base = 16 -> <<ZERO, EX>> [] OTHER -> <<>>
               ELSE <<>>
        digits == printnum(u, base)
        Pad(c, when) == IF when THEN Repeat(c, Missing(d, sign, pre, digits)) ELSE <<>>
    IN  Pad(BLANK, d.padc = BLANK /\ ~d.ladjust)
        \o sign \o pre
        \o Pad(ZERO, d.padc = ZERO)
        \o digits
        \o Pad(BLANK, d.padc # ZERO /\ d.ladjust)

print_signed(d, base, n) ==
    IF n >= 0 THEN print_num(d, base, d.plus_sign, n)
    ELSE print_num(d, base, <<MINUS>>, -n)

print_unsigned(d, base, u) == print_num(d, base, <<>>, u)

\* %s: a string cut at prec; its padding on the right counts one character
\* too many when it was cut.
print_string(d, p) ==
    LET limit == IF d.prec = -1 THEN Len(p) ELSE Max({0, d.prec})
        cut == Len(p) > limit
        shown == IF cut THEN SubSeq(p, 1, limit) ELSE p
        n == IF cut THEN limit + 1 ELSE Len(p)
    IN  (IF d.ladjust THEN <<>> ELSE Repeat(BLANK, d.length - Len(shown)))
        \o shown
        \o (IF d.ladjust THEN Repeat(BLANK, d.length - n) ELSE <<>>)

\* %b: the number, then the names of the bits that are set and of the fields
\* with their values.
print_bits(u, desc) ==
    LET Text(f) == IF f.lo = 0 THEN f.name
                   ELSE f.name \o printnum((u \div 2^(f.lo - 1)) % 2^(f.hi - f.lo + 1), desc.base)
        chosen == SelectSeq(desc.fields,
                            LAMBDA f : f.lo # 0 \/ (u \div 2^(f.hi - 1)) % 2 = 1)
        texts == [k \in DOMAIN chosen |-> <<IF k = 1 THEN 60 ELSE 44>> \o Text(chosen[k])]
    IN  printnum(u, desc.base)
        \o (IF u = 0 \/ chosen = <<>> THEN <<>> ELSE FlattenSeq(texts) \o <<62>>)

\* %lt: both words of a thread id.
print_tid_long(d, high, low) ==
    LET pad == Repeat(BLANK, d.length - (IF d.altfmt THEN 19 ELSE 17))
        Bracket(c) == IF d.altfmt THEN <<c>> ELSE <<>>
    IN  (IF d.ladjust THEN <<>> ELSE pad)
        \o Bracket(91) \o printnum_16(high) \o <<58>> \o printnum_16(low) \o Bracket(93)
        \o (IF d.ladjust THEN pad ELSE <<>>)

\* Faulty variant: the digits of the thread do not count.
tid_pad_thread(d, n, lthread) == d.length - 1 - n

\* The padding before the thread, when n characters count as written.
tid_pad(d, n, lthread) == d.length - (IF lthread >= 16 THEN 2 ELSE 1) - n

\* %t: task and thread from the first word, task.thread.
print_tid(d, high) ==
    LET task == (high \div 2^17) % 2^11
        lthread == (high \div 2^10) % 2^7
        n == (IF d.altfmt THEN 4 ELSE 2)
             + (IF task >= 16 THEN 1 ELSE 0) + (IF task >= 256 THEN 1 ELSE 0)
        first == IF d.length > 0 /\ ~d.ladjust /\ d.length - 2 > n THEN d.length - 2 - n ELSE 0
        Bracket(c) == IF d.altfmt THEN <<c>> ELSE <<>>
        Pad(c, k, when) == IF when THEN Repeat(c, k) ELSE <<>>
    IN  Pad(BLANK, first, d.padc = BLANK)
        \o Bracket(91)
        \o Pad(ZERO, first, d.padc = ZERO)
        \o printnum(task, 16) \o <<DOT>>
        \o Pad(d.padc, tid_pad(d, n + first, lthread), ~d.ladjust)
        \o printnum(lthread, 16)
        \o Bracket(93)
        \o Pad(BLANK, tid_pad(d, n, lthread), d.ladjust)

\* The letters of the conversions, capitals included.
Letters == [b |-> {98, 66}, c |-> {99}, t |-> {116}, s |-> {115}, o |-> {111, 79},
            d |-> {100, 68}, u |-> {117, 85}, p |-> {112}, x |-> {120, 88},
            z |-> {122, 90}, r |-> {114, 82}, n |-> {110, 78}]

Conversion(c) == {letter \in DOMAIN Letters : c \in Letters[letter]}

\* The number of arguments a conversion takes.
Takes(c) ==
    CASE Conversion(c) = {} -> 0
      [] Conversion(c) \in {{"b"}, {"t"}} -> 2
      [] OTHER -> 1

\* What the conversion at the head of d.rest prints.
conversion(d, radix) ==
    LET c == Head(d.rest)
        arg == d.args
        Is(letter) == c \in Letters[letter]
    IN  CASE Is("b") -> print_bits(arg[1], arg[2])
          [] Is("c") -> <<arg[1]>>
          [] Is("t") -> IF d.longopt > 0 THEN print_tid_long(d, arg[1], arg[2])
                        ELSE print_tid(d, arg[1])
          [] Is("s") -> print_string(d, arg[1])
          [] Is("o") -> print_unsigned(d, 8, arg[1])
          [] Is("d") -> print_signed(d, 10, arg[1])
          [] Is("u") -> print_unsigned(d, 10, arg[1])
          [] Is("p") -> <<ZERO, EX>> \o print_unsigned(
                            [d EXCEPT !.padc = ZERO, !.length = 8], 16, arg[1])
          [] Is("x") -> print_unsigned(d, 16, arg[1])
          [] Is("z") -> print_signed(d, 16, arg[1])
          [] Is("r") -> print_signed(d, radix, arg[1])
          [] Is("n") -> print_unsigned(d, radix, arg[1])
          [] OTHER -> <<c>>

\* The turns of the loop: a character of the format itself, or a directive, which
\* the end of the format may cut off.
RECURSIVE turns(_, _)
turns(fmt, args) ==
    LET After(d) ==
            IF d.rest = <<>> THEN <<>>
            ELSE <<d>> \o turns(Tail(d.rest), Drop(d.args, Takes(Head(d.rest))))
    IN  CASE fmt = <<>> -> <<>>
          [] fmt # <<>> /\ Head(fmt) # PERCENT ->
                <<[plain |-> Head(fmt)]>> \o turns(Tail(fmt), args)
          [] OTHER -> After(directive(Tail(fmt), args))

\* What all turns print.
doprnt(fmt, args, radix) ==
    LET Put(out, turn) ==
            out \o (IF "plain" \in DOMAIN turn THEN <<turn.plain>> ELSE conversion(turn, radix))
    IN  FoldLeft(Put, <<>>, turns(fmt, args))

-----------------------------------------------------------------------------
(* hexdump, whose printf calls print one piece each *)

\* The row of the 16 bytes from i: the hexadecimal and the character column.
hexdump_row(b, i) ==
    LET Pair(j) == IF j >= Len(b) THEN <<BLANK, BLANK>>
                   ELSE doprnt(<<PERCENT, ZERO, 50, EX>>, <<b[j + 1]>>, 0)
        Char(j) == IF j >= Len(b) THEN BLANK ELSE IF b[j + 1] \in isgraph THEN b[j + 1] ELSE DOT
        Group(j) == IF j % 4 = 0 THEN <<BLANK>> ELSE <<>>
    IN  FlattenSeq([k \in 1..16 |-> Group(i + k - 1) \o Pair(i + k - 1)])
        \o Repeat(BLANK, 7) \o [k \in 1..16 |-> Char(i + k - 1)]

\* The rows between the two rules, each after "| " and its offset.
hexdump(b) ==
    [r \in 1..((Len(b) + 15) \div 16) |->
        <<124, BLANK>> \o doprnt(<<PERCENT, ZERO, 56, ELL, EX>>, <<16 * (r - 1)>>, 0)
        \o Repeat(BLANK, 6) \o hexdump_row(b, 16 * (r - 1)) \o <<BLANK, 124>>]
=============================================================================
