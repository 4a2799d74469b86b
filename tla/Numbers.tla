------------------------------ MODULE Numbers ------------------------------
(***************************************************************************)
(* Text to numbers, and the kernel's and the library's integer routines.   *)
(* A text is the sequence of the codes before the 0.  unsigned long has    *)
(* Long values (2^32 in the code), and arithmetic is modulo Long.          *)
(***************************************************************************)
EXTENDS Ctype, SequencesExt, Bitwise

CONSTANT Long

\* The signed number with the given bits.
Signed(u) == IF u % Long < Long \div 2 THEN u % Long ELSE (u % Long) - Long

\* The length of the longest prefix of s in S, and what follows k elements.
Span(s, S) ==
    CHOOSE k \in 0..Len(s) : /\ \A j \in 1..k : s[j] \in S
                             /\ k < Len(s) => s[k + 1] \notin S
Drop(s, k) == SubSeq(s, k + 1, Len(s))
StartsWith(s, S) == s # <<>> /\ Head(s) \in S

\* The value of a digit or letter; the digits of a base.
DigitValue(c) ==
    CASE c \in isdigit -> c - 48
      [] c \in islower -> c - 97 + 10
      [] c \in isupper -> c - 65 + 10

Digits(base) == {c \in isalnum : DigitValue(c) < base}

\* n * base + digit over the digits at the start of s, modulo Long.
Value(s, base) ==
    FoldLeft(LAMBDA n, c : (n * base + DigitValue(c)) % Long, 0,
             SubSeq(s, 1, Span(s, Digits(base))))

\* "0x" before the digits.
Hex(s) == Len(s) >= 2 /\ s[1] = 48 /\ s[2] \in {88, 120}

\* Faulty variant: a leading 0 alone is decimal.
prefix_no_octal(s, base) ==
    CASE base \in {0, 16} /\ Hex(s) -> [base |-> 16, text |-> Drop(s, 2)]
      [] ~(base \in {0, 16} /\ Hex(s)) /\ base = 0 -> [base |-> 10, text |-> s]
      [] OTHER -> [base |-> base, text |-> s]

\* The base and the digits that the prefix of a number asks for.
prefix(s, base) ==
    CASE base \in {0, 16} /\ Hex(s) -> [base |-> 16, text |-> Drop(s, 2)]
      [] ~(base \in {0, 16} /\ Hex(s)) /\ base = 0 ->
            [base |-> IF StartsWith(s, {48}) THEN 8 ELSE 10, text |-> s]
      [] OTHER -> [base |-> base, text |-> s]

\* The value, without the pointer to what follows it; a '+' is looked at but not
\* skipped, so it ends the number.
strtol(p, base) ==
    LET s == Drop(p, Span(p, isspace))
        is_neg == StartsWith(s, {45})
        n == prefix(IF is_neg THEN Tail(s) ELSE s, base)
        v == Value(n.text, n.base)
    IN  Signed(IF is_neg THEN -v ELSE v)

strtoul(p, base) ==
    LET n == prefix(Drop(p, Span(p, isspace)), base) IN Value(n.text, n.base)

atol(str) == Signed(Value(str, 10))

-----------------------------------------------------------------------------
\* rand: the new seed; the number is its first word without the sign bit.
\* word, step and rotation are 2^32, 0xa859c317 and 13 in the code.
rand(seed, word, step, rotation) ==
    LET shifted == seed[2] * 2^rotation
        first == (seed[1] + step + (shifted % word) + shifted \div word) % word
    IN  <<first, (seed[2] + first) % word>>

\* math.c: the debug and the optimized version.
RECURSIVE ilog2(_)
ilog2(x) == IF x \div 2 = 0 THEN 0 ELSE 1 + ilog2(x \div 2)

\* Faulty variant: the number is not shifted with the result.
ilog2_ndebug_unshifted(v) ==
    FoldLeft(LAMBDA r, s : IF (v & (2^(2 * s) - 2^s)) # 0 THEN r + s ELSE r, 0, <<8, 4, 2, 1>>)

\* b[i] masks the upper S[i] of 2 * S[i] bits; 8 is the widest step here.
ilog2_ndebug(v) ==
    FoldLeft(LAMBDA acc, s :
                 IF (acc.v & (2^(2 * s) - 2^s)) # 0
                 THEN [v |-> acc.v \div 2^s, r |-> acc.r + s] ELSE acc,
             [v |-> v, r |-> 0], <<8, 4, 2, 1>>).r
=============================================================================
