----------------------------- MODULE MCLibrary -----------------------------
(* Library for TLC: the calls and their arguments. *)
EXTENDS Library

Widths == {-6, 0, 2, 6}
Unsigned == {0, 7, 8, 100, 255}
SignedValues == {-128, -10, 0, 9, 127}

\* Thread ids with one and more digits in both parts: task * 2^17 + thread * 2^10.
Tids == {0, 3 * 2^17 + 2^10, 300 * 2^17 + 5 * 2^10, 31 * 2^17 + 100 * 2^10}

\* "reg" with a single bit and a field.
Bits == [base |-> 16,
         fields |-> <<[hi |-> 4, lo |-> 3, name |-> <<70, 61>>], [hi |-> 2, lo |-> 0, name |-> <<66>>]>>]

SprintfNext ==
    \E flags \in SUBSET {HASH, MINUS, PLUS, BLANK}, zero \in BOOLEAN, width \in Widths :
        \/ \E conv \in {<<100>>, <<122>>}, n \in SignedValues :
               sprintf_one(flags, zero, width, -1, conv, <<n>>)
        \/ \E conv \in {<<117>>, <<111>>, <<120>>, <<108, 117>>}, u \in Unsigned :
               sprintf_one(flags, zero, width, -1, conv, <<u>>)
        \/ \E prec \in {-1, 0, 2}, s \in {<<>>, <<65>>, <<65, 66, 67>>} :
               sprintf_one(flags, FALSE, width, prec, <<115>>, <<s>>)
        \/ \E tid \in Tids : sprintf_one(flags, zero, width, -1, <<116>>, <<tid, 0>>)
        \/ sprintf_one(flags, zero, 20, -1, <<108, 116>>, <<7, 8>>)
        \/ sprintf_one(flags, zero, width, -1, <<99>>, <<65>>)

OthersNext ==
    \/ \E c \in Code : ctype(c)
    \/ \E x \in 0..70 \union {255, 256, 32767, 32768, 65535} : log(x)
    \/ \E len \in {0, 1, 3, 4, 15, 16, 17, 33} : dump([k \in 1..len |-> (k * 37) % 256])
    \/ \E x, y \in (0..7) \X (0..7) : rand_both(x, y, 8, 5, 1)

\* "%d,%x"; "%d   %x" read by "%d %x"; a word in between; a word first; "%b %d"
\* and "%% %p", whose first words are discarded.
SscanfNext ==
    \E a \in SignedValues, b \in Unsigned :
        \/ sscanf_printed(<<37, 100, 44, 37, 120>>, <<a, b>>, <<37, 100, 44, 37, 120>>,
                          <<a, Signed(b)>>)
        \/ sscanf_printed(<<37, 100, 32, 32, 32, 37, 120>>, <<a, b>>,
                          <<37, 100, 32, 37, 120>>, <<a, Signed(b)>>)
        \/ sscanf_printed(<<37, 100, 32, 37, 115, 32, 37, 120>>, <<a, <<65, 66>>, b>>,
                          <<37, 100, 32, 37, 42, 115, 32, 37, 120>>, <<a, Signed(b)>>)
        \/ sscanf_printed(<<37, 115, 32, 37, 100>>, <<<<65, 66>>, a>>,
                          <<37, 115, 32, 37, 100>>, <<<<65, 66>>, a>>)
        \/ sscanf_printed(<<37, 98, 32, 37, 100>>, <<b, Bits, a>>,
                          <<37, 42, 115, 32, 37, 100>>, <<a>>)
        \/ sscanf_printed(<<37, 37, 32, 37, 112>>, <<b>>,
                          <<37, 42, 115, 32, 37, 42, 37, 48, 120, 37, 120>>, <<Signed(b)>>)

Texts(S) == UNION {[1..n -> S] : n \in 0..MaxText}

StdioNext ==
    \/ \E text \in Texts({0, NL, CR, 65}), behind \in {NUL, CR} : printf_begin(text, behind)
    \/ \E max \in -1..(MaxText + 1), text \in Texts({65, 66}) : snprintf(max, text)

StringNext ==
    \/ \E fn \in Writers, p \in Addr, q \in Addr, n \in 0..MemSize : write_memory(fn, p, q, n)
    \/ \E p \in Addr, q \in Addr, n \in Byte : search_memory(p, q, n)

Next ==
    \/ call = Idle /\ StringNext
    \/ call = Idle /\ mem = Zeroes /\ (SprintfNext \/ SscanfNext \/ OthersNext \/ StdioNext)
    \/ printf_step
    \/ vprintf_flush

Spec == Init /\ [][Next]_vars
=============================================================================
