------------------------------ MODULE Library ------------------------------
(***************************************************************************)
(* A client of the C library makes one call: of a string function on a     *)
(* small memory, of a conversion to or from text, of rand, or of printf,   *)
(* whose characters travel through the buffer of printf.c and puts,        *)
(* putchar and write to the console one by one.                            *)
(***************************************************************************)
EXTENDS CString, Format, Scan, Terminal

CONSTANTS
    MemSize,        \* cells of the memory
    Byte,           \* what a cell holds
    PRINTF_BUFMAX,  \* size of the buffer of printf.c
    MaxText,        \* length of a text that is printed
    NoResult        \* ret before the call

ASSUME LibraryAssumption ==
    /\ MemSize \in Nat \ {0} /\ MaxText \in Nat
    /\ 0 \in Byte /\ Byte \subseteq 0..255
    /\ PRINTF_BUFMAX \in Nat \ {0, 1}

Addr == 0..(MemSize - 1)

VARIABLES
    call,     \* the call: its function and its arguments
    before,   \* the memory when it was made
    mem,      \* the memory
    ret,      \* what it returned
    todo,     \* printf: what _doprnt has still to give to printf_char
    buf,      \* printf: state.buf up to state.index
    console   \* what is on the console

vars == <<call, before, mem, ret, todo, buf, console>>

Idle == [fn |-> "none"]
Zeroes == [a \in Addr |-> 0]

\* The string at p.
Str(m, p) == [k \in 1..strlen(m, p) |-> m[p + k - 1]]

Init ==
    /\ mem \in {m \in [Addr -> Byte] : m[MemSize - 1] = 0}
    /\ before = mem
    /\ call = Idle
    /\ ret = NoResult
    /\ todo = <<>> /\ buf = <<>> /\ console = <<>>

-----------------------------------------------------------------------------
(* String functions *)

Disjoint(p, n, q, k) == p + n <= q \/ q + k <= p

\* p[0..n-1] is in memory.
Fits(p, n) == p + n <= MemSize

\* The calls the standard allows: room for the result, and no overlap but for
\* memmove.
Legal(fn, p, q, n) ==
    LET len == strlen(mem, q)
        end == p + strlen(mem, p)
        taken == IF n < len THEN n ELSE len
    IN  CASE fn = "memmove" -> Fits(p, n) /\ Fits(q, n)
          [] fn = "memset" -> Fits(p, n)
          [] fn = "strcpy" -> Fits(p, len + 1) /\ Disjoint(p, len + 1, q, len + 1)
          [] fn = "strcat" -> Fits(end, len + 1) /\ Disjoint(p, end - p + len + 1, q, len + 1)
          [] fn = "strncat" -> Fits(end, taken + 1) /\ Disjoint(p, end - p + taken + 1, q, len + 1)
          [] fn = "strncpy" -> Fits(p, n) /\ Disjoint(p, n, q, len + 1)

Writers == {"memmove", "memset", "strcpy", "strcat", "strncat", "strncpy"}

\* For memset, n is the length and q the character.
write_memory(fn, p, q, n) ==
    /\ call = Idle
    /\ Legal(fn, p, q, n)
    /\ call' = [fn |-> fn, p |-> p, q |-> q, n |-> n]
    /\ mem' = CASE fn = "memmove" -> memmove(mem, p, q, n)
                [] fn = "memset" -> memset(mem, p, q, n)
                [] fn = "strcpy" -> strcpy(mem, p, q)
                [] fn = "strcat" -> strcat(mem, p, q)
                [] fn = "strncat" -> strncat(mem, p, q, n)
                [] fn = "strncpy" -> strncpy(mem, p, q, n)
    /\ UNCHANGED <<before, ret, todo, buf, console>>

\* All functions that only look, on the strings p and q, the character or the
\* count n.
search_memory(p, q, n) ==
    /\ call = Idle
    /\ call' = [fn |-> "search", p |-> p, q |-> q, n |-> n]
    /\ ret' = [strchr |-> strchr(mem, p, n), strrchr |-> strrchr(mem, p, n),
               strspn |-> strspn(mem, p, q), strcspn |-> strcspn(mem, p, q),
               strpbrk |-> strpbrk(mem, p, q), strstr |-> strstr(mem, p, q),
               strcmp |-> strcmp(mem, p, q), strncmp |-> strncmp(mem, p, q, n)]
    /\ UNCHANGED <<before, mem, todo, buf, console>>

-----------------------------------------------------------------------------
(* Conversions.  They do not use the memory and are made from one only. *)

Compute(record, result) ==
    /\ call = Idle
    /\ mem = Zeroes
    /\ call' = record
    /\ ret' = result
    /\ UNCHANGED <<before, mem, todo, buf, console>>

\* A directive: flags, a zero, a width (written, or an argument), a precision.
Directive(flags, zero, width, prec, conv) ==
    <<PERCENT>> \o SetToSeq(flags) \o (IF zero THEN <<ZERO>> ELSE <<>>)
    \o (CASE width = 0 -> <<>> [] width < 0 -> <<STAR>> [] OTHER -> printnum(width, 10))
    \o (IF prec >= 0 THEN <<DOT>> \o printnum(prec, 10) ELSE <<>>) \o conv

\* sprintf of one value.  A negative width is passed as an argument.
sprintf_one(flags, zero, width, prec, conv, values) ==
    LET fmt == Directive(flags, zero, width, prec, conv)
        args == (IF width < 0 THEN <<width>> ELSE <<>>) \o values
    IN  Compute([fn |-> "sprintf", flags |-> flags, zero |-> zero, width |-> width,
                 prec |-> prec, conv |-> conv, values |-> values],
                doprnt(fmt, args, 0))

\* Text that printing makes, and a format that reads it.
sscanf_printed(printed, values, fmt, expected) ==
    \E text \in {doprnt(printed, values, 0)} :
        Compute([fn |-> "sscanf", expected |-> expected], sscanf(text, fmt))

ctype(c) == Compute([fn |-> "ctype", c |-> c], NoResult)

log(x) == Compute([fn |-> "ilog2", x |-> x], <<ilog2(x), ilog2_ndebug(x)>>)

dump(b) == Compute([fn |-> "hexdump", b |-> b], hexdump(b))

\* The seeds that follow two seeds.
rand_both(x, y, word, step, rotation) ==
    Compute([fn |-> "rand", x |-> x, y |-> y],
            <<rand(x, word, step, rotation), rand(y, word, step, rotation)>>)

-----------------------------------------------------------------------------
(* sprintf.c: the characters are stored below a limit *)

savechar(state, c) ==
    IF state.max # -1 /\ state.len = state.max THEN state
    ELSE [state EXCEPT !.len = @ + 1, !.cells[state.len + 1] = c]

\* vsprintf (max = -1) and vsnprintf (max = size); cells is the memory at s,
\* 1 where nothing has been stored.
snprintf(max, text) ==
    LET state == FoldLeft(savechar,
                          [max |-> max, len |-> 0, cells |-> Repeat(1, MaxText + 3)], text)
    IN  Compute([fn |-> "snprintf", max |-> max, text |-> text],
                [state EXCEPT !.cells[state.len + 1] = 0])

-----------------------------------------------------------------------------
(* printf.c, puts.c, putchar.c *)

\* behind is the byte in front of state.buf on the stack.
printf_begin(text, behind) ==
    /\ call = Idle
    /\ mem = Zeroes
    /\ call' = [fn |-> "printf", text |-> text, behind |-> behind]
    /\ todo' = text
    /\ UNCHANGED <<before, mem, ret, buf, console>>

\* The buffer as puts and flush write it.
WriteBuf == console \o write_bytes(call.behind, buf)

\* write of an int: the character and three zero bytes.
putchar(c) == write_bytes(NUL, <<c, NUL, NUL, NUL>>)

\* Faulty variant: a full buffer loses the character that did not fit.
printf_char_drops(c) ==
    CASE c = NL -> console' = WriteBuf \o write_bytes(NUL, <<NL>>) /\ buf' = <<>>
      [] c # NL /\ (c = 0 \/ Len(buf) >= PRINTF_BUFMAX - 1) -> console' = WriteBuf /\ buf' = <<>>
      [] OTHER -> buf' = Append(buf, c) /\ UNCHANGED console

printf_char(c) ==
    CASE c = NL -> console' = WriteBuf \o write_bytes(NUL, <<NL>>) /\ buf' = <<>>
      [] c # NL /\ (c = 0 \/ Len(buf) >= PRINTF_BUFMAX - 1) ->
            console' = WriteBuf \o putchar(c) /\ buf' = <<>>
      [] OTHER -> buf' = Append(buf, c) /\ UNCHANGED console

\* _doprnt gives the next character.
printf_step ==
    /\ call.fn = "printf"
    /\ todo # <<>>
    /\ printf_char(Head(todo))
    /\ todo' = Tail(todo)
    /\ UNCHANGED <<call, before, mem, ret>>

\* The end of vprintf.
vprintf_flush ==
    /\ call.fn = "printf"
    /\ todo = <<>>
    /\ buf # <<>>
    /\ console' = WriteBuf
    /\ buf' = <<>>
    /\ UNCHANGED <<call, before, mem, ret, todo>>

-----------------------------------------------------------------------------
(* Properties *)

\* The memory m with the bytes of s from address p on.
Overlay(m, p, s) ==
    [a \in Addr |-> IF a - p + 1 \in DOMAIN s THEN s[a - p + 1] ELSE m[a]]

\* memmove.c, strcpy.c, strcat.c, strncat.c, strncpy.c, memset.c: the memory
\* holds what the call asks for, with the terminator or padding, and no other
\* cell is touched.  memmove copies what the source was before the call, in both
\* directions of an overlap (memmove.c:18-23).  strncpy is left out where its
\* source does not end within the count: there it does not stop
\* (strncpy.c:51-54).
StringsAreBuilt ==
    call.fn \in Writers =>
        LET p == call.p
            s == Str(before, call.q)
            end == p + strlen(before, p)
            Upto(k) == SubSeq(s, 1, IF k < Len(s) THEN k ELSE Len(s))
        IN  CASE call.fn = "memmove" ->
                    mem = Overlay(before, p, [k \in 1..call.n |-> before[call.q + k - 1]])
              [] call.fn = "memset" -> mem = Overlay(before, p, Repeat(call.q, call.n))
              [] call.fn = "strcpy" -> mem = Overlay(before, p, Append(s, 0))
              [] call.fn = "strcat" -> mem = Overlay(before, end, Append(s, 0))
              [] call.fn = "strncat" -> mem = Overlay(before, end, Append(Upto(call.n), 0))
              [] call.fn = "strncpy" ->
                    Len(s) < call.n => mem = Overlay(before, p, s \o Repeat(0, call.n - Len(s)))

\* strchr.c to strstr.c agree with each other and with the strings: the first
\* and the last occurrence, complementary spans, the first position of a
\* substring.  strrchr does not find the terminator, strchr does.
SearchesAgree ==
    call.fn = "search" =>
        LET p == call.p
            s == Str(mem, p)
            set == ToSet(Str(mem, call.q))
            Found(c) == {k \in DOMAIN s : s[k] = c}
            At(k) == p + k - 1
            Starts == {k \in 1..(Len(s) + 1) : IsPrefix(Str(mem, call.q), Str(mem, At(k)))}
        IN  /\ ret.strchr = CASE call.n = 0 -> p + Len(s)
                              [] call.n # 0 /\ Found(call.n) = {} -> NULL
                              [] OTHER -> At(Min(Found(call.n)))
            /\ ret.strrchr = IF Found(call.n) = {} THEN NULL ELSE At(Max(Found(call.n)))
            /\ ToSet(SubSeq(s, 1, ret.strspn)) \subseteq set
            /\ ret.strspn < Len(s) => s[ret.strspn + 1] \notin set
            /\ ToSet(SubSeq(s, 1, ret.strcspn)) \intersect set = {}
            /\ ret.strpbrk = IF ret.strcspn = Len(s) THEN NULL ELSE p + ret.strcspn
            /\ ret.strstr = IF Starts = {} THEN NULL ELSE At(Min(Starts))

\* strcmp.c, strncmp.c: the sign is that of the lexicographic order, of the
\* first n characters for strncmp.
ComparesInOrder ==
    call.fn = "search" =>
        LET Upto(s, n) == IF n < Len(s) THEN SubSeq(s, 1, n) ELSE s
            Less(s, t) == \/ IsStrictPrefix(s, t)
                          \/ \E k \in DOMAIN s \intersect DOMAIN t :
                                 /\ SubSeq(s, 1, k - 1) = SubSeq(t, 1, k - 1)
                                 /\ s[k] < t[k]
            Agrees(r, s, t) == (r < 0 <=> Less(s, t)) /\ (r = 0 <=> s = t)
            s1 == Str(mem, call.p)
            s2 == Str(mem, call.q)
        IN  /\ Agrees(ret.strcmp, s1, s2)
            /\ Agrees(ret.strncmp, Upto(s1, call.n), Upto(s2, call.n))

\* The functions of string.h that only read say where and how strings agree:
\* searches and comparisons, against the strings and against each other.
StringsAreRead == SearchesAgree /\ ComparesInOrder

\* doprnt.c: a field is as wide as it was asked for, or as its contents, on
\* whichever side the padding is and whatever sign, prefix or precision comes
\* with it.  A character is not put in a field: %c gives one character whatever
\* its width (doprnt.c:328-331), against doprnt.c:62-66 (see MCPromises).  A cut
\* string that is adjusted to the left is left out (doprnt.c:476).
FieldIsFilled ==
    call.fn = "sprintf"
        /\ ~(call.conv = <<115>> /\ call.prec \in 0..(Len(call.values[1]) - 1)
                /\ (MINUS \in call.flags) # (call.width < 0)) =>
        LET bare == doprnt(Directive(call.flags, FALSE, 0, call.prec, call.conv), call.values, 0)
            width == CASE call.conv = <<99>> -> 1
                       [] call.conv # <<99>> /\ call.width < 0 -> -call.width
                       [] OTHER -> call.width
        IN  Len(ret) = IF width > Len(bare) THEN width ELSE Len(bare)

\* strtol.c and strtoul.c read what doprnt.c has printed, however it was
\* padded, the most negative number included; with '#' the base is found from
\* the text.  A '+' is left out: strtol does not skip it (strtol.c:35).
ReadsBack ==
    call.fn = "sprintf" /\ call.conv \in {<<100>>, <<122>>, <<117>>, <<111>>, <<120>>} =>
        LET n == call.values[1]
            alt == HASH \in call.flags
        IN  CASE call.conv = <<100>> -> PLUS \in call.flags \/ strtol(ret, 10) = n
              [] call.conv = <<122>> -> PLUS \in call.flags \/ strtol(ret, 16) = n
              [] call.conv = <<117>> -> strtoul(ret, 10) = n
              [] call.conv = <<111>> -> strtoul(ret, IF alt THEN 0 ELSE 8) = n
              [] call.conv = <<120>> -> strtoul(ret, IF alt THEN 0 ELSE 16) = n

\* doscan.c on what doprnt.c has printed: the values come back, in order, and
\* are counted, with what is discarded in between.
ScanInvertsPrint ==
    call.fn = "sscanf" => ret = [vals |-> Len(call.expected), stored |-> call.expected]

\* sprintf.c:38-77: what is stored is the text up to the limit, and one
\* terminator, which is the only byte that may come to lie at s[size].
StoresPrefix ==
    call.fn = "snprintf" =>
        LET kept == IF call.max = -1 \/ call.max > Len(call.text) THEN Len(call.text) ELSE call.max
        IN  /\ ret.len = kept
            /\ ret.cells = SubSeq(call.text, 1, kept) \o <<0>> \o Repeat(1, MaxText + 2 - kept)

\* A text as the terminal shows it.
Shown(s) == [k \in DOMAIN SelectSeq(s, LAMBDA c : c # 0) |->
                LET c == SelectSeq(s, LAMBDA x : x # 0)[k] IN IF c = CR THEN NL ELSE c]

\* printf.c:44-90: console, buffer and the rest make the text at every moment,
\* so nothing is lost, repeated or exchanged where the buffer is full or a line
\* ends.  An empty write behind a carriage return is left out (io.c:103).
ConsoleShowsText ==
    call.fn = "printf" /\ call.behind # CR =>
        Shown(console) \o Shown(buf) \o Shown(todo) = Shown(call.text)

\* What _doprnt emits arrives where it is sent, in memory up to the limit of
\* snprintf and on the console through the buffer of printf.
TextArrives == StoresPrefix /\ ConsoleShowsText

\* ctype.h: every code is a control character, the blank, punctuation, a letter
\* or a digit, and only one of them; the conversions of case are inverse.
ClassesPartition ==
    call.fn = "ctype" =>
        /\ Cardinality({S \in {iscntrl, {32}, ispunct, isalpha, isdigit} : call.c \in S}) = 1
        /\ call.c \in isupper => toupper(tolower(call.c)) = call.c
        /\ call.c \in islower => tolower(toupper(call.c)) = call.c
        /\ call.c \in isxdigit <=> (call.c \in isalnum /\ DigitValue(call.c) < 16)

\* math.c:38-101: both versions of ilog2 find the highest bit.
LogsAgree ==
    call.fn = "ilog2" =>
        /\ ret[1] = ret[2]
        /\ call.x > 0 => 2^ret[1] <= call.x /\ call.x < 2^(ret[1] + 1)

\* hexdump.c: all rows have the width of the frame (hexdump.c:49), and there is
\* one for every sixteen bytes, begun or not.
RowsAligned ==
    call.fn = "hexdump" =>
        /\ \A r \in DOMAIN ret : Len(ret[r]) = 77
        /\ Len(ret) * 16 >= Len(call.b) /\ (Len(ret) - 1) * 16 < Len(call.b)

\* rand.c:26-28 keeps different seeds apart; so it permutes them, and the
\* generator comes back to its seed, which the test code at rand.c:52 waits for,
\* instead of running into a shorter cycle.
SeedsStayApart == call.fn = "rand" /\ call.x # call.y => ret[1] # ret[2]

\* The algorithms without state: character classes, both logarithms, the dump
\* and the random numbers are what ctype.h, math.c, hexdump.c and rand.c are for.
SupportSound == ClassesPartition /\ LogsAgree /\ RowsAligned /\ SeedsStayApart
=============================================================================
