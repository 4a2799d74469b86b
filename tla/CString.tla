------------------------------ MODULE CString ------------------------------
(***************************************************************************)
(* tasks/libc/string: functions on memory.  A memory maps addresses to     *)
(* bytes, a pointer is an address, a string starts at its pointer and ends *)
(* at the first 0.  Functions that write return the new memory, functions  *)
(* that search a pointer or NULL.                                          *)
(***************************************************************************)
EXTENDS Integers, SequencesExt

NULL == -1

\* memmove and memcpy: upwards if the destination is lower, else downwards.
memmove(mem, dest, src, count) ==
    FoldLeft(LAMBDA m, i : [m EXCEPT ![dest + i - 1] = m[src + i - 1]],
             mem,
             IF dest < src THEN [i \in 1..count |-> i]
             ELSE [i \in 1..count |-> count + 1 - i])

memset(mem, to, c, len) ==
    [a \in DOMAIN mem |-> IF a \in to..(to + len - 1) THEN c ELSE mem[a]]

RECURSIVE strlen(_, _)
strlen(mem, string) == IF mem[string] = 0 THEN 0 ELSE 1 + strlen(mem, string + 1)

RECURSIVE strcpy(_, _, _)
strcpy(mem, to, from) ==
    LET copied == [mem EXCEPT ![to] = mem[from]]
    IN  IF mem[from] = 0 THEN copied ELSE strcpy(copied, to + 1, from + 1)

strcat(mem, s, add) == strcpy(mem, s + strlen(mem, s), add)

\* The do loop of strncat, n # 0 characters to go.
RECURSIVE Appended(_, _, _, _)
Appended(mem, d, s, n) ==
    LET copied == [mem EXCEPT ![d] = mem[s]]
    IN  CASE mem[s] = 0 -> copied
          [] mem[s] # 0 /\ n = 1 -> [copied EXCEPT ![d + 1] = 0]
          [] OTHER -> Appended(copied, d + 1, s + 1, n - 1)

\* Faulty variant: the last byte of the destination is not the first written.
strncat_after(mem, dst, src, n) ==
    IF n = 0 THEN mem ELSE Appended(mem, dst + strlen(mem, dst) + 1, src, n)

strncat(mem, dst, src, n) ==
    IF n = 0 THEN mem ELSE Appended(mem, dst + strlen(mem, dst), src, n)

\* count-- of the test that ends the first loop wraps if no 0 was met: then the
\* second loop writes 2^32 - 1 bytes.
RECURSIVE strncpy(_, _, _, _)
strncpy(mem, to, from, count) ==
    LET copied == [mem EXCEPT ![to] = mem[from]]
    IN  CASE count = 0 -> [a \in DOMAIN mem |-> IF a < to THEN mem[a] ELSE 0]
          [] count # 0 /\ mem[from] = 0 -> memset(copied, to + 1, 0, count - 1)
          [] OTHER -> strncpy(copied, to + 1, from + 1, count - 1)

\* What strstr.c calls: the function of GNU C, for memcmp.c:49-63 is compiled only
\* by other compilers.
RECURSIVE memcmp(_, _, _, _)
memcmp(mem, s1, s2, size) ==
    CASE size = 0 -> 0
      [] size # 0 /\ mem[s1] # mem[s2] -> mem[s1] - mem[s2]
      [] OTHER -> memcmp(mem, s1 + 1, s2 + 1, size - 1)

RECURSIVE strcmp(_, _, _)
strcmp(mem, s1, s2) ==
    IF mem[s1] # 0 /\ mem[s2] # 0 /\ mem[s1] = mem[s2]
    THEN strcmp(mem, s1 + 1, s2 + 1)
    ELSE mem[s1] - mem[s2]

RECURSIVE strncmp(_, _, _, _)
strncmp(mem, s1, s2, n) ==
    CASE n = 0 -> 0
      [] n # 0 /\ mem[s1] # mem[s2] -> mem[s1] - mem[s2]
      [] n # 0 /\ mem[s1] = mem[s2] /\ mem[s1] = 0 -> 0
      [] OTHER -> strncmp(mem, s1 + 1, s2 + 1, n - 1)

RECURSIVE strchr(_, _, _)
strchr(mem, s, c) ==
    CASE mem[s] = c -> s
      [] mem[s] # c /\ mem[s] = 0 -> NULL
      [] OTHER -> strchr(mem, s + 1, c)

\* save is the last one found.
RECURSIVE LastFound(_, _, _, _)
LastFound(mem, s, c, save) ==
    IF mem[s] = 0 THEN save
    ELSE LastFound(mem, s + 1, c, IF mem[s] = c THEN s ELSE save)

strrchr(mem, s, c) == LastFound(mem, s, c, NULL)

\* The bytes of a string without its end.
Bytes(mem, s) == {mem[a] : a \in s..(s + strlen(mem, s) - 1)}

RECURSIVE strspn(_, _, _)
strspn(mem, s1, s2) ==
    IF mem[s1] \in Bytes(mem, s2) THEN 1 + strspn(mem, s1 + 1, s2) ELSE 0

\* The inner loop looks at the 0 of s2 too, so the end of s1 ends the search.
RECURSIVE strcspn(_, _, _)
strcspn(mem, s1, s2) ==
    IF mem[s1] \in Bytes(mem, s2) \union {0} THEN 0 ELSE 1 + strcspn(mem, s1 + 1, s2)

RECURSIVE strpbrk(_, _, _)
strpbrk(mem, s1, s2) ==
    CASE mem[s1] = 0 -> NULL
      [] mem[s1] # 0 /\ mem[s1] \in Bytes(mem, s2) -> s1
      [] OTHER -> strpbrk(mem, s1 + 1, s2)

\* Faulty variant: the last position is not tried.
strstr_short(mem, haystack, needle) ==
    LET At == {h \in haystack..(haystack + strlen(mem, haystack) - strlen(mem, needle) - 1) :
                   memcmp(mem, h, needle, strlen(mem, needle)) = 0}
    IN  IF At = {} THEN NULL ELSE Min(At)

\* The positions are tried upwards while hlen >= nlen.
strstr(mem, haystack, needle) ==
    LET At == {h \in haystack..(haystack + strlen(mem, haystack) - strlen(mem, needle)) :
                   memcmp(mem, h, needle, strlen(mem, needle)) = 0}
    IN  IF At = {} THEN NULL ELSE Min(At)
=============================================================================
