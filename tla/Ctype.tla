------------------------------- MODULE Ctype -------------------------------
(* ctype.h, the same file in the kernel and in the library: sets of         *)
(* character codes where the code has predicates, and the two conversions.  *)
EXTENDS Integers

\* char is unsigned on ARM.
Code == 0..255
isascii == 0..127

iscntrl == {c \in Code : c < 32 \/ c > 126}
isdigit == 48..57

isgraph == {c \in Code : c > 32 /\ c <= 126}
islower == 97..122
isprint == {c \in Code : c >= 32 /\ c <= 126}
isspace == {32, 12, 10, 13, 9, 11}
isupper == 65..90
isxdigit == isdigit \union 65..70 \union 97..102
isalpha == islower \union isupper
isalnum == isalpha \union isdigit
ispunct == isgraph \ isalnum
toupper(c) == IF c \in islower THEN c - 97 + 65 ELSE c
tolower(c) == IF c \in isupper THEN c - 65 + 97 ELSE c
=============================================================================
