----------------------------- MODULE LineEditor -----------------------------
(***************************************************************************)
(* What reading from the console promises: a line to which keys append,    *)
(* from which the delete key takes the last character if there is one, and *)
(* which ends, with its terminator if it has one, as what was read.        *)
(***************************************************************************)
EXTENDS Integers, SequencesExt

CONSTANTS Text,   \* the characters a line may hold
          Ends,   \* the terminators
          Room    \* the length at which it ends by itself

VARIABLES line, open

Init == line = <<>> /\ open = FALSE

Start == ~open /\ open' = TRUE /\ line' = <<>>

Type == /\ open
        /\ Len(line) < Room
        /\ \E c \in Text : line' = Append(line, c)
        /\ UNCHANGED open

Delete == open /\ line # <<>> /\ line' = Front(line) /\ UNCHANGED open

End == /\ open
       /\ open' = FALSE
       /\ \/ UNCHANGED line
          \/ Len(line) < Room /\ \E c \in Ends : line' = Append(line, c)

Next == Start \/ Type \/ Delete \/ End

Spec == Init /\ [][Next]_<<line, open>>
=============================================================================
