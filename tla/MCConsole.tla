----------------------------- MODULE MCConsole -----------------------------
(* Console for TLC: terminators, the delete key, one letter of each half of *)
(* the alphabet, a full buffer after three characters, and a word that      *)
(* wraps.                                                                   *)
EXTENDS Console
=============================================================================
