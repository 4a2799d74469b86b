---------------------------- MODULE MCSystemCall ----------------------------
(***************************************************************************)
(* Small instances of SystemCall.                                          *)
(***************************************************************************)
EXTENDS SystemCall
=============================================================================
