---------------------------- MODULE MCTaskCreate ----------------------------
(***************************************************************************)
(* Small instances of TaskCreate.                                          *)
(***************************************************************************)
EXTENDS TaskCreate
=============================================================================
