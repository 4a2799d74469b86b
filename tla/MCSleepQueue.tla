---------------------------- MODULE MCSleepQueue ----------------------------
(***************************************************************************)
(* Small instances of SleepQueue.                                          *)
(***************************************************************************)
EXTENDS SleepQueue
=============================================================================
