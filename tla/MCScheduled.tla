---------------------------- MODULE MCScheduled ----------------------------
(***************************************************************************)
(* Two scheduled messages of one chat for TLC: t at a time, c on a         *)
(* condition.                                                              *)
(***************************************************************************)
EXTENDS ScheduledMessage
CONSTANTS t, c
=============================================================================
