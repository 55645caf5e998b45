-------------------------- MODULE MCSchedulerSync --------------------------
(***************************************************************************)
(* SchedulerSync on small instances.                                       *)
(***************************************************************************)
EXTENDS SchedulerSync

CONSTANT w1
=============================================================================
