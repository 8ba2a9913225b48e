------------------------ MODULE MCSchedulerOwnership ------------------------
(* Instances of SchedulerOwnership for TLC. *)
EXTENDS SchedulerOwnership

=============================================================================
