----------------------- MODULE MCSchedulerSynchronizer -----------------------
(* An instance of SchedulerSynchronizer for TLC.                           *)
EXTENDS SchedulerSynchronizer

Threads == {"n1", "n2", "n3"}
=============================================================================
