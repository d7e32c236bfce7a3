----------------------------- MODULE MCScheduler -----------------------------
(* Instances of Scheduler for TLC.                                         *)
EXTENDS Scheduler

\* All workers on one node, and in turn on two nodes.
OneNode  == [w \in Workers |-> 0]
TwoNodes == [w \in Workers |-> w % 2]

AnyWorker   == [recommended |-> None]
Prefer(w)   == [recommended |-> w]
Only(w)     == [only |-> w]

StealAndPinned == {AnyWorker, Only(0)}
AllOptions     == {AnyWorker, Only(0), Prefer(1)}
=============================================================================
