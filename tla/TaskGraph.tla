------------------------------ MODULE TaskGraph ------------------------------
(***************************************************************************)
(* What the scheduler of m3bp promises the logical tasks that use it: a    *)
(* graph of physical tasks that grows while it is executed.  A task runs   *)
(* once, after it was committed and after every task it depends on has     *)
(* completed.  Queues, workers, sleeping and counters are left out.        *)
(***************************************************************************)
EXTENDS FiniteSets

CONSTANT Tasks

VARIABLES
  status,  \* where the task is in its life
  preds    \* the tasks it was made to depend on

vars == <<status, preds>>

Statuses == {"none", "created", "committed", "running", "done"}

Init ==
  /\ status = [t \in Tasks |-> "none"]
  /\ preds = [t \in Tasks |-> {}]

Move(t, from, to) ==
  /\ status[t] = from
  /\ status' = [status EXCEPT ![t] = to]
  /\ UNCHANGED preds

Create(t) == Move(t, "none", "created")

\* A call that names a completed predecessor changes nothing: it is a stutter.
AddDependency(p, s) ==
  /\ status[p] \notin {"none", "done"}
  /\ status[s] \in {"created", "committed"}
  /\ preds' = [preds EXCEPT ![s] = @ \cup {p}]
  /\ UNCHANGED status

Commit(t) == Move(t, "created", "committed")

Start(t) ==
  /\ Move(t, "committed", "running")
  /\ \A p \in preds[t] : status[p] = "done"

Complete(t) == Move(t, "running", "done")

Next ==
  \/ \E t \in Tasks : Create(t) \/ Commit(t) \/ Start(t) \/ Complete(t)
  \/ \E p, s \in Tasks : AddDependency(p, s)

Spec == Init /\ [][Next]_vars
=============================================================================
