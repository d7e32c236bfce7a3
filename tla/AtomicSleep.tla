----------------------------- MODULE AtomicSleep -----------------------------
(***************************************************************************)
(* The sleep flag of one worker as module Scheduler uses it: notify() looks *)
(* at the flag, and clears it if it was set; wait() returns once it is     *)
(* clear.  There are no mutex and no condition variable.                   *)
(***************************************************************************)
CONSTANT Notifiers

VARIABLES
  flag,    \* is the worker's flag set?
  phase,   \* of the worker: awake, announced (flag was set), waiting
  call     \* of each notifier: idle, called, seen, or its answer

vars == <<flag, phase, call>>

Init ==
  /\ flag = FALSE
  /\ phase = "awake"
  /\ call = [n \in Notifiers |-> "idle"]

SetIsSleeping ==
  /\ phase = "awake"
  /\ flag' = TRUE /\ phase' = "announced"
  /\ UNCHANGED call

ResetIsSleeping ==
  /\ phase = "announced"
  /\ flag' = FALSE /\ phase' = "awake"
  /\ UNCHANGED call

BeginWait ==
  /\ phase = "announced"
  /\ phase' = "waiting"
  /\ UNCHANGED <<flag, call>>

EndWait ==
  /\ phase = "waiting" /\ ~flag
  /\ \A n \in Notifiers : call[n] # "seen"
  /\ phase' = "awake"
  /\ UNCHANGED <<flag, call>>

Call(n) ==
  /\ call[n] = "idle"
  /\ call' = [call EXCEPT ![n] = "called"]
  /\ UNCHANGED <<flag, phase>>

\* notify() finds the flag clear, and is done, or set; one thread at a time
\* goes on from there.
Look(n) ==
  /\ call[n] = "called"
  /\ flag => \A m \in Notifiers : call[m] # "seen"
  /\ call' = [call EXCEPT ![n] = IF flag THEN "seen" ELSE "false"]
  /\ UNCHANGED <<flag, phase>>

\* It clears the flag, whatever has become of it, and answers true.
Clear(n) ==
  /\ call[n] = "seen"
  /\ flag' = FALSE
  /\ call' = [call EXCEPT ![n] = "true"]
  /\ UNCHANGED phase

Return(n) ==
  /\ call[n] \in {"true", "false"}
  /\ call' = [call EXCEPT ![n] = "idle"]
  /\ UNCHANGED <<flag, phase>>

Next ==
  \/ SetIsSleeping \/ ResetIsSleeping \/ BeginWait \/ EndWait
  \/ \E n \in Notifiers : Call(n) \/ Look(n) \/ Clear(n) \/ Return(n)

Spec == Init /\ [][Next]_vars
=============================================================================
