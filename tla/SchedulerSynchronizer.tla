------------------------ MODULE SchedulerSynchronizer ------------------------
(***************************************************************************)
(* SchedulerSynchronizer (src/scheduler/scheduler_synchronizer.hpp): the   *)
(* atomic flag, mutex and condition variable of one worker, used by the    *)
(* worker in the order of Scheduler::take_runnable_task and notified by    *)
(* any other threads.  Every atomic access, lock, unlock and signal is a   *)
(* step; the condition variable may wake its waiter spuriously.            *)
(***************************************************************************)
CONSTANTS
  Notifiers,   \* the other threads
  None, Owner

ASSUME NamesAssumption ==
  Owner \notin Notifiers /\ None \notin Notifiers /\ Owner # None

VARIABLES
  is_sleeping,   \* m_is_sleeping
  sleep_mutex,   \* holder of m_sleep_mutex
  signalled,     \* has m_sleep_condvar been signalled since the waiter blocked?
  owner,         \* control point of the worker
  notifier       \* control point of each notifier

vars == <<is_sleeping, sleep_mutex, signalled, owner, notifier>>

Init ==
  /\ is_sleeping = FALSE
  /\ sleep_mutex = None
  /\ signalled = FALSE
  /\ owner = "awake"
  /\ notifier = [n \in Notifiers |-> "idle"]

-----------------------------------------------------------------------------
SetIsSleeping ==
  /\ owner = "awake"
  /\ is_sleeping' = TRUE
  /\ owner' = "announced"
  /\ UNCHANGED <<sleep_mutex, signalled, notifier>>

ResetIsSleeping ==
  /\ owner = "announced"
  /\ is_sleeping' = FALSE
  /\ owner' = "awake"
  /\ UNCHANGED <<sleep_mutex, signalled, notifier>>

\* wait(): lock, test the predicate, block and unlock, lock again ...
Wait ==
  /\ owner = "announced"
  /\ owner' = "lock"
  /\ UNCHANGED <<is_sleeping, sleep_mutex, signalled, notifier>>

LockWait ==
  /\ owner = "lock" /\ sleep_mutex = None
  /\ sleep_mutex' = Owner
  /\ owner' = "test"
  /\ UNCHANGED <<is_sleeping, signalled, notifier>>

TestSleeping ==
  /\ owner = "test"
  /\ IF is_sleeping
       THEN owner' = "block" /\ UNCHANGED sleep_mutex
       ELSE owner' = "awake" /\ sleep_mutex' = None
  /\ UNCHANGED <<is_sleeping, signalled, notifier>>

Block ==
  /\ owner = "block"
  /\ sleep_mutex' = None
  /\ signalled' = FALSE
  /\ owner' = "blocked"
  /\ UNCHANGED <<is_sleeping, notifier>>

Wake ==
  /\ owner = "blocked" /\ signalled
  /\ owner' = "lock"
  /\ UNCHANGED <<is_sleeping, sleep_mutex, signalled, notifier>>

SpuriousWake ==
  /\ owner = "blocked" /\ ~signalled
  /\ owner' = "lock"
  /\ UNCHANGED <<is_sleeping, sleep_mutex, signalled, notifier>>

\* notify(): a first look without the mutex, a second one with it.
Notify(n) ==
  /\ notifier[n] = "idle"
  /\ notifier' = [notifier EXCEPT ![n] = "look"]
  /\ UNCHANGED <<is_sleeping, sleep_mutex, signalled, owner>>

Look(n) ==
  /\ notifier[n] = "look"
  /\ notifier' = [notifier EXCEPT ![n] = IF is_sleeping THEN "lock" ELSE "false"]
  /\ UNCHANGED <<is_sleeping, sleep_mutex, signalled, owner>>

LockNotify(n) ==
  /\ notifier[n] = "lock" /\ sleep_mutex = None
  /\ sleep_mutex' = n
  /\ notifier' = [notifier EXCEPT ![n] = "look_again"]
  /\ UNCHANGED <<is_sleeping, signalled, owner>>

\* Mutant: no second look.
LookAgainNot(n) ==
  /\ notifier[n] = "look_again"
  /\ notifier' = [notifier EXCEPT ![n] = "clear"]
  /\ UNCHANGED <<is_sleeping, sleep_mutex, signalled, owner>>

LookAgain(n) ==
  /\ notifier[n] = "look_again"
  /\ IF is_sleeping
       THEN notifier' = [notifier EXCEPT ![n] = "clear"] /\ UNCHANGED sleep_mutex
       ELSE notifier' = [notifier EXCEPT ![n] = "false"] /\ sleep_mutex' = None
  /\ UNCHANGED <<is_sleeping, signalled, owner>>

Clear(n) ==
  /\ notifier[n] = "clear"
  /\ is_sleeping' = FALSE
  /\ sleep_mutex' = None
  /\ notifier' = [notifier EXCEPT ![n] = "signal"]
  /\ UNCHANGED <<signalled, owner>>

\* Mutant: no notify_one().
SignalNot(n) ==
  /\ notifier[n] = "signal"
  /\ notifier' = [notifier EXCEPT ![n] = "true"]
  /\ UNCHANGED <<is_sleeping, sleep_mutex, signalled, owner>>

Signal(n) ==
  /\ notifier[n] = "signal"
  /\ signalled' = (signalled \/ owner = "blocked")
  /\ notifier' = [notifier EXCEPT ![n] = "true"]
  /\ UNCHANGED <<is_sleeping, sleep_mutex, owner>>

Return(n) ==
  /\ notifier[n] \in {"true", "false"}
  /\ notifier' = [notifier EXCEPT ![n] = "idle"]
  /\ UNCHANGED <<is_sleeping, sleep_mutex, signalled, owner>>

OwnerStep == LockWait \/ TestSleeping \/ Block \/ Wake

NotifierStep(n) ==
  Look(n) \/ LockNotify(n) \/ LookAgain(n) \/ Clear(n) \/ Signal(n) \/ Return(n)

Next ==
  \/ SetIsSleeping \/ ResetIsSleeping \/ Wait \/ SpuriousWake \/ OwnerStep
  \/ \E n \in Notifiers : Notify(n) \/ NotifierStep(n)

Spec == Init /\ [][Next]_vars

\* A call that has begun goes on; a mutex that is released again and again is
\* obtained in the end.  Nothing is assumed of spurious wake-ups.
FairSpec ==
  /\ Spec
  /\ WF_vars(TestSleeping \/ Block \/ Wake) /\ SF_vars(LockWait)
  /\ \A n \in Notifiers : WF_vars(NotifierStep(n)) /\ SF_vars(LockNotify(n))

-----------------------------------------------------------------------------
\* The state has the shape of its declarations, and m_sleep_mutex is held
\* exactly by the thread that is in a critical section of wait() or notify().
TypeOK ==
  /\ is_sleeping \in BOOLEAN
  /\ sleep_mutex \in Notifiers \cup {Owner, None}
  /\ signalled \in BOOLEAN
  /\ owner \in {"awake", "announced", "lock", "test", "block", "blocked"}
  /\ notifier \in [Notifiers -> {"idle", "look", "lock", "look_again", "clear",
                                 "signal", "true", "false"}]
  /\ owner \in {"test", "block"} <=> sleep_mutex = Owner
  /\ \A n \in Notifiers : notifier[n] \in {"look_again", "clear"} <=> sleep_mutex = n

\* No lost wake-up: a worker that blocks although its flag is clear has been
\* signalled or is about to be, by the thread that cleared the flag.
NoLostSignal ==
  owner = "blocked" /\ ~is_sleeping =>
     signalled \/ \E n \in Notifiers : notifier[n] = "signal"

\* wait() returns after the flag has been cleared.
WaitReturns ==
  (owner \in {"lock", "test", "block", "blocked"} /\ ~is_sleeping) ~> (owner = "awake")

\* The phases of the atomic flag.
Phase == IF owner \in {"awake", "announced"} THEN owner ELSE "waiting"

CallOf(n) ==
  CASE notifier[n] \in {"look", "lock", "look_again"} -> "called"
    [] notifier[n] = "clear" -> "seen"
    [] notifier[n] = "signal" -> "true"
    [] OTHER -> notifier[n]

A == INSTANCE AtomicSleep WITH
       flag <- is_sleeping, phase <- Phase, call <- [n \in Notifiers |-> CallOf(n)]

\* notify() and wait() do what module Scheduler takes them to do, in two steps
\* and in one.
RefinesAtomicSleep == A!Spec
=============================================================================
