--------------------------- MODULE SynchronizerProofs ---------------------------
(***************************************************************************)
(* Proofs about SchedulerSynchronizer, for any set of notifying threads:   *)
(* the mutex excludes, no signal is lost, and the flag, the mutex and the  *)
(* condition variable together implement module AtomicSleep.               *)
(***************************************************************************)
EXTENDS SchedulerSynchronizer, TLAPS

\* A worker blocks only with its flag set: it holds m_sleep_mutex since it looked,
\* and the flag is cleared only under this mutex or by the worker itself.
BlockOK == owner = "block" => is_sleeping

SyncInv == TypeOK /\ BlockOK /\ NoLostSignal

-----------------------------------------------------------------------------
\* The parts of SyncInv hold before any call.
LEMMA SyncInit == Init => SyncInv
  BY NamesAssumption DEF Init, SyncInv, TypeOK, BlockOK, NoLostSignal

\* m_sleep_mutex is taken when it is free and given back by its holder, on every
\* path through wait() and notify().
LEMMA TypeStep == ASSUME TypeOK, [Next]_vars PROVE TypeOK'
  <1> USE NamesAssumption DEF TypeOK
  <1>1. CASE SetIsSleeping \/ ResetIsSleeping \/ Wait \/ SpuriousWake
    BY <1>1 DEF SetIsSleeping, ResetIsSleeping, Wait, SpuriousWake
  <1>2. CASE OwnerStep
    <2>1. CASE LockWait
      BY <2>1 DEF LockWait
    <2>2. CASE TestSleeping
      BY <2>2 DEF TestSleeping
    <2>3. CASE Block
      BY <2>3 DEF Block
    <2>4. CASE Wake
      BY <2>4 DEF Wake
    <2> QED BY <1>2, <2>1, <2>2, <2>3, <2>4 DEF OwnerStep
  <1>3. ASSUME NEW n \in Notifiers, Notify(n) \/ NotifierStep(n) PROVE TypeOK'
    <2>1. CASE Notify(n) \/ Look(n) \/ Signal(n) \/ Return(n)
      BY <2>1 DEF Notify, Look, Signal, Return
    <2>2. CASE LockNotify(n)
      BY <2>2 DEF LockNotify
    <2>3. CASE LookAgain(n)
      BY <2>3 DEF LookAgain
    <2>4. CASE Clear(n)
      BY <2>4 DEF Clear
    <2> QED BY <1>3, <2>1, <2>2, <2>3, <2>4 DEF NotifierStep
  <1>4. CASE UNCHANGED vars
    BY <1>4 DEF vars
  <1> QED BY <1>1, <1>2, <1>3, <1>4 DEF Next

\* The flag a worker saw under the mutex is still set when it blocks.
LEMMA BlockStep == ASSUME TypeOK, BlockOK, [Next]_vars PROVE BlockOK'
  <1> USE NamesAssumption DEF TypeOK, BlockOK
  <1>1. CASE SetIsSleeping \/ ResetIsSleeping \/ Wait \/ SpuriousWake \/ OwnerStep
    BY <1>1 DEF SetIsSleeping, ResetIsSleeping, Wait, SpuriousWake, OwnerStep, LockWait,
                TestSleeping, Block, Wake
  <1>2. ASSUME NEW n \in Notifiers, Notify(n) \/ NotifierStep(n) PROVE BlockOK'
    BY <1>2 DEF Notify, NotifierStep, Look, LockNotify, LookAgain, Clear, Signal, Return
  <1>3. CASE UNCHANGED vars
    BY <1>3 DEF vars
  <1> QED BY <1>1, <1>2, <1>3 DEF Next

\* The thread that clears the flag signals afterwards, and a signal that finds the
\* worker blocked stays until it has woken.
LEMMA SignalStep == ASSUME SyncInv, [Next]_vars PROVE NoLostSignal'
  <1> USE NamesAssumption DEF SyncInv, TypeOK, BlockOK, NoLostSignal
  <1>1. CASE SetIsSleeping \/ ResetIsSleeping \/ Wait \/ SpuriousWake \/ OwnerStep
    BY <1>1 DEF SetIsSleeping, ResetIsSleeping, Wait, SpuriousWake, OwnerStep, LockWait,
                TestSleeping, Block, Wake
  <1>2. ASSUME NEW n \in Notifiers, Notify(n) \/ NotifierStep(n) PROVE NoLostSignal'
    <2>1. CASE Signal(n)
      BY <2>1 DEF Signal
    <2>2. CASE Clear(n)
      BY <2>2 DEF Clear
    <2>3. CASE Notify(n) \/ Look(n) \/ LockNotify(n) \/ LookAgain(n) \/ Return(n)
      BY <2>3 DEF Notify, Look, LockNotify, LookAgain, Return
    <2> QED BY <1>2, <2>1, <2>2, <2>3 DEF NotifierStep
  <1>3. CASE UNCHANGED vars
    BY <1>3 DEF vars
  <1> QED BY <1>1, <1>2, <1>3 DEF Next

\* The three parts of SyncInv are inductive together.
LEMMA SyncInvariant == Spec => []SyncInv
  <1>1. SyncInv /\ [Next]_vars => SyncInv'
    BY TypeStep, BlockStep, SignalStep DEF SyncInv
  <1> QED BY SyncInit, <1>1, PTL DEF Spec

\* For any number of notifiers: m_sleep_mutex is held exactly by the thread in a
\* critical section, and a worker that blocks with its flag clear has been
\* signalled or is about to be.
THEOREM NoSignalLost == Spec => [](TypeOK /\ NoLostSignal)
  <1>1. SyncInv => TypeOK /\ NoLostSignal
    BY DEF SyncInv
  <1> QED BY SyncInvariant, <1>1, PTL

-----------------------------------------------------------------------------
(* The refinement.                                                         *)

Calls == [n \in Notifiers |-> CallOf(n)]

\* The initial state maps to the initial state of AtomicSleep.
LEMMA RefinementInit == Init => A!Init
  BY DEF Init, A!Init, Phase, CallOf

\* What a step of notifier n does to the calls.
LEMMA CallsChange ==
  ASSUME TypeOK, NEW n \in Notifiers,
         notifier' = [notifier EXCEPT ![n] = notifier'[n]]
  PROVE  /\ \A m \in Notifiers \ {n} : CallOf(m)' = CallOf(m)
         /\ Calls' = [Calls EXCEPT ![n] = CallOf(n)']
  <1>1. \A m \in Notifiers \ {n} : CallOf(m)' = CallOf(m)
    BY DEF TypeOK, CallOf
  <1> QED BY <1>1 DEF Calls

\* Two notifiers, or a notifier and the worker, are never both past the mutex.
LEMMA Exclusive ==
  ASSUME TypeOK, NEW n \in Notifiers \cup {Owner}, sleep_mutex = n
  PROVE  \A m \in Notifiers : m # n => CallOf(m) # "seen"
  BY NamesAssumption DEF TypeOK, CallOf

\* A step of the worker is a step of AtomicSleep or changes nothing of it.
LEMMA OwnerRefines ==
  ASSUME TypeOK, SetIsSleeping \/ ResetIsSleeping \/ Wait \/ SpuriousWake \/ OwnerStep
  PROVE  [A!Next]_(A!vars)
  <1>1. Calls' = Calls
    BY DEF Calls, CallOf, SetIsSleeping, ResetIsSleeping, Wait, SpuriousWake, OwnerStep,
           LockWait, TestSleeping, Block, Wake
  <1>2. CASE SetIsSleeping
    BY <1>1, <1>2 DEF SetIsSleeping, A!Next, A!SetIsSleeping, Phase, Calls
  <1>3. CASE ResetIsSleeping
    BY <1>1, <1>3 DEF ResetIsSleeping, A!Next, A!ResetIsSleeping, Phase, Calls
  <1>4. CASE Wait
    BY <1>1, <1>4 DEF Wait, A!Next, A!BeginWait, Phase, Calls
  <1>5. CASE SpuriousWake \/ LockWait \/ Block \/ Wake
    BY <1>1, <1>5 DEF SpuriousWake, LockWait, Block, Wake, A!vars, Phase, Calls
  <1>6. CASE TestSleeping
    <2>1. CASE is_sleeping
      BY <1>1, <1>6, <2>1 DEF TestSleeping, A!vars, Phase, Calls
    <2>2. CASE ~is_sleeping
      <3>1. \A m \in Notifiers : CallOf(m) # "seen"
        BY <1>6, Exclusive, NamesAssumption DEF TestSleeping, TypeOK
      <3>2. A!EndWait
        BY <1>1, <1>6, <2>2, <3>1 DEF TestSleeping, A!EndWait, Phase, Calls
      <3> QED BY <3>2 DEF A!Next
    <2> QED BY <2>1, <2>2
  <1> QED BY <1>2, <1>3, <1>4, <1>5, <1>6 DEF OwnerStep

\* So is a step of a notifier: its second look is the look of AtomicSleep, and the
\* first one if it finds the flag clear.
LEMMA NotifierRefines ==
  ASSUME TypeOK, NEW n \in Notifiers, Notify(n) \/ NotifierStep(n)
  PROVE  [A!Next]_(A!vars)
  <1>1. Phase' = Phase
    BY DEF Phase, Notify, NotifierStep, Look, LockNotify, LookAgain, Clear, Signal, Return
  <1>2. /\ \A m \in Notifiers \ {n} : CallOf(m)' = CallOf(m)
        /\ Calls' = [Calls EXCEPT ![n] = CallOf(n)']
    <2>1. notifier' = [notifier EXCEPT ![n] = notifier'[n]]
      BY DEF TypeOK, Notify, NotifierStep, Look, LockNotify, LookAgain, Clear, Signal, Return
    <2> QED BY <2>1, CallsChange
  <1>3. CASE Notify(n)
    <2>1. CallOf(n) = "idle" /\ CallOf(n)' = "called"
      BY <1>3 DEF Notify, CallOf, TypeOK
    <2>2. A!Call(n)
      BY <1>1, <1>2, <1>3, <2>1 DEF A!Call, Notify, Calls
    <2> QED BY <2>2 DEF A!Next
  <1>4. CASE Look(n) /\ is_sleeping
    <2>1. CallOf(n)' = CallOf(n)
      BY <1>4 DEF Look, CallOf, TypeOK
    <2> QED BY <1>1, <1>2, <1>4, <2>1 DEF Look, A!vars, Calls
  <1>5. CASE (Look(n) /\ ~is_sleeping) \/ LookAgain(n)
    <2>1. CallOf(n) = "called" /\ CallOf(n)' = IF is_sleeping THEN "seen" ELSE "false"
      BY <1>5 DEF Look, LookAgain, CallOf, TypeOK
    <2>2. is_sleeping => \A m \in Notifiers : CallOf(m) # "seen"
      BY <1>5, <2>1, Exclusive DEF LookAgain, TypeOK
    <2>3. A!Look(n)
      BY <1>1, <1>2, <1>5, <2>1, <2>2 DEF A!Look, Look, LookAgain, Calls
    <2> QED BY <2>3 DEF A!Next
  <1>6. CASE LockNotify(n) \/ Signal(n)
    <2>1. CallOf(n)' = CallOf(n)
      BY <1>6 DEF LockNotify, Signal, CallOf, TypeOK
    <2> QED BY <1>1, <1>2, <1>6, <2>1 DEF LockNotify, Signal, A!vars, Calls
  <1>7. CASE Clear(n)
    <2>1. CallOf(n) = "seen" /\ CallOf(n)' = "true"
      BY <1>7 DEF Clear, CallOf, TypeOK
    <2>2. A!Clear(n)
      BY <1>1, <1>2, <1>7, <2>1 DEF A!Clear, Clear, Calls
    <2> QED BY <2>2 DEF A!Next
  <1>8. CASE Return(n)
    <2>1. CallOf(n) \in {"true", "false"} /\ CallOf(n)' = "idle"
      BY <1>8 DEF Return, CallOf, TypeOK
    <2>2. A!Return(n)
      BY <1>1, <1>2, <1>8, <2>1 DEF A!Return, Return, Calls
    <2> QED BY <2>2 DEF A!Next
  <1> QED BY <1>3, <1>4, <1>5, <1>6, <1>7, <1>8 DEF NotifierStep

\* notify() with its two looks, the mutex and the signal, and wait() with its
\* loop, are the two-step notify and one-step wait that module Scheduler takes
\* them for, whatever the number of notifiers and spurious wake-ups.
THEOREM ImplementsAtomicSleep == Spec => RefinesAtomicSleep
  <1>1. TypeOK /\ [Next]_vars => [A!Next]_(A!vars)
    <2> SUFFICES ASSUME TypeOK, [Next]_vars PROVE [A!Next]_(A!vars)
      OBVIOUS
    <2>1. CASE UNCHANGED vars
      BY <2>1 DEF vars, A!vars, Phase, CallOf
    <2> QED BY <2>1, OwnerRefines, NotifierRefines DEF Next
  <1>2. SyncInv => TypeOK
    BY DEF SyncInv
  <1> QED BY RefinementInit, SyncInvariant, <1>1, <1>2, PTL DEF Spec, RefinesAtomicSleep, A!Spec
=============================================================================
