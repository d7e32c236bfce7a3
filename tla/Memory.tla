-------------------------------- MODULE Memory --------------------------------
(***************************************************************************)
(* Shared, lockable memory: MemoryManager, MemoryObject, MemoryReference   *)
(* and LockedMemoryReference (src/memory).                                 *)
(*                                                                         *)
(* The variables of the program that are references are slots.  A slot     *)
(* belongs to a thread, or is the pool: an element of the vectors through  *)
(* which logical tasks pass fragments, which one thread uses at a time.    *)
(* What a constructor, an assignment or a destructor of a reference does   *)
(* is a script of accesses to reference counts, lock counts and the        *)
(* manager; between two of them other threads act.  unlock() decrements    *)
(* its count inside an assert, so this is the build that has assertions.   *)
(***************************************************************************)
EXTENDS Integers, Sequences, FiniteSets, FiniteSetsExt

CONSTANTS
  Threads,
  MaxObjects,  \* bound: allocations
  Sizes,       \* what allocate() is asked for
  Null         \* a null reference

ASSUME MemoryAssumption ==
  /\ IsFiniteSet(Threads)
  /\ MaxObjects \in Nat /\ Sizes \subseteq Nat \ {0} /\ Null \notin 0 .. MaxObjects

Objects == 0 .. MaxObjects - 1

\* A MemoryReference of each thread and the pool; two LockedMemoryReferences
\* of each thread.
Pool        == <<"pool", "ref">>
RefSlots    == {Pool} \cup {<<t, "ref">> : t \in Threads}
LockedSlots == {<<t, k>> : t \in Threads, k \in {"locked", "argument"}}
Slots       == RefSlots \cup LockedSlots
Usable(t)   == {s \in Slots : s = Pool \/ s[1] = t}

VARIABLES
  slot,               \* m_memory_object of each reference
  temp,               \* of each thread: a temporary reference
  script,             \* of each thread: what is left of its operation
  lock_count,         \* m_lock_count
  size,               \* m_buffer_size, 0 before construction
  freed,              \* the objects whose buffer was given back
  managed_objects,    \* m_managed_objects
  next_identifier,    \* m_next_identifier
  total_memory_usage, \* m_total_memory_usage
  assert_on_release   \* m_assert_on_release

manager == <<managed_objects, next_identifier, total_memory_usage, assert_on_release>>
objects == <<lock_count, size, freed>>
vars    == <<slot, temp, script, objects, manager>>

Init ==
  /\ slot = [s \in Slots |-> Null]
  /\ temp = [t \in Threads |-> Null]
  /\ script = [t \in Threads |-> <<>>]
  /\ lock_count = [o \in Objects |-> 0]
  /\ size = [o \in Objects |-> 0]
  /\ freed = {}
  /\ managed_objects = {}
  /\ next_identifier = 0
  /\ total_memory_usage = 0
  /\ assert_on_release = FALSE

Idle(t) == script[t] = <<>>

-----------------------------------------------------------------------------
(* The operations on references.                                           *)

Allocate(dst) == <<<<"construct">>, <<"emplace">>, <<"account">>, <<"put", dst>>>>

\* operator= of MemoryReference, by copy, by move and from a null reference.
CopyReference(dst, src) == <<<<"copy", src>>, <<"put", dst>>>>
MoveReference(dst, src) == <<<<"take", src>>, <<"put", dst>>>>
ResetReference(dst)     == <<<<"put", dst>>>>

\* MemoryReference::lock(), whose result is move-assigned.
Lock(dst, src) == <<<<"copy", src>>, <<"lock_temp">>, <<"unlock", dst>>, <<"put", dst>>>>

\* operator= of LockedMemoryReference, by copy and by move.
CopyLocked(dst, src) ==
  <<<<"unlock", dst>>, <<"copy", src>>, <<"put", dst>>, <<"lock", dst>>>>
MoveLocked(dst, src) == <<<<"unlock", dst>>, <<"take", src>>, <<"put", dst>>>>

\* Mutant: the lock is kept.
DestroyLockedNoUnlock(dst) == <<<<"put", dst>>>>

DestroyLocked(dst) == <<<<"unlock", dst>>, <<"put", dst>>>>

\* MemoryReference(LockedMemoryReference), by copy and by move.
UnlockedCopy(dst, src) == <<<<"copy", src>>, <<"put", dst>>>>

\* Mutant: the moved-from lock is kept.
UnlockedMoveNoUnlock(dst, src) == <<<<"take", src>>, <<"put", dst>>>>

UnlockedMove(dst, src) == <<<<"take", src>>, <<"unlock_temp">>, <<"put", dst>>>>

\* Once log_memory_leaks was called nothing is allocated any more.
Operations(t) ==
  LET refs   == RefSlots \cap Usable(t)
      locked == LockedSlots \cap Usable(t)
  IN (IF next_identifier < MaxObjects /\ ~assert_on_release
        THEN {Allocate(d) : d \in refs} ELSE {})
     \cup {ResetReference(d) : d \in {r \in refs : slot[r] # Null}}
     \cup {DestroyLocked(d) : d \in {l \in locked : slot[l] # Null}}
     \cup (UNION {{CopyReference(p[1], p[2]), MoveReference(p[1], p[2])}
                    : p \in {q \in refs \X refs : q[1] # q[2] /\ slot[q[2]] # Null}})
     \cup {Lock(p[1], p[2]) : p \in {q \in locked \X refs : slot[q[2]] # Null}}
     \cup {CopyLocked(p[1], p[2]) : p \in {q \in locked \X locked : slot[q[2]] # Null}}
     \cup {MoveLocked(p[1], p[2])
             : p \in {q \in locked \X locked : q[1] # q[2] /\ slot[q[2]] # Null}}
     \cup (UNION {{UnlockedCopy(p[1], p[2]), UnlockedMove(p[1], p[2])}
                    : p \in {q \in refs \X locked : slot[q[2]] # Null}})

UsesPool(ops) == \E i \in DOMAIN ops : <<"copy", Pool>> = ops[i] \/ <<"take", Pool>> = ops[i]
                                        \/ <<"put", Pool>> = ops[i]

Begin(t) ==
  /\ Idle(t)
  /\ \E ops \in Operations(t) :
       /\ UsesPool(ops) => \A u \in Threads : ~UsesPool(script[u])
       /\ script' = [script EXCEPT ![t] = ops]
  /\ UNCHANGED <<slot, temp, objects, manager>>

-----------------------------------------------------------------------------
(* The steps of an operation.                                              *)

At(t, name) == ~Idle(t) /\ Head(script[t])[1] = name
Arg(t)      == Head(script[t])[2]
Step(t)     == script' = [script EXCEPT ![t] = Tail(@)]

\* m_next_identifier++, and the object with its buffer.
Construct(t) ==
  /\ At(t, "construct")
  /\ next_identifier < MaxObjects
  /\ next_identifier' = next_identifier + 1
  /\ temp' = [temp EXCEPT ![t] = next_identifier]
  /\ \E n \in Sizes : size' = [size EXCEPT ![next_identifier] = n]
  /\ Step(t)
  /\ UNCHANGED <<slot, lock_count, freed, managed_objects, total_memory_usage,
                 assert_on_release>>

Emplace(t) ==
  /\ At(t, "emplace")
  /\ managed_objects' = managed_objects \cup {temp[t]}
  /\ Step(t)
  /\ UNCHANGED <<slot, temp, objects, next_identifier, total_memory_usage, assert_on_release>>

\* m_total_memory_usage += size, outside of the critical section.
Account(t) ==
  /\ At(t, "account")
  /\ total_memory_usage' = total_memory_usage + size[temp[t]]
  /\ Step(t)
  /\ UNCHANGED <<slot, temp, objects, managed_objects, next_identifier, assert_on_release>>

Copy(t) ==
  /\ At(t, "copy")
  /\ temp' = [temp EXCEPT ![t] = slot[Arg(t)]]
  /\ Step(t)
  /\ UNCHANGED <<slot, objects, manager>>

Take(t) ==
  /\ At(t, "take")
  /\ temp' = [temp EXCEPT ![t] = slot[Arg(t)]]
  /\ slot' = [slot EXCEPT ![Arg(t)] = Null]
  /\ Step(t)
  /\ UNCHANGED <<objects, manager>>

AddLocks(o, n) == lock_count' = IF o = Null THEN lock_count ELSE [lock_count EXCEPT ![o] = @ + n]

\* MemoryObject::lock() and unlock(), on the temporary or on a slot.
LockObject(t) ==
  /\ \/ At(t, "lock_temp") /\ AddLocks(temp[t], 1)
     \/ At(t, "lock") /\ AddLocks(slot[Arg(t)], 1)
  /\ Step(t)
  /\ UNCHANGED <<slot, temp, size, freed, manager>>

UnlockObject(t) ==
  /\ \/ At(t, "unlock_temp") /\ AddLocks(temp[t], -1)
     \/ At(t, "unlock") /\ AddLocks(slot[Arg(t)], -1)
  /\ Step(t)
  /\ UNCHANGED <<slot, temp, size, freed, manager>>

\* The references to an object: use_count() of its shared pointers.
UseCount(o) ==
  Cardinality({s \in Slots : slot[s] = o}) + Cardinality({t \in Threads : temp[t] = o})

\* Mutant: destroyed with the last but one reference.
PutEarly(t) ==
  /\ At(t, "put")
  /\ LET old == slot[Arg(t)]
     IN /\ slot' = [slot EXCEPT ![Arg(t)] = temp[t]]
        /\ temp' = [temp EXCEPT ![t] = Null]
        /\ script' = [script EXCEPT ![t] =
             (IF old # Null /\ old # temp[t] /\ UseCount(old) <= 2
                THEN <<<<"destroy", old>>, <<"release", old>>>> ELSE <<>>) \o Tail(@)]
  /\ UNCHANGED <<objects, manager>>

\* The temporary becomes the slot; whoever drops the last reference to the
\* object that was there destroys it.
Put(t) ==
  /\ At(t, "put")
  /\ LET old == slot[Arg(t)]
     IN /\ slot' = [slot EXCEPT ![Arg(t)] = temp[t]]
        /\ temp' = [temp EXCEPT ![t] = Null]
        /\ script' = [script EXCEPT ![t] =
             (IF old # Null /\ old # temp[t] /\ UseCount(old) = 1
                THEN <<<<"destroy", old>>, <<"release", old>>>> ELSE <<>>) \o Tail(@)]
  /\ UNCHANGED <<objects, manager>>

\* ~MemoryObject gives the buffer back, then tells the manager.
Destroy(t) ==
  /\ At(t, "destroy")
  /\ freed' = freed \cup {Arg(t)}
  /\ Step(t)
  /\ UNCHANGED <<slot, temp, lock_count, size, manager>>

NotifyRelease(t) ==
  /\ At(t, "release")
  /\ managed_objects' = managed_objects \ {Arg(t)}
  /\ total_memory_usage' = total_memory_usage - size[Arg(t)]
  /\ Step(t)
  /\ UNCHANGED <<slot, temp, objects, next_identifier, assert_on_release>>

\* After an execution, when total_memory_usage() has been found to be zero.
LogMemoryLeaks ==
  /\ \A t \in Threads : Idle(t)
  /\ total_memory_usage = 0 /\ ~assert_on_release
  /\ assert_on_release' = TRUE
  /\ UNCHANGED <<slot, temp, script, objects, managed_objects, next_identifier,
                 total_memory_usage>>

Next ==
  \/ \E t \in Threads :
       \/ Begin(t) \/ Construct(t) \/ Emplace(t) \/ Account(t) \/ Copy(t) \/ Take(t)
       \/ LockObject(t) \/ UnlockObject(t) \/ Put(t) \/ Destroy(t) \/ NotifyRelease(t)
  \/ LogMemoryLeaks

Spec == Init /\ [][Next]_vars

-----------------------------------------------------------------------------
(* What users of references rely on.                                       *)

\* Every object is managed from its construction to its release, but for the
\* moment in which allocate() has it and has not registered it.
ManagedExact ==
  LET outside == {temp[t] : t \in {u \in Threads : At(u, "emplace")}}
      gone    == {o \in freed : \A t \in Threads : ~(At(t, "release") /\ Arg(t) = o)}
  IN managed_objects = (0 .. next_identifier - 1) \ (outside \cup gone)

\* m_total_memory_usage is the size of the managed objects, but for those an
\* allocate() has just registered.
UsageExact ==
  LET late == {temp[t] : t \in {u \in Threads : At(u, "account")}}
  IN total_memory_usage = MapThenSumSet(LAMBDA o : size[o], managed_objects \ late)

\* The asserts of memory_object.cpp: an object is unlocked only while locked,
\* and destroyed once, when nobody holds a lock.
ObjectAsserts ==
  \A t \in Threads :
    /\ At(t, "unlock") /\ slot[Arg(t)] # Null => lock_count[slot[Arg(t)]] > 0
    /\ At(t, "unlock_temp") => lock_count[temp[t]] > 0
    /\ At(t, "destroy") => lock_count[Arg(t)] = 0 /\ Arg(t) \notin freed

\* The asserts of memory_object.cpp and memory_manager.cpp: those above, and an
\* object is released once, to a manager that knows it and may still release;
\* for which the manager's accounts are exact at every moment.
AssertionsHold ==
  /\ ObjectAsserts
  /\ \A t \in Threads : At(t, "release") => Arg(t) \in managed_objects /\ ~assert_on_release
  /\ ManagedExact /\ UsageExact

\* A buffer is given back exactly when its last reference is gone, whichever
\* thread held it: no reference dangles, and no buffer is lost.
FreedWhenUnreferenced ==
  \A o \in 0 .. next_identifier - 1 :
    \/ UseCount(o) > 0 /\ o \notin freed
    \/ UseCount(o) = 0 /\ o \in freed
    \/ UseCount(o) = 0 /\ \E t \in Threads : At(t, "destroy") /\ Arg(t) = o

\* The assert of pointer(): as long as a thread has a locked reference the
\* object is locked, whatever others do with theirs; and when nobody is in the
\* middle of an operation the lock count is the number of locked references.
LocksHeld ==
  LET holders(o) == {s \in LockedSlots : slot[s] = o}
  IN /\ \A o \in Objects :
          lock_count[o] >= Cardinality({s \in holders(o) : Idle(s[1])})
     /\ (\A t \in Threads : Idle(t)) =>
          \A o \in Objects : lock_count[o] = Cardinality(holders(o))
=============================================================================
