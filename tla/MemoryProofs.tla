---------------------------- MODULE MemoryProofs ----------------------------
(***************************************************************************)
(* Proofs about shared, lockable memory, for any number of threads and of  *)
(* objects.                                                                *)
(***************************************************************************)
EXTENDS Memory, SequencesExt, FiniteSetTheorems, SequenceTheorems, TLAPS

\* The locked references of a thread.
Own(t) == {<<t, "locked">>, <<t, "argument">>}

MemTypeOK ==
  /\ slot \in [Slots -> Objects \cup {Null}]
  /\ temp \in [Threads -> Objects \cup {Null}]
  /\ DOMAIN script = Threads
  /\ lock_count \in [Objects -> Int]
  /\ next_identifier \in 0 .. MaxObjects
  /\ \A s \in Slots : slot[s] # Null => slot[s] < next_identifier
  /\ \A t \in Threads : temp[t] # Null => temp[t] < next_identifier

\* What is left of an operation that may have something in the temporary.
Full(t, s) ==
  \/ \E r \in RefSlots :
       \/ s = <<<<"emplace">>, <<"account">>, <<"put", r>>>>
       \/ s = <<<<"account">>, <<"put", r>>>>
       \/ s = <<<<"unlock_temp">>, <<"put", r>>>>
       \/ s = <<<<"put", r>>>>
  \/ \E d \in Own(t) :
       \/ s = <<<<"lock_temp">>, <<"unlock", d>>, <<"put", d>>>>
       \/ s = <<<<"unlock", d>>, <<"put", d>>>>
       \/ s = <<<<"put", d>>>>
       \/ s = <<<<"put", d>>, <<"lock", d>>>>

\* What is left of one that has nothing there: it has not come to its load, or
\* it is done but for what the put has to clean up.
Empty(t, s) ==
  \/ s = <<>>
  \/ \E o \in Objects : s = <<<<"destroy", o>>, <<"release", o>>>> \/ s = <<<<"release", o>>>>
  \/ \E r \in RefSlots :
       \/ s = Allocate(r)
       \/ \E x \in Slots : s = CopyReference(r, x)
       \/ \E x \in RefSlots : s = MoveReference(r, x)
       \/ \E x \in Own(t) : s = UnlockedMove(r, x)
  \/ \E d \in Own(t) :
       \/ s = <<<<"lock", d>>>>
       \/ \E o \in Objects : \/ s = <<<<"destroy", o>>, <<"release", o>>, <<"lock", d>>>>
                             \/ s = <<<<"release", o>>, <<"lock", d>>>>
       \/ \E x \in RefSlots : s = Lock(d, x)
       \/ \E x \in Own(t) : \/ s = CopyLocked(d, x)
                            \/ s = <<<<"copy", x>>, <<"put", d>>, <<"lock", d>>>>
       \/ \E x \in Own(t) \ {d} : \/ s = MoveLocked(d, x)
                                  \/ s = <<<<"take", x>>, <<"put", d>>>>

\* An unlock of the temporary is to come.
Upcoming(s) == Contains(s, <<"unlock_temp">>)

ScriptOK(t) ==
  /\ Full(t, script[t]) \/ (Empty(t, script[t]) /\ temp[t] = Null)
  /\ Upcoming(script[t]) =>
       \/ At(t, "take") /\ slot[Arg(t)] # Null
       \/ At(t, "unlock_temp") /\ temp[t] # Null

\* A lock is held by a locked reference, unless it has given it up for the
\* object that it is to get, or by the temporary of a thread.
Holders == LockedSlots \cup {<<t, "temp">> : t \in Threads}

\* With s still to be done, does the locked reference d have its lock, and
\* does the temporary of thread t have one?
SlotLocked(s, d) ==
  \/ Contains(s, <<"unlock", d>>)
  \/ ~Contains(s, <<"put", d>>) /\ ~Contains(s, <<"lock", d>>)

TempLocked(s, t) ==
  /\ ~Contains(s, <<"lock_temp">>)
  /\ \/ Upcoming(s)
     \/ \E d \in Own(t) : Contains(s, <<"put", d>>) /\ ~Contains(s, <<"lock", d>>)

\* The object on which h holds a lock.
Holds(h) ==
  IF h \in LockedSlots THEN (IF SlotLocked(script[h[1]], h) THEN slot[h] ELSE Null)
  ELSE IF TempLocked(script[h[1]], h[1]) THEN temp[h[1]] ELSE Null

Held(o) == {h \in Holders : Holds(h) = o}

LocksOK == \A o \in Objects : lock_count[o] = Cardinality(Held(o))

Referenced(o) == (\E s \in Slots : slot[s] = o) \/ (\E t \in Threads : temp[t] = o)

Dying(t, o) == script[t] # <<>> /\ Head(script[t]) = <<"destroy", o>>

\* An object is referenced, or about to be destroyed by one thread, or freed.
LifeOK ==
  \A o \in 0 .. next_identifier - 1 :
    /\ Referenced(o) => o \notin freed /\ \A t \in Threads : ~Dying(t, o)
    /\ ~Referenced(o) => o \in freed \/ \E t \in Threads : Dying(t, o)
    /\ \A t \in Threads : Dying(t, o) =>
         o \notin freed /\ \A u \in Threads : Dying(u, o) => u = t

DyingOK ==
  /\ \A t \in Threads, o \in Objects : Dying(t, o) => o < next_identifier
  /\ freed \subseteq 0 .. next_identifier - 1

MemInv == MemTypeOK /\ (\A t \in Threads : ScriptOK(t)) /\ LocksOK /\ LifeOK /\ DyingOK

-----------------------------------------------------------------------------
(* Slots and scripts.                                                      *)

LEMMA SlotFacts ==
  ASSUME NEW t \in Threads
  PROVE  /\ Own(t) \subseteq LockedSlots
         /\ \A d \in Own(t) : d[1] = t /\ d \in Slots /\ d \notin RefSlots /\ d \in Holders
         /\ <<t, "temp">> \in Holders /\ <<t, "temp">> \notin LockedSlots
         /\ \A h \in Holders : h[1] = t => h \in Own(t) \/ h = <<t, "temp">>
  BY DEF Own, LockedSlots, Slots, RefSlots, Pool, Holders

LEMMA LockedFacts ==
  ASSUME NEW d \in LockedSlots
  PROVE  d[1] \in Threads /\ d \in Own(d[1]) /\ d \in Slots /\ d \in Holders
  BY DEF Own, LockedSlots, Slots, Holders

LEMMA HolderFacts ==
  ASSUME NEW h \in Holders
  PROVE  h[1] \in Threads /\ (h \in LockedSlots \/ h = <<h[1], "temp">>)
  BY DEF Holders, LockedSlots

LEMMA RefFacts == RefSlots \subseteq Slots /\ LockedSlots \subseteq Slots
  BY DEF Slots

LEMMA NullFacts == Null \notin Objects /\ MaxObjects \in Nat
  BY MemoryAssumption DEF Objects

LEMMA Contains0 == \A x : ~Contains(<<>>, x)
  BY DEF Contains

LEMMA Contains1 == \A a, x : Contains(<<a>>, x) <=> x = a
  BY DEF Contains

LEMMA Contains2 == \A a, b, x : Contains(<<a, b>>, x) <=> x = a \/ x = b
  BY DEF Contains

LEMMA Contains3 == \A a, b, c, x : Contains(<<a, b, c>>, x) <=> x = a \/ x = b \/ x = c
  BY DEF Contains

LEMMA Contains4 ==
  \A a, b, c, d, x : Contains(<<a, b, c, d>>, x) <=> x = a \/ x = b \/ x = c \/ x = d
  BY DEF Contains

\* What is left at a step that loads the temporary.
LEMMA AtCopy ==
  ASSUME NEW t \in Threads, ScriptOK(t), At(t, "copy")
  PROVE  /\ temp[t] = Null
         /\ \/ \E r \in RefSlots, x \in Slots : script[t] = <<<<"copy", x>>, <<"put", r>>>>
            \/ \E d \in Own(t), x \in RefSlots :
                 script[t] = <<<<"copy", x>>, <<"lock_temp">>, <<"unlock", d>>, <<"put", d>>>>
            \/ \E d \in Own(t), x \in Own(t) :
                 script[t] = <<<<"copy", x>>, <<"put", d>>, <<"lock", d>>>>
  BY DEF ScriptOK, Full, Empty, At, Idle, Allocate, CopyReference, MoveReference, Lock, CopyLocked,
         MoveLocked, UnlockedMove

LEMMA AtTake ==
  ASSUME NEW t \in Threads, ScriptOK(t), At(t, "take")
  PROVE  /\ temp[t] = Null
         /\ \/ \E r \in RefSlots, x \in RefSlots : script[t] = <<<<"take", x>>, <<"put", r>>>>
            \/ \E r \in RefSlots, x \in Own(t) :
                 /\ script[t] = <<<<"take", x>>, <<"unlock_temp">>, <<"put", r>>>>
                 /\ slot[x] # Null
            \/ \E d \in Own(t) : \E x \in Own(t) \ {d} :
                 script[t] = <<<<"take", x>>, <<"put", d>>>>
  <1>1. /\ temp[t] = Null
        /\ \/ \E r \in RefSlots, x \in RefSlots : script[t] = <<<<"take", x>>, <<"put", r>>>>
           \/ \E r \in RefSlots, x \in Own(t) :
                script[t] = <<<<"take", x>>, <<"unlock_temp">>, <<"put", r>>>>
           \/ \E d \in Own(t) : \E x \in Own(t) \ {d} :
                script[t] = <<<<"take", x>>, <<"put", d>>>>
    BY DEF ScriptOK, Full, Empty, At, Idle, Allocate, CopyReference, MoveReference, Lock,
           CopyLocked, MoveLocked, UnlockedMove
  <1>2. ASSUME NEW r \in RefSlots, NEW x \in Own(t),
               script[t] = <<<<"take", x>>, <<"unlock_temp">>, <<"put", r>>>>
        PROVE  slot[x] # Null
    <2>1. Upcoming(script[t])
      BY <1>2, Contains3 DEF Upcoming
    <2>2. ~At(t, "unlock_temp") /\ Arg(t) = x
      BY <1>2 DEF At, Arg
    <2> QED BY <2>1, <2>2 DEF ScriptOK
  <1> QED BY <1>1, <1>2

LEMMA AtConstruct ==
  ASSUME NEW t \in Threads, ScriptOK(t), At(t, "construct")
  PROVE  temp[t] = Null /\ \E r \in RefSlots : script[t] = Allocate(r)
  BY DEF ScriptOK, Full, Empty, At, Idle, Allocate, CopyReference, MoveReference, Lock, CopyLocked,
         MoveLocked, UnlockedMove

LEMMA AtAllocate ==
  ASSUME NEW t \in Threads, ScriptOK(t), At(t, "emplace") \/ At(t, "account")
  PROVE  \E r \in RefSlots :
           \/ At(t, "emplace") /\ script[t] = <<<<"emplace">>, <<"account">>, <<"put", r>>>>
           \/ At(t, "account") /\ script[t] = <<<<"account">>, <<"put", r>>>>
  BY DEF ScriptOK, Full, Empty, At, Idle, Allocate, CopyReference, MoveReference, Lock, CopyLocked,
         MoveLocked, UnlockedMove

LEMMA AtLockTemp ==
  ASSUME NEW t \in Threads, ScriptOK(t), At(t, "lock_temp")
  PROVE  \E d \in Own(t) : script[t] = <<<<"lock_temp">>, <<"unlock", d>>, <<"put", d>>>>
  BY DEF ScriptOK, Full, Empty, At, Idle, Allocate, CopyReference, MoveReference, Lock, CopyLocked,
         MoveLocked, UnlockedMove

LEMMA AtLock ==
  ASSUME NEW t \in Threads, ScriptOK(t), At(t, "lock")
  PROVE  temp[t] = Null /\ \E d \in Own(t) : script[t] = <<<<"lock", d>>>>
  BY DEF ScriptOK, Full, Empty, At, Idle, Allocate, CopyReference, MoveReference, Lock, CopyLocked,
         MoveLocked, UnlockedMove

LEMMA AtUnlockTemp ==
  ASSUME NEW t \in Threads, ScriptOK(t), At(t, "unlock_temp")
  PROVE  /\ temp[t] # Null
         /\ \E r \in RefSlots : script[t] = <<<<"unlock_temp">>, <<"put", r>>>>
  BY Contains2 DEF Upcoming, ScriptOK, Full, Empty, At, Idle, Allocate, CopyReference, MoveReference, Lock,
         CopyLocked, MoveLocked, UnlockedMove

LEMMA AtUnlock ==
  ASSUME NEW t \in Threads, ScriptOK(t), At(t, "unlock")
  PROVE  \E d \in Own(t) :
           \/ script[t] = <<<<"unlock", d>>, <<"put", d>>>>
           \/ /\ temp[t] = Null
              /\ \/ \E x \in Own(t) : script[t] = CopyLocked(d, x)
                 \/ \E x \in Own(t) \ {d} : script[t] = MoveLocked(d, x)
  BY DEF ScriptOK, Full, Empty, At, Idle, Allocate, CopyReference, MoveReference, Lock, CopyLocked,
         MoveLocked, UnlockedMove

LEMMA AtPut ==
  ASSUME NEW t \in Threads, ScriptOK(t), At(t, "put")
  PROVE  \/ \E r \in RefSlots : script[t] = <<<<"put", r>>>>
         \/ \E d \in Own(t) : \/ script[t] = <<<<"put", d>>>>
                              \/ script[t] = <<<<"put", d>>, <<"lock", d>>>>
  BY DEF ScriptOK, Full, Empty, At, Idle, Allocate, CopyReference, MoveReference, Lock, CopyLocked,
         MoveLocked, UnlockedMove

LEMMA AtDestroy ==
  ASSUME NEW t \in Threads, ScriptOK(t), At(t, "destroy") \/ At(t, "release")
  PROVE  /\ temp[t] = Null
         /\ \E o \in Objects :
              \/ script[t] = <<<<"destroy", o>>, <<"release", o>>>>
              \/ script[t] = <<<<"release", o>>>>
              \/ \E d \in Own(t) : \/ script[t] = <<<<"destroy", o>>, <<"release", o>>, <<"lock", d>>>>
                                   \/ script[t] = <<<<"release", o>>, <<"lock", d>>>>
  BY DEF ScriptOK, Full, Empty, At, Idle, Allocate, CopyReference, MoveReference, Lock, CopyLocked,
         MoveLocked, UnlockedMove

LEMMA AtIdle ==
  ASSUME NEW t \in Threads, ScriptOK(t), Idle(t)
  PROVE  temp[t] = Null
  BY DEF ScriptOK, Full, Idle

-----------------------------------------------------------------------------
(* The steps of a thread as the others see them.                           *)

\* Thread t does not touch what belongs to another thread.
Private(t) ==
  \A u \in Threads \ {t} :
    /\ script'[u] = script[u] /\ temp'[u] = temp[u]
    /\ \A d \in Own(u) : slot'[d] = slot[d]

LEMMA OthersScripts ==
  ASSUME \A u \in Threads : ScriptOK(u), NEW t \in Threads, Private(t)
  PROVE  \A u \in Threads \ {t} : ScriptOK(u)'
  <1> SUFFICES ASSUME NEW u \in Threads \ {t} PROVE ScriptOK(u)'
    OBVIOUS
  <1>1. /\ ScriptOK(u) /\ script'[u] = script[u] /\ temp'[u] = temp[u]
        /\ \A d \in Own(u) : slot'[d] = slot[d]
    BY DEF Private
  <1>2. At(u, "take") /\ Upcoming(script[u]) => Arg(u) \in Own(u)
    <2> SUFFICES ASSUME At(u, "take"), Upcoming(script[u])
                 PROVE  Arg(u) \in Own(u)
      OBVIOUS
    <2>1. \/ \E r, x : script[u] = <<<<"take", x>>, <<"put", r>>>>
          \/ \E r, x : /\ script[u] = <<<<"take", x>>, <<"unlock_temp">>, <<"put", r>>>>
                       /\ x \in Own(u)
      BY <1>1, AtTake
    <2>2. ASSUME NEW r, NEW x, script[u] = <<<<"take", x>>, <<"put", r>>>>
          PROVE  FALSE
      BY <2>2, Contains2 DEF Upcoming
    <2>3. \E r, x : script[u] = <<<<"take", x>>, <<"unlock_temp">>, <<"put", r>>>> /\ x \in Own(u)
      BY <2>1, <2>2
    <2> QED BY <2>3 DEF Arg
  <1>3. At(u, "take")' = At(u, "take") /\ At(u, "unlock_temp")' = At(u, "unlock_temp")
        /\ Arg(u)' = Arg(u)
    BY <1>1 DEF At, Arg, Idle
  <1>4. Upcoming(script[u])' => Upcoming(script[u])
    BY <1>1 DEF Upcoming
  <1>5. Full(u, script[u])' \/ (Empty(u, script[u])' /\ temp'[u] = Null)
    BY <1>1 DEF ScriptOK, Full, Empty
  <1> QED BY <1>1, <1>2, <1>3, <1>4, <1>5 DEF ScriptOK

LEMMA OthersHold ==
  ASSUME NEW t \in Threads, Private(t)
  PROVE  \A h \in Holders : h[1] # t => Holds(h)' = Holds(h)
  <1> SUFFICES ASSUME NEW h \in Holders, h[1] # t PROVE Holds(h)' = Holds(h)
    OBVIOUS
  <1>1. h[1] \in Threads \ {t}
    BY HolderFacts
  <1>2. script'[h[1]] = script[h[1]] /\ temp'[h[1]] = temp[h[1]]
    BY <1>1 DEF Private
  <1>3. h \in LockedSlots => slot'[h] = slot[h]
    BY <1>1, LockedFacts DEF Private
  <1> QED BY <1>2, <1>3 DEF Holds

\* What the holders of one thread hold, said of the parts of Holds.
LEMMA HoldsOwn ==
  ASSUME NEW t \in Threads
  PROVE  /\ \A d \in Own(t) : Holds(d) = IF SlotLocked(script[t], d) THEN slot[d] ELSE Null
         /\ Holds(<<t, "temp">>) = IF TempLocked(script[t], t) THEN temp[t] ELSE Null
         /\ \A d \in Own(t) : Holds(d)' = IF SlotLocked(script'[t], d) THEN slot'[d] ELSE Null
         /\ Holds(<<t, "temp">>)' = IF TempLocked(script'[t], t) THEN temp'[t] ELSE Null
  BY SlotFacts DEF Holds

-----------------------------------------------------------------------------
(* Who has a lock with each of the scripts still to be done.              *)

LEMMA NoTempLock ==
  ASSUME NEW s, NEW t, ~Upcoming(s),
         \A e \in Own(t) : Contains(s, <<"put", e>>) => Contains(s, <<"lock", e>>)
  PROVE  ~TempLocked(s, t)
  BY DEF TempLocked

LEMMA RefScripts ==
  ASSUME NEW t \in Threads, NEW r \in RefSlots
  PROVE  /\ \A e \in Own(t) :
              /\ SlotLocked(<<<<"put", r>>>>, e)
              /\ SlotLocked(<<<<"account">>, <<"put", r>>>>, e)
              /\ SlotLocked(<<<<"unlock_temp">>, <<"put", r>>>>, e)
              /\ SlotLocked(<<<<"emplace">>, <<"account">>, <<"put", r>>>>, e)
              /\ SlotLocked(Allocate(r), e)
         /\ ~TempLocked(<<<<"put", r>>>>, t) /\ ~Upcoming(<<<<"put", r>>>>)
         /\ ~TempLocked(<<<<"account">>, <<"put", r>>>>, t)
         /\ ~Upcoming(<<<<"account">>, <<"put", r>>>>)
         /\ ~TempLocked(<<<<"emplace">>, <<"account">>, <<"put", r>>>>, t)
         /\ ~Upcoming(<<<<"emplace">>, <<"account">>, <<"put", r>>>>)
         /\ TempLocked(<<<<"unlock_temp">>, <<"put", r>>>>, t)
         /\ ~Upcoming(Allocate(r))
  <1> USE Contains1, Contains2, Contains3, Contains4
  <1>1. \A e \in Own(t) : e # r
    BY SlotFacts
  <1>2. ASSUME NEW e \in Own(t)
        PROVE  /\ SlotLocked(<<<<"put", r>>>>, e)
               /\ SlotLocked(<<<<"account">>, <<"put", r>>>>, e)
               /\ SlotLocked(<<<<"unlock_temp">>, <<"put", r>>>>, e)
    BY <1>1 DEF SlotLocked
  <1>3. ASSUME NEW e \in Own(t)
        PROVE  /\ SlotLocked(<<<<"emplace">>, <<"account">>, <<"put", r>>>>, e)
               /\ SlotLocked(Allocate(r), e)
    BY <1>1 DEF SlotLocked, Allocate
  <1>4. ~TempLocked(<<<<"put", r>>>>, t) /\ ~Upcoming(<<<<"put", r>>>>)
    <2>1. ~Upcoming(<<<<"put", r>>>>)
      BY DEF Upcoming
    <2>2. \A e \in Own(t) : ~Contains(<<<<"put", r>>>>, <<"put", e>>)
      BY <1>1
    <2> QED BY <2>1, <2>2, NoTempLock
  <1>5. /\ ~TempLocked(<<<<"account">>, <<"put", r>>>>, t)
        /\ ~Upcoming(<<<<"account">>, <<"put", r>>>>)
    <2>1. ~Upcoming(<<<<"account">>, <<"put", r>>>>)
      BY DEF Upcoming
    <2>2. \A e \in Own(t) : ~Contains(<<<<"account">>, <<"put", r>>>>, <<"put", e>>)
      BY <1>1
    <2> QED BY <2>1, <2>2, NoTempLock
  <1>6. /\ ~TempLocked(<<<<"emplace">>, <<"account">>, <<"put", r>>>>, t)
        /\ ~Upcoming(<<<<"emplace">>, <<"account">>, <<"put", r>>>>)
    <2>1. ~Upcoming(<<<<"emplace">>, <<"account">>, <<"put", r>>>>)
      BY DEF Upcoming
    <2>2. \A e \in Own(t) : ~Contains(<<<<"emplace">>, <<"account">>, <<"put", r>>>>, <<"put", e>>)
      BY <1>1
    <2> QED BY <2>1, <2>2, NoTempLock
  <1>7. TempLocked(<<<<"unlock_temp">>, <<"put", r>>>>, t)
    BY DEF TempLocked, Upcoming
  <1>8. ~Upcoming(Allocate(r))
    BY DEF Upcoming, Allocate
  <1> HIDE Contains1, Contains2, Contains3, Contains4
  <1> QED BY <1>2, <1>3, <1>4, <1>5, <1>6, <1>7, <1>8

LEMMA RefLoads ==
  ASSUME NEW t \in Threads, NEW r \in RefSlots, NEW x \in Slots
  PROVE  /\ \A e \in Own(t) :
              /\ SlotLocked(<<<<"copy", x>>, <<"put", r>>>>, e)
              /\ SlotLocked(<<<<"take", x>>, <<"put", r>>>>, e)
              /\ SlotLocked(<<<<"take", x>>, <<"unlock_temp">>, <<"put", r>>>>, e)
         /\ ~Upcoming(<<<<"copy", x>>, <<"put", r>>>>)
         /\ ~Upcoming(<<<<"take", x>>, <<"put", r>>>>)
  <1>1. \A e \in Own(t) : e # r
    BY SlotFacts
  <1>2. ASSUME NEW e \in Own(t)
        PROVE  /\ SlotLocked(<<<<"copy", x>>, <<"put", r>>>>, e)
               /\ SlotLocked(<<<<"take", x>>, <<"put", r>>>>, e)
               /\ SlotLocked(<<<<"take", x>>, <<"unlock_temp">>, <<"put", r>>>>, e)
    BY <1>1, Contains2, Contains3 DEF SlotLocked
  <1>3. /\ ~Upcoming(<<<<"copy", x>>, <<"put", r>>>>)
        /\ ~Upcoming(<<<<"take", x>>, <<"put", r>>>>)
    BY Contains2 DEF Upcoming
  <1> QED BY <1>2, <1>3

LEMMA OwnScripts ==
  ASSUME NEW t \in Threads, NEW d \in Own(t)
  PROVE  /\ \A e \in Own(t) :
              /\ SlotLocked(<<<<"unlock", d>>, <<"put", d>>>>, e)
              /\ SlotLocked(<<<<"lock_temp">>, <<"unlock", d>>, <<"put", d>>>>, e)
              /\ SlotLocked(<<<<"put", d>>>>, e) <=> e # d
              /\ SlotLocked(<<<<"lock", d>>>>, e) <=> e # d
              /\ SlotLocked(<<<<"put", d>>, <<"lock", d>>>>, e) <=> e # d
         /\ TempLocked(<<<<"unlock", d>>, <<"put", d>>>>, t)
         /\ ~TempLocked(<<<<"lock_temp">>, <<"unlock", d>>, <<"put", d>>>>, t)
         /\ TempLocked(<<<<"put", d>>>>, t)
         /\ ~TempLocked(<<<<"put", d>>, <<"lock", d>>>>, t)
         /\ ~Upcoming(<<<<"unlock", d>>, <<"put", d>>>>)
         /\ ~Upcoming(<<<<"lock_temp">>, <<"unlock", d>>, <<"put", d>>>>)
         /\ ~Upcoming(<<<<"put", d>>>>) /\ ~Upcoming(<<<<"lock", d>>>>)
         /\ ~Upcoming(<<<<"put", d>>, <<"lock", d>>>>)
  <1> USE Contains1, Contains2, Contains3
  <1>1. ASSUME NEW e \in Own(t)
        PROVE  /\ SlotLocked(<<<<"unlock", d>>, <<"put", d>>>>, e)
               /\ SlotLocked(<<<<"lock_temp">>, <<"unlock", d>>, <<"put", d>>>>, e)
    BY DEF SlotLocked
  <1>2. ASSUME NEW e \in Own(t)
        PROVE  /\ SlotLocked(<<<<"put", d>>>>, e) <=> e # d
               /\ SlotLocked(<<<<"lock", d>>>>, e) <=> e # d
               /\ SlotLocked(<<<<"put", d>>, <<"lock", d>>>>, e) <=> e # d
    BY DEF SlotLocked
  <1>3. TempLocked(<<<<"unlock", d>>, <<"put", d>>>>, t)
    BY DEF TempLocked
  <1>4. ~TempLocked(<<<<"lock_temp">>, <<"unlock", d>>, <<"put", d>>>>, t)
    BY DEF TempLocked
  <1>5. TempLocked(<<<<"put", d>>>>, t)
    BY DEF TempLocked
  <1>6. ~TempLocked(<<<<"put", d>>, <<"lock", d>>>>, t)
    <2>1. ~Upcoming(<<<<"put", d>>, <<"lock", d>>>>)
      BY DEF Upcoming
    <2>2. \A e \in Own(t) : Contains(<<<<"put", d>>, <<"lock", d>>>>, <<"put", e>>) =>
                             Contains(<<<<"put", d>>, <<"lock", d>>>>, <<"lock", e>>)
      OBVIOUS
    <2> QED BY <2>1, <2>2, NoTempLock
  <1>7. /\ ~Upcoming(<<<<"unlock", d>>, <<"put", d>>>>)
        /\ ~Upcoming(<<<<"lock_temp">>, <<"unlock", d>>, <<"put", d>>>>)
        /\ ~Upcoming(<<<<"put", d>>>>) /\ ~Upcoming(<<<<"lock", d>>>>)
        /\ ~Upcoming(<<<<"put", d>>, <<"lock", d>>>>)
    BY DEF Upcoming
  <1> HIDE Contains1, Contains2, Contains3
  <1> QED BY <1>1, <1>2, <1>3, <1>4, <1>5, <1>6, <1>7

LEMMA OwnLoads ==
  ASSUME NEW t \in Threads, NEW d \in Own(t), NEW x \in Slots
  PROVE  /\ \A e \in Own(t) :
              /\ SlotLocked(Lock(d, x), e)
              /\ SlotLocked(CopyLocked(d, x), e)
              /\ SlotLocked(MoveLocked(d, x), e)
              /\ SlotLocked(<<<<"take", x>>, <<"put", d>>>>, e) <=> e # d
              /\ SlotLocked(<<<<"copy", x>>, <<"put", d>>, <<"lock", d>>>>, e) <=> e # d
         /\ ~Upcoming(Lock(d, x)) /\ ~Upcoming(CopyLocked(d, x)) /\ ~Upcoming(MoveLocked(d, x))
         /\ ~Upcoming(<<<<"take", x>>, <<"put", d>>>>)
         /\ ~Upcoming(<<<<"copy", x>>, <<"put", d>>, <<"lock", d>>>>)
  <1> USE Contains2, Contains3, Contains4
  <1>1. ASSUME NEW e \in Own(t)
        PROVE  /\ SlotLocked(Lock(d, x), e)
               /\ SlotLocked(CopyLocked(d, x), e)
               /\ SlotLocked(MoveLocked(d, x), e)
    BY DEF SlotLocked, Lock, CopyLocked, MoveLocked
  <1>2. ASSUME NEW e \in Own(t)
        PROVE  /\ SlotLocked(<<<<"take", x>>, <<"put", d>>>>, e) <=> e # d
               /\ SlotLocked(<<<<"copy", x>>, <<"put", d>>, <<"lock", d>>>>, e) <=> e # d
    BY DEF SlotLocked
  <1>3. ~Upcoming(Lock(d, x)) /\ ~Upcoming(CopyLocked(d, x)) /\ ~Upcoming(MoveLocked(d, x))
    BY DEF Upcoming, Lock, CopyLocked, MoveLocked
  <1>4. /\ ~Upcoming(<<<<"take", x>>, <<"put", d>>>>)
        /\ ~Upcoming(<<<<"copy", x>>, <<"put", d>>, <<"lock", d>>>>)
    BY DEF Upcoming
  <1> HIDE Contains2, Contains3, Contains4
  <1> QED BY <1>1, <1>2, <1>3, <1>4

LEMMA CleanScripts ==
  ASSUME NEW t \in Threads, NEW o \in Objects
  PROVE  /\ \A e \in Own(t) :
              /\ SlotLocked(<<<<"release", o>>>>, e)
              /\ SlotLocked(<<<<"destroy", o>>, <<"release", o>>>>, e)
              /\ \A d \in Own(t) :
                   /\ SlotLocked(<<<<"release", o>>, <<"lock", d>>>>, e) <=> e # d
                   /\ SlotLocked(<<<<"destroy", o>>, <<"release", o>>, <<"lock", d>>>>, e) <=> e # d
         /\ ~Upcoming(<<<<"release", o>>>>) /\ ~Upcoming(<<<<"destroy", o>>, <<"release", o>>>>)
         /\ \A d \in Own(t) :
              /\ ~Upcoming(<<<<"release", o>>, <<"lock", d>>>>)
              /\ ~Upcoming(<<<<"destroy", o>>, <<"release", o>>, <<"lock", d>>>>)
  <1>1. ASSUME NEW e \in Own(t)
        PROVE  /\ SlotLocked(<<<<"release", o>>>>, e)
               /\ SlotLocked(<<<<"destroy", o>>, <<"release", o>>>>, e)
    BY Contains1, Contains2 DEF SlotLocked
  <1>2. ASSUME NEW e \in Own(t), NEW d \in Own(t)
        PROVE  /\ SlotLocked(<<<<"release", o>>, <<"lock", d>>>>, e) <=> e # d
               /\ SlotLocked(<<<<"destroy", o>>, <<"release", o>>, <<"lock", d>>>>, e) <=> e # d
    BY Contains2, Contains3 DEF SlotLocked
  <1>3. ~Upcoming(<<<<"release", o>>>>) /\ ~Upcoming(<<<<"destroy", o>>, <<"release", o>>>>)
    BY Contains1, Contains2 DEF Upcoming
  <1>4. ASSUME NEW d \in Own(t)
        PROVE  /\ ~Upcoming(<<<<"release", o>>, <<"lock", d>>>>)
               /\ ~Upcoming(<<<<"destroy", o>>, <<"release", o>>, <<"lock", d>>>>)
    BY Contains2, Contains3 DEF Upcoming
  <1> QED BY <1>1, <1>2, <1>3, <1>4

LEMMA NoScript == ~Upcoming(<<>>) /\ \A e : SlotLocked(<<>>, e)
  BY Contains0 DEF Upcoming, SlotLocked

LEMMA FullForms ==
  ASSUME NEW t
  PROVE  /\ \A r \in RefSlots :
              /\ Full(t, <<<<"emplace">>, <<"account">>, <<"put", r>>>>)
              /\ Full(t, <<<<"account">>, <<"put", r>>>>)
              /\ Full(t, <<<<"unlock_temp">>, <<"put", r>>>>)
              /\ Full(t, <<<<"put", r>>>>)
         /\ \A d \in Own(t) :
              /\ Full(t, <<<<"lock_temp">>, <<"unlock", d>>, <<"put", d>>>>)
              /\ Full(t, <<<<"unlock", d>>, <<"put", d>>>>)
              /\ Full(t, <<<<"put", d>>>>)
              /\ Full(t, <<<<"put", d>>, <<"lock", d>>>>)
  BY DEF Full

LEMMA EmptyForms ==
  ASSUME NEW t
  PROVE  /\ Empty(t, <<>>)
         /\ \A o \in Objects : /\ Empty(t, <<<<"destroy", o>>, <<"release", o>>>>)
                               /\ Empty(t, <<<<"release", o>>>>)
         /\ \A d \in Own(t) :
              /\ Empty(t, <<<<"lock", d>>>>)
              /\ \A o \in Objects :
                   /\ Empty(t, <<<<"destroy", o>>, <<"release", o>>, <<"lock", d>>>>)
                   /\ Empty(t, <<<<"release", o>>, <<"lock", d>>>>)
              /\ \A x \in Own(t) : Empty(t, <<<<"copy", x>>, <<"put", d>>, <<"lock", d>>>>)
              /\ \A x \in Own(t) \ {d} : Empty(t, <<<<"take", x>>, <<"put", d>>>>)
  BY DEF Empty

-----------------------------------------------------------------------------
(* What each step does to the locks that are held.                         *)

\* No holder gets or loses a lock.
HoldsSame == \A h \in Holders : Holds(h)' = Holds(h)

LEMMA SameHolds ==
  ASSUME NEW t \in Threads, Private(t), \A d \in Own(t) : Holds(d)' = Holds(d),
         Holds(<<t, "temp">>)' = Holds(<<t, "temp">>)
  PROVE  HoldsSame
  BY OthersHold, SlotFacts DEF HoldsSame

LEMMA CopyEffect ==
  ASSUME MemTypeOK, NEW t \in Threads, ScriptOK(t), Copy(t)
  PROVE  Private(t) /\ ScriptOK(t)' /\ HoldsSame
  <1>1. /\ temp[t] = Null /\ slot' = slot
        /\ script' = [script EXCEPT ![t] = Tail(@)] /\ temp' = [temp EXCEPT ![t] = slot[Arg(t)]]
    BY AtCopy DEF Copy, Step
  <1>2. script'[t] = Tail(script[t])
    BY <1>1 DEF MemTypeOK
  <1>3. Private(t)
    BY <1>1 DEF Private, MemTypeOK
  <1>4. /\ Full(t, script'[t]) /\ ~Upcoming(script'[t]) /\ ~TempLocked(script'[t], t)
        /\ \A e \in Own(t) : SlotLocked(script'[t], e) <=> SlotLocked(script[t], e)
    <2>1. CASE \E r \in RefSlots, x \in Slots : script[t] = <<<<"copy", x>>, <<"put", r>>>>
      <3>1. PICK r \in RefSlots, x \in Slots : script[t] = <<<<"copy", x>>, <<"put", r>>>>
        BY <2>1
      <3>2. script'[t] = <<<<"put", r>>>>
        BY <1>2, <3>1
      <3> QED BY <3>1, <3>2, RefScripts, RefLoads, FullForms
    <2>2. CASE \E d \in Own(t), x \in RefSlots :
                 script[t] = <<<<"copy", x>>, <<"lock_temp">>, <<"unlock", d>>, <<"put", d>>>>
      <3>1. PICK d \in Own(t), x \in Slots : script[t] = Lock(d, x)
        BY <2>2, RefFacts DEF Lock
      <3>2. script'[t] = <<<<"lock_temp">>, <<"unlock", d>>, <<"put", d>>>>
        BY <1>2, <3>1 DEF Lock
      <3>3. /\ Full(t, <<<<"lock_temp">>, <<"unlock", d>>, <<"put", d>>>>)
            /\ ~Upcoming(<<<<"lock_temp">>, <<"unlock", d>>, <<"put", d>>>>)
            /\ ~TempLocked(<<<<"lock_temp">>, <<"unlock", d>>, <<"put", d>>>>, t)
            /\ \A e \in Own(t) : /\ SlotLocked(<<<<"lock_temp">>, <<"unlock", d>>, <<"put", d>>>>, e)
                                 /\ SlotLocked(Lock(d, x), e)
        BY OwnScripts, OwnLoads, FullForms, Zenon
      <3> QED BY <3>1, <3>2, <3>3
    <2>3. CASE \E d \in Own(t), x \in Own(t) :
                 script[t] = <<<<"copy", x>>, <<"put", d>>, <<"lock", d>>>>
      <3>1. PICK d \in Own(t), x \in Slots :
              script[t] = <<<<"copy", x>>, <<"put", d>>, <<"lock", d>>>>
        BY <2>3, SlotFacts
      <3>2. script'[t] = <<<<"put", d>>, <<"lock", d>>>>
        BY <1>2, <3>1
      <3>3. /\ Full(t, <<<<"put", d>>, <<"lock", d>>>>)
            /\ ~Upcoming(<<<<"put", d>>, <<"lock", d>>>>)
            /\ ~TempLocked(<<<<"put", d>>, <<"lock", d>>>>, t)
            /\ \A e \in Own(t) :
                 /\ SlotLocked(<<<<"put", d>>, <<"lock", d>>>>, e) <=> e # d
                 /\ SlotLocked(<<<<"copy", x>>, <<"put", d>>, <<"lock", d>>>>, e) <=> e # d
        BY OwnScripts, OwnLoads, FullForms, Zenon
      <3> QED BY <3>1, <3>2, <3>3
    <2> QED BY <2>1, <2>2, <2>3, AtCopy DEF Copy
  <1>5. ScriptOK(t)'
    BY <1>4 DEF ScriptOK, Full
  <1>6. HoldsSame
    BY <1>1, <1>3, <1>4, HoldsOwn, SameHolds
  <1> QED BY <1>3, <1>5, <1>6

LEMMA AllocateEffect ==
  ASSUME MemTypeOK, NEW t \in Threads, ScriptOK(t), Construct(t) \/ Emplace(t) \/ Account(t)
  PROVE  Private(t) /\ ScriptOK(t)' /\ HoldsSame
  <1>1. slot' = slot /\ script' = [script EXCEPT ![t] = Tail(@)]
    BY DEF Construct, Emplace, Account, Step
  <1>2. script'[t] = Tail(script[t])
    BY <1>1 DEF MemTypeOK
  <1>3. Private(t)
    BY <1>1 DEF Private, MemTypeOK, Construct, Emplace, Account
  <1>4. PICK r \in RefSlots :
          \/ temp[t] = Null /\ script[t] = Allocate(r)
          \/ temp' = temp /\ script[t] = <<<<"emplace">>, <<"account">>, <<"put", r>>>>
          \/ temp' = temp /\ script[t] = <<<<"account">>, <<"put", r>>>>
    <2>1. CASE Construct(t)
      BY <2>1, AtConstruct DEF Construct
    <2>2. CASE Emplace(t) \/ Account(t)
      BY <2>2, AtAllocate DEF Emplace, Account
    <2> QED BY <2>1, <2>2
  <1>5. /\ ~TempLocked(<<<<"put", r>>>>, t) /\ ~Upcoming(<<<<"put", r>>>>)
        /\ ~TempLocked(<<<<"account">>, <<"put", r>>>>, t)
        /\ ~Upcoming(<<<<"account">>, <<"put", r>>>>)
        /\ ~TempLocked(<<<<"emplace">>, <<"account">>, <<"put", r>>>>, t)
        /\ ~Upcoming(<<<<"emplace">>, <<"account">>, <<"put", r>>>>)
        /\ Full(t, <<<<"put", r>>>>) /\ Full(t, <<<<"account">>, <<"put", r>>>>)
        /\ Full(t, <<<<"emplace">>, <<"account">>, <<"put", r>>>>)
        /\ \A e \in Own(t) :
             /\ SlotLocked(<<<<"put", r>>>>, e)
             /\ SlotLocked(<<<<"account">>, <<"put", r>>>>, e)
             /\ SlotLocked(<<<<"emplace">>, <<"account">>, <<"put", r>>>>, e)
             /\ SlotLocked(Allocate(r), e)
    BY RefScripts, FullForms, Zenon
  <1>6. /\ Full(t, script'[t]) /\ ~Upcoming(script'[t]) /\ ~TempLocked(script'[t], t)
        /\ \A e \in Own(t) : SlotLocked(script'[t], e) /\ SlotLocked(script[t], e)
        /\ temp[t] = Null \/ ~TempLocked(script[t], t)
    <2>1. CASE temp[t] = Null /\ script[t] = Allocate(r)
      <3>1. script'[t] = <<<<"emplace">>, <<"account">>, <<"put", r>>>>
        BY <1>2, <2>1 DEF Allocate
      <3> QED BY <1>5, <2>1, <3>1
    <2>2. CASE script[t] = <<<<"emplace">>, <<"account">>, <<"put", r>>>>
      <3>1. script'[t] = <<<<"account">>, <<"put", r>>>>
        BY <1>2, <2>2
      <3> QED BY <1>5, <2>2, <3>1
    <2>3. CASE script[t] = <<<<"account">>, <<"put", r>>>>
      <3>1. script'[t] = <<<<"put", r>>>>
        BY <1>2, <2>3
      <3> QED BY <1>5, <2>3, <3>1
    <2> QED BY <1>4, <2>1, <2>2, <2>3
  <1>7. ScriptOK(t)'
    BY <1>6 DEF ScriptOK, Full
  <1>8. HoldsSame
    BY <1>1, <1>3, <1>6, HoldsOwn, SameHolds
  <1> QED BY <1>3, <1>7, <1>8

\* A lock goes from one holder to another.
Moved(a, b) ==
  /\ a \in Holders /\ b \in Holders /\ a # b
  /\ Holds(b) = Null /\ Holds(a)' = Null /\ Holds(b)' = Holds(a)
  /\ \A h \in Holders \ {a, b} : Holds(h)' = Holds(h)

LEMMA TakeEffect ==
  ASSUME MemTypeOK, NEW t \in Threads, ScriptOK(t), Take(t)
  PROVE  /\ Private(t) /\ ScriptOK(t)' /\ Arg(t) \in Slots
         /\ HoldsSame \/ Moved(Arg(t), <<t, "temp">>)
  <1>1. /\ temp[t] = Null /\ slot' = [slot EXCEPT ![Arg(t)] = Null]
        /\ script' = [script EXCEPT ![t] = Tail(@)] /\ temp' = [temp EXCEPT ![t] = slot[Arg(t)]]
    BY AtTake DEF Take, Step
  <1>2. script'[t] = Tail(script[t]) /\ temp'[t] = slot[Arg(t)]
    BY <1>1 DEF MemTypeOK
  <1>3. Arg(t) \in RefSlots \cup Own(t)
    BY AtTake DEF Take, Arg
  <1>4. Arg(t) \in Slots
    BY <1>3, SlotFacts, RefFacts
  <1>5. Private(t)
    <2>1. \A u \in Threads \ {t} : \A d \in Own(u) : d # Arg(t) /\ d \in Slots
      BY <1>3, SlotFacts
    <2> QED BY <1>1, <1>4, <2>1 DEF Private, MemTypeOK
  <1>6. \A e \in Own(t) : e \in Slots /\ (e # Arg(t) => slot'[e] = slot[e])
    BY <1>1, SlotFacts DEF MemTypeOK
  <1>7. CASE \E r \in RefSlots, x \in RefSlots : script[t] = <<<<"take", x>>, <<"put", r>>>>
    <2>1. PICK r \in RefSlots, x \in RefSlots : script[t] = <<<<"take", x>>, <<"put", r>>>>
      BY <1>7
    <2>2. script'[t] = <<<<"put", r>>>> /\ Arg(t) = x /\ x \in Slots
      BY <1>2, <2>1, RefFacts DEF Arg
    <2>3. /\ Full(t, <<<<"put", r>>>>) /\ ~Upcoming(<<<<"put", r>>>>)
          /\ ~TempLocked(<<<<"put", r>>>>, t)
          /\ \A e \in Own(t) : /\ SlotLocked(<<<<"put", r>>>>, e)
                               /\ SlotLocked(<<<<"take", x>>, <<"put", r>>>>, e)
      BY <2>2, RefScripts, RefLoads, FullForms, Zenon
    <2>4. ScriptOK(t)'
      BY <2>2, <2>3 DEF ScriptOK, Full
    <2>5. \A e \in Own(t) : slot'[e] = slot[e]
      <3>1. \A e \in Own(t) : e # x
        BY SlotFacts
      <3> QED BY <1>6, <2>2, <3>1
    <2>6. HoldsSame
      BY <1>1, <1>5, <2>1, <2>2, <2>3, <2>5, HoldsOwn, SameHolds
    <2> QED BY <1>4, <1>5, <2>4, <2>6
  <1>8. CASE \E r \in RefSlots, x \in Own(t) :
               /\ script[t] = <<<<"take", x>>, <<"unlock_temp">>, <<"put", r>>>>
               /\ slot[x] # Null
    <2>1. PICK r \in RefSlots, x \in Own(t) :
               /\ script[t] = <<<<"take", x>>, <<"unlock_temp">>, <<"put", r>>>>
               /\ slot[x] # Null
      BY <1>8
    <2>2. script'[t] = <<<<"unlock_temp">>, <<"put", r>>>> /\ Arg(t) = x /\ x \in Slots
      BY <1>2, <1>4, <2>1 DEF Arg
    <2>3. /\ Full(t, <<<<"unlock_temp">>, <<"put", r>>>>)
          /\ TempLocked(<<<<"unlock_temp">>, <<"put", r>>>>, t)
          /\ \A e \in Own(t) :
               /\ SlotLocked(<<<<"unlock_temp">>, <<"put", r>>>>, e)
               /\ SlotLocked(<<<<"take", x>>, <<"unlock_temp">>, <<"put", r>>>>, e)
      BY <2>2, RefScripts, RefLoads, FullForms, Zenon
    <2>4. ScriptOK(t)'
      <3>1. At(t, "unlock_temp")' /\ temp'[t] # Null
        BY <1>2, <2>1, <2>2 DEF At, Idle
      <3>2. Full(t, script[t])'
        BY <2>2, <2>3 DEF Full
      <3> QED BY <3>1, <3>2 DEF ScriptOK
    <2>5. /\ Holds(<<t, "temp">>) = Null /\ Holds(<<t, "temp">>)' = slot[x]
          /\ Holds(x) = slot[x] /\ Holds(x)' = Null
      BY <1>1, <1>2, <1>4, <2>1, <2>2, <2>3, HoldsOwn DEF MemTypeOK
    <2>6. \A e \in Own(t) \ {x} : Holds(e)' = Holds(e)
      BY <1>6, <2>1, <2>2, <2>3, HoldsOwn
    <2>7. \A h \in Holders \ {x, <<t, "temp">>} : Holds(h)' = Holds(h)
      BY <1>5, <2>6, OthersHold, SlotFacts
    <2>8. x \in Holders /\ <<t, "temp">> \in Holders /\ x # <<t, "temp">>
      BY SlotFacts
    <2>9. Moved(x, <<t, "temp">>)
      BY <2>5, <2>7, <2>8 DEF Moved
    <2> QED BY <1>4, <1>5, <2>2, <2>4, <2>9
  <1>9. CASE \E d \in Own(t) : \E x \in Own(t) \ {d} : script[t] = <<<<"take", x>>, <<"put", d>>>>
    <2>1. PICK d \in Own(t), x \in Own(t) : x # d /\ script[t] = <<<<"take", x>>, <<"put", d>>>>
      BY <1>9
    <2>2. script'[t] = <<<<"put", d>>>> /\ Arg(t) = x /\ x \in Slots
      BY <1>2, <1>4, <2>1 DEF Arg
    <2>3. /\ Full(t, <<<<"put", d>>>>) /\ ~Upcoming(<<<<"put", d>>>>)
          /\ TempLocked(<<<<"put", d>>>>, t)
          /\ \A e \in Own(t) :
               /\ SlotLocked(<<<<"put", d>>>>, e) <=> e # d
               /\ SlotLocked(<<<<"take", x>>, <<"put", d>>>>, e) <=> e # d
      BY <2>2, OwnScripts, OwnLoads, FullForms, Zenon
    <2>4. ScriptOK(t)'
      BY <2>2, <2>3 DEF ScriptOK, Full
    <2>5. /\ Holds(<<t, "temp">>) = Null /\ Holds(<<t, "temp">>)' = slot[x]
          /\ Holds(x) = slot[x] /\ Holds(x)' = Null
      BY <1>1, <1>2, <1>4, <2>1, <2>2, <2>3, HoldsOwn DEF MemTypeOK
    <2>6. \A e \in Own(t) \ {x} : Holds(e)' = Holds(e)
      BY <1>6, <2>1, <2>2, <2>3, HoldsOwn
    <2>7. \A h \in Holders \ {x, <<t, "temp">>} : Holds(h)' = Holds(h)
      BY <1>5, <2>6, OthersHold, SlotFacts
    <2>8. x \in Holders /\ <<t, "temp">> \in Holders /\ x # <<t, "temp">>
      BY SlotFacts
    <2>9. Moved(x, <<t, "temp">>)
      BY <2>5, <2>7, <2>8 DEF Moved
    <2> QED BY <1>4, <1>5, <2>2, <2>4, <2>9
  <1> QED BY <1>7, <1>8, <1>9, AtTake DEF Take

LEMMA Append0 == \A a, b : <<>> \o <<a>> = <<a>> /\ <<>> \o <<>> = <<>> /\ <<a, b>> \o <<>> = <<a, b>>
  OBVIOUS

LEMMA Append1 ==
  \A a, b, c : <<a, b>> \o <<c>> = <<a, b, c>>
  <1> SUFFICES ASSUME NEW a, NEW b, NEW c PROVE <<a, b>> \o <<c>> = <<a, b, c>>
    OBVIOUS
  <1> DEFINE S == {a, b, c}
             p == <<a, b>>
             q == <<c>>
             r == <<a, b, c>>
  <1>1. /\ p \in Seq(S) /\ q \in Seq(S) /\ r \in Seq(S)
        /\ Len(p) = 2 /\ Len(q) = 1 /\ Len(r) = 3
    OBVIOUS
  <1>2. p[1] = a /\ p[2] = b /\ q[1] = c /\ r[1] = a /\ r[2] = b /\ r[3] = c
    OBVIOUS
  <1> HIDE DEF S, p, q, r
  <1>3. /\ p \o q \in Seq(S) /\ Len(p \o q) = Len(p) + Len(q)
        /\ \A i \in 1 .. Len(p) + Len(q) :
             (p \o q)[i] = IF i <= Len(p) THEN p[i] ELSE q[i - Len(p)]
    BY <1>1, ConcatProperties, Zenon
  <1>4. Len(p \o q) = Len(r)
    BY <1>1, <1>3
  <1>5. \A i \in 1 .. Len(r) : i = 1 \/ i = 2 \/ i = 3
    BY <1>1
  <1>6. (p \o q)[1] = r[1] /\ (p \o q)[2] = r[2] /\ (p \o q)[3] = r[3]
    BY <1>1, <1>2, <1>3
  <1>7. \A i \in 1 .. Len(p \o q) : (p \o q)[i] = r[i]
    BY <1>4, <1>5, <1>6
  <1>8. p \o q = r
    BY <1>1, <1>3, <1>4, <1>7, SeqEqual, Zenon
  <1> QED BY <1>8 DEF p, q, r
\* A put leaves the destruction of the object that was in its slot, and then
\* the lock of the slot.
LEMMA PutScripts ==
  ASSUME MemTypeOK, NEW t \in Threads, ScriptOK(t), Put(t)
  PROVE  \/ \E r \in RefSlots :
              /\ script[t] = <<<<"put", r>>>>
              /\ \/ script'[t] = <<>>
                 \/ \E o \in Objects : script'[t] = <<<<"destroy", o>>, <<"release", o>>>>
         \/ \E d \in Own(t) :
              /\ script[t] = <<<<"put", d>>>>
              /\ \/ script'[t] = <<>>
                 \/ \E o \in Objects : script'[t] = <<<<"destroy", o>>, <<"release", o>>>>
         \/ \E d \in Own(t) :
              /\ script[t] = <<<<"put", d>>, <<"lock", d>>>>
              /\ \/ script'[t] = <<<<"lock", d>>>>
                 \/ \E o \in Objects :
                      script'[t] = <<<<"destroy", o>>, <<"release", o>>, <<"lock", d>>>>
  <1>1. Arg(t) \in Slots
    <2>1. Arg(t) \in RefSlots \cup Own(t)
      BY AtPut DEF Put, Arg
    <2> QED BY <2>1, SlotFacts, RefFacts
  <1>2. slot[Arg(t)] # Null => slot[Arg(t)] \in Objects
    BY <1>1 DEF MemTypeOK
  <1>3. \/ script'[t] = <<>> \o Tail(script[t])
        \/ \E o \in Objects : script'[t] = <<<<"destroy", o>>, <<"release", o>>>> \o Tail(script[t])
    BY <1>2 DEF Put, MemTypeOK
  <1>4. ASSUME NEW x, script[t] = <<<<"put", x>>>>
        PROVE  \/ script'[t] = <<>>
               \/ \E o \in Objects : script'[t] = <<<<"destroy", o>>, <<"release", o>>>>
    <2>1. Tail(script[t]) = <<>>
      BY <1>4
    <2> QED BY <1>3, <2>1, Append0, Zenon
  <1>5. ASSUME NEW x, script[t] = <<<<"put", x>>, <<"lock", x>>>>
        PROVE  \/ script'[t] = <<<<"lock", x>>>>
               \/ \E o \in Objects :
                    script'[t] = <<<<"destroy", o>>, <<"release", o>>, <<"lock", x>>>>
    <2>1. Tail(script[t]) = <<<<"lock", x>>>>
      BY <1>5
    <2>2. /\ <<>> \o <<<<"lock", x>>>> = <<<<"lock", x>>>>
          /\ \A o : <<<<"destroy", o>>, <<"release", o>>>> \o <<<<"lock", x>>>>
                     = <<<<"destroy", o>>, <<"release", o>>, <<"lock", x>>>>
      BY Append0, Append1, Zenon
    <2>3. CASE script'[t] = <<>> \o Tail(script[t])
      BY <2>1, <2>2, <2>3
    <2>4. CASE \E o \in Objects :
                 script'[t] = <<<<"destroy", o>>, <<"release", o>>>> \o Tail(script[t])
      <3>1. PICK o \in Objects :
              script'[t] = <<<<"destroy", o>>, <<"release", o>>>> \o <<<<"lock", x>>>>
        BY <2>1, <2>4, Zenon
      <3>2. script'[t] = <<<<"destroy", o>>, <<"release", o>>, <<"lock", x>>>>
        BY <2>2, <3>1, Zenon
      <3> QED BY <3>2
    <2> QED BY <1>3, <2>3, <2>4
  <1> QED BY <1>4, <1>5, AtPut DEF Put

LEMMA PutEffect ==
  ASSUME MemTypeOK, NEW t \in Threads, ScriptOK(t), Put(t)
  PROVE  /\ Private(t) /\ ScriptOK(t)' /\ Arg(t) \in Slots
         /\ HoldsSame \/ Moved(<<t, "temp">>, Arg(t))
  <1>1. /\ slot' = [slot EXCEPT ![Arg(t)] = temp[t]] /\ temp' = [temp EXCEPT ![t] = Null]
        /\ \A u \in Threads \ {t} : script'[u] = script[u]
    BY DEF Put, MemTypeOK
  <1>2. temp'[t] = Null
    BY <1>1 DEF MemTypeOK
  <1>3. Arg(t) \in RefSlots \cup Own(t)
    BY AtPut DEF Put, Arg
  <1>4. Arg(t) \in Slots
    BY <1>3, SlotFacts, RefFacts
  <1>5. Private(t)
    <2>1. \A u \in Threads \ {t} : \A d \in Own(u) : d # Arg(t) /\ d \in Slots
      BY <1>3, SlotFacts
    <2> QED BY <1>1, <1>4, <2>1 DEF Private, MemTypeOK
  <1>6. \A e \in Own(t) : e \in Slots /\ (e # Arg(t) => slot'[e] = slot[e])
    BY <1>1, SlotFacts DEF MemTypeOK
  <1>7. ASSUME Empty(t, script'[t]), ~Upcoming(script'[t]) PROVE ScriptOK(t)'
    BY <1>2, <1>7 DEF ScriptOK, Empty
  <1>8. /\ Empty(t, <<>>) /\ ~Upcoming(<<>>) /\ \A e \in Own(t) : SlotLocked(<<>>, e)
        /\ \A o \in Objects : /\ Empty(t, <<<<"destroy", o>>, <<"release", o>>>>)
                              /\ ~Upcoming(<<<<"destroy", o>>, <<"release", o>>>>)
                              /\ \A e \in Own(t) :
                                   SlotLocked(<<<<"destroy", o>>, <<"release", o>>>>, e)
    BY EmptyForms, CleanScripts, NoScript, Zenon
  <1>9. ASSUME NEW x, script[t] = <<<<"put", x>>>>,
               \/ script'[t] = <<>>
               \/ \E o \in Objects : script'[t] = <<<<"destroy", o>>, <<"release", o>>>>
        PROVE  ScriptOK(t)' /\ Arg(t) = x /\ \A e \in Own(t) : SlotLocked(script'[t], e)
    <2>1. Empty(t, script'[t]) /\ ~Upcoming(script'[t]) /\ \A e \in Own(t) : SlotLocked(script'[t], e)
      BY <1>8, <1>9
    <2>2. Arg(t) = x
      BY <1>9 DEF Arg
    <2> QED BY <1>7, <2>1, <2>2
  <1>10. ASSUME NEW r \in RefSlots, script[t] = <<<<"put", r>>>>,
                \/ script'[t] = <<>>
                \/ \E o \in Objects : script'[t] = <<<<"destroy", o>>, <<"release", o>>>>
         PROVE  ScriptOK(t)' /\ HoldsSame
    <2>1. ScriptOK(t)' /\ Arg(t) = r /\ \A e \in Own(t) : SlotLocked(script'[t], e)
      BY <1>9, <1>10
    <2>2. ~TempLocked(<<<<"put", r>>>>, t) /\ \A e \in Own(t) : SlotLocked(<<<<"put", r>>>>, e)
      BY RefScripts, Zenon
    <2>3. \A e \in Own(t) : slot'[e] = slot[e]
      <3>1. \A e \in Own(t) : e # r
        BY SlotFacts
      <3> QED BY <1>6, <2>1, <3>1
    <2>4. HoldsSame
      BY <1>2, <1>5, <1>10, <2>1, <2>2, <2>3, HoldsOwn, SameHolds
    <2> QED BY <2>1, <2>4
  <1>11. ASSUME NEW d \in Own(t), script[t] = <<<<"put", d>>>>,
                \/ script'[t] = <<>>
                \/ \E o \in Objects : script'[t] = <<<<"destroy", o>>, <<"release", o>>>>
         PROVE  ScriptOK(t)' /\ Moved(<<t, "temp">>, Arg(t))
    <2>1. ScriptOK(t)' /\ Arg(t) = d /\ \A e \in Own(t) : SlotLocked(script'[t], e)
      BY <1>9, <1>11
    <2>2. /\ TempLocked(<<<<"put", d>>>>, t)
          /\ \A e \in Own(t) : SlotLocked(<<<<"put", d>>>>, e) <=> e # d
      BY OwnScripts, Zenon
    <2>3. slot'[d] = temp[t]
      BY <1>1, <1>4, <2>1 DEF MemTypeOK
    <2>4. /\ Holds(<<t, "temp">>) = temp[t] /\ Holds(<<t, "temp">>)' = Null
          /\ Holds(d) = Null /\ Holds(d)' = temp[t]
      BY <1>2, <1>11, <2>1, <2>2, <2>3, HoldsOwn
    <2>5. \A e \in Own(t) \ {d} : Holds(e)' = Holds(e)
      BY <1>6, <1>11, <2>1, <2>2, HoldsOwn
    <2>6. \A h \in Holders \ {d, <<t, "temp">>} : Holds(h)' = Holds(h)
      BY <1>5, <2>5, OthersHold, SlotFacts
    <2>7. d \in Holders /\ <<t, "temp">> \in Holders /\ d # <<t, "temp">>
      BY SlotFacts
    <2>8. Moved(<<t, "temp">>, d)
      BY <2>4, <2>6, <2>7 DEF Moved
    <2> QED BY <2>1, <2>8
  <1>12. ASSUME NEW d \in Own(t), script[t] = <<<<"put", d>>, <<"lock", d>>>>,
                \/ script'[t] = <<<<"lock", d>>>>
                \/ \E o \in Objects :
                     script'[t] = <<<<"destroy", o>>, <<"release", o>>, <<"lock", d>>>>
         PROVE  ScriptOK(t)' /\ HoldsSame
    <2>1. Arg(t) = d
      BY <1>12 DEF Arg
    <2>2. /\ Empty(t, <<<<"lock", d>>>>) /\ ~Upcoming(<<<<"lock", d>>>>)
          /\ \A e \in Own(t) : SlotLocked(<<<<"lock", d>>>>, e) <=> e # d
          /\ ~TempLocked(<<<<"put", d>>, <<"lock", d>>>>, t)
          /\ \A e \in Own(t) : SlotLocked(<<<<"put", d>>, <<"lock", d>>>>, e) <=> e # d
      BY OwnScripts, EmptyForms, Zenon
    <2>3. \A o \in Objects :
            /\ Empty(t, <<<<"destroy", o>>, <<"release", o>>, <<"lock", d>>>>)
            /\ ~Upcoming(<<<<"destroy", o>>, <<"release", o>>, <<"lock", d>>>>)
            /\ \A e \in Own(t) :
                 SlotLocked(<<<<"destroy", o>>, <<"release", o>>, <<"lock", d>>>>, e) <=> e # d
      BY CleanScripts, EmptyForms, Zenon
    <2>4. /\ Empty(t, script'[t]) /\ ~Upcoming(script'[t])
          /\ \A e \in Own(t) : SlotLocked(script'[t], e) <=> e # d
      BY <1>12, <2>2, <2>3
    <2>5. HoldsSame
      BY <1>2, <1>5, <1>6, <1>12, <2>1, <2>2, <2>4, HoldsOwn, SameHolds
    <2> QED BY <1>7, <2>4, <2>5
  <1>13. ScriptOK(t)' /\ (HoldsSame \/ Moved(<<t, "temp">>, Arg(t)))
    <2> HIDE <1>9
    <2> QED BY <1>10, <1>11, <1>12, PutScripts
  <1> QED BY <1>4, <1>5, <1>13

\* A holder gets a lock, and the lock of its object is counted; the reverse.
Gained(h) ==
  /\ h \in Holders /\ Holds(h) = Null
  /\ AddLocks(Holds(h)', 1)
  /\ \A g \in Holders \ {h} : Holds(g)' = Holds(g)

Lost(h) ==
  /\ h \in Holders /\ Holds(h)' = Null
  /\ AddLocks(Holds(h), -1)
  /\ \A g \in Holders \ {h} : Holds(g)' = Holds(g)

LEMMA LockEffect ==
  ASSUME MemTypeOK, NEW t \in Threads, ScriptOK(t), LockObject(t)
  PROVE  Private(t) /\ ScriptOK(t)' /\ \E h \in Holders : Gained(h)
  <1>1. slot' = slot /\ temp' = temp /\ script' = [script EXCEPT ![t] = Tail(@)]
    BY DEF LockObject, Step
  <1>2. script'[t] = Tail(script[t])
    BY <1>1 DEF MemTypeOK
  <1>3. Private(t)
    BY <1>1 DEF Private, MemTypeOK
  <1>4. CASE At(t, "lock_temp") /\ AddLocks(temp[t], 1)
    <2>1. PICK d \in Own(t) : script[t] = <<<<"lock_temp">>, <<"unlock", d>>, <<"put", d>>>>
      BY <1>4, AtLockTemp
    <2>2. script'[t] = <<<<"unlock", d>>, <<"put", d>>>>
      BY <1>2, <2>1
    <2>3. /\ Full(t, <<<<"unlock", d>>, <<"put", d>>>>)
          /\ ~Upcoming(<<<<"unlock", d>>, <<"put", d>>>>)
          /\ TempLocked(<<<<"unlock", d>>, <<"put", d>>>>, t)
          /\ ~TempLocked(<<<<"lock_temp">>, <<"unlock", d>>, <<"put", d>>>>, t)
          /\ \A e \in Own(t) :
               /\ SlotLocked(<<<<"unlock", d>>, <<"put", d>>>>, e)
               /\ SlotLocked(<<<<"lock_temp">>, <<"unlock", d>>, <<"put", d>>>>, e)
      BY OwnScripts, FullForms, Zenon
    <2>4. ScriptOK(t)'
      BY <2>2, <2>3 DEF ScriptOK, Full
    <2>5. Holds(<<t, "temp">>) = Null /\ Holds(<<t, "temp">>)' = temp[t]
      BY <1>1, <2>1, <2>2, <2>3, HoldsOwn
    <2>6. \A e \in Own(t) : Holds(e)' = Holds(e)
      BY <1>1, <2>1, <2>2, <2>3, HoldsOwn
    <2>7. \A h \in Holders \ {<<t, "temp">>} : Holds(h)' = Holds(h)
      BY <1>3, <2>6, OthersHold, SlotFacts
    <2>8. AddLocks(Holds(<<t, "temp">>)', 1)
      BY <1>4, <2>5 DEF AddLocks
    <2>9. <<t, "temp">> \in Holders
      BY SlotFacts
    <2>10. Gained(<<t, "temp">>)
      BY <2>5, <2>7, <2>8, <2>9 DEF Gained
    <2> QED BY <1>3, <2>4, <2>9, <2>10
  <1>5. CASE At(t, "lock") /\ AddLocks(slot[Arg(t)], 1)
    <2>1. PICK d \in Own(t) : temp[t] = Null /\ script[t] = <<<<"lock", d>>>>
      BY <1>5, AtLock
    <2>2. script'[t] = <<>> /\ Arg(t) = d
      BY <1>2, <2>1 DEF Arg
    <2>3. /\ Empty(t, <<>>) /\ ~Upcoming(<<>>)
          /\ \A e \in Own(t) : /\ SlotLocked(<<>>, e)
                               /\ SlotLocked(<<<<"lock", d>>>>, e) <=> e # d
      BY OwnScripts, EmptyForms, NoScript, Zenon
    <2>4. ScriptOK(t)'
      BY <1>1, <2>1, <2>2, <2>3 DEF ScriptOK, Empty
    <2>5. Holds(d) = Null /\ Holds(d)' = slot[d]
      BY <1>1, <2>1, <2>2, <2>3, HoldsOwn
    <2>6. Holds(<<t, "temp">>)' = Holds(<<t, "temp">>) /\ \A e \in Own(t) \ {d} : Holds(e)' = Holds(e)
      BY <1>1, <2>1, <2>2, <2>3, HoldsOwn
    <2>7. \A h \in Holders \ {d} : Holds(h)' = Holds(h)
      BY <1>3, <2>6, OthersHold, SlotFacts
    <2>8. AddLocks(Holds(d)', 1)
      BY <1>5, <2>2, <2>5 DEF AddLocks
    <2>9. d \in Holders
      BY SlotFacts
    <2>10. Gained(d)
      BY <2>5, <2>7, <2>8, <2>9 DEF Gained
    <2> QED BY <1>3, <2>4, <2>9, <2>10
  <1> QED BY <1>4, <1>5 DEF LockObject

LEMMA UnlockEffect ==
  ASSUME MemTypeOK, NEW t \in Threads, ScriptOK(t), UnlockObject(t)
  PROVE  Private(t) /\ ScriptOK(t)' /\ \E h \in Holders : Lost(h)
  <1>1. slot' = slot /\ temp' = temp /\ script' = [script EXCEPT ![t] = Tail(@)]
    BY DEF UnlockObject, Step
  <1>2. script'[t] = Tail(script[t])
    BY <1>1 DEF MemTypeOK
  <1>3. Private(t)
    BY <1>1 DEF Private, MemTypeOK
  <1>4. CASE At(t, "unlock_temp") /\ AddLocks(temp[t], -1)
    <2>1. PICK r \in RefSlots : script[t] = <<<<"unlock_temp">>, <<"put", r>>>>
      BY <1>4, AtUnlockTemp
    <2>2. script'[t] = <<<<"put", r>>>>
      BY <1>2, <2>1
    <2>3. /\ Full(t, <<<<"put", r>>>>) /\ ~Upcoming(<<<<"put", r>>>>)
          /\ ~TempLocked(<<<<"put", r>>>>, t)
          /\ TempLocked(<<<<"unlock_temp">>, <<"put", r>>>>, t)
          /\ \A e \in Own(t) : /\ SlotLocked(<<<<"put", r>>>>, e)
                               /\ SlotLocked(<<<<"unlock_temp">>, <<"put", r>>>>, e)
      BY RefScripts, FullForms, Zenon
    <2>4. ScriptOK(t)'
      BY <2>2, <2>3 DEF ScriptOK, Full
    <2>5. Holds(<<t, "temp">>) = temp[t] /\ Holds(<<t, "temp">>)' = Null
      BY <1>1, <2>1, <2>2, <2>3, HoldsOwn
    <2>6. \A e \in Own(t) : Holds(e)' = Holds(e)
      BY <1>1, <2>1, <2>2, <2>3, HoldsOwn
    <2>7. \A h \in Holders \ {<<t, "temp">>} : Holds(h)' = Holds(h)
      BY <1>3, <2>6, OthersHold, SlotFacts
    <2>8. AddLocks(Holds(<<t, "temp">>), -1)
      BY <1>4, <2>5 DEF AddLocks
    <2>9. <<t, "temp">> \in Holders
      BY SlotFacts
    <2>10. Lost(<<t, "temp">>)
      BY <2>5, <2>7, <2>8, <2>9 DEF Lost
    <2> QED BY <1>3, <2>4, <2>9, <2>10
  <1>5. CASE At(t, "unlock") /\ AddLocks(slot[Arg(t)], -1)
    <2>1. PICK d \in Own(t) :
            \/ script[t] = <<<<"unlock", d>>, <<"put", d>>>>
            \/ /\ temp[t] = Null
               /\ \/ \E x \in Own(t) : script[t] = CopyLocked(d, x)
                  \/ \E x \in Own(t) \ {d} : script[t] = MoveLocked(d, x)
      BY <1>5, AtUnlock
    <2>2. /\ ScriptOK(t)' /\ Arg(t) = d
          /\ \A e \in Own(t) : SlotLocked(script[t], e) /\ (SlotLocked(script'[t], e) <=> e # d)
          /\ temp[t] = Null \/ (TempLocked(script[t], t) /\ TempLocked(script'[t], t))
      <3>1. CASE script[t] = <<<<"unlock", d>>, <<"put", d>>>>
        <4>1. script'[t] = <<<<"put", d>>>> /\ Arg(t) = d
          BY <1>2, <3>1 DEF Arg
        <4>2. /\ Full(t, <<<<"put", d>>>>) /\ ~Upcoming(<<<<"put", d>>>>)
              /\ TempLocked(<<<<"unlock", d>>, <<"put", d>>>>, t) /\ TempLocked(<<<<"put", d>>>>, t)
              /\ \A e \in Own(t) : /\ SlotLocked(<<<<"unlock", d>>, <<"put", d>>>>, e)
                                   /\ SlotLocked(<<<<"put", d>>>>, e) <=> e # d
          BY OwnScripts, FullForms, Zenon
        <4>3. ScriptOK(t)'
          BY <4>1, <4>2 DEF ScriptOK, Full
        <4> QED BY <3>1, <4>1, <4>2, <4>3
      <3>2. ASSUME temp[t] = Null, NEW x \in Own(t), script[t] = CopyLocked(d, x)
            PROVE  /\ ScriptOK(t)' /\ Arg(t) = d
                   /\ \A e \in Own(t) : SlotLocked(script[t], e) /\ (SlotLocked(script'[t], e) <=> e # d)
        <4>1. script'[t] = <<<<"copy", x>>, <<"put", d>>, <<"lock", d>>>> /\ Arg(t) = d
          BY <1>2, <3>2 DEF Arg, CopyLocked
        <4>2. x \in Slots
          BY SlotFacts
        <4>3. /\ Empty(t, <<<<"copy", x>>, <<"put", d>>, <<"lock", d>>>>)
              /\ ~Upcoming(<<<<"copy", x>>, <<"put", d>>, <<"lock", d>>>>)
              /\ \A e \in Own(t) :
                   /\ SlotLocked(CopyLocked(d, x), e)
                   /\ SlotLocked(<<<<"copy", x>>, <<"put", d>>, <<"lock", d>>>>, e) <=> e # d
          BY <4>2, OwnLoads, EmptyForms, Zenon
        <4>4. ScriptOK(t)'
          BY <1>1, <3>2, <4>1, <4>3 DEF ScriptOK, Empty
        <4> QED BY <3>2, <4>1, <4>3, <4>4
      <3>3. ASSUME temp[t] = Null, NEW x \in Own(t) \ {d}, script[t] = MoveLocked(d, x)
            PROVE  /\ ScriptOK(t)' /\ Arg(t) = d
                   /\ \A e \in Own(t) : SlotLocked(script[t], e) /\ (SlotLocked(script'[t], e) <=> e # d)
        <4>1. script'[t] = <<<<"take", x>>, <<"put", d>>>> /\ Arg(t) = d
          BY <1>2, <3>3 DEF Arg, MoveLocked
        <4>2. x \in Slots
          BY SlotFacts
        <4>3. /\ Empty(t, <<<<"take", x>>, <<"put", d>>>>)
              /\ ~Upcoming(<<<<"take", x>>, <<"put", d>>>>)
              /\ \A e \in Own(t) : /\ SlotLocked(MoveLocked(d, x), e)
                                   /\ SlotLocked(<<<<"take", x>>, <<"put", d>>>>, e) <=> e # d
          BY <4>2, OwnLoads, EmptyForms, Zenon
        <4>4. ScriptOK(t)'
          BY <1>1, <3>3, <4>1, <4>3 DEF ScriptOK, Empty
        <4> QED BY <3>3, <4>1, <4>3, <4>4
      <3> QED BY <2>1, <3>1, <3>2, <3>3
    <2>3. Holds(d) = slot[d] /\ Holds(d)' = Null
      BY <1>1, <2>2, HoldsOwn
    <2>4. Holds(<<t, "temp">>)' = Holds(<<t, "temp">>) /\ \A e \in Own(t) \ {d} : Holds(e)' = Holds(e)
      BY <1>1, <2>2, HoldsOwn
    <2>5. \A h \in Holders \ {d} : Holds(h)' = Holds(h)
      BY <1>3, <2>4, OthersHold, SlotFacts
    <2>6. AddLocks(Holds(d), -1)
      BY <1>5, <2>2, <2>3 DEF AddLocks
    <2>7. d \in Holders
      BY SlotFacts
    <2>8. Lost(d)
      BY <2>3, <2>5, <2>6, <2>7 DEF Lost
    <2> QED BY <1>3, <2>2, <2>7, <2>8
  <1> QED BY <1>4, <1>5 DEF UnlockObject

LEMMA CleanEffect ==
  ASSUME MemTypeOK, NEW t \in Threads, ScriptOK(t), Destroy(t) \/ NotifyRelease(t)
  PROVE  Private(t) /\ ScriptOK(t)' /\ HoldsSame
  <1>1. slot' = slot /\ temp' = temp /\ script' = [script EXCEPT ![t] = Tail(@)]
    BY DEF Destroy, NotifyRelease, Step
  <1>2. script'[t] = Tail(script[t])
    BY <1>1 DEF MemTypeOK
  <1>3. Private(t)
    BY <1>1 DEF Private, MemTypeOK
  <1>4. PICK o \in Objects :
          /\ temp[t] = Null
          /\ \/ script[t] = <<<<"destroy", o>>, <<"release", o>>>>
             \/ script[t] = <<<<"release", o>>>>
             \/ \E d \in Own(t) :
                  \/ script[t] = <<<<"destroy", o>>, <<"release", o>>, <<"lock", d>>>>
                  \/ script[t] = <<<<"release", o>>, <<"lock", d>>>>
    BY AtDestroy DEF Destroy, NotifyRelease
  <1>5. /\ Empty(t, <<>>) /\ ~Upcoming(<<>>)
        /\ Empty(t, <<<<"release", o>>>>) /\ ~Upcoming(<<<<"release", o>>>>)
        /\ \A e \in Own(t) : /\ SlotLocked(<<>>, e) /\ SlotLocked(<<<<"release", o>>>>, e)
                             /\ SlotLocked(<<<<"destroy", o>>, <<"release", o>>>>, e)
    BY EmptyForms, CleanScripts, NoScript, Zenon
  <1>6. ASSUME NEW d \in Own(t)
        PROVE  /\ Empty(t, <<<<"release", o>>, <<"lock", d>>>>) /\ Empty(t, <<<<"lock", d>>>>)
               /\ ~Upcoming(<<<<"release", o>>, <<"lock", d>>>>) /\ ~Upcoming(<<<<"lock", d>>>>)
               /\ \A e \in Own(t) :
                    /\ SlotLocked(<<<<"lock", d>>>>, e) <=> e # d
                    /\ SlotLocked(<<<<"release", o>>, <<"lock", d>>>>, e) <=> e # d
                    /\ SlotLocked(<<<<"destroy", o>>, <<"release", o>>, <<"lock", d>>>>, e) <=> e # d
    BY EmptyForms, CleanScripts, OwnScripts, Zenon
  <1>7. /\ Empty(t, script'[t]) /\ ~Upcoming(script'[t])
        /\ \A e \in Own(t) : SlotLocked(script'[t], e) <=> SlotLocked(script[t], e)
    <2>1. CASE script[t] = <<<<"destroy", o>>, <<"release", o>>>>
      <3>1. script'[t] = <<<<"release", o>>>>
        BY <1>2, <2>1
      <3> QED BY <1>5, <2>1, <3>1
    <2>2. CASE script[t] = <<<<"release", o>>>>
      <3>1. script'[t] = <<>>
        BY <1>2, <2>2
      <3> QED BY <1>5, <2>2, <3>1
    <2>3. ASSUME NEW d \in Own(t), script[t] = <<<<"destroy", o>>, <<"release", o>>, <<"lock", d>>>>
          PROVE  /\ Empty(t, script'[t]) /\ ~Upcoming(script'[t])
                 /\ \A e \in Own(t) : SlotLocked(script'[t], e) <=> SlotLocked(script[t], e)
      <3>1. script'[t] = <<<<"release", o>>, <<"lock", d>>>>
        BY <1>2, <2>3
      <3> QED BY <1>6, <2>3, <3>1
    <2>4. ASSUME NEW d \in Own(t), script[t] = <<<<"release", o>>, <<"lock", d>>>>
          PROVE  /\ Empty(t, script'[t]) /\ ~Upcoming(script'[t])
                 /\ \A e \in Own(t) : SlotLocked(script'[t], e) <=> SlotLocked(script[t], e)
      <3>1. script'[t] = <<<<"lock", d>>>>
        BY <1>2, <2>4
      <3> QED BY <1>6, <2>4, <3>1
    <2> QED BY <1>4, <2>1, <2>2, <2>3, <2>4
  <1>8. ScriptOK(t)'
    BY <1>1, <1>4, <1>7 DEF ScriptOK, Empty
  <1>9. HoldsSame
    BY <1>1, <1>3, <1>4, <1>7, HoldsOwn, SameHolds
  <1> QED BY <1>3, <1>8, <1>9

\* The operations a thread begins.
LEMMA OperationForms ==
  ASSUME NEW t \in Threads, NEW ops \in Operations(t)
  PROVE  \/ \E r \in RefSlots :
              \/ ops = Allocate(r)
              \/ ops = <<<<"put", r>>>>
              \/ \E x \in Slots : ops = <<<<"copy", x>>, <<"put", r>>>>
              \/ \E x \in RefSlots : ops = <<<<"take", x>>, <<"put", r>>>>
              \/ \E x \in Own(t) : slot[x] # Null /\ ops = UnlockedMove(r, x)
         \/ \E d \in Own(t) :
              \/ ops = <<<<"unlock", d>>, <<"put", d>>>>
              \/ \E x \in RefSlots : ops = Lock(d, x)
              \/ \E x \in Own(t) : ops = CopyLocked(d, x)
              \/ \E x \in Own(t) \ {d} : ops = MoveLocked(d, x)
  <1>1. LockedSlots \cap Usable(t) = Own(t)
    BY DEF LockedSlots, Usable, Own, Slots, Pool
  <1>2. RefSlots \subseteq Slots /\ Own(t) \subseteq Slots
    BY SlotFacts, RefFacts
  <1> DEFINE refs   == RefSlots \cap Usable(t)
             locked == LockedSlots \cap Usable(t)
  <1>3. refs \subseteq RefSlots /\ locked = Own(t)
    BY <1>1
  <1>4. \/ \E d \in refs : ops = Allocate(d) \/ ops = ResetReference(d)
        \/ \E d \in locked : ops = DestroyLocked(d)
        \/ \E p \in refs \X refs : ops = CopyReference(p[1], p[2]) \/ ops = MoveReference(p[1], p[2])
        \/ \E p \in locked \X refs : ops = Lock(p[1], p[2])
        \/ \E p \in locked \X locked : ops = CopyLocked(p[1], p[2])
        \/ \E p \in locked \X locked : p[1] # p[2] /\ ops = MoveLocked(p[1], p[2])
        \/ \E p \in refs \X locked :
             /\ slot[p[2]] # Null
             /\ ops = UnlockedCopy(p[1], p[2]) \/ ops = UnlockedMove(p[1], p[2])
    <2> DEFINE A1 == IF next_identifier < MaxObjects /\ ~assert_on_release
                       THEN {Allocate(d) : d \in refs} ELSE {}
               A2 == {ResetReference(d) : d \in {r \in refs : slot[r] # Null}}
               A3 == {DestroyLocked(d) : d \in {l \in locked : slot[l] # Null}}
               A4 == UNION {{CopyReference(p[1], p[2]), MoveReference(p[1], p[2])}
                              : p \in {q \in refs \X refs : q[1] # q[2] /\ slot[q[2]] # Null}}
               A5 == {Lock(p[1], p[2]) : p \in {q \in locked \X refs : slot[q[2]] # Null}}
               A6 == {CopyLocked(p[1], p[2]) : p \in {q \in locked \X locked : slot[q[2]] # Null}}
               A7 == {MoveLocked(p[1], p[2])
                        : p \in {q \in locked \X locked : q[1] # q[2] /\ slot[q[2]] # Null}}
               A8 == UNION {{UnlockedCopy(p[1], p[2]), UnlockedMove(p[1], p[2])}
                              : p \in {q \in refs \X locked : slot[q[2]] # Null}}
    <2>0. Operations(t) = A1 \cup A2 \cup A3 \cup A4 \cup A5 \cup A6 \cup A7 \cup A8
      BY Zenon DEF Operations
    <2>1. \/ ops \in A1 \/ ops \in A2 \/ ops \in A3 \/ ops \in A4
          \/ ops \in A5 \/ ops \in A6 \/ ops \in A7 \/ ops \in A8
      <3> HIDE DEF A1, A2, A3, A4, A5, A6, A7, A8
      <3> QED BY <2>0
    <2> HIDE DEF refs, locked
    <2>2. ASSUME ops \in A1
          PROVE  \E d \in refs : ops = Allocate(d)
      BY <2>2
    <2>3. ASSUME ops \in A2
          PROVE  \E d \in refs : ops = ResetReference(d)
      BY <2>3
    <2>4. ASSUME ops \in A3
          PROVE  \E d \in locked : ops = DestroyLocked(d)
      BY <2>4
    <2>5. ASSUME ops \in A4
          PROVE  \E p \in refs \X refs :
                   ops = CopyReference(p[1], p[2]) \/ ops = MoveReference(p[1], p[2])
      BY <2>5, Zenon
    <2>6. ASSUME ops \in A5
          PROVE  \E p \in locked \X refs : ops = Lock(p[1], p[2])
      BY <2>6, Zenon
    <2>7. ASSUME ops \in A6
          PROVE  \E p \in locked \X locked : ops = CopyLocked(p[1], p[2])
      BY <2>7, Zenon
    <2>8. ASSUME ops \in A7
          PROVE  \E p \in locked \X locked : p[1] # p[2] /\ ops = MoveLocked(p[1], p[2])
      BY <2>8, Zenon
    <2>9. ASSUME ops \in A8
          PROVE  \E p \in refs \X locked :
                   /\ slot[p[2]] # Null
                   /\ ops = UnlockedCopy(p[1], p[2]) \/ ops = UnlockedMove(p[1], p[2])
      BY <2>9, Zenon
    <2> HIDE DEF A1, A2, A3, A4, A5, A6, A7, A8
    <2> QED BY <2>1, <2>2, <2>3, <2>4, <2>5, <2>6, <2>7, <2>8, <2>9, Zenon
  <1> HIDE DEF refs, locked
  <1>5. \/ \E d \in RefSlots : ops = Allocate(d) \/ ops = ResetReference(d)
        \/ \E d \in Own(t) : ops = DestroyLocked(d)
        \/ \E d \in RefSlots, x \in RefSlots : ops = CopyReference(d, x) \/ ops = MoveReference(d, x)
        \/ \E d \in Own(t), x \in RefSlots : ops = Lock(d, x)
        \/ \E d \in Own(t), x \in Own(t) : ops = CopyLocked(d, x)
        \/ \E d \in Own(t), x \in Own(t) : d # x /\ ops = MoveLocked(d, x)
        \/ \E d \in RefSlots, x \in Own(t) :
             slot[x] # Null /\ (ops = UnlockedCopy(d, x) \/ ops = UnlockedMove(d, x))
    BY <1>3, <1>4
  <1> QED BY <1>2, <1>5 DEF ResetReference, DestroyLocked, CopyReference, MoveReference, UnlockedCopy

LEMMA BeginEffect ==
  ASSUME MemTypeOK, NEW t \in Threads, ScriptOK(t), Begin(t)
  PROVE  Private(t) /\ ScriptOK(t)' /\ HoldsSame
  <1>1. slot' = slot /\ temp' = temp /\ script[t] = <<>> /\ temp[t] = Null
    BY AtIdle DEF Begin, Idle
  <1>2. PICK ops \in Operations(t) : script' = [script EXCEPT ![t] = ops]
    BY DEF Begin
  <1>3. script'[t] = ops
    BY <1>2 DEF MemTypeOK
  <1>4. Private(t)
    BY <1>1, <1>2 DEF Private, MemTypeOK
  <1>5. /\ Full(t, ops) \/ Empty(t, ops)
        /\ \A e \in Own(t) : SlotLocked(ops, e)
        /\ ~Upcoming(ops) \/ \E r \in RefSlots, x \in Own(t) : slot[x] # Null /\ ops = UnlockedMove(r, x)
    <2>1. ASSUME NEW r \in RefSlots, ops = Allocate(r)
          PROVE  (Full(t, ops) \/ Empty(t, ops)) /\ ~Upcoming(ops) /\ \A e \in Own(t) : SlotLocked(ops, e)
      <3>1. ~Upcoming(Allocate(r)) /\ \A e \in Own(t) : SlotLocked(Allocate(r), e)
        BY RefScripts, Zenon
      <3>2. Empty(t, Allocate(r))
        BY DEF Empty
      <3> QED BY <2>1, <3>1, <3>2
    <2>2. ASSUME NEW r \in RefSlots, ops = <<<<"put", r>>>>
          PROVE  (Full(t, ops) \/ Empty(t, ops)) /\ ~Upcoming(ops) /\ \A e \in Own(t) : SlotLocked(ops, e)
      <3>1. /\ Full(t, <<<<"put", r>>>>) /\ ~Upcoming(<<<<"put", r>>>>)
            /\ \A e \in Own(t) : SlotLocked(<<<<"put", r>>>>, e)
        BY RefScripts, FullForms, Zenon
      <3> QED BY <2>2, <3>1
    <2>3. ASSUME NEW r \in RefSlots, NEW x \in Slots, ops = <<<<"copy", x>>, <<"put", r>>>>
          PROVE  (Full(t, ops) \/ Empty(t, ops)) /\ ~Upcoming(ops) /\ \A e \in Own(t) : SlotLocked(ops, e)
      <3>1. /\ ~Upcoming(<<<<"copy", x>>, <<"put", r>>>>)
            /\ \A e \in Own(t) : SlotLocked(<<<<"copy", x>>, <<"put", r>>>>, e)
        BY RefLoads, Zenon
      <3>2. Empty(t, CopyReference(r, x))
        BY DEF Empty
      <3> QED BY <2>3, <3>1, <3>2 DEF CopyReference
    <2>4. ASSUME NEW r \in RefSlots, NEW x \in RefSlots, ops = <<<<"take", x>>, <<"put", r>>>>
          PROVE  (Full(t, ops) \/ Empty(t, ops)) /\ ~Upcoming(ops) /\ \A e \in Own(t) : SlotLocked(ops, e)
      <3>1. x \in Slots
        BY RefFacts
      <3>2. /\ ~Upcoming(<<<<"take", x>>, <<"put", r>>>>)
            /\ \A e \in Own(t) : SlotLocked(<<<<"take", x>>, <<"put", r>>>>, e)
        BY <3>1, RefLoads, Zenon
      <3>3. Empty(t, MoveReference(r, x))
        BY DEF Empty
      <3> QED BY <2>4, <3>2, <3>3 DEF MoveReference
    <2>5. ASSUME NEW r \in RefSlots, NEW x \in Own(t), slot[x] # Null, ops = UnlockedMove(r, x)
          PROVE  (Full(t, ops) \/ Empty(t, ops)) /\ \A e \in Own(t) : SlotLocked(ops, e)
      <3>1. x \in Slots
        BY SlotFacts
      <3>2. \A e \in Own(t) : SlotLocked(<<<<"take", x>>, <<"unlock_temp">>, <<"put", r>>>>, e)
        BY <3>1, RefLoads, Zenon
      <3>3. Empty(t, UnlockedMove(r, x))
        BY DEF Empty
      <3> QED BY <2>5, <3>2, <3>3 DEF UnlockedMove
    <2>6. ASSUME NEW d \in Own(t), ops = <<<<"unlock", d>>, <<"put", d>>>>
          PROVE  (Full(t, ops) \/ Empty(t, ops)) /\ ~Upcoming(ops) /\ \A e \in Own(t) : SlotLocked(ops, e)
      <3>1. /\ Full(t, <<<<"unlock", d>>, <<"put", d>>>>) /\ ~Upcoming(<<<<"unlock", d>>, <<"put", d>>>>)
            /\ \A e \in Own(t) : SlotLocked(<<<<"unlock", d>>, <<"put", d>>>>, e)
        BY OwnScripts, FullForms, Zenon
      <3> QED BY <2>6, <3>1
    <2>7. ASSUME NEW d \in Own(t), NEW x \in Slots
          PROVE  /\ ~Upcoming(Lock(d, x)) /\ ~Upcoming(CopyLocked(d, x)) /\ ~Upcoming(MoveLocked(d, x))
                 /\ \A e \in Own(t) : /\ SlotLocked(Lock(d, x), e) /\ SlotLocked(CopyLocked(d, x), e)
                                      /\ SlotLocked(MoveLocked(d, x), e)
      BY OwnLoads, Zenon
    <2>8. ASSUME NEW d \in Own(t),
                 \/ \E x \in RefSlots : ops = Lock(d, x)
                 \/ \E x \in Own(t) : ops = CopyLocked(d, x)
                 \/ \E x \in Own(t) \ {d} : ops = MoveLocked(d, x)
          PROVE  (Full(t, ops) \/ Empty(t, ops)) /\ ~Upcoming(ops) /\ \A e \in Own(t) : SlotLocked(ops, e)
      <3>1. Empty(t, ops)
        BY <2>8 DEF Empty
      <3>2. PICK x \in Slots : ops = Lock(d, x) \/ ops = CopyLocked(d, x) \/ ops = MoveLocked(d, x)
        BY <2>8, RefFacts, SlotFacts, Zenon
      <3> QED BY <2>7, <3>1, <3>2
    <2> QED BY <2>1, <2>2, <2>3, <2>4, <2>5, <2>6, <2>8, OperationForms
  <1>6. Upcoming(ops) => At(t, "take")' /\ (slot[Arg(t)] # Null)'
    <2> SUFFICES ASSUME NEW r \in RefSlots, NEW x \in Own(t), slot[x] # Null, ops = UnlockedMove(r, x)
                 PROVE  At(t, "take")' /\ (slot[Arg(t)] # Null)'
      BY <1>5
    <2>1. script'[t] = <<<<"take", x>>, <<"unlock_temp">>, <<"put", r>>>>
      BY <1>3 DEF UnlockedMove
    <2> QED BY <1>1, <2>1 DEF At, Idle, Arg
  <1>7. ScriptOK(t)'
    <2>1. Full(t, script[t])' \/ Empty(t, script[t])'
      BY <1>3, <1>5 DEF Full, Empty
    <2>2. (Upcoming(script[t]))' => Upcoming(ops)
      BY <1>3
    <2> QED BY <1>1, <1>6, <2>1, <2>2 DEF ScriptOK
  <1>8. HoldsSame
    <2>1. \A e \in Own(t) : SlotLocked(<<>>, e)
      BY NoScript, Zenon
    <2> QED BY <1>1, <1>3, <1>4, <1>5, <2>1, HoldsOwn, SameHolds
  <1> QED BY <1>4, <1>7, <1>8

-----------------------------------------------------------------------------
(* The lock counts.                                                        *)

LEMMA FiniteHolders == IsFiniteSet(Holders) /\ IsFiniteSet(Slots)
  <1>1. /\ Holders = Threads \X {"locked", "argument", "temp"}
        /\ LockedSlots = Threads \X {"locked", "argument"}
        /\ RefSlots = {Pool} \cup (Threads \X {"ref"})
    BY DEF Holders, LockedSlots, RefSlots
  <1>2. /\ IsFiniteSet({"locked", "argument", "temp"}) /\ IsFiniteSet({"locked", "argument"})
        /\ IsFiniteSet({"ref"}) /\ IsFiniteSet({Pool})
    <2>1. IsFiniteSet({"locked"}) /\ IsFiniteSet({"argument"}) /\ IsFiniteSet({"temp"})
      BY FS_Singleton
    <2>2. IsFiniteSet({"locked"} \cup {"argument"})
      BY <2>1, FS_Union, Zenon
    <2>3. IsFiniteSet({"locked", "argument"})
      <3>1. {"locked", "argument"} = {"locked"} \cup {"argument"}
        OBVIOUS
      <3> QED BY <2>2, <3>1, Zenon
    <2>4. IsFiniteSet({"locked", "argument", "temp"})
      <3>1. {"locked", "argument", "temp"} = {"locked", "argument"} \cup {"temp"}
        OBVIOUS
      <3>2. IsFiniteSet({"locked", "argument"} \cup {"temp"})
        BY <2>1, <2>3, FS_Union, Zenon
      <3> QED BY <3>1, <3>2, Zenon
    <2> QED BY <2>3, <2>4, FS_Singleton
  <1>3. IsFiniteSet(Threads)
    BY MemoryAssumption
  <1>4. IsFiniteSet(Holders)
    BY <1>1, <1>2, <1>3, FS_Product, Zenon
  <1>5. IsFiniteSet(LockedSlots)
    BY <1>1, <1>2, <1>3, FS_Product, Zenon
  <1>6. IsFiniteSet(Threads \X {"ref"})
    BY <1>2, <1>3, FS_Product, Zenon
  <1>7. IsFiniteSet(RefSlots)
    BY <1>1, <1>2, <1>6, FS_Union, Zenon
  <1>8. IsFiniteSet(Slots)
    BY <1>5, <1>7, FS_Union, Zenon DEF Slots
  <1> QED BY <1>4, <1>8

LEMMA FiniteHeld ==
  ASSUME NEW o
  PROVE  IsFiniteSet(Held(o)) /\ Cardinality(Held(o)) \in Nat
  <1>1. Held(o) \subseteq Holders
    BY DEF Held
  <1>2. IsFiniteSet(Held(o))
    BY <1>1, FiniteHolders, FS_Subset, Zenon
  <1> QED BY <1>2, FS_CardinalityType

LEMMA SameLocks ==
  ASSUME LocksOK, HoldsSame, lock_count' = lock_count
  PROVE  LocksOK'
  <1>1. \A o \in Objects : Held(o)' = Held(o)
    BY DEF HoldsSame, Held
  <1> QED BY <1>1 DEF LocksOK

LEMMA MovedLocks ==
  ASSUME LocksOK, NEW a, NEW b, Moved(a, b), lock_count' = lock_count
  PROVE  LocksOK'
  <1> SUFFICES ASSUME NEW o \in Objects PROVE lock_count[o] = Cardinality(Held(o)')
    BY DEF LocksOK
  <1>1. o # Null
    BY NullFacts
  <1>2. IsFiniteSet(Held(o)) /\ Cardinality(Held(o)) \in Nat
    BY FiniteHeld
  <1>3. lock_count[o] = Cardinality(Held(o))
    BY DEF LocksOK
  <1>4. CASE Holds(a) # o
    <2>1. Held(o)' = Held(o)
      BY <1>1, <1>4 DEF Moved, Held
    <2> QED BY <1>3, <2>1
  <1>5. CASE Holds(a) = o
    <2>1. Held(o)' = (Held(o) \ {a}) \cup {b} /\ a \in Held(o) /\ b \notin Held(o) \ {a}
      BY <1>1, <1>5 DEF Moved, Held
    <2>2. IsFiniteSet(Held(o) \ {a}) /\ Cardinality(Held(o) \ {a}) = Cardinality(Held(o)) - 1
      BY <1>2, <2>1, FS_RemoveElement, ZenonT(60)
    <2>3. Cardinality((Held(o) \ {a}) \cup {b}) = Cardinality(Held(o) \ {a}) + 1
      BY <2>1, <2>2, FS_AddElement, ZenonT(60)
    <2>4. Cardinality((Held(o) \ {a}) \cup {b}) = Cardinality(Held(o))
      BY <1>2, <2>2, <2>3
    <2> QED BY <1>3, <2>1, <2>4
  <1> QED BY <1>4, <1>5

LEMMA GainedLocks ==
  ASSUME MemTypeOK, LocksOK, NEW h, Gained(h)
  PROVE  LocksOK'
  <1> SUFFICES ASSUME NEW o \in Objects PROVE lock_count'[o] = Cardinality(Held(o)')
    BY DEF LocksOK
  <1>1. o # Null
    BY NullFacts
  <1>2. IsFiniteSet(Held(o)) /\ Cardinality(Held(o)) \in Nat
    BY FiniteHeld
  <1>3. lock_count[o] = Cardinality(Held(o))
    BY DEF LocksOK
  <1>4. CASE Holds(h)' # o
    <2>1. Held(o)' = Held(o)
      BY <1>1, <1>4 DEF Gained, Held
    <2>2. lock_count'[o] = lock_count[o]
      BY <1>4 DEF Gained, AddLocks, MemTypeOK
    <2> QED BY <1>3, <2>1, <2>2
  <1>5. CASE Holds(h)' = o
    <2>1. Held(o)' = Held(o) \cup {h} /\ h \notin Held(o)
      BY <1>1, <1>5 DEF Gained, Held
    <2>2. lock_count'[o] = lock_count[o] + 1
      BY <1>1, <1>5 DEF Gained, AddLocks, MemTypeOK
    <2>3. Cardinality(Held(o) \cup {h}) = Cardinality(Held(o)) + 1
      BY <1>2, <2>1, FS_AddElement, ZenonT(60)
    <2> QED BY <1>3, <2>1, <2>2, <2>3
  <1> QED BY <1>4, <1>5

LEMMA LostLocks ==
  ASSUME MemTypeOK, LocksOK, NEW h, Lost(h)
  PROVE  LocksOK'
  <1> SUFFICES ASSUME NEW o \in Objects PROVE lock_count'[o] = Cardinality(Held(o)')
    BY DEF LocksOK
  <1>1. o # Null
    BY NullFacts
  <1>2. IsFiniteSet(Held(o)) /\ Cardinality(Held(o)) \in Nat
    BY FiniteHeld
  <1>3. lock_count[o] = Cardinality(Held(o))
    BY DEF LocksOK
  <1>4. CASE Holds(h) # o
    <2>1. Held(o)' = Held(o)
      BY <1>1, <1>4 DEF Lost, Held
    <2>2. lock_count'[o] = lock_count[o]
      BY <1>4 DEF Lost, AddLocks, MemTypeOK
    <2> QED BY <1>3, <2>1, <2>2
  <1>5. CASE Holds(h) = o
    <2>1. Held(o)' = Held(o) \ {h} /\ h \in Held(o)
      BY <1>1, <1>5 DEF Lost, Held
    <2>2. lock_count'[o] = lock_count[o] - 1
      BY <1>1, <1>5 DEF Lost, AddLocks, MemTypeOK
    <2>3. Cardinality(Held(o) \ {h}) = Cardinality(Held(o)) - 1
      BY <1>2, <2>1, FS_RemoveElement, ZenonT(60)
    <2> QED BY <1>3, <2>1, <2>2, <2>3
  <1> QED BY <1>4, <1>5

-----------------------------------------------------------------------------
(* The life of an object.                                                  *)

LEMMA UseCountFacts ==
  ASSUME NEW o
  PROVE  /\ UseCount(o) \in Nat
         /\ UseCount(o) = 0 <=> ~Referenced(o)
         /\ UseCount(o) = 1 =>
              /\ \A s1, s2 \in Slots : slot[s1] = o /\ slot[s2] = o => s1 = s2
              /\ \A s \in Slots, u \in Threads : ~(slot[s] = o /\ temp[u] = o)
         /\ \A x \in Slots :
              \/ UseCount(o) = 1 \/ slot[x] # o
              \/ \E s \in Slots \ {x} : slot[s] = o
              \/ \E u \in Threads : temp[u] = o
  <1> DEFINE S == {s \in Slots : slot[s] = o}
             T == {t \in Threads : temp[t] = o}
  <1>1. IsFiniteSet(S) /\ IsFiniteSet(T)
    <2>1. IsFiniteSet(Slots) /\ IsFiniteSet(Threads) /\ S \subseteq Slots /\ T \subseteq Threads
      BY FiniteHolders, MemoryAssumption
    <2> HIDE DEF S, T
    <2> QED BY <2>1, FS_Subset, Zenon
  <1>2. UseCount(o) = Cardinality(S) + Cardinality(T)
    BY DEF UseCount
  <1>3. Referenced(o) <=> S # {} \/ T # {}
    BY DEF Referenced
  <1>4. /\ (\E s1, s2 \in S : s1 # s2) <=> ~\A s1, s2 \in Slots : slot[s1] = o /\ slot[s2] = o => s1 = s2
        /\ (S # {} /\ T # {}) <=> ~\A s \in Slots, u \in Threads : ~(slot[s] = o /\ temp[u] = o)
        /\ \A x \in Slots : \/ slot[x] # o \/ S = {x}
                           \/ \E s \in Slots \ {x} : slot[s] = o
        /\ T = {} \/ \E u \in Threads : temp[u] = o
    OBVIOUS
  <1> HIDE DEF S, T
  <1>5. Cardinality(S) \in Nat /\ Cardinality(T) \in Nat
    BY <1>1, FS_CardinalityType
  <1>6. (Cardinality(S) = 0 <=> S = {}) /\ (Cardinality(T) = 0 <=> T = {})
    BY <1>1, FS_EmptySet
  <1>7. Cardinality(S) = 1 => \A s1, s2 \in S : s1 = s2
    <2>1. ASSUME Cardinality(S) = 1 PROVE \E x : S = {x}
      BY <1>1, <2>1, FS_Singleton, Zenon
    <2> QED BY <2>1
  <1>8. UseCount(o) \in Nat /\ (UseCount(o) = 0 <=> ~Referenced(o))
    BY <1>2, <1>3, <1>5, <1>6
  <1>9. ASSUME UseCount(o) = 1
        PROVE  (\A s1, s2 \in S : s1 = s2) /\ ~(S # {} /\ T # {})
    <2>1. (Cardinality(S) = 0 /\ Cardinality(T) = 1) \/ (Cardinality(S) = 1 /\ Cardinality(T) = 0)
      BY <1>2, <1>5, <1>9
    <2> QED BY <1>6, <1>7, <2>1
  <1>10. ASSUME NEW x, S = {x}, T = {} PROVE UseCount(o) = 1
    <2>1. Cardinality(S) = 1 /\ Cardinality(T) = 0
      BY <1>6, <1>10, FS_Singleton
    <2> QED BY <1>2, <2>1
  <1> QED BY <1>4, <1>8, <1>9, <1>10

\* Past a step that is not a put nothing is to be destroyed next.
LEMMA NotDying ==
  ASSUME NEW t \in Threads, ScriptOK(t), ~Idle(t), script'[t] = Tail(script[t])
  PROVE  \A o \in Objects : ~Dying(t, o)'
  BY DEF ScriptOK, Full, Empty, Idle, Dying, Allocate, CopyReference, MoveReference, Lock,
         CopyLocked, MoveLocked, UnlockedMove

\* The references and what is destroyed stay as they are.
LEMMA SameLife ==
  ASSUME LifeOK, DyingOK, next_identifier' = next_identifier, freed' = freed,
         \A o \in Objects : Referenced(o)' <=> Referenced(o),
         \A o \in Objects, u \in Threads : Dying(u, o)' <=> Dying(u, o),
         MemTypeOK
  PROVE  LifeOK' /\ DyingOK'
  <1>1. \A o \in 0 .. next_identifier - 1 : o \in Objects
    BY NullFacts DEF MemTypeOK, Objects
  <1>2. LifeOK'
    BY <1>1 DEF LifeOK
  <1>3. DyingOK'
    BY DEF DyingOK
  <1> QED BY <1>2, <1>3

\* What a put makes of the object that was in its slot.
LastOne(t) ==
  /\ slot[Arg(t)] # Null /\ slot[Arg(t)] # temp[t]
  /\ UseCount(slot[Arg(t)]) = 1

LEMMA PutDying ==
  ASSUME MemTypeOK, NEW t \in Threads, ScriptOK(t), Put(t)
  PROVE  \A o \in Objects : /\ ~Dying(t, o)
                            /\ Dying(t, o)' <=> LastOne(t) /\ o = slot[Arg(t)]
  <1>1. \A o \in Objects : ~Dying(t, o)
    BY DEF Put, At, Dying
  <1>2. PICK d : Tail(script[t]) = <<>> \/ Tail(script[t]) = <<<<"lock", d>>>>
    <2>1. ASSUME NEW x, script[t] = <<<<"put", x>>>> PROVE Tail(script[t]) = <<>>
      BY <2>1
    <2>2. ASSUME NEW x, script[t] = <<<<"put", x>>, <<"lock", x>>>>
          PROVE  Tail(script[t]) = <<<<"lock", x>>>>
      BY <2>2
    <2>3. At(t, "put")
      BY DEF Put
    <2> QED BY <2>1, <2>2, <2>3, AtPut, Zenon
  <1>3. CASE ~LastOne(t)
    <2>1. script'[t] = <<>> \o Tail(script[t])
      BY <1>3 DEF LastOne, Put, MemTypeOK
    <2>2. script'[t] = <<>> \/ script'[t] = <<<<"lock", d>>>>
      BY <1>2, <2>1, Append0, Zenon
    <2>3. \A o \in Objects : ~Dying(t, o)'
      BY <2>2 DEF Dying
    <2> QED BY <1>1, <1>3, <2>3
  <1>4. CASE LastOne(t)
    <2> DEFINE a == <<"destroy", slot[Arg(t)]>>
               b == <<"release", slot[Arg(t)]>>
    <2>1. script'[t] = <<a, b>> \o Tail(script[t])
      BY <1>4 DEF LastOne, Put, MemTypeOK
    <2>2. \/ script'[t] = <<a, b>>
          \/ script'[t] = <<a, b, <<"lock", d>>>>
      <3> HIDE DEF a, b
      <3> QED BY <1>2, <2>1, Append0, Append1, Zenon
    <2>3. script'[t] # <<>> /\ Head(script'[t]) = <<"destroy", slot[Arg(t)]>>
      BY <2>2
    <2>4. \A o \in Objects : Dying(t, o)' <=> o = slot[Arg(t)]
      BY <2>3 DEF Dying
    <2> QED BY <1>1, <1>4, <2>4
  <1> QED BY <1>3, <1>4

LEMMA OthersDying ==
  ASSUME NEW t \in Threads, Private(t)
  PROVE  \A u \in Threads \ {t} : \A o : Dying(u, o)' <=> Dying(u, o)
  BY DEF Private, Dying

LEMMA BeginNotDying ==
  ASSUME MemTypeOK, NEW t \in Threads, Begin(t)
  PROVE  \A o \in Objects : ~Dying(t, o) /\ ~Dying(t, o)'
  <1>1. PICK ops \in Operations(t) : script' = [script EXCEPT ![t] = ops]
    BY DEF Begin
  <1>2. script'[t] = ops /\ script[t] = <<>>
    BY <1>1 DEF MemTypeOK, Begin, Idle
  <1>3. Head(ops)[1] # "destroy"
    BY OperationForms DEF Allocate, Lock, CopyLocked, MoveLocked, UnlockedMove
  <1> QED BY <1>2, <1>3 DEF Dying

LEMMA SameReferences ==
  ASSUME slot' = slot, temp' = temp
  PROVE  \A o : Referenced(o)' <=> Referenced(o)
  BY DEF Referenced

\* The steps that neither make, nor drop, nor destroy an object.
LEMMA QuietLife ==
  ASSUME MemInv, NEW t \in Threads,
         \/ Begin(t) \/ Emplace(t) \/ Account(t) \/ LockObject(t) \/ UnlockObject(t)
         \/ NotifyRelease(t)
  PROVE  LifeOK' /\ DyingOK'
  <1>1. MemTypeOK /\ ScriptOK(t) /\ LifeOK /\ DyingOK
    BY DEF MemInv
  <1>2. slot' = slot /\ temp' = temp /\ freed' = freed /\ next_identifier' = next_identifier
    BY DEF Begin, Emplace, Account, LockObject, UnlockObject, NotifyRelease, objects, manager
  <1>3. Private(t)
    BY <1>1, BeginEffect, AllocateEffect, LockEffect, UnlockEffect, CleanEffect
  <1>4. \A o \in Objects : ~Dying(t, o) /\ ~Dying(t, o)'
    <2>1. CASE Begin(t)
      BY <1>1, <2>1, BeginNotDying
    <2>2. CASE \/ Emplace(t) \/ Account(t) \/ LockObject(t) \/ UnlockObject(t) \/ NotifyRelease(t)
      <3>1. ~Idle(t) /\ Head(script[t])[1] # "destroy" /\ script'[t] = Tail(script[t])
        BY <1>1, <2>2 DEF Emplace, Account, LockObject, UnlockObject, NotifyRelease, At, Step, MemTypeOK
      <3>2. \A o \in Objects : ~Dying(t, o)'
        BY <1>1, <3>1, NotDying
      <3> QED BY <3>1, <3>2 DEF Dying
    <2> QED BY <2>1, <2>2
  <1>5. \A o \in Objects, u \in Threads : Dying(u, o)' <=> Dying(u, o)
    BY <1>3, <1>4, OthersDying
  <1> QED BY <1>1, <1>2, <1>5, SameReferences, SameLife

LEMMA ConstructLife ==
  ASSUME MemInv, NEW t \in Threads, Construct(t)
  PROVE  LifeOK' /\ DyingOK'
  <1>1. MemTypeOK /\ ScriptOK(t) /\ LifeOK /\ DyingOK
    BY DEF MemInv
  <1>2. /\ slot' = slot /\ freed' = freed /\ next_identifier' = next_identifier + 1
        /\ temp' = [temp EXCEPT ![t] = next_identifier] /\ next_identifier < MaxObjects
        /\ At(t, "construct") /\ script'[t] = Tail(script[t])
    BY <1>1 DEF Construct, Step, MemTypeOK
  <1>3. Private(t) /\ temp[t] = Null
    BY <1>1, <1>2, AllocateEffect, AtConstruct
  <1>4. \A o \in Objects, u \in Threads : Dying(u, o)' <=> Dying(u, o)
    <2>1. \A o \in Objects : ~Dying(t, o)
      BY <1>2 DEF At, Dying
    <2>2. \A o \in Objects : ~Dying(t, o)'
      BY <1>1, <1>2, NotDying DEF At
    <2> QED BY <1>3, <2>1, <2>2, OthersDying
  <1>5. PICK n \in Objects : n = next_identifier /\ n \in Nat /\ n # Null
    BY <1>1, <1>2, NullFacts DEF MemTypeOK, Objects
  <1>6. temp'[t] = n
    BY <1>1, <1>2, <1>5 DEF MemTypeOK
  <1>7. \A o \in Objects : o # n => (Referenced(o)' <=> Referenced(o))
    <2>1. \A o \in Objects : temp[t] # o
      BY <1>3, NullFacts
    <2>2. \A u \in Threads \ {t} : temp'[u] = temp[u]
      BY <1>3 DEF Private
    <2> QED BY <1>2, <1>6, <2>1, <2>2 DEF Referenced
  <1>8. Referenced(n)'
    BY <1>6 DEF Referenced
  <1>9. n \notin freed /\ \A u \in Threads : ~Dying(u, n)'
    <2>1. n \notin 0 .. n - 1 /\ ~(n < n)
      BY <1>5
    <2> QED BY <1>1, <1>4, <1>5, <2>1 DEF DyingOK
  <1>10. DyingOK'
    BY <1>1, <1>2, <1>4, <1>5 DEF DyingOK, Objects
  <1>11. LifeOK'
    <2> SUFFICES ASSUME NEW o \in 0 .. n
                 PROVE  /\ Referenced(o)' => o \notin freed' /\ \A u \in Threads : ~Dying(u, o)'
                        /\ ~Referenced(o)' => o \in freed' \/ \E u \in Threads : Dying(u, o)'
                        /\ \A u \in Threads : Dying(u, o)' =>
                             o \notin freed' /\ \A v \in Threads : Dying(v, o)' => v = u
      BY <1>2, <1>5 DEF LifeOK
    <2>1. CASE o = n
      BY <1>2, <1>8, <1>9, <2>1
    <2>2. CASE o # n
      <3>1. o \in 0 .. next_identifier - 1 /\ o \in Objects
        BY <1>2, <1>5, <2>2, NullFacts DEF Objects
      <3> QED BY <1>1, <1>2, <1>4, <1>7, <2>2, <3>1 DEF LifeOK
    <2> QED BY <2>1, <2>2
  <1> QED BY <1>10, <1>11

\* A load passes references on.
LEMMA LoadLife ==
  ASSUME MemInv, NEW t \in Threads, Copy(t) \/ Take(t)
  PROVE  LifeOK' /\ DyingOK'
  <1>1. MemTypeOK /\ ScriptOK(t) /\ LifeOK /\ DyingOK
    BY DEF MemInv
  <1>2. /\ freed' = freed /\ next_identifier' = next_identifier
        /\ temp' = [temp EXCEPT ![t] = slot[Arg(t)]]
        /\ slot' = slot \/ slot' = [slot EXCEPT ![Arg(t)] = Null]
        /\ At(t, "copy") \/ At(t, "take")
        /\ script'[t] = Tail(script[t])
    BY <1>1 DEF Copy, Take, Step, MemTypeOK, objects, manager
  <1>3. Private(t) /\ temp[t] = Null /\ Arg(t) \in Slots
    <2>1. Private(t)
      BY <1>1, CopyEffect, TakeEffect
    <2>2. temp[t] = Null
      BY <1>1, <1>2, AtCopy, AtTake
    <2>3. CASE Take(t)
      BY <1>1, <2>1, <2>2, <2>3, TakeEffect
    <2>4. CASE Copy(t)
      <3>1. Arg(t) \in RefSlots \cup Own(t) \cup Slots
        BY <1>1, <2>4, AtCopy DEF Copy, Arg
      <3>2. Arg(t) \in Slots
        BY <3>1, RefFacts, SlotFacts
      <3> QED BY <2>1, <2>2, <3>2
    <2> QED BY <2>3, <2>4
  <1>4. \A o \in Objects, u \in Threads : Dying(u, o)' <=> Dying(u, o)
    <2>1. \A o \in Objects : ~Dying(t, o)
      BY <1>2 DEF At, Dying
    <2>2. \A o \in Objects : ~Dying(t, o)'
      BY <1>1, <1>2, NotDying DEF At
    <2> QED BY <1>3, <2>1, <2>2, OthersDying
  <1>5. \A o \in Objects : Referenced(o)' <=> Referenced(o)
    <2>1. /\ temp'[t] = slot[Arg(t)] /\ \A u \in Threads \ {t} : temp'[u] = temp[u]
          /\ \A s \in Slots \ {Arg(t)} : slot'[s] = slot[s]
          /\ slot'[Arg(t)] = slot[Arg(t)] \/ slot'[Arg(t)] = Null
      BY <1>1, <1>2, <1>3 DEF MemTypeOK
    <2>2. \A o \in Objects : o # Null
      BY NullFacts
    <2> QED BY <1>3, <2>1, <2>2 DEF Referenced
  <1> QED BY <1>1, <1>2, <1>4, <1>5, SameLife

\* A put destroys the object that was in its slot exactly when no other
\* reference is left.
LEMMA PutLife ==
  ASSUME MemInv, NEW t \in Threads, Put(t)
  PROVE  LifeOK' /\ DyingOK'
  <1>1. MemTypeOK /\ ScriptOK(t) /\ LifeOK /\ DyingOK
    BY DEF MemInv
  <1>2. PICK x \in Slots : x = Arg(t)
    BY <1>1, PutEffect
  <1>3. PICK old : old = slot[x]
    OBVIOUS
  <1>4. /\ freed' = freed /\ next_identifier' = next_identifier
        /\ slot'[x] = temp[t] /\ (\A s \in Slots \ {x} : slot'[s] = slot[s])
        /\ temp'[t] = Null /\ \A u \in Threads \ {t} : temp'[u] = temp[u]
    BY <1>1, <1>2 DEF Put, MemTypeOK, objects, manager
  <1>5. Private(t)
    BY <1>1, PutEffect
  <1>6. \A o \in Objects : ~Dying(t, o) /\ (Dying(t, o)' <=> LastOne(t) /\ o = old)
    BY <1>1, <1>2, <1>3, PutDying
  <1>7. \A u \in Threads \ {t} : \A o : Dying(u, o)' <=> Dying(u, o)
    BY <1>5, OthersDying
  <1>8. \A o \in Objects : o # old => (Referenced(o)' <=> Referenced(o))
    <2>1. \A o \in Objects : o # Null
      BY NullFacts
    <2> QED BY <1>3, <1>4, <2>1 DEF Referenced
  <1>9. CASE ~LastOne(t)
    <2>1. \A o \in Objects, u \in Threads : Dying(u, o)' <=> Dying(u, o)
      BY <1>6, <1>7, <1>9
    <2>2. old \in Objects => (Referenced(old)' <=> Referenced(old))
      <3> SUFFICES ASSUME old \in Objects PROVE Referenced(old)' /\ Referenced(old)
        OBVIOUS
      <3>1. Referenced(old) /\ old # Null
        BY <1>3, NullFacts DEF Referenced
      <3>2. CASE old = temp[t]
        BY <1>4, <3>1, <3>2 DEF Referenced
      <3>3. CASE old # temp[t]
        <4>1. UseCount(old) # 1
          BY <1>2, <1>3, <1>9, <3>1, <3>3 DEF LastOne
        <4>2. (\E s \in Slots \ {x} : slot[s] = old) \/ (\E u \in Threads : temp[u] = old)
          BY <1>3, <4>1, UseCountFacts
        <4>3. (\E s \in Slots \ {x} : slot'[s] = old) \/ (\E u \in Threads : temp'[u] = old)
          BY <1>4, <3>3, <4>2
        <4> QED BY <3>1, <4>3 DEF Referenced
      <3> QED BY <3>2, <3>3
    <2>3. \A o \in Objects : Referenced(o)' <=> Referenced(o)
      BY <1>8, <2>2
    <2> QED BY <1>1, <1>4, <2>1, <2>3, SameLife
  <1>10. CASE LastOne(t)
    <2>1. old \in Objects /\ old < next_identifier /\ UseCount(old) = 1 /\ old # temp[t] /\ old # Null
      BY <1>1, <1>2, <1>3, <1>10 DEF LastOne, MemTypeOK
    <2>2. Referenced(old)
      BY <1>3 DEF Referenced
    <2>3. ~Referenced(old)'
      <3>1. /\ \A s1, s2 \in Slots : slot[s1] = old /\ slot[s2] = old => s1 = s2
            /\ \A s \in Slots, u \in Threads : ~(slot[s] = old /\ temp[u] = old)
        BY <2>1, UseCountFacts
      <3>2. \A s \in Slots : slot'[s] # old
        BY <1>3, <1>4, <2>1, <3>1
      <3>3. \A u \in Threads : temp'[u] # old
        BY <1>3, <1>4, <2>1, <3>1
      <3> QED BY <3>2, <3>3 DEF Referenced
    <2>4. next_identifier \in Nat /\ old \in 0 .. next_identifier - 1
      BY <1>1, <2>1, NullFacts DEF MemTypeOK, Objects
    <2>5. old \notin freed /\ \A u \in Threads : ~Dying(u, old)
      BY <1>1, <2>2, <2>4 DEF LifeOK
    <2>6. Dying(t, old)' /\ \A u \in Threads \ {t} : ~Dying(u, old)'
      BY <1>6, <1>7, <1>10, <2>1, <2>5
    <2>7. \A o \in Objects : o # old => \A u \in Threads : Dying(u, o)' <=> Dying(u, o)
      BY <1>6, <1>7
    <2>8. DyingOK'
      BY <1>1, <1>4, <2>1, <2>7 DEF DyingOK
    <2>9. LifeOK'
      <3> SUFFICES ASSUME NEW o \in 0 .. next_identifier - 1
                   PROVE  /\ Referenced(o)' => o \notin freed' /\ \A u \in Threads : ~Dying(u, o)'
                          /\ ~Referenced(o)' => o \in freed' \/ \E u \in Threads : Dying(u, o)'
                          /\ \A u \in Threads : Dying(u, o)' =>
                               o \notin freed' /\ \A v \in Threads : Dying(v, o)' => v = u
        BY <1>4 DEF LifeOK
      <3>1. CASE o = old
        BY <1>4, <2>3, <2>5, <2>6, <3>1
      <3>2. CASE o # old
        <4>1. o \in Objects
          BY <1>1, NullFacts DEF MemTypeOK, Objects
        <4> QED BY <1>1, <1>4, <1>8, <2>7, <3>2, <4>1 DEF LifeOK
      <3> QED BY <3>1, <3>2
    <2> QED BY <2>8, <2>9
  <1> QED BY <1>9, <1>10

LEMMA DestroyLife ==
  ASSUME MemInv, NEW t \in Threads, Destroy(t)
  PROVE  LifeOK' /\ DyingOK'
  <1>1. MemTypeOK /\ ScriptOK(t) /\ LifeOK /\ DyingOK
    BY DEF MemInv
  <1>2. PICK old \in Objects : Dying(t, old) /\ Arg(t) = old
    BY <1>1, AtDestroy DEF Destroy, At, Arg, Dying
  <1>3. /\ freed' = freed \cup {old} /\ next_identifier' = next_identifier
        /\ slot' = slot /\ temp' = temp /\ script'[t] = Tail(script[t]) /\ ~Idle(t)
    BY <1>1, <1>2 DEF Destroy, Step, MemTypeOK, manager, At
  <1>4. Private(t)
    BY <1>1, CleanEffect
  <1>5. \A u \in Threads \ {t} : \A o : Dying(u, o)' <=> Dying(u, o)
    BY <1>4, OthersDying
  <1>6. \A o \in Objects : ~Dying(t, o)' /\ (Dying(t, o) => o = old)
    <2>1. \A o \in Objects : ~Dying(t, o)'
      BY <1>1, <1>3, NotDying
    <2> QED BY <1>2, <2>1 DEF Dying
  <1>7. \A o : Referenced(o)' <=> Referenced(o)
    BY <1>3, SameReferences
  <1>8. next_identifier \in Nat /\ old \in 0 .. next_identifier - 1
    BY <1>1, <1>2, NullFacts DEF MemTypeOK, DyingOK, Objects
  <1>9. ~Referenced(old) /\ \A u \in Threads : Dying(u, old) => u = t
    BY <1>1, <1>2, <1>8 DEF LifeOK
  <1>10. DyingOK'
    <2>1. freed' \subseteq 0 .. next_identifier - 1
      BY <1>1, <1>3, <1>8 DEF DyingOK
    <2>2. \A u \in Threads, o \in Objects : Dying(u, o)' => Dying(u, o)
      BY <1>5, <1>6
    <2> QED BY <1>1, <1>3, <2>1, <2>2 DEF DyingOK
  <1>11. LifeOK'
    <2> SUFFICES ASSUME NEW o \in 0 .. next_identifier - 1
                 PROVE  /\ Referenced(o)' => o \notin freed' /\ \A u \in Threads : ~Dying(u, o)'
                        /\ ~Referenced(o)' => o \in freed' \/ \E u \in Threads : Dying(u, o)'
                        /\ \A u \in Threads : Dying(u, o)' =>
                             o \notin freed' /\ \A v \in Threads : Dying(v, o)' => v = u
      BY <1>3 DEF LifeOK
    <2>1. o \in Objects
      BY <1>1, NullFacts DEF MemTypeOK, Objects
    <2>2. CASE o = old
      BY <1>3, <1>5, <1>6, <1>7, <1>9, <2>1, <2>2
    <2>3. CASE o # old
      BY <1>1, <1>3, <1>5, <1>6, <1>7, <2>1, <2>3 DEF LifeOK
    <2> QED BY <2>2, <2>3
  <1> QED BY <1>10, <1>11

-----------------------------------------------------------------------------
(* The invariant.                                                          *)

LEMMA StepTypes ==
  ASSUME MemInv, [Next]_vars
  PROVE  MemTypeOK'
  <1>1. MemTypeOK
    BY DEF MemInv
  <1>2. CASE LogMemoryLeaks \/ vars' = vars
    BY <1>1, <1>2 DEF LogMemoryLeaks, vars, objects, manager, MemTypeOK
  <1>3. ASSUME NEW t \in Threads, Begin(t) \/ Emplace(t) \/ Account(t) \/ Destroy(t) \/ NotifyRelease(t)
        PROVE  MemTypeOK'
    BY <1>1, <1>3 DEF Begin, Emplace, Account, Destroy, NotifyRelease, Step, objects, manager, MemTypeOK
  <1>4. ASSUME NEW t \in Threads, Construct(t) PROVE MemTypeOK'
    <2>1. next_identifier \in Objects /\ next_identifier + 1 \in 0 .. MaxObjects
      BY <1>1, <1>4, NullFacts DEF Construct, MemTypeOK, Objects
    <2>2. \A o \in Objects : o \in Int
      BY NullFacts DEF Objects
    <2>3. /\ slot' = slot /\ lock_count' = lock_count /\ next_identifier' = next_identifier + 1
          /\ temp' = [temp EXCEPT ![t] = next_identifier] /\ DOMAIN script' = Threads
      BY <1>1, <1>4 DEF Construct, Step, MemTypeOK
    <2>4. ASSUME NEW s \in Slots, slot'[s] # Null PROVE slot'[s] < next_identifier'
      <3>1. slot[s] \in Objects /\ slot[s] < next_identifier
        BY <1>1, <2>3, <2>4 DEF MemTypeOK
      <3>2. slot[s] \in Int
        BY <2>2, <3>1
      <3> QED BY <1>1, <2>3, <3>1, <3>2 DEF MemTypeOK
    <2>5. ASSUME NEW u \in Threads, temp'[u] # Null PROVE temp'[u] < next_identifier'
      <3>1. CASE u = t
        BY <1>1, <2>3, <3>1 DEF MemTypeOK
      <3>2. CASE u # t
        <4>1. temp'[u] = temp[u] /\ temp[u] \in Objects /\ temp[u] < next_identifier
          BY <1>1, <2>3, <2>5, <3>2 DEF MemTypeOK
        <4>2. temp[u] \in Int
          BY <2>2, <4>1
        <4> QED BY <1>1, <2>3, <4>1, <4>2 DEF MemTypeOK
      <3> QED BY <3>1, <3>2
    <2> QED BY <1>1, <2>1, <2>3, <2>4, <2>5 DEF MemTypeOK
  <1>5. ASSUME NEW t \in Threads, Copy(t) \/ Take(t) \/ Put(t) PROVE MemTypeOK'
    <2>1. ScriptOK(t)
      BY DEF MemInv
    <2>2. Arg(t) \in Slots
      <3>1. CASE Take(t) \/ Put(t)
        BY <1>1, <2>1, <3>1, TakeEffect, PutEffect
      <3>2. CASE Copy(t)
        <4>1. Arg(t) \in RefSlots \cup Own(t) \cup Slots
          BY <2>1, <3>2, AtCopy DEF Copy, Arg
        <4> QED BY <4>1, RefFacts, SlotFacts
      <3> QED BY <1>5, <3>1, <3>2
    <2>3. CASE Copy(t)
      BY <1>1, <2>2, <2>3 DEF Copy, Step, objects, manager, MemTypeOK
    <2>4. CASE Take(t)
      BY <1>1, <2>2, <2>4 DEF Take, Step, objects, manager, MemTypeOK
    <2>5. CASE Put(t)
      <3>1. /\ slot' = [slot EXCEPT ![Arg(t)] = temp[t]] /\ temp' = [temp EXCEPT ![t] = Null]
            /\ lock_count' = lock_count /\ next_identifier' = next_identifier
            /\ DOMAIN script' = Threads
        BY <1>1, <2>5 DEF Put, objects, manager, MemTypeOK
      <3> QED BY <1>1, <2>2, <3>1 DEF MemTypeOK
    <2> QED BY <1>5, <2>3, <2>4, <2>5
  <1>6. ASSUME NEW t \in Threads, LockObject(t) \/ UnlockObject(t) PROVE MemTypeOK'
    <2>1. /\ slot' = slot /\ temp' = temp /\ next_identifier' = next_identifier
          /\ DOMAIN script' = Threads
      BY <1>1, <1>6 DEF LockObject, UnlockObject, Step, manager, MemTypeOK
    <2>2. ASSUME NEW o, NEW n \in Int, AddLocks(o, n) PROVE lock_count' \in [Objects -> Int]
      <3>1. lock_count \in [Objects -> Int]
        BY <1>1 DEF MemTypeOK
      <3>2. CASE o = Null
        BY <2>2, <3>1, <3>2 DEF AddLocks
      <3>3. CASE o # Null
        <4>1. lock_count' = [p \in Objects |-> IF p = o THEN lock_count[p] + n ELSE lock_count[p]]
          BY <2>2, <3>1, <3>3 DEF AddLocks
        <4>2. \A p \in Objects : lock_count[p] \in Int /\ lock_count[p] + n \in Int
          BY <3>1
        <4> QED BY <4>1, <4>2
      <3> QED BY <3>2, <3>3
    <2>3. lock_count' \in [Objects -> Int]
      <3>1. 1 \in Int /\ -1 \in Int
        OBVIOUS
      <3>2. \E o : AddLocks(o, 1) \/ AddLocks(o, -1)
        BY <1>6, Zenon DEF LockObject, UnlockObject
      <3> QED BY <2>2, <3>1, <3>2, Zenon
    <2> QED BY <1>1, <2>1, <2>3 DEF MemTypeOK
  <1> QED BY <1>2, <1>3, <1>4, <1>5, <1>6 DEF Next

LEMMA StepScripts ==
  ASSUME MemInv, NEW t \in Threads,
         \/ Begin(t) \/ Construct(t) \/ Emplace(t) \/ Account(t) \/ Copy(t) \/ Take(t)
         \/ LockObject(t) \/ UnlockObject(t) \/ Put(t) \/ Destroy(t) \/ NotifyRelease(t)
  PROVE  \A u \in Threads : ScriptOK(u)'
  <1>1. MemTypeOK /\ \A u \in Threads : ScriptOK(u)
    BY DEF MemInv
  <1>2. Private(t) /\ ScriptOK(t)'
    BY <1>1, BeginEffect, AllocateEffect, CopyEffect, TakeEffect, LockEffect, UnlockEffect, PutEffect,
       CleanEffect
  <1> QED BY <1>1, <1>2, OthersScripts

LEMMA StepLocks ==
  ASSUME MemInv, NEW t \in Threads,
         \/ Begin(t) \/ Construct(t) \/ Emplace(t) \/ Account(t) \/ Copy(t) \/ Take(t)
         \/ LockObject(t) \/ UnlockObject(t) \/ Put(t) \/ Destroy(t) \/ NotifyRelease(t)
  PROVE  LocksOK'
  <1>1. MemTypeOK /\ ScriptOK(t) /\ LocksOK
    BY DEF MemInv
  <1>2. CASE Begin(t) \/ Construct(t) \/ Emplace(t) \/ Account(t) \/ Copy(t) \/ Destroy(t) \/ NotifyRelease(t)
    <2>1. HoldsSame
      BY <1>1, <1>2, BeginEffect, AllocateEffect, CopyEffect, CleanEffect
    <2>2. lock_count' = lock_count
      BY <1>2 DEF Begin, Construct, Emplace, Account, Copy, Destroy, NotifyRelease, objects
    <2> QED BY <1>1, <2>1, <2>2, SameLocks
  <1>3. CASE Take(t) \/ Put(t)
    <2>1. HoldsSame \/ \E a, b : Moved(a, b)
      BY <1>1, <1>3, TakeEffect, PutEffect
    <2>2. lock_count' = lock_count
      BY <1>3 DEF Take, Put, objects
    <2> QED BY <1>1, <2>1, <2>2, SameLocks, MovedLocks
  <1>4. CASE LockObject(t)
    BY <1>1, <1>4, LockEffect, GainedLocks
  <1>5. CASE UnlockObject(t)
    BY <1>1, <1>5, UnlockEffect, LostLocks
  <1> QED BY <1>2, <1>3, <1>4, <1>5

LEMMA StepLife ==
  ASSUME MemInv, NEW t \in Threads,
         \/ Begin(t) \/ Construct(t) \/ Emplace(t) \/ Account(t) \/ Copy(t) \/ Take(t)
         \/ LockObject(t) \/ UnlockObject(t) \/ Put(t) \/ Destroy(t) \/ NotifyRelease(t)
  PROVE  LifeOK' /\ DyingOK'
  BY QuietLife, ConstructLife, LoadLife, PutLife, DestroyLife

LEMMA Initially == Init => MemInv
  <1> SUFFICES ASSUME Init PROVE MemInv
    OBVIOUS
  <1>1. MemTypeOK
    BY NullFacts DEF Init, MemTypeOK
  <1>2. ASSUME NEW t \in Threads PROVE ScriptOK(t)
    <2>1. script[t] = <<>> /\ temp[t] = Null
      BY DEF Init
    <2>2. Empty(t, <<>>) /\ ~Upcoming(<<>>)
      BY EmptyForms, NoScript, Zenon
    <2> QED BY <2>1, <2>2 DEF ScriptOK
  <1>3. LocksOK
    <2>1. \A h \in Holders : Holds(h) = Null
      BY HolderFacts, LockedFacts DEF Init, Holds
    <2>2. \A o \in Objects : Held(o) = {}
      BY <2>1, NullFacts DEF Held
    <2>3. \A o \in Objects : lock_count[o] = 0
      BY DEF Init
    <2> QED BY <2>2, <2>3, FS_EmptySet DEF LocksOK
  <1>4. LifeOK
    BY DEF Init, LifeOK
  <1>5. DyingOK
    BY DEF Init, DyingOK, Dying
  <1> QED BY <1>1, <1>2, <1>3, <1>4, <1>5 DEF MemInv

LEMMA QuietStep ==
  ASSUME MemInv, LogMemoryLeaks \/ vars' = vars
  PROVE  MemInv'
  <1>1. /\ slot' = slot /\ temp' = temp /\ script' = script /\ lock_count' = lock_count
        /\ freed' = freed /\ next_identifier' = next_identifier
    BY DEF LogMemoryLeaks, vars, objects, manager
  <1>2. MemTypeOK'
    BY <1>1 DEF MemInv, MemTypeOK
  <1>3. \A t \in Threads : ScriptOK(t)'
    <2> SUFFICES ASSUME NEW t \in Threads PROVE ScriptOK(t)'
      OBVIOUS
    <2>1. ScriptOK(t)
      BY DEF MemInv
    <2> QED BY <1>1, <2>1 DEF ScriptOK, Full, Empty, Upcoming, At, Arg, Idle
  <1>4. LocksOK'
    <2>1. HoldsSame
      BY <1>1 DEF HoldsSame, Holds
    <2> QED BY <1>1, <2>1, SameLocks DEF MemInv
  <1>5. LifeOK' /\ DyingOK'
    <2>1. \A o \in Objects, u \in Threads : Dying(u, o)' <=> Dying(u, o)
      BY <1>1 DEF Dying
    <2> QED BY <1>1, <2>1, SameReferences, SameLife DEF MemInv
  <1> QED BY <1>2, <1>3, <1>4, <1>5 DEF MemInv

\* Each step of the references keeps who holds a lock, who refers to an
\* object and who destroys it in order.
THEOREM MemInvariant == Spec => []MemInv
  <1>1. MemInv /\ [Next]_vars => MemInv'
    <2> SUFFICES ASSUME MemInv, [Next]_vars PROVE MemInv'
      OBVIOUS
    <2>1. CASE LogMemoryLeaks \/ vars' = vars
      BY <2>1, QuietStep
    <2>2. ASSUME NEW t \in Threads,
                 \/ Begin(t) \/ Construct(t) \/ Emplace(t) \/ Account(t) \/ Copy(t) \/ Take(t)
                 \/ LockObject(t) \/ UnlockObject(t) \/ Put(t) \/ Destroy(t) \/ NotifyRelease(t)
          PROVE  MemInv'
      <3>1. MemTypeOK'
        BY StepTypes
      <3>2. \A u \in Threads : ScriptOK(u)'
        BY <2>2, StepScripts
      <3>3. LocksOK'
        BY <2>2, StepLocks
      <3>4. LifeOK' /\ DyingOK'
        BY <2>2, StepLife
      <3> QED BY <3>1, <3>2, <3>3, <3>4 DEF MemInv
    <2> QED BY <2>1, <2>2 DEF Next
  <1> QED BY <1>1, Initially, PTL DEF Spec

-----------------------------------------------------------------------------
(* What users of references rely on.                                       *)

\* No reference dangles and no buffer is lost: ~MemoryObject runs exactly for
\* an object whose last MemoryReference is gone, whichever thread held it.
THEOREM BuffersAreFreedInTime == Spec => []FreedWhenUnreferenced
  <1>1. MemInv => FreedWhenUnreferenced
    <2> SUFFICES ASSUME MemInv, NEW o \in 0 .. next_identifier - 1
                 PROVE  \/ UseCount(o) > 0 /\ o \notin freed
                        \/ UseCount(o) = 0 /\ o \in freed
                        \/ UseCount(o) = 0 /\ \E t \in Threads : At(t, "destroy") /\ Arg(t) = o
      BY DEF FreedWhenUnreferenced
    <2>1. UseCount(o) \in Nat /\ (UseCount(o) = 0 <=> ~Referenced(o))
      BY UseCountFacts
    <2>2. (Referenced(o) => o \notin freed)
          /\ (~Referenced(o) => o \in freed \/ \E t \in Threads : Dying(t, o))
      BY DEF MemInv, LifeOK
    <2>3. \A t \in Threads : Dying(t, o) => At(t, "destroy") /\ Arg(t) = o
      BY DEF Dying, At, Arg, Idle
    <2>4. UseCount(o) # 0 => UseCount(o) > 0
      BY <2>1
    <2> QED BY <2>1, <2>2, <2>3, <2>4
  <1> QED BY <1>1, MemInvariant, PTL

\* The assert of LockedMemoryReference::pointer(): an object is locked as long
\* as a locked reference to it is in use, and the count is exact between
\* operations.
THEOREM LocksAreHeld == Spec => []LocksHeld
  <1>1. MemInv => LocksHeld
    <2> SUFFICES ASSUME MemInv PROVE LocksHeld
      OBVIOUS
    <2> DEFINE holders(o) == {s \in LockedSlots : slot[s] = o}
    <2>1. \A s \in LockedSlots : Idle(s[1]) => Holds(s) = slot[s]
      BY NoScript, Zenon DEF Holds, Idle
    <2>2. ASSUME NEW o \in Objects
          PROVE  lock_count[o] >= Cardinality({s \in holders(o) : Idle(s[1])})
      <3>1. {s \in holders(o) : Idle(s[1])} \subseteq Held(o)
        BY <2>1, LockedFacts DEF Held
      <3>2. IsFiniteSet(Held(o)) /\ Cardinality(Held(o)) \in Nat
        BY FiniteHeld
      <3>3. PICK X : X = {s \in holders(o) : Idle(s[1])}
        OBVIOUS
      <3>4. IsFiniteSet(X) /\ Cardinality(X) <= Cardinality(Held(o))
        BY <3>1, <3>2, <3>3, FS_Subset, ZenonT(60)
      <3>5. Cardinality(X) \in Nat
        BY <3>4, FS_CardinalityType
      <3>6. lock_count[o] = Cardinality(Held(o))
        BY DEF MemInv, LocksOK
      <3>7. lock_count[o] >= Cardinality(X)
        BY <3>2, <3>4, <3>5, <3>6
      <3> QED BY <3>3, <3>7
    <2>3. ASSUME \A t \in Threads : Idle(t), NEW o \in Objects
          PROVE  lock_count[o] = Cardinality(holders(o))
      <3>1. \A s \in LockedSlots : Holds(s) = slot[s]
        BY <2>1, <2>3, LockedFacts
      <3>2. \A t \in Threads : temp[t] = Null
        BY <2>3, AtIdle DEF MemInv
      <3>3. \A h \in Holders \ LockedSlots : Holds(h) = Null
        BY <3>2, HolderFacts DEF Holds
      <3>4. Held(o) = holders(o)
        BY <3>1, <3>3, NullFacts, LockedFacts DEF Held
      <3> QED BY <3>4 DEF MemInv, LocksOK
    <2> QED BY <2>2, <2>3 DEF LocksHeld
  <1> QED BY <1>1, MemInvariant, PTL

\* The asserts of MemoryObject: unlock() finds the object locked, and its
\* destructor runs once and finds it unlocked.
THEOREM ObjectsAreAsserted == Spec => []ObjectAsserts
  <1>1. MemInv => ObjectAsserts
    <2> SUFFICES ASSUME MemInv, NEW t \in Threads
                 PROVE  /\ At(t, "unlock") /\ slot[Arg(t)] # Null => lock_count[slot[Arg(t)]] > 0
                        /\ At(t, "unlock_temp") => lock_count[temp[t]] > 0
                        /\ At(t, "destroy") => lock_count[Arg(t)] = 0 /\ Arg(t) \notin freed
      BY DEF ObjectAsserts
    <2>1. MemTypeOK /\ ScriptOK(t) /\ LocksOK /\ LifeOK /\ DyingOK
      BY DEF MemInv
    <2>2. ASSUME NEW o \in Objects, NEW h \in Holders, Holds(h) = o PROVE lock_count[o] > 0
      <3>1. h \in Held(o)
        BY <2>2 DEF Held
      <3>2. IsFiniteSet(Held(o)) /\ Cardinality(Held(o)) \in Nat
        BY FiniteHeld
      <3>3. Cardinality(Held(o)) # 0
        BY <3>1, <3>2, FS_EmptySet
      <3> QED BY <2>1, <3>2, <3>3 DEF LocksOK
    <2>3. ASSUME At(t, "unlock"), slot[Arg(t)] # Null PROVE lock_count[slot[Arg(t)]] > 0
      <3>1. PICK d \in Own(t) :
              \/ script[t] = <<<<"unlock", d>>, <<"put", d>>>>
              \/ \E x \in Own(t) : script[t] = CopyLocked(d, x)
              \/ \E x \in Own(t) : script[t] = MoveLocked(d, x)
        BY <2>1, <2>3, AtUnlock
      <3>2. Arg(t) = d /\ d \in Slots /\ d \in Holders
        <4>1. Arg(t) = d
          BY <3>1 DEF Arg, CopyLocked, MoveLocked
        <4> QED BY <4>1, SlotFacts
      <3>3. SlotLocked(script[t], d)
        <4>1. SlotLocked(<<<<"unlock", d>>, <<"put", d>>>>, d)
          BY OwnScripts, Zenon
        <4>2. \A x \in Own(t) : SlotLocked(CopyLocked(d, x), d) /\ SlotLocked(MoveLocked(d, x), d)
          BY OwnLoads, SlotFacts, Zenon
        <4> QED BY <3>1, <4>1, <4>2
      <3>4. Holds(d) = slot[d] /\ slot[d] \in Objects
        BY <2>1, <2>3, <3>2, <3>3, HoldsOwn DEF MemTypeOK
      <3> QED BY <2>2, <3>2, <3>4
    <2>4. ASSUME At(t, "unlock_temp") PROVE lock_count[temp[t]] > 0
      <3>1. PICK r \in RefSlots : script[t] = <<<<"unlock_temp">>, <<"put", r>>>> /\ temp[t] # Null
        BY <2>1, <2>4, AtUnlockTemp
      <3>2. TempLocked(<<<<"unlock_temp">>, <<"put", r>>>>, t)
        BY RefScripts, Zenon
      <3>3. Holds(<<t, "temp">>) = temp[t] /\ temp[t] \in Objects /\ <<t, "temp">> \in Holders
        BY <2>1, <3>1, <3>2, HoldsOwn, SlotFacts DEF MemTypeOK
      <3> QED BY <2>2, <3>3
    <2>5. ASSUME At(t, "destroy") PROVE lock_count[Arg(t)] = 0 /\ Arg(t) \notin freed
      <3>1. PICK o \in Objects : Dying(t, o) /\ Arg(t) = o
        BY <2>1, <2>5, AtDestroy DEF At, Arg, Dying
      <3>2. next_identifier \in Nat /\ o \in 0 .. next_identifier - 1
        BY <2>1, <3>1, NullFacts DEF MemTypeOK, DyingOK, Objects
      <3>3. ~Referenced(o) /\ o \notin freed
        BY <2>1, <3>1, <3>2 DEF LifeOK
      <3>4. Held(o) = {}
        <4>1. \A h \in Holders : h \in LockedSlots => h \in Slots
          BY RefFacts
        <4>2. \A h \in Holders : h[1] \in Threads
          BY HolderFacts
        <4>3. o # Null
          BY NullFacts
        <4> QED BY <3>3, <4>1, <4>2, <4>3 DEF Held, Holds, Referenced
      <3>5. lock_count[o] = 0
        BY <2>1, <3>4, FS_EmptySet DEF LocksOK
      <3> QED BY <3>1, <3>3, <3>5
    <2> QED BY <2>3, <2>4, <2>5
  <1> QED BY <1>1, MemInvariant, PTL

-----------------------------------------------------------------------------
(* The manager's set of objects.                                           *)

Releasing(t, o) == At(t, "release") /\ Arg(t) = o

\* An object that is not managed yet belongs to one thread, one that is to be
\* released is freed and belongs to one thread, and the others are managed.
RegOK ==
  /\ \A t \in Threads : At(t, "emplace") =>
       temp[t] # Null /\ \A u \in Threads : At(u, "emplace") /\ temp[u] = temp[t] => u = t
  /\ \A t \in Threads, o \in Objects : Releasing(t, o) =>
       o \in freed /\ \A u \in Threads : Releasing(u, o) => u = t
  /\ managed_objects \subseteq 0 .. next_identifier - 1
  /\ \A o \in 0 .. next_identifier - 1 :
       o \in managed_objects <=>
         /\ \A t \in Threads : At(t, "emplace") => temp[t] # o
         /\ o \in freed => \E t \in Threads : Releasing(t, o)

LEMMA HeadAfter ==
  ASSUME NEW t \in Threads, ScriptOK(t), ~Idle(t), script'[t] = Tail(script[t])
  PROVE  /\ At(t, "emplace")' => At(t, "construct")
         /\ At(t, "release")' => At(t, "destroy")
  BY DEF ScriptOK, Full, Empty, Idle, At, Allocate, CopyReference, MoveReference, Lock,
         CopyLocked, MoveLocked, UnlockedMove

LEMMA OthersAt ==
  ASSUME NEW t \in Threads, Private(t)
  PROVE  \A u \in Threads \ {t} : /\ At(u, "emplace")' <=> At(u, "emplace")
                                  /\ \A o : Releasing(u, o)' <=> Releasing(u, o)
                                  /\ temp'[u] = temp[u]
  BY DEF Private, At, Idle, Releasing, Arg

LEMMA QuietReg ==
  ASSUME MemInv, RegOK, NEW t \in Threads,
         \/ Begin(t) \/ Account(t) \/ Copy(t) \/ Take(t) \/ LockObject(t) \/ UnlockObject(t) \/ Put(t)
  PROVE  RegOK'
  <1>1. MemTypeOK /\ ScriptOK(t)
    BY DEF MemInv
  <1>2. Private(t)
    BY <1>1, BeginEffect, AllocateEffect, CopyEffect, TakeEffect, LockEffect, UnlockEffect, PutEffect
  <1>3. freed' = freed /\ managed_objects' = managed_objects /\ next_identifier' = next_identifier
    BY DEF Begin, Account, Copy, Take, LockObject, UnlockObject, Put, objects, manager
  <1>4. /\ ~At(t, "emplace") /\ ~At(t, "emplace")'
        /\ ~At(t, "release") /\ ~At(t, "release")'
    <2>1. CASE Begin(t)
      <3>1. PICK ops \in Operations(t) : script' = [script EXCEPT ![t] = ops]
        BY <2>1 DEF Begin
      <3>2. script'[t] = ops /\ script[t] = <<>>
        BY <1>1, <2>1, <3>1 DEF MemTypeOK, Begin, Idle
      <3>3. Head(ops)[1] # "emplace" /\ Head(ops)[1] # "release"
        BY OperationForms DEF Allocate, Lock, CopyLocked, MoveLocked, UnlockedMove
      <3> QED BY <3>2, <3>3 DEF At, Idle
    <2>2. CASE Account(t) \/ Copy(t) \/ Take(t) \/ LockObject(t) \/ UnlockObject(t)
      <3>1. /\ ~Idle(t) /\ script'[t] = Tail(script[t])
            /\ ~At(t, "emplace") /\ ~At(t, "release") /\ ~At(t, "construct") /\ ~At(t, "destroy")
        BY <1>1, <2>2 DEF Account, Copy, Take, LockObject, UnlockObject, At, Step, MemTypeOK
      <3> QED BY <1>1, <3>1, HeadAfter
    <2>3. CASE Put(t)
      <3>1. ~At(t, "emplace") /\ ~At(t, "release")
        BY <2>3 DEF Put, At
      <3>2. \/ script'[t] = <<>>
            \/ \E o : script'[t] = <<<<"destroy", o>>, <<"release", o>>>>
            \/ \E d : script'[t] = <<<<"lock", d>>>>
            \/ \E o, d : script'[t] = <<<<"destroy", o>>, <<"release", o>>, <<"lock", d>>>>
        BY <1>1, <2>3, PutScripts
      <3>3. ~At(t, "emplace")' /\ ~At(t, "release")'
        BY <3>2 DEF At, Idle
      <3> QED BY <3>1, <3>3
    <2> QED BY <2>1, <2>2, <2>3
  <1>5. \A u \in Threads :
          /\ At(u, "emplace")' <=> At(u, "emplace")
          /\ At(u, "emplace") => temp'[u] = temp[u]
          /\ \A o : Releasing(u, o)' <=> Releasing(u, o)
    BY <1>2, <1>4, OthersAt DEF Releasing
  <1> QED BY <1>3, <1>5 DEF RegOK

LEMMA ConstructReg ==
  ASSUME MemInv, RegOK, NEW t \in Threads, Construct(t)
  PROVE  RegOK'
  <1>1. MemTypeOK /\ ScriptOK(t) /\ DyingOK
    BY DEF MemInv
  <1>2. /\ freed' = freed /\ managed_objects' = managed_objects
        /\ next_identifier' = next_identifier + 1 /\ next_identifier < MaxObjects
        /\ temp'[t] = next_identifier /\ script'[t] = Tail(script[t]) /\ At(t, "construct")
    BY <1>1 DEF Construct, Step, MemTypeOK
  <1>3. Private(t)
    BY <1>1, AllocateEffect
  <1>4. PICK n \in Nat : n = next_identifier /\ n # Null
    BY <1>1, <1>2, NullFacts, MemoryAssumption DEF MemTypeOK
  <1>5. /\ ~At(t, "emplace") /\ ~At(t, "release") /\ ~At(t, "release")' /\ At(t, "emplace")'
    <2>1. ~At(t, "emplace") /\ ~At(t, "release") /\ ~At(t, "destroy") /\ ~Idle(t)
      BY <1>2 DEF At
    <2>2. PICK r \in RefSlots : script[t] = Allocate(r)
      BY <1>1, <1>2, AtConstruct
    <2>3. script'[t] = <<<<"emplace">>, <<"account">>, <<"put", r>>>>
      BY <1>2, <2>2 DEF Allocate
    <2> QED BY <2>1, <2>3 DEF At, Idle
  <1>6. \A u \in Threads \ {t} : temp'[u] = temp[u] /\ temp[u] # n /\ (At(u, "emplace")' <=> At(u, "emplace"))
    <2>1. ~(n < n)
      BY <1>4
    <2>2. \A u \in Threads : temp[u] = Null \/ temp[u] < n
      BY <1>1, <1>4 DEF MemTypeOK
    <2> QED BY <1>3, <1>4, <2>1, <2>2, OthersAt
  <1>7. \A u \in Threads : \A o : Releasing(u, o)' <=> Releasing(u, o)
    BY <1>3, <1>5, OthersAt DEF Releasing
  <1>8. n \notin freed /\ n \notin managed_objects
    <2>1. n \notin 0 .. n - 1
      BY <1>4
    <2> QED BY <1>1, <1>4, <2>1 DEF DyingOK, RegOK
  <1>9. \A u \in Threads : At(u, "emplace")' =>
          temp'[u] # Null /\ \A v \in Threads : At(v, "emplace")' /\ temp'[v] = temp'[u] => v = u
    BY <1>2, <1>4, <1>5, <1>6 DEF RegOK
  <1>10. \A u \in Threads, o \in Objects : Releasing(u, o)' =>
          o \in freed' /\ \A v \in Threads : Releasing(v, o)' => v = u
    BY <1>2, <1>7 DEF RegOK
  <1>11. managed_objects' \subseteq 0 .. next_identifier' - 1
    <2>1. 0 .. n - 1 \subseteq 0 .. (n + 1) - 1
      BY <1>4
    <2> QED BY <1>2, <1>4, <2>1 DEF RegOK
  <1>12. ASSUME NEW o \in 0 .. next_identifier' - 1
         PROVE  o \in managed_objects' <=>
                  /\ \A u \in Threads : At(u, "emplace")' => temp'[u] # o
                  /\ o \in freed' => \E u \in Threads : Releasing(u, o)'
    <2>1. CASE o = n
      BY <1>2, <1>4, <1>5, <1>8, <2>1
    <2>2. CASE o # n
      <3>1. o \in 0 .. next_identifier - 1
        BY <1>2, <1>4, <2>2
      <3>2. o \in managed_objects <=>
              /\ \A u \in Threads : At(u, "emplace") => temp[u] # o
              /\ o \in freed => \E u \in Threads : Releasing(u, o)
        BY <3>1 DEF RegOK
      <3>3. (\A u \in Threads : At(u, "emplace")' => temp'[u] # o) <=>
              \A u \in Threads : At(u, "emplace") => temp[u] # o
        BY <1>2, <1>4, <1>5, <1>6, <2>2
      <3> QED BY <1>2, <1>7, <3>2, <3>3
    <2> QED BY <2>1, <2>2
  <1> QED BY <1>9, <1>10, <1>11, <1>12 DEF RegOK

LEMMA EmplaceReg ==
  ASSUME MemInv, RegOK, NEW t \in Threads, Emplace(t)
  PROVE  RegOK'
  <1>1. MemTypeOK /\ ScriptOK(t) /\ LifeOK
    BY DEF MemInv
  <1>2. /\ freed' = freed /\ managed_objects' = managed_objects \cup {temp[t]}
        /\ next_identifier' = next_identifier /\ temp' = temp
        /\ script'[t] = Tail(script[t]) /\ At(t, "emplace")
    BY <1>1 DEF Emplace, Step, MemTypeOK, objects
  <1>3. Private(t)
    BY <1>1, AllocateEffect
  <1>4. /\ ~At(t, "emplace")' /\ ~At(t, "release") /\ ~At(t, "release")'
    <2>1. ~At(t, "construct") /\ ~At(t, "release") /\ ~At(t, "destroy") /\ ~Idle(t)
      BY <1>2 DEF At
    <2> QED BY <1>1, <1>2, <2>1, HeadAfter
  <1>5. PICK n \in 0 .. next_identifier - 1 : n = temp[t]
    <2>1. temp[t] # Null
      BY <1>2 DEF RegOK
    <2>2. temp[t] \in Objects /\ temp[t] < next_identifier
      BY <1>1, <2>1 DEF MemTypeOK
    <2> QED BY <1>1, <2>2, NullFacts DEF MemTypeOK, Objects
  <1>6. n \notin freed
    BY <1>1, <1>5 DEF LifeOK, Referenced
  <1>7. \A u \in Threads : (At(u, "emplace")' <=> At(u, "emplace") /\ u # t)
    BY <1>3, <1>4, OthersAt
  <1>8. \A u \in Threads : \A o : Releasing(u, o)' <=> Releasing(u, o)
    BY <1>3, <1>4, OthersAt DEF Releasing
  <1>9. \A u \in Threads : At(u, "emplace") /\ temp[u] = n => u = t
    BY <1>2, <1>5 DEF RegOK
  <1>10. managed_objects' \subseteq 0 .. next_identifier' - 1
    BY <1>2, <1>5 DEF RegOK
  <1>11. ASSUME NEW o \in 0 .. next_identifier - 1
         PROVE  o \in managed_objects' <=>
                  /\ \A u \in Threads : At(u, "emplace")' => temp'[u] # o
                  /\ o \in freed' => \E u \in Threads : Releasing(u, o)'
    <2>1. CASE o = n
      BY <1>2, <1>5, <1>6, <1>7, <1>9, <2>1
    <2>2. CASE o # n
      <3>1. o \in managed_objects <=>
              /\ \A u \in Threads : At(u, "emplace") => temp[u] # o
              /\ o \in freed => \E u \in Threads : Releasing(u, o)
        BY DEF RegOK
      <3>2. (\A u \in Threads : At(u, "emplace")' => temp'[u] # o) <=>
              \A u \in Threads : At(u, "emplace") => temp[u] # o
        BY <1>2, <1>5, <1>7, <2>2
      <3> QED BY <1>2, <1>5, <1>8, <2>2, <3>1, <3>2
    <2> QED BY <2>1, <2>2
  <1>12. \A u \in Threads : At(u, "emplace")' =>
          temp'[u] # Null /\ \A v \in Threads : At(v, "emplace")' /\ temp'[v] = temp'[u] => v = u
    BY <1>2, <1>7 DEF RegOK
  <1>13. \A u \in Threads, o \in Objects : Releasing(u, o)' =>
          o \in freed' /\ \A v \in Threads : Releasing(v, o)' => v = u
    BY <1>2, <1>8 DEF RegOK
  <1> QED BY <1>2, <1>10, <1>11, <1>12, <1>13 DEF RegOK

LEMMA DestroyReg ==
  ASSUME MemInv, RegOK, NEW t \in Threads, Destroy(t)
  PROVE  RegOK'
  <1>1. MemTypeOK /\ ScriptOK(t) /\ LifeOK /\ DyingOK
    BY DEF MemInv
  <1>2. PICK old \in Objects :
          /\ Dying(t, old) /\ Arg(t) = old
          /\ \/ script[t] = <<<<"destroy", old>>, <<"release", old>>>>
             \/ \E d : script[t] = <<<<"destroy", old>>, <<"release", old>>, <<"lock", d>>>>
    <2>1. PICK o \in Objects :
            \/ script[t] = <<<<"destroy", o>>, <<"release", o>>>>
            \/ script[t] = <<<<"release", o>>>>
            \/ \E d : \/ script[t] = <<<<"destroy", o>>, <<"release", o>>, <<"lock", d>>>>
                      \/ script[t] = <<<<"release", o>>, <<"lock", d>>>>
      BY <1>1, AtDestroy DEF Destroy
    <2>2. \/ script[t] = <<<<"destroy", o>>, <<"release", o>>>>
          \/ \E d : script[t] = <<<<"destroy", o>>, <<"release", o>>, <<"lock", d>>>>
      BY <2>1 DEF Destroy, At
    <2>3. Dying(t, o) /\ Arg(t) = o
      BY <2>2 DEF Dying, Arg
    <2> QED BY <2>2, <2>3
  <1>3. /\ freed' = freed \cup {old} /\ managed_objects' = managed_objects
        /\ next_identifier' = next_identifier /\ temp' = temp
        /\ script'[t] = Tail(script[t]) /\ At(t, "destroy")
    BY <1>1, <1>2 DEF Destroy, Step, MemTypeOK, manager
  <1>4. Private(t)
    BY <1>1, CleanEffect
  <1>5. /\ ~At(t, "emplace") /\ ~At(t, "emplace")' /\ ~At(t, "release")
        /\ At(t, "release")' /\ Arg(t)' = old
    <2>1. ~At(t, "emplace") /\ ~At(t, "release") /\ ~At(t, "construct") /\ ~Idle(t)
      BY <1>3 DEF At
    <2>2. script'[t] # <<>> /\ Head(script'[t]) = <<"release", old>>
      <3>1. CASE script[t] = <<<<"destroy", old>>, <<"release", old>>>>
        <4>1. script'[t] = <<<<"release", old>>>>
          BY <1>3, <3>1
        <4> QED BY <4>1
      <3>2. ASSUME NEW d, script[t] = <<<<"destroy", old>>, <<"release", old>>, <<"lock", d>>>>
            PROVE  script'[t] # <<>> /\ Head(script'[t]) = <<"release", old>>
        <4>1. script'[t] = <<<<"release", old>>, <<"lock", d>>>>
          BY <1>3, <3>2
        <4> QED BY <4>1
      <3> QED BY <1>2, <3>1, <3>2
    <2> QED BY <2>1, <2>2 DEF At, Idle, Arg
  <1>6. \A u \in Threads : At(u, "emplace")' <=> At(u, "emplace")
    BY <1>4, <1>5, OthersAt
  <1>7. \A u \in Threads : \A o : Releasing(u, o)' <=> Releasing(u, o) \/ (u = t /\ o = old)
    BY <1>4, <1>5, OthersAt DEF Releasing
  <1>8. old \notin freed
    <2>1. next_identifier \in Nat /\ old \in 0 .. next_identifier - 1
      BY <1>1, <1>2, NullFacts DEF MemTypeOK, DyingOK, Objects
    <2> QED BY <1>1, <1>2, <2>1 DEF LifeOK
  <1>9. \A u \in Threads : ~Releasing(u, old)
    BY <1>8 DEF RegOK
  <1>10. \A u \in Threads : At(u, "emplace")' =>
          temp'[u] # Null /\ \A v \in Threads : At(v, "emplace")' /\ temp'[v] = temp'[u] => v = u
    BY <1>3, <1>6 DEF RegOK
  <1>11. ASSUME NEW u \in Threads, NEW o \in Objects, Releasing(u, o)'
         PROVE  o \in freed' /\ \A v \in Threads : Releasing(v, o)' => v = u
    <2>1. CASE o = old
      BY <1>3, <1>7, <1>9, <1>11, <2>1
    <2>2. CASE o # old
      BY <1>3, <1>7, <1>11, <2>2 DEF RegOK
    <2> QED BY <2>1, <2>2
  <1>12. \A o \in 0 .. next_identifier - 1 :
          o \in managed_objects' <=>
            /\ \A u \in Threads : At(u, "emplace")' => temp'[u] # o
            /\ o \in freed' => \E u \in Threads : Releasing(u, o)'
    <2> SUFFICES ASSUME NEW o \in 0 .. next_identifier - 1
                 PROVE  o \in managed_objects' <=>
                          /\ \A u \in Threads : At(u, "emplace")' => temp'[u] # o
                          /\ o \in freed' => \E u \in Threads : Releasing(u, o)'
      OBVIOUS
    <2>1. o \in managed_objects <=>
            /\ \A u \in Threads : At(u, "emplace") => temp[u] # o
            /\ o \in freed => \E u \in Threads : Releasing(u, o)
      BY DEF RegOK
    <2>2. (o \in freed' => \E u \in Threads : Releasing(u, o)') <=>
            (o \in freed => \E u \in Threads : Releasing(u, o))
      BY <1>3, <1>7, <1>8
    <2> QED BY <1>3, <1>6, <2>1, <2>2
  <1>13. managed_objects' \subseteq 0 .. next_identifier' - 1
    BY <1>3 DEF RegOK
  <1> QED BY <1>3, <1>10, <1>11, <1>12, <1>13 DEF RegOK

LEMMA ReleaseReg ==
  ASSUME MemInv, RegOK, NEW t \in Threads, NotifyRelease(t)
  PROVE  RegOK'
  <1>1. MemTypeOK /\ ScriptOK(t)
    BY DEF MemInv
  <1>2. PICK old \in Objects : Arg(t) = old
    BY <1>1, AtDestroy DEF NotifyRelease, Arg
  <1>3. /\ freed' = freed /\ managed_objects' = managed_objects \ {old}
        /\ next_identifier' = next_identifier /\ temp' = temp
        /\ script'[t] = Tail(script[t]) /\ At(t, "release")
    BY <1>1, <1>2 DEF NotifyRelease, Step, MemTypeOK, objects
  <1>4. Private(t)
    BY <1>1, CleanEffect
  <1>5. ~At(t, "emplace") /\ ~At(t, "emplace")' /\ ~At(t, "release")'
    <2>1. ~At(t, "emplace") /\ ~At(t, "destroy") /\ ~At(t, "construct") /\ ~Idle(t)
      BY <1>3 DEF At
    <2> QED BY <1>1, <1>3, <2>1, HeadAfter
  <1>6. \A u \in Threads : At(u, "emplace")' <=> At(u, "emplace")
    BY <1>4, <1>5, OthersAt
  <1>7. Releasing(t, old)
    BY <1>2, <1>3 DEF Releasing
  <1>8. old \in freed /\ \A u \in Threads : Releasing(u, old) => u = t
    BY <1>7 DEF RegOK
  <1>9. \A u \in Threads : \A o : Releasing(u, o)' <=> Releasing(u, o) /\ u # t
    BY <1>4, <1>5, OthersAt DEF Releasing
  <1>10. \A o : Releasing(t, o) => o = old
    BY <1>2 DEF Releasing
  <1>11. \A u \in Threads : At(u, "emplace")' =>
          temp'[u] # Null /\ \A v \in Threads : At(v, "emplace")' /\ temp'[v] = temp'[u] => v = u
    BY <1>3, <1>6 DEF RegOK
  <1>12. \A u \in Threads, o \in Objects : Releasing(u, o)' =>
          o \in freed' /\ \A v \in Threads : Releasing(v, o)' => v = u
    BY <1>3, <1>9 DEF RegOK
  <1>13. ASSUME NEW o \in 0 .. next_identifier - 1
         PROVE  o \in managed_objects' <=>
                  /\ \A u \in Threads : At(u, "emplace")' => temp'[u] # o
                  /\ o \in freed' => \E u \in Threads : Releasing(u, o)'
    <2>1. CASE o = old
      BY <1>3, <1>8, <1>9, <2>1
    <2>2. CASE o # old
      <3>1. o \in managed_objects <=>
              /\ \A u \in Threads : At(u, "emplace") => temp[u] # o
              /\ o \in freed => \E u \in Threads : Releasing(u, o)
        BY DEF RegOK
      <3>2. (\E u \in Threads : Releasing(u, o)') <=> \E u \in Threads : Releasing(u, o)
        BY <1>9, <1>10, <2>2
      <3> QED BY <1>3, <1>6, <2>2, <3>1, <3>2
    <2> QED BY <2>1, <2>2
  <1>14. managed_objects' \subseteq 0 .. next_identifier' - 1
    BY <1>3 DEF RegOK
  <1> QED BY <1>3, <1>11, <1>12, <1>13, <1>14 DEF RegOK

LEMMA StepReg ==
  ASSUME MemInv, RegOK, [Next]_vars
  PROVE  RegOK'
  <1>1. CASE LogMemoryLeaks \/ vars' = vars
    <2>1. /\ temp' = temp /\ script' = script /\ freed' = freed
          /\ managed_objects' = managed_objects /\ next_identifier' = next_identifier
      BY <1>1 DEF LogMemoryLeaks, vars, objects, manager
    <2> QED BY <2>1 DEF RegOK, At, Idle, Arg, Releasing
  <1>2. ASSUME NEW t \in Threads,
               \/ Begin(t) \/ Construct(t) \/ Emplace(t) \/ Account(t) \/ Copy(t) \/ Take(t)
               \/ LockObject(t) \/ UnlockObject(t) \/ Put(t) \/ Destroy(t) \/ NotifyRelease(t)
        PROVE  RegOK'
    BY <1>2, QuietReg, ConstructReg, EmplaceReg, DestroyReg, ReleaseReg
  <1> QED BY <1>1, <1>2 DEF Next

\* An object that is to be released is managed, and nobody refers to it.
LEMMA ReleasedManaged ==
  ASSUME MemInv, RegOK, NEW t \in Threads, NEW o \in Objects, Releasing(t, o)
  PROVE  o \in managed_objects /\ \A u \in Threads : temp[u] # o
  <1>1. o \in freed /\ o \in 0 .. next_identifier - 1
    BY DEF RegOK, MemInv, DyingOK
  <1>2. \A u \in Threads : temp[u] # o
    BY <1>1 DEF MemInv, LifeOK, Referenced
  <1> QED BY <1>1, <1>2 DEF RegOK

\* The manager knows exactly the objects that were registered and not yet
\* released: the iterator that notify_release() asserts to be valid is.
THEOREM ObjectsAreManaged ==
  Spec => [](ManagedExact /\ \A t \in Threads : At(t, "release") => Arg(t) \in managed_objects)
  <1>1. Init => RegOK
    BY DEF Init, RegOK, At, Idle, Releasing
  <1>2. MemInv /\ RegOK /\ [Next]_vars => RegOK'
    BY StepReg
  <1>3. MemInv /\ RegOK =>
          ManagedExact /\ \A t \in Threads : At(t, "release") => Arg(t) \in managed_objects
    <2> SUFFICES ASSUME MemInv, RegOK
                 PROVE  ManagedExact /\ \A t \in Threads : At(t, "release") => Arg(t) \in managed_objects
      OBVIOUS
    <2>1. MemTypeOK /\ LifeOK /\ DyingOK /\ \A t \in Threads : ScriptOK(t)
      BY DEF MemInv
    <2>2. ManagedExact
      <3> DEFINE outside == {temp[t] : t \in {u \in Threads : At(u, "emplace")}}
                 gone    == {o \in freed : \A t \in Threads : ~(At(t, "release") /\ Arg(t) = o)}
      <3>1. \A o : o \in outside <=> \E t \in Threads : At(t, "emplace") /\ temp[t] = o
        OBVIOUS
      <3>2. \A o : o \in gone <=> o \in freed /\ \A t \in Threads : ~Releasing(t, o)
        BY DEF Releasing
      <3>3. ManagedExact <=> managed_objects = (0 .. next_identifier - 1) \ (outside \cup gone)
        BY DEF ManagedExact
      <3> HIDE DEF outside, gone
      <3>4. managed_objects = (0 .. next_identifier - 1) \ (outside \cup gone)
        <4>1. ASSUME NEW o \in managed_objects
              PROVE  o \in (0 .. next_identifier - 1) \ (outside \cup gone)
          BY <3>1, <3>2 DEF RegOK
        <4>2. ASSUME NEW o \in (0 .. next_identifier - 1) \ (outside \cup gone)
              PROVE  o \in managed_objects
          BY <3>1, <3>2 DEF RegOK
        <4> QED BY <4>1, <4>2
      <3> QED BY <3>3, <3>4
    <2>3. ASSUME NEW t \in Threads, At(t, "release") PROVE Arg(t) \in managed_objects
      <3>1. PICK o \in Objects : Arg(t) = o
        BY <2>1, <2>3, AtDestroy DEF Arg
      <3>2. Releasing(t, o)
        BY <2>3, <3>1 DEF Releasing
      <3> QED BY <3>1, <3>2, ReleasedManaged
    <2> QED BY <2>2, <2>3
  <1> QED BY <1>1, <1>2, <1>3, MemInvariant, PTL DEF Spec

-----------------------------------------------------------------------------
(* Sums over a finite set.  MapThenSumSet is a fold: a function on the     *)
(* subsets that picks one element after the other.  That there is such a   *)
(* function, that its values are numbers, and that an element can be taken *)
(* out whatever was picked before it, are inductions on the cardinality:   *)
(* a set of numbers that has 0 and every successor has all.                *)

\* The sum of f over S.
SumOf(f, S) == MapThenSumSet(LAMBDA o : f[o], S)

\* A set of natural numbers has a least element.
LEMMA NatMin ==
  ASSUME NEW T, T \subseteq Nat, T # {}
  PROVE  \E m \in T : \A n \in T : m <= n
<1>1. PICK R : R = OpToRel(<, Nat)
  OBVIOUS
<1>2. \A x, y \in Nat : x < y => <<x, y>> \in R
  BY <1>1 DEF OpToRel
<1>3. IsWellFoundedOn(R, Nat)
  BY <1>1, NatLessThanWellFounded
<1>4. PICK x \in T : \A y \in T : ~(<<y, x>> \in R)
  BY <1>3, WFMin
<1>5. ASSUME NEW y \in T PROVE x <= y
  <2>1. x \in Nat /\ y \in Nat
    OBVIOUS
  <2>2. ~(y < x)
    BY <1>2, <1>4, <2>1
  <2> QED BY <2>1, <2>2
<1> QED
  BY <1>5

\* Induction on the natural numbers, for the set of those with a property.
LEMMA NatInduct ==
  ASSUME NEW T, 0 \in T, \A n \in Nat : n \in T => n + 1 \in T
  PROVE  Nat \subseteq T
  <1> DEFINE U == Nat \ T
  <1>1. SUFFICES ASSUME U # {} PROVE FALSE
    OBVIOUS
  <1>2. PICK m \in U : \A n \in U : m <= n
    BY <1>1, NatMin
  <1>3. m # 0 /\ m \in Nat
    OBVIOUS
  <1>4. m - 1 \in Nat /\ ~(m <= m - 1)
    BY <1>3
  <1>5. m - 1 \in T
    BY <1>2, <1>4
  <1>6. (m - 1) + 1 \in T
    BY <1>4, <1>5
  <1>7. (m - 1) + 1 = m
    BY <1>3
  <1> QED BY <1>6, <1>7

\* g sums f over each set of D, in the order in which CHOOSE picks.
Picked(s) == CHOOSE x \in s : TRUE

Sums(f, D, g) ==
  g = [s \in D |-> IF s = {} THEN 0 ELSE f[Picked(s)] + g[s \ {Picked(s)}]]

\* g sums f over every subset of S; f and h are the same numbers on s.
SumTable(f, S, g) == Sums(f, SUBSET S, g)

SameOn(f, h, s) == \A o \in s : f[o] = h[o] /\ f[o] \in Int

LEMMA PickedFacts ==
  ASSUME NEW s, IsFiniteSet(s), s # {}
  PROVE  /\ Picked(s) \in s /\ IsFiniteSet(s \ {Picked(s)})
         /\ Cardinality(s) \in Nat /\ Cardinality(s) # 0
         /\ Cardinality(s \ {Picked(s)}) = Cardinality(s) - 1
  <1>1. Picked(s) \in s
    BY DEF Picked
  <1> QED BY <1>1, FS_RemoveElement, FS_CardinalityType, FS_EmptySet

LEMMA SumsExist ==
  ASSUME NEW S, IsFiniteSet(S), NEW f
  PROVE  \E g : Sums(f, SUBSET S, g)
  <1> DEFINE D(n) == {s \in SUBSET S : Cardinality(s) <= n}
             T == {n \in Nat : \E g : Sums(f, D(n), g)}
  <1>1. \A s \in SUBSET S : IsFiniteSet(s) /\ Cardinality(s) \in Nat
    BY FS_Subset, FS_CardinalityType
  <1>2. 0 \in T
    <2> DEFINE g == [s \in D(0) |-> 0]
    <2>1. \A s \in D(0) : s = {}
      BY <1>1, FS_EmptySet
    <2>2. Sums(f, D(0), g)
      BY <2>1 DEF Sums
    <2> QED BY <2>2
  <1>3. ASSUME NEW n \in Nat, n \in T PROVE n + 1 \in T
    <2>1. PICK g : Sums(f, D(n), g)
      BY <1>3
    <2> DEFINE h == [s \in D(n + 1) |-> IF s = {} THEN 0 ELSE f[Picked(s)] + g[s \ {Picked(s)}]]
    <2>2. D(n) \subseteq D(n + 1)
      BY <1>1
    <2>3. \A s \in D(n) : h[s] = g[s]
      BY <2>1, <2>2 DEF Sums
    <2>4. ASSUME NEW s \in D(n + 1), s # {} PROVE s \ {Picked(s)} \in D(n)
      BY <1>1, <2>4, PickedFacts
    <2>5. Sums(f, D(n + 1), h)
      <3>1. \A s \in D(n + 1) : s # {} => h[s \ {Picked(s)}] = g[s \ {Picked(s)}]
        BY <2>3, <2>4
      <3> HIDE DEF D
      <3> QED BY <3>1 DEF Sums
    <2>6. \E k : Sums(f, D(n + 1), k)
      <3> HIDE DEF h
      <3> QED BY <2>5
    <2> HIDE DEF D
    <2> QED BY <2>6
  <1>4. Cardinality(S) \in T
    <2> HIDE DEF T
    <2> QED BY <1>2, <1>3, NatInduct, FS_CardinalityType
  <1>5. D(Cardinality(S)) = SUBSET S
    BY <1>1, FS_Subset
  <1> QED BY <1>4, <1>5

LEMMA SumsOf ==
  ASSUME NEW S, IsFiniteSet(S), NEW f
  PROVE  \E g : SumTable(f, S, g) /\ SumOf(f, S) = g[S]
  <1>1. SumOf(f, S) =
          LET iter[s \in SUBSET S] ==
                IF s = {} THEN 0 ELSE LET x == CHOOSE x \in s : TRUE IN f[x] + iter[s \ {x}]
          IN iter[S]
    BY DEF SumOf, MapThenSumSet, MapThenFoldSet
  <1> DEFINE g == CHOOSE g : SumTable(f, S, g)
  <1>2. SumTable(f, S, g)
    BY SumsExist DEF SumTable
  <1>3. SumOf(f, S) = g[S]
    BY <1>1 DEF SumTable, Sums, Picked
  <1> QED BY <1>2, <1>3

\* A sum depends on the values it adds only, and is a number.
LEMMA SumsAgree ==
  ASSUME NEW S, NEW f, NEW g, NEW T, NEW h, NEW k, NEW s,
         SumTable(f, S, g), SumTable(h, T, k),
         IsFiniteSet(s), s \subseteq S, s \subseteq T, SameOn(f, h, s)
  PROVE  g[s] = k[s] /\ g[s] \in Int
  <1> DEFINE Good(r) == g[r] = k[r] /\ g[r] \in Int
             N == {n \in Nat : \A r \in SUBSET s : Cardinality(r) = n => Good(r)}
  <1>1. \A r \in SUBSET s : IsFiniteSet(r) /\ Cardinality(r) \in Nat
    BY FS_Subset, FS_CardinalityType
  <1>2. Good({})
    BY DEF SumTable, Sums
  <1>3. 0 \in N
    BY <1>1, <1>2, FS_EmptySet
  <1>4. ASSUME NEW n \in Nat, n \in N PROVE n + 1 \in N
    <2> SUFFICES ASSUME NEW r \in SUBSET s, Cardinality(r) = n + 1 PROVE Good(r)
      OBVIOUS
    <2>1. r # {}
      <3>1. n + 1 # 0
        OBVIOUS
      <3> QED BY <3>1, FS_EmptySet
    <2>2. /\ Picked(r) \in r /\ r \ {Picked(r)} \in SUBSET s
          /\ Cardinality(r \ {Picked(r)}) = n
      BY <1>1, <2>1, PickedFacts
    <2>3. Good(r \ {Picked(r)})
      BY <1>4, <2>2
    <2>4. g[r] = f[Picked(r)] + g[r \ {Picked(r)}] /\ k[r] = h[Picked(r)] + k[r \ {Picked(r)}]
      BY <2>1 DEF SumTable, Sums
    <2> QED BY <2>2, <2>3, <2>4 DEF SameOn
  <1>5. Cardinality(s) \in N
    <2> HIDE DEF N
    <2> QED BY <1>1, <1>3, <1>4, NatInduct
  <1> QED BY <1>5

\* An element is added to a sum whatever was picked before it.
LEMMA SumsAdd ==
  ASSUME NEW S, NEW f, NEW g, NEW s, NEW x,
         SumTable(f, S, g), IsFiniteSet(S), SameOn(f, f, S), s \subseteq S, x \in S, x \notin s
  PROVE  g[s \cup {x}] = g[s] + f[x]
  <1> DEFINE N == {n \in Nat : \A r \in SUBSET S : Cardinality(r) = n =>
                                \A y \in S \ r : g[r \cup {y}] = g[r] + f[y]}
  <1>0. \A o \in S : f[o] \in Int
    BY DEF SameOn
  <1>1. \A r \in SUBSET S : IsFiniteSet(r) /\ Cardinality(r) \in Nat /\ g[r] \in Int
    <2> TAKE r \in SUBSET S
    <2>1. IsFiniteSet(r) /\ Cardinality(r) \in Nat
      BY FS_Subset, FS_CardinalityType
    <2>2. SameOn(f, f, r)
      BY <1>0 DEF SameOn
    <2>3. g[r] \in Int
      BY <2>1, <2>2, SumsAgree
    <2> QED BY <2>1, <2>3
  <1>2. \A r \in SUBSET S : r # {} => g[r] = f[Picked(r)] + g[r \ {Picked(r)}]
    BY DEF SumTable, Sums
  <1>3. 0 \in N
    <2> SUFFICES ASSUME NEW y \in S PROVE g[{} \cup {y}] = g[{}] + f[y]
      BY <1>1, FS_EmptySet
    <2>1. g[{}] = 0
      BY DEF SumTable, Sums
    <2>2. Picked({y}) = y
      BY DEF Picked
    <2>3. g[{y}] = f[y] + g[{}]
      BY <1>2, <2>2
    <2> QED BY <1>0, <2>1, <2>3
  <1>4. ASSUME NEW n \in Nat, n \in N PROVE n + 1 \in N
    <2> SUFFICES ASSUME NEW r \in SUBSET S, Cardinality(r) = n + 1, NEW y \in S \ r
                 PROVE  g[r \cup {y}] = g[r] + f[y]
      OBVIOUS
    <2> DEFINE p == Picked(r \cup {y})
    <2>1. g[r \cup {y}] = f[p] + g[(r \cup {y}) \ {p}] /\ p \in r \cup {y}
      BY <1>2 DEF Picked
    <2>2. CASE p = y
      <3>1. (r \cup {y}) \ {p} = r
        BY <2>2
      <3>2. g[r \cup {y}] = f[y] + g[r] /\ g[r] \in Int /\ f[y] \in Int
        BY <1>0, <1>1, <2>1, <2>2, <3>1
      <3> QED BY <3>2
    <2>3. CASE p \in r
      <3> HIDE DEF p
      <3> DEFINE q == r \ {p}
      <3>0. IsFiniteSet(r) /\ Cardinality(r) = n + 1
        BY <1>1
      <3>1. q \in SUBSET S /\ p \in S \ q /\ y \in S \ q /\ Cardinality(q) = n
        <4>1. q \in SUBSET S /\ p \in S \ q /\ y \in S \ q
          BY <2>3
        <4>2. Cardinality(q) = (n + 1) - 1
          BY <2>3, <3>0, FS_RemoveElement
        <4> QED BY <4>1, <4>2
      <3>2. (r \cup {y}) \ {p} = q \cup {y} /\ q \cup {p} = r
        BY <2>3
      <3> HIDE DEF q
      <3>3. g[q \cup {y}] = g[q] + f[y] /\ g[q \cup {p}] = g[q] + f[p]
        BY <1>4, <3>1
      <3>4. g[q] \in Int /\ f[y] \in Int /\ f[p] \in Int
        BY <1>0, <1>1, <3>1
      <3>5. g[r \cup {y}] = f[p] + g[q \cup {y}] /\ g[r] = g[q] + f[p]
        BY <2>1, <3>2, <3>3
      <3> QED BY <3>3, <3>4, <3>5
    <2> QED BY <2>1, <2>2, <2>3
  <1>5. Cardinality(s) \in N
    <2> HIDE DEF N
    <2> QED BY <1>1, <1>3, <1>4, NatInduct
  <1> QED BY <1>5

LEMMA SumEmpty ==
  ASSUME NEW f
  PROVE  SumOf(f, {}) = 0
  <1>1. PICK g : SumTable(f, {}, g) /\ SumOf(f, {}) = g[{}]
    BY SumsOf, FS_EmptySet
  <1> QED BY <1>1 DEF SumTable, Sums

LEMMA SumSame ==
  ASSUME NEW S, IsFiniteSet(S), NEW f, NEW h, \A o \in S : f[o] = h[o] /\ f[o] \in Int
  PROVE  SumOf(f, S) = SumOf(h, S) /\ SumOf(f, S) \in Int
  <1>1. PICK g : SumTable(f, S, g) /\ SumOf(f, S) = g[S]
    BY SumsOf
  <1>2. PICK k : SumTable(h, S, k) /\ SumOf(h, S) = k[S]
    BY SumsOf
  <1>3. g[S] = k[S] /\ g[S] \in Int
    <2>1. SameOn(f, h, S)
      BY DEF SameOn
    <2>2. S \subseteq S
      OBVIOUS
    <2>3. SumTable(f, S, g) /\ SumTable(h, S, k)
      BY <1>1, <1>2
    <2> QED BY <2>1, <2>2, <2>3, SumsAgree
  <1> QED BY <1>1, <1>2, <1>3

LEMMA SumAdd ==
  ASSUME NEW S, IsFiniteSet(S), NEW f, NEW x, x \notin S, \A o \in S \cup {x} : f[o] \in Int
  PROVE  SumOf(f, S \cup {x}) = SumOf(f, S) + f[x]
  <1>1. IsFiniteSet(S \cup {x})
    BY FS_AddElement
  <1>2. PICK g : SumTable(f, S \cup {x}, g) /\ SumOf(f, S \cup {x}) = g[S \cup {x}]
    BY <1>1, SumsOf
  <1>3. PICK k : SumTable(f, S, k) /\ SumOf(f, S) = k[S]
    BY SumsOf
  <1>4. g[S] = k[S]
    <2>1. SameOn(f, f, S)
      BY DEF SameOn
    <2>2. S \subseteq S /\ S \subseteq S \cup {x}
      OBVIOUS
    <2>3. SumTable(f, S \cup {x}, g) /\ SumTable(f, S, k)
      BY <1>2, <1>3
    <2> QED BY <2>1, <2>2, <2>3, SumsAgree
  <1>5. g[S \cup {x}] = g[S] + f[x]
    <2>1. S \subseteq S \cup {x} /\ x \in S \cup {x}
      OBVIOUS
    <2>2. SumTable(f, S \cup {x}, g)
      BY <1>2
    <2>3. SameOn(f, f, S \cup {x})
      BY DEF SameOn
    <2> QED BY <1>1, <2>1, <2>2, <2>3, SumsAdd
  <1> QED BY <1>2, <1>3, <1>4, <1>5

\* A sum of positive numbers is positive, unless there are none.
LEMMA SumPositive ==
  ASSUME NEW S, IsFiniteSet(S), NEW f, \A o \in S : f[o] \in Nat \ {0}
  PROVE  SumOf(f, S) \in Nat /\ (S # {} => SumOf(f, S) # 0)
  <1>1. PICK g : SumTable(f, S, g) /\ SumOf(f, S) = g[S]
    BY SumsOf
  <1> DEFINE Good(r) == g[r] \in Nat /\ (r # {} => g[r] # 0)
             N == {n \in Nat : \A r \in SUBSET S : Cardinality(r) = n => Good(r)}
  <1>2. \A r \in SUBSET S : IsFiniteSet(r) /\ Cardinality(r) \in Nat
    BY FS_Subset, FS_CardinalityType
  <1>3. Good({})
    BY <1>1 DEF SumTable, Sums
  <1>4. 0 \in N
    BY <1>2, <1>3, FS_EmptySet
  <1>5. ASSUME NEW n \in Nat, n \in N PROVE n + 1 \in N
    <2> SUFFICES ASSUME NEW r \in SUBSET S, Cardinality(r) = n + 1 PROVE Good(r)
      OBVIOUS
    <2>1. r # {}
      <3>1. n + 1 # 0
        OBVIOUS
      <3> QED BY <3>1, FS_EmptySet
    <2>2. /\ Picked(r) \in r /\ r \ {Picked(r)} \in SUBSET S
          /\ Cardinality(r \ {Picked(r)}) = n
      BY <1>2, <2>1, PickedFacts
    <2>3. Good(r \ {Picked(r)})
      BY <1>5, <2>2
    <2>4. g[r] = f[Picked(r)] + g[r \ {Picked(r)}]
      BY <1>1, <2>1 DEF SumTable, Sums
    <2> QED BY <2>2, <2>3, <2>4
  <1>6. Cardinality(S) \in N
    <2> HIDE DEF N
    <2> QED BY <1>2, <1>4, <1>5, NatInduct
  <1> QED BY <1>1, <1>6

-----------------------------------------------------------------------------
(* The manager's account.                                                  *)

Late == {temp[t] : t \in {u \in Threads : At(u, "account")}}

\* What is accounted is the managed objects but for those that belong to the
\* one thread that has just registered them; sizes are positive.
AccountOK ==
  /\ total_memory_usage = SumOf(size, managed_objects \ Late)
  /\ DOMAIN size = Objects /\ \A o \in 0 .. next_identifier - 1 : size[o] \in Nat \ {0}
  /\ \A t \in Threads : At(t, "account") =>
       temp[t] \in managed_objects /\ \A u \in Threads : At(u, "account") /\ temp[u] = temp[t] => u = t

\* Once the manager asserts that nothing is released, nothing is left.
LeakOK ==
  assert_on_release => (\A t \in Threads : Idle(t)) /\ \A s \in Slots : slot[s] = Null

LEMMA AccountAfter ==
  ASSUME NEW t \in Threads, ScriptOK(t), ~Idle(t), script'[t] = Tail(script[t])
  PROVE  At(t, "account")' => At(t, "emplace")
  BY DEF ScriptOK, Full, Empty, Idle, At, Allocate, CopyReference, MoveReference, Lock,
         CopyLocked, MoveLocked, UnlockedMove

LEMMA OthersAccount ==
  ASSUME NEW t \in Threads, Private(t)
  PROVE  \A u \in Threads \ {t} : (At(u, "account")' <=> At(u, "account")) /\ temp'[u] = temp[u]
  BY DEF Private, At, Idle

LEMMA LateIs == \A o : o \in Late <=> \E t \in Threads : At(t, "account") /\ temp[t] = o
  BY DEF Late

LEMMA LateIsAfter == \A o : o \in Late' <=> \E t \in Threads : At(t, "account")' /\ temp'[t] = o
  BY DEF Late

\* The numbers that are summed up.
LEMMA ManagedSizes ==
  ASSUME MemInv, RegOK, AccountOK
  PROVE  /\ next_identifier \in Nat /\ IsFiniteSet(managed_objects)
         /\ \A o \in managed_objects : o \in Objects /\ size[o] \in Nat \ {0}
  <1>1. next_identifier \in Nat /\ 0 .. next_identifier - 1 \subseteq Objects
    BY NullFacts DEF MemInv, MemTypeOK, Objects
  <1>2. IsFiniteSet(0 .. next_identifier - 1)
    BY <1>1, FS_Interval
  <1>3. managed_objects \subseteq 0 .. next_identifier - 1
    BY DEF RegOK
  <1> QED BY <1>1, <1>2, <1>3, FS_Subset DEF AccountOK

\* A step that neither registers, accounts nor releases an object.
LEMMA SameAccount ==
  ASSUME MemInv, RegOK, AccountOK, NEW t \in Threads, Private(t),
         ~At(t, "account"), ~At(t, "account")',
         total_memory_usage' = total_memory_usage, managed_objects' = managed_objects,
         size' = size, next_identifier' = next_identifier
  PROVE  AccountOK'
  <1>1. \A u \in Threads : (At(u, "account")' <=> At(u, "account")) /\ (At(u, "account") => temp'[u] = temp[u])
    BY OthersAccount
  <1>2. Late' = Late
    BY <1>1, LateIs, LateIsAfter
  <1> QED BY <1>1, <1>2 DEF AccountOK

LEMMA QuietAccount ==
  ASSUME MemInv, RegOK, AccountOK, NEW t \in Threads,
         \/ Begin(t) \/ Copy(t) \/ Take(t) \/ LockObject(t) \/ UnlockObject(t) \/ Put(t) \/ Destroy(t)
  PROVE  AccountOK'
  <1>1. MemTypeOK /\ ScriptOK(t)
    BY DEF MemInv
  <1>2. Private(t)
    BY <1>1, BeginEffect, CopyEffect, TakeEffect, LockEffect, UnlockEffect, PutEffect, CleanEffect
  <1>3. /\ total_memory_usage' = total_memory_usage /\ managed_objects' = managed_objects
        /\ size' = size /\ next_identifier' = next_identifier
    BY DEF Begin, Copy, Take, LockObject, UnlockObject, Put, Destroy, objects, manager
  <1>4. ~At(t, "account") /\ ~At(t, "account")'
    <2>1. CASE Begin(t)
      <3>1. PICK ops \in Operations(t) : script' = [script EXCEPT ![t] = ops]
        BY <2>1 DEF Begin
      <3>2. script'[t] = ops /\ script[t] = <<>>
        BY <1>1, <2>1, <3>1 DEF MemTypeOK, Begin, Idle
      <3>3. Head(ops)[1] # "account"
        BY OperationForms DEF Allocate, Lock, CopyLocked, MoveLocked, UnlockedMove
      <3> QED BY <3>2, <3>3 DEF At, Idle
    <2>2. CASE Copy(t) \/ Take(t) \/ LockObject(t) \/ UnlockObject(t) \/ Destroy(t)
      <3>1. /\ ~Idle(t) /\ script'[t] = Tail(script[t])
            /\ ~At(t, "account") /\ ~At(t, "emplace")
        BY <1>1, <2>2 DEF Copy, Take, LockObject, UnlockObject, Destroy, At, Step, MemTypeOK
      <3> QED BY <1>1, <3>1, AccountAfter
    <2>3. CASE Put(t)
      <3>1. ~At(t, "account")
        BY <2>3 DEF Put, At
      <3>2. \/ script'[t] = <<>>
            \/ \E o : script'[t] = <<<<"destroy", o>>, <<"release", o>>>>
            \/ \E d : script'[t] = <<<<"lock", d>>>>
            \/ \E o, d : script'[t] = <<<<"destroy", o>>, <<"release", o>>, <<"lock", d>>>>
        BY <1>1, <2>3, PutScripts
      <3>3. ~At(t, "account")'
        BY <3>2 DEF At, Idle
      <3> QED BY <3>1, <3>3
    <2> QED BY <2>1, <2>2, <2>3
  <1> QED BY <1>2, <1>3, <1>4, SameAccount

LEMMA ConstructAccount ==
  ASSUME MemInv, RegOK, AccountOK, NEW t \in Threads, Construct(t)
  PROVE  AccountOK'
  <1>1. MemTypeOK /\ ScriptOK(t)
    BY DEF MemInv
  <1>2. /\ total_memory_usage' = total_memory_usage /\ managed_objects' = managed_objects
        /\ next_identifier' = next_identifier + 1 /\ next_identifier < MaxObjects
        /\ script'[t] = Tail(script[t]) /\ At(t, "construct")
    BY <1>1 DEF Construct, Step, MemTypeOK
  <1>3. Private(t)
    BY <1>1, AllocateEffect
  <1>4. PICK k \in Sizes : size' = [size EXCEPT ![next_identifier] = k]
    BY DEF Construct
  <1>5. k \in Nat \ {0}
    BY MemoryAssumption
  <1>6. ~At(t, "account") /\ ~At(t, "account")'
    <2>1. ~At(t, "account") /\ ~At(t, "emplace") /\ ~Idle(t)
      BY <1>2 DEF At
    <2> QED BY <1>1, <1>2, <2>1, AccountAfter
  <1>7. \A u \in Threads : (At(u, "account")' <=> At(u, "account")) /\ (At(u, "account") => temp'[u] = temp[u])
    BY <1>3, <1>6, OthersAccount
  <1>8. Late' = Late
    BY <1>7, LateIs, LateIsAfter
  <1>9. PICK n \in Nat : n = next_identifier
    BY ManagedSizes
  <1>10. n \in Objects /\ n \notin 0 .. n - 1 /\ \A o \in 0 .. (n + 1) - 1 : o = n \/ o \in 0 .. n - 1
    BY <1>2, <1>9, NullFacts DEF Objects
  <1>11. /\ DOMAIN size' = Objects /\ size'[n] = k /\ \A o \in Objects : o # n => size'[o] = size[o]
    BY <1>4, <1>9, <1>10 DEF AccountOK
  <1>12. 0 .. n - 1 \subseteq Objects
    BY <1>9, <1>10, NullFacts DEF Objects
  <1>13. \A o \in 0 .. next_identifier' - 1 : size'[o] \in Nat \ {0}
    BY <1>2, <1>5, <1>9, <1>10, <1>11, <1>12 DEF AccountOK
  <1>14. SumOf(size', managed_objects \ Late) = SumOf(size, managed_objects \ Late)
    <2>1. IsFiniteSet(managed_objects \ Late)
      BY ManagedSizes, FS_Subset
    <2>2. n \notin managed_objects
      BY <1>9, <1>10 DEF RegOK
    <2>3. \A o \in managed_objects \ Late : size[o] = size'[o] /\ size[o] \in Int
      BY <1>11, <2>2, ManagedSizes
    <2> QED BY <2>1, <2>3, SumSame
  <1> QED BY <1>2, <1>7, <1>8, <1>11, <1>13, <1>14 DEF AccountOK

LEMMA EmplaceAccount ==
  ASSUME MemInv, RegOK, AccountOK, NEW t \in Threads, Emplace(t)
  PROVE  AccountOK'
  <1>1. MemTypeOK /\ ScriptOK(t)
    BY DEF MemInv
  <1>2. /\ total_memory_usage' = total_memory_usage /\ managed_objects' = managed_objects \cup {temp[t]}
        /\ next_identifier' = next_identifier /\ size' = size /\ temp' = temp
        /\ script'[t] = Tail(script[t]) /\ At(t, "emplace")
    BY <1>1 DEF Emplace, Step, MemTypeOK, objects
  <1>3. Private(t)
    BY <1>1, AllocateEffect
  <1>4. ~At(t, "account") /\ At(t, "account")'
    <2>1. ~At(t, "account")
      BY <1>2 DEF At
    <2>2. PICK r : script[t] = <<<<"emplace">>, <<"account">>, <<"put", r>>>>
      BY <1>1, <1>2, <2>1, AtAllocate
    <2>3. script'[t] = <<<<"account">>, <<"put", r>>>>
      BY <1>2, <2>2
    <2> QED BY <2>1, <2>3 DEF At, Idle
  <1>5. \A u \in Threads : At(u, "account")' <=> At(u, "account") \/ u = t
    BY <1>3, <1>4, OthersAccount
  <1>6. temp[t] \notin managed_objects
    BY <1>2 DEF RegOK
  <1>7. \A u \in Threads : At(u, "account") => temp[u] \in managed_objects /\ temp[u] # temp[t]
    BY <1>6 DEF AccountOK
  <1>8. managed_objects' \ Late' = managed_objects \ Late
    <2>1. \A o : o \in Late' <=> o \in Late \/ o = temp[t]
      BY <1>2, <1>5, LateIs, LateIsAfter
    <2> QED BY <1>2, <1>6, <2>1
  <1>9. \A u \in Threads : At(u, "account")' =>
          /\ temp'[u] \in managed_objects'
          /\ \A v \in Threads : At(v, "account")' /\ temp'[v] = temp'[u] => v = u
    BY <1>2, <1>5, <1>7 DEF AccountOK
  <1> QED BY <1>2, <1>8, <1>9 DEF AccountOK

LEMMA AccountAccount ==
  ASSUME MemInv, RegOK, AccountOK, NEW t \in Threads, Account(t)
  PROVE  AccountOK'
  <1>1. MemTypeOK /\ ScriptOK(t)
    BY DEF MemInv
  <1>2. /\ total_memory_usage' = total_memory_usage + size[temp[t]]
        /\ managed_objects' = managed_objects /\ next_identifier' = next_identifier
        /\ size' = size /\ temp' = temp /\ script'[t] = Tail(script[t]) /\ At(t, "account")
    BY <1>1 DEF Account, Step, MemTypeOK, objects
  <1>3. Private(t)
    BY <1>1, AllocateEffect
  <1>4. ~At(t, "account")'
    <2>1. ~At(t, "emplace") /\ ~Idle(t)
      BY <1>2 DEF At
    <2> QED BY <1>1, <1>2, <2>1, AccountAfter
  <1>5. \A u \in Threads : At(u, "account")' <=> At(u, "account") /\ u # t
    BY <1>2, <1>3, <1>4, OthersAccount
  <1>6. PICK o \in managed_objects : o = temp[t]
    BY <1>2 DEF AccountOK
  <1>7. \A x : x \in Late' <=> x \in Late /\ x # o
    <2>1. \A u \in Threads : At(u, "account") /\ temp[u] = o => u = t
      BY <1>2, <1>6 DEF AccountOK
    <2> QED BY <1>2, <1>5, <1>6, <2>1, LateIs, LateIsAfter
  <1>8. o \in Late
    BY <1>2, <1>6, LateIs
  <1>9. managed_objects' \ Late' = (managed_objects \ Late) \cup {o} /\ o \notin managed_objects \ Late
    BY <1>2, <1>6, <1>7, <1>8
  <1>10. SumOf(size, (managed_objects \ Late) \cup {o}) = SumOf(size, managed_objects \ Late) + size[o]
    <2>1. IsFiniteSet(managed_objects \ Late)
      BY ManagedSizes, FS_Subset
    <2>2. \A x \in (managed_objects \ Late) \cup {o} : size[x] \in Int
      BY <1>6, ManagedSizes
    <2> QED BY <1>9, <2>1, <2>2, SumAdd
  <1>11. total_memory_usage' = SumOf(size', managed_objects' \ Late')
    BY <1>2, <1>6, <1>9, <1>10 DEF AccountOK
  <1> QED BY <1>2, <1>5, <1>11 DEF AccountOK

LEMMA ReleaseAccount ==
  ASSUME MemInv, RegOK, AccountOK, NEW t \in Threads, NotifyRelease(t)
  PROVE  AccountOK'
  <1>1. MemTypeOK /\ ScriptOK(t)
    BY DEF MemInv
  <1>2. PICK old \in Objects : Arg(t) = old
    BY <1>1, AtDestroy DEF NotifyRelease, Arg
  <1>3. /\ total_memory_usage' = total_memory_usage - size[old]
        /\ managed_objects' = managed_objects \ {old} /\ next_identifier' = next_identifier
        /\ size' = size /\ temp' = temp /\ script'[t] = Tail(script[t]) /\ At(t, "release")
    BY <1>1, <1>2 DEF NotifyRelease, Step, MemTypeOK, objects
  <1>4. Private(t)
    BY <1>1, CleanEffect
  <1>5. ~At(t, "account") /\ ~At(t, "account")'
    <2>1. ~At(t, "account") /\ ~At(t, "emplace") /\ ~Idle(t)
      BY <1>3 DEF At
    <2> QED BY <1>1, <1>3, <2>1, AccountAfter
  <1>6. \A u \in Threads : At(u, "account")' <=> At(u, "account")
    BY <1>4, <1>5, OthersAccount
  <1>7. Late' = Late
    BY <1>3, <1>6, LateIs, LateIsAfter
  <1>8. Releasing(t, old)
    BY <1>2, <1>3 DEF Releasing
  <1>9. old \in managed_objects /\ \A u \in Threads : temp[u] # old
    BY <1>8, ReleasedManaged
  <1>10. old \notin Late
    BY <1>9, LateIs
  <1>11. /\ managed_objects \ Late = (managed_objects' \ Late') \cup {old}
         /\ old \notin managed_objects' \ Late'
    BY <1>3, <1>7, <1>9, <1>10
  <1>12. SumOf(size, (managed_objects' \ Late') \cup {old}) = SumOf(size, managed_objects' \ Late') + size[old]
    <2>1. IsFiniteSet(managed_objects' \ Late')
      BY <1>3, ManagedSizes, FS_Subset
    <2>2. \A x \in (managed_objects' \ Late') \cup {old} : size[x] \in Int
      BY <1>3, <1>9, ManagedSizes
    <2> QED BY <1>11, <2>1, <2>2, SumAdd
  <1>13. SumOf(size, managed_objects' \ Late') \in Int /\ size[old] \in Int
    <2>1. IsFiniteSet(managed_objects' \ Late')
      BY <1>3, ManagedSizes, FS_Subset
    <2>2. \A x \in managed_objects' \ Late' : size[x] = size[x] /\ size[x] \in Int
      BY <1>3, ManagedSizes
    <2>3. SumOf(size, managed_objects' \ Late') \in Int
      BY <2>1, <2>2, SumSame
    <2> QED BY <1>9, <2>3, ManagedSizes
  <1>14. total_memory_usage = SumOf(size, managed_objects' \ Late') + size[old]
    BY <1>11, <1>12 DEF AccountOK
  <1>15. total_memory_usage' = SumOf(size', managed_objects' \ Late')
    BY <1>3, <1>13, <1>14
  <1>16. \A u \in Threads : At(u, "account")' =>
          /\ temp'[u] \in managed_objects'
          /\ \A v \in Threads : At(v, "account")' /\ temp'[v] = temp'[u] => v = u
    BY <1>3, <1>6, <1>9 DEF AccountOK
  <1> QED BY <1>3, <1>15, <1>16 DEF AccountOK

\* When a count of zero is found and nobody is in an operation, everything has
\* been released.
LEMMA NothingLeft ==
  ASSUME MemInv, RegOK, AccountOK, \A t \in Threads : Idle(t), total_memory_usage = 0
  PROVE  \A s \in Slots : slot[s] = Null
  <1>1. Late = {}
    BY LateIs DEF At
  <1>2. managed_objects = {}
    <2>1. SumOf(size, managed_objects) = 0
      BY <1>1 DEF AccountOK
    <2> QED BY <2>1, ManagedSizes, SumPositive
  <1>3. ASSUME NEW s \in Slots, slot[s] # Null PROVE FALSE
    <2>1. slot[s] \in Objects /\ slot[s] < next_identifier
      BY <1>3 DEF MemInv, MemTypeOK
    <2>2. slot[s] \in 0 .. next_identifier - 1
      BY <2>1, ManagedSizes DEF Objects
    <2>3. slot[s] \notin freed
      BY <2>2 DEF MemInv, LifeOK, Referenced
    <2>4. \A t \in Threads : ~At(t, "emplace")
      BY DEF At
    <2>5. slot[s] \in managed_objects
      BY <2>2, <2>3, <2>4 DEF RegOK
    <2> QED BY <1>2, <2>5
  <1> QED BY <1>3

LEMMA StepAccount ==
  ASSUME MemInv, RegOK, AccountOK, LeakOK, [Next]_vars
  PROVE  AccountOK' /\ LeakOK'
  <1>1. CASE LogMemoryLeaks
    <2>1. /\ slot' = slot /\ temp' = temp /\ script' = script /\ size' = size
          /\ managed_objects' = managed_objects /\ next_identifier' = next_identifier
          /\ total_memory_usage' = total_memory_usage
          /\ (\A t \in Threads : Idle(t)) /\ total_memory_usage = 0
      BY <1>1 DEF LogMemoryLeaks, objects
    <2>2. AccountOK'
      BY <2>1 DEF AccountOK, Late, At, Idle
    <2>3. LeakOK'
      BY <2>1, NothingLeft DEF LeakOK, Idle
    <2> QED BY <2>2, <2>3
  <1>2. CASE vars' = vars
    <2>1. /\ slot' = slot /\ temp' = temp /\ script' = script /\ size' = size
          /\ managed_objects' = managed_objects /\ next_identifier' = next_identifier
          /\ total_memory_usage' = total_memory_usage /\ assert_on_release' = assert_on_release
      BY <1>2 DEF vars, objects, manager
    <2>2. AccountOK'
      BY <2>1 DEF AccountOK, Late, At, Idle
    <2>3. LeakOK'
      BY <2>1 DEF LeakOK, Idle
    <2> QED BY <2>2, <2>3
  <1>3. ASSUME NEW t \in Threads,
               \/ Begin(t) \/ Construct(t) \/ Emplace(t) \/ Account(t) \/ Copy(t) \/ Take(t)
               \/ LockObject(t) \/ UnlockObject(t) \/ Put(t) \/ Destroy(t) \/ NotifyRelease(t)
        PROVE  AccountOK' /\ LeakOK'
    <2>1. AccountOK'
      BY <1>3, QuietAccount, ConstructAccount, EmplaceAccount, AccountAccount, ReleaseAccount
    <2>2. LeakOK'
      <3>1. assert_on_release' = assert_on_release
        BY <1>3 DEF Begin, Construct, Emplace, Account, Copy, Take, LockObject, UnlockObject, Put,
                    Destroy, NotifyRelease, manager
      <3>2. SUFFICES ASSUME assert_on_release PROVE FALSE
        BY <3>1 DEF LeakOK
      <3>3. Idle(t) /\ \A s \in Slots : slot[s] = Null
        BY <3>2 DEF LeakOK
      <3>4. Begin(t)
        BY <1>3, <3>3 DEF Construct, Emplace, Account, Copy, Take, LockObject, UnlockObject, Put,
                          Destroy, NotifyRelease, At
      <3>5. PICK ops : ops \in Operations(t)
        BY <3>4 DEF Begin
      <3> QED BY <3>2, <3>3, <3>5, RefFacts DEF Operations
    <2> QED BY <2>1, <2>2
  <1> QED BY <1>1, <1>2, <1>3 DEF Next

\* Every assert of memory_object.cpp and memory_manager.cpp holds.
THEOREM AssertionsNeverFail == Spec => []AssertionsHold
  <1>1. Init => RegOK /\ AccountOK /\ LeakOK
    <2> SUFFICES ASSUME Init PROVE RegOK /\ AccountOK /\ LeakOK
      OBVIOUS
    <2>1. RegOK
      BY DEF Init, RegOK, At, Idle, Releasing
    <2>2. managed_objects \ Late = {}
      BY DEF Init
    <2>3. AccountOK
      BY <2>2, SumEmpty DEF Init, AccountOK, At, Idle
    <2>4. LeakOK
      BY DEF Init, LeakOK
    <2> QED BY <2>1, <2>3, <2>4
  <1>2. MemInv /\ RegOK /\ AccountOK /\ LeakOK /\ [Next]_vars => RegOK' /\ AccountOK' /\ LeakOK'
    BY StepReg, StepAccount
  <1>3. MemInv /\ AccountOK /\ LeakOK =>
          UsageExact /\ \A t \in Threads : At(t, "release") => ~assert_on_release
    <2> SUFFICES ASSUME MemInv, AccountOK, LeakOK
                 PROVE  UsageExact /\ \A t \in Threads : At(t, "release") => ~assert_on_release
      OBVIOUS
    <2>1. UsageExact
      BY DEF AccountOK, UsageExact, Late, SumOf
    <2>2. \A t \in Threads : At(t, "release") => ~assert_on_release
      BY DEF LeakOK, At
    <2> QED BY <2>1, <2>2
  <1>4. Spec => [](MemInv /\ AccountOK /\ LeakOK)
    BY <1>1, <1>2, MemInvariant, PTL DEF Spec
  <1>5. Spec => [](UsageExact /\ \A t \in Threads : At(t, "release") => ~assert_on_release)
    BY <1>3, <1>4, PTL
  <1>6. /\ ObjectAsserts
        /\ ManagedExact /\ \A t \in Threads : At(t, "release") => Arg(t) \in managed_objects
        /\ UsageExact /\ \A t \in Threads : At(t, "release") => ~assert_on_release
        => AssertionsHold
    BY DEF AssertionsHold
  <1> QED BY <1>5, <1>6, ObjectsAreAsserted, ObjectsAreManaged, PTL

=============================================================================
