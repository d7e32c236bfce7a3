--------------------------- MODULE SchedulerProofs ---------------------------
(***************************************************************************)
(* Proofs about the scheduler, for any number of workers, nodes, tasks and *)
(* dependencies: its types and control points, the counting argument of    *)
(* the physical graph with the refinement of TaskGraph, and is_finished()  *)
(* with the sleep protocol.                                                *)
(***************************************************************************)
EXTENDS Scheduler, FiniteSetTheorems, TLAPS

-----------------------------------------------------------------------------
\* How the locals of a thread relate to its control point.
FreePoints ==
  {"idle", "loop", "take_unstealable", "take_local", "steal", "set_sleeping",
   "check", "retake_unstealable", "resteal", "wait"}

BusyPoints == {"body", "commit", "notify", "release"}

SleepPoints == {"check", "retake_unstealable", "resteal", "wait", "reset"}

ControlOK ==
  /\ \A a \in Actors :
       /\ pc[a] = "commit" <=> arg[a] # None
       /\ pc[a] = "notify" <=> mutex = a
       /\ pc[a] = "notify" => left[a] # 0 /\ cont[a] \in {"body", "release"}
       /\ pc[a] = "notify_all" =>
            /\ left[a] # 0 /\ target[a] = WorkerCount - left[a]
            /\ cont[a] \in {"loop", "exit"}
       /\ pc[a] \notin {"notify", "notify_all"} => target[a] = 0
  /\ pc[Main] \in {"body", "commit", "notify", "exit"}
  /\ pc[Main] = "notify" => cont[Main] = "body"
  /\ task[Main] = None
  /\ \A w \in Workers :
       /\ pc[Main] # "exit" => pc[w] = "idle"
       /\ pc[w] \in BusyPoints => task[w] # None
       /\ pc[w] \in FreePoints => task[w] = None
       /\ pc[w] = "notify_all" /\ cont[w] = "loop" => task[w] = None
       /\ w \in sleeping => pc[w] \in SleepPoints

-----------------------------------------------------------------------------
(* Types and control.                                                      *)

\* Facts about the constants that the proofs use throughout.
LEMMA Constants ==
  /\ WorkerCount \in Nat /\ WorkerCount > 0 /\ 0 \in Workers
  /\ NodeCount \in Nat /\ NodeCount > 0 /\ 0 \in Nodes
  /\ MaxTasks \in Nat /\ MaxSuccessors \in Nat
  /\ Workers \subseteq Actors /\ Main \in Actors /\ Actors = Workers \cup {Main}
  /\ None \notin Actors /\ Parked \notin Actors /\ Main \notin Workers
  /\ Parked # None
  BY SizesAssumption, NamesAssumption DEF Workers, Nodes, Actors

LEMMA OptionFields ==
  \A o \in Options : /\ o \in Unstealable => o.only \in Workers
                     /\ o \in Stealable => o.recommended \in Workers \cup {None}
  BY DEF Unstealable, Stealable

LEMMA TypeInit == Init => TypeOK /\ ControlOK
  <1> SUFFICES ASSUME Init PROVE TypeOK /\ ControlOK
    OBVIOUS
  <1>1. GraphTypeOK
    BY Constants DEF Init, GraphTypeOK, Ids, Tasks
  <1>2. QueueTypeOK
    BY Constants DEF Init, QueueTypeOK
  <1>3. ThreadTypeOK
    BY Constants DEF Init, ThreadTypeOK, ControlPoints
  <1>4. ControlOK
    BY Constants DEF Init, ControlOK, FreePoints, BusyPoints, SleepPoints
  <1> QED BY <1>1, <1>2, <1>3, <1>4 DEF TypeOK

\* What Downstream means one step back: only a task that somebody names as
\* its successor is downstream of another task.
LEMMA DownstreamHasPredecessor ==
  ASSUME NEW r \in Tasks, NEW s \in Tasks, Downstream(r, s), r # s
  PROVE  \E p \in Tasks : Dependency(p, s)
  <1> SUFFICES ASSUME \A p \in Tasks : ~Dependency(p, s) PROVE FALSE
    OBVIOUS
  <1> DEFINE S == Tasks \ {s}
  <1>1. r \in S /\ S \in SUBSET Tasks
    OBVIOUS
  <1>2. \A p \in S, q \in Tasks : Dependency(p, q) => q \in S
    OBVIOUS
  <1>3. s \in S
    BY <1>1, <1>2 DEF Downstream
  <1> QED BY <1>3

\* Both kinds of task that a dependency may be added to have been created.
LEMMA ContractNamesIds ==
  ASSUME TypeOK, ControlOK, NEW a \in Actors, NEW p \in Tasks, NEW s \in Tasks,
         pc[a] = "body", DependencyContract(a, p, s)
  PROVE  s \in Ids
  <1> USE Constants DEF TypeOK, GraphTypeOK
  <1>1. CASE owner[s] = a
    BY <1>1
  <1>2. CASE a # Main /\ s # task[a] /\ Downstream(task[a], s)
    <2>1. task[a] \in Tasks
      BY <1>2 DEF ThreadTypeOK, ControlOK, BusyPoints, Ids, Tasks
    <2>2. PICK q \in Tasks : Dependency(q, s)
      BY <1>2, <2>1, DownstreamHasPredecessor
    <2> QED BY <2>2 DEF Dependency
  <1> QED BY <1>1, <1>2 DEF DependencyContract

\* The steps that change the graph.
LEMMA GraphSteps ==
  ASSUME [Next]_vars
  PROVE  \/ \E a \in Actors, o \in Options : CreatePhysicalTask(a, o)
         \/ \E a \in Actors, p, s \in Tasks : AddDependency(a, p, s)
         \/ \E a \in Actors, t \in Tasks : CommitTask(a, t)
         \/ \E a \in Actors, t \in Tasks : Park(a, t)
         \/ \E a \in Actors : CommitDecrement(a)
         \/ \E w \in Workers : NotifyTaskCompletion(w)
         \/ \E w \in Workers : ReleaseSuccessor(w)
         \/ UNCHANGED graph
  <1>1. ASSUME NEW w \in Workers, WorkerStep(w)
        PROVE  NotifyTaskCompletion(w) \/ ReleaseSuccessor(w) \/ UNCHANGED graph
    BY <1>1 DEF WorkerStep, EnterLoop, Loop, TakeRunnableTask, TakeUnstealable,
       TakeLocalStealable, Steal, SetIsSleeping, Check, Wait, ResetIsSleeping,
       FinishTask, NotifyAll, NotifyException
  <1>2. ASSUME NEW a \in Actors, Notify(a) \/ Look(a) PROVE UNCHANGED graph
    BY <1>2 DEF Notify, Look
  <1>3. StartWorkers \/ UNCHANGED vars => UNCHANGED graph
    BY DEF StartWorkers, vars
  <1> QED
    BY <1>1, <1>2, <1>3 DEF Next, ActorStep, Body, Terminated

\* The tasks that threads name in their calls exist.
LEMMA NamedTasks ==
  ASSUME TypeOK, ControlOK
  PROVE  /\ Ids \subseteq Tasks
         /\ \A a \in Actors : pc[a] = "commit" => arg[a] \in Ids
         /\ \A w \in Workers : pc[w] \in BusyPoints => task[w] \in Ids
         /\ \A w \in Workers : pc[w] = "release" =>
              \A i \in 1 .. Len(successors[task[w]]) : successors[task[w]][i] \in Ids
  <1> USE Constants DEF TypeOK
  <1>1. Ids \subseteq Tasks
    BY DEF GraphTypeOK, Ids, Tasks
  <1>2. \A a \in Actors : pc[a] = "commit" => arg[a] \in Ids
    BY DEF ThreadTypeOK, ControlOK
  <1>3. \A w \in Workers : pc[w] \in BusyPoints => task[w] \in Ids
    BY DEF ThreadTypeOK, ControlOK
  <1>4. ASSUME NEW w \in Workers, pc[w] = "release",
               NEW i \in 1 .. Len(successors[task[w]])
        PROVE  successors[task[w]][i] \in Ids
    <2>1. task[w] \in Tasks
      BY <1>1, <1>3, <1>4 DEF BusyPoints
    <2>2. successors[task[w]] \in Seq(Ids)
      BY <2>1 DEF GraphTypeOK
    <2> QED BY <2>2, <1>4
  <1> QED BY <1>1, <1>2, <1>3, <1>4

LEMMA NewIds ==
  ASSUME TypeOK, created < MaxTasks, created' = created + 1
  PROVE  Ids' = Ids \cup {created} /\ created \in Tasks /\ created \notin Ids
  BY Constants DEF TypeOK, GraphTypeOK, Ids, Tasks

LEMMA GraphTypeStep ==
  ASSUME TypeOK, ControlOK, [Next]_vars
  PROVE  GraphTypeOK'
  <1> USE Constants DEF TypeOK, GraphTypeOK
  <1>1. ASSUME NEW a \in Actors, NEW o \in Options, CreatePhysicalTask(a, o)
        PROVE  GraphTypeOK'
    <2>1. Ids' = Ids \cup {created} /\ created \in Tasks
      BY <1>1, NewIds DEF CreatePhysicalTask
    <2>2. \A q : q \in Seq(Ids) => q \in Seq(Ids')
      BY <2>1
    <2>3. successors' \in [Tasks -> Seq(Ids')]
      BY <1>1, <2>2 DEF CreatePhysicalTask
    <2>4. created' \in 0 .. MaxTasks
      BY <1>1 DEF CreatePhysicalTask
    <2> QED BY <1>1, <2>1, <2>3, <2>4 DEF CreatePhysicalTask
  <1>2. ASSUME NEW a \in Actors, NEW p \in Tasks, NEW s \in Tasks, AddDependency(a, p, s)
        PROVE  GraphTypeOK'
    <2>1. s \in Ids
      BY <1>2, ContractNamesIds DEF AddDependency
    <2>2. successors' \in [Tasks -> Seq(Ids)]
      BY <1>2, <2>1 DEF AddDependency
    <2>3. predecessor_count' \in [Tasks -> Int]
      BY <1>2 DEF AddDependency
    <2> QED BY <1>2, <2>2, <2>3 DEF AddDependency, Ids
  <1>3. ASSUME NEW a \in Actors, NEW t \in Tasks, CommitTask(a, t) \/ Park(a, t)
        PROVE  GraphTypeOK'
    BY <1>3 DEF CommitTask, Park, Ids
  <1>4. ASSUME NEW a \in Actors, CommitDecrement(a)
        PROVE  GraphTypeOK'
    <2>1. arg[a] \in Tasks
      BY <1>4, NamedTasks DEF CommitDecrement
    <2>2. predecessor_count' \in [Tasks -> Int]
      BY <1>4, <2>1 DEF CommitDecrement, DecrementPredecessorCount
    <2> QED BY <1>4, <2>2 DEF CommitDecrement, Ids
  <1>5. ASSUME NEW w \in Workers, NotifyTaskCompletion(w)
        PROVE  GraphTypeOK'
    BY <1>5 DEF NotifyTaskCompletion, Ids
  <1>6. ASSUME NEW w \in Workers, ReleaseSuccessor(w)
        PROVE  GraphTypeOK'
    <2> DEFINE s == successors[task[w]][released[task[w]] + 1]
    <2>1. task[w] \in Tasks
      BY <1>6, NamedTasks DEF ReleaseSuccessor, BusyPoints
    <2>2. s \in Tasks
      <3>1. released[task[w]] + 1 \in 1 .. Len(successors[task[w]])
        BY <1>6, <2>1 DEF ReleaseSuccessor
      <3> QED BY <1>6, <3>1, NamedTasks DEF ReleaseSuccessor
    <2>3. predecessor_count' \in [Tasks -> Int]
      <3>1. predecessor_count' = [predecessor_count EXCEPT ![s] = @ - 1]
        BY <1>6 DEF ReleaseSuccessor, DecrementPredecessorCount
      <3> HIDE DEF s
      <3> QED BY <2>2, <3>1
    <2>4. released' \in [Tasks -> Nat]
      BY <1>6, <2>1 DEF ReleaseSuccessor
    <2> QED BY <1>6, <2>3, <2>4 DEF ReleaseSuccessor, Ids
  <1>7. CASE UNCHANGED graph
    BY <1>7 DEF graph, Ids
  <1> QED
    BY <1>1, <1>2, <1>3, <1>4, <1>5, <1>6, <1>7, GraphSteps

\* The steps that change the queues and the other shared state.
LEMMA QueueTypeStep ==
  ASSUME TypeOK, ControlOK, [Next]_vars
  PROVE  QueueTypeOK'
  <1> USE Constants DEF TypeOK, QueueTypeOK
  <1>1. ASSUME NEW a \in Actors, NEW o \in Options, CreatePhysicalTask(a, o)
        PROVE  QueueTypeOK'
    <2>1. Ids \subseteq Ids'
      BY <1>1, NewIds DEF CreatePhysicalTask
    <2>2. \A q : q \in Seq(Ids) => q \in Seq(Ids')
      BY <2>1
    <2> QED BY <1>1, <2>2 DEF CreatePhysicalTask, queues
  <1>2. ASSUME NEW a \in Actors, NEW p \in Tasks, NEW s \in Tasks, AddDependency(a, p, s)
        PROVE  QueueTypeOK'
    BY <1>2 DEF AddDependency, queues, Ids
  <1>3. ASSUME NEW a \in Actors, NEW t \in Tasks, CommitTask(a, t) \/ Park(a, t)
        PROVE  QueueTypeOK'
    BY <1>3 DEF CommitTask, Park, queues, Ids
  <1>4. ASSUME NEW a \in Actors, NEW t \in Ids, NEW c,
               DecrementPredecessorCount(a, t, c),
               UNCHANGED <<created, unfinished, sleeping, exception_ptr>>
        PROVE  QueueTypeOK'
    <2>1. Ids' = Ids /\ option[t] \in Options
      BY <1>4 DEF Ids, GraphTypeOK
    <2>2. CASE UNCHANGED <<queues, mutex>>
      BY <1>4, <2>1, <2>2 DEF queues
    <2>3. CASE option[t] \in Unstealable /\ UNCHANGED stealable /\ mutex' = a
               /\ unstealable' = [unstealable EXCEPT ![option[t].only] = Append(@, t)]
      <3>1. option[t].only \in Workers
        BY <2>1, <2>3, OptionFields
      <3>2. unstealable' \in [Workers -> Seq(Ids)]
        BY <2>3, <3>1
      <3> QED BY <1>4, <2>1, <2>3, <3>2
    <2>4. ASSUME NEW n \in Nodes, UNCHANGED unstealable, mutex' = a,
                 stealable' = [stealable EXCEPT ![n] = Append(@, t)]
          PROVE  QueueTypeOK'
      BY <1>4, <2>1, <2>4
    <2>5. \A w \in Workers : ThreadMapping[w] \in Nodes
      BY MappingAssumption
    <2>6. option[t] \in Stealable => option[t].recommended \in Workers \cup {None}
      BY <2>1, OptionFields
    <2> QED BY <1>4, <2>2, <2>3, <2>4, <2>5, <2>6 DEF DecrementPredecessorCount
  <1>5. ASSUME NEW a \in Actors, CommitDecrement(a) PROVE QueueTypeOK'
    BY <1>4, <1>5, NamedTasks DEF CommitDecrement
  <1>6. ASSUME NEW w \in Workers, ReleaseSuccessor(w) PROVE QueueTypeOK'
    <2>1. task[w] \in Tasks
      BY <1>6, NamedTasks DEF ReleaseSuccessor, BusyPoints
    <2>2. released[task[w]] + 1 \in 1 .. Len(successors[task[w]])
      BY <1>6, <2>1 DEF ReleaseSuccessor, GraphTypeOK
    <2>3. successors[task[w]][released[task[w]] + 1] \in Ids
      BY <1>6, <2>2, NamedTasks DEF ReleaseSuccessor
    <2> QED BY <1>4, <1>6, <2>3 DEF ReleaseSuccessor
  <1>7. ASSUME NEW a \in Actors, Notify(a) \/ Look(a) PROVE QueueTypeOK'
    BY <1>7 DEF Notify, Look, graph, queues, Ids
  <1>8. ASSUME NEW w \in Workers, WorkerStep(w), ~ReleaseSuccessor(w)
        PROVE  QueueTypeOK'
    <2>1. created' = created
      BY <1>8 DEF WorkerStep, EnterLoop, Loop, TakeRunnableTask, TakeUnstealable,
         TakeLocalStealable, Steal, SetIsSleeping, Check, Wait, ResetIsSleeping,
         FinishTask, NotifyAll, NotifyException, NotifyTaskCompletion, graph
    <2>2. Ids' = Ids
      BY <2>1 DEF Ids
    <2>3. CASE TakeRunnableTask(w)
      <3>1. \A i \in Nat : (ThreadMapping[w] + i) % NodeCount \in Nodes
        BY SMTT(30), MappingAssumption DEF Nodes
      <3>2. CASE TakeLocalStealable(w)
        <4> DEFINE q == stealable[ThreadMapping[w]]
        <4>1. ThreadMapping[w] \in Nodes /\ q \in Seq(Ids)
          BY MappingAssumption
        <4>2. q # <<>> => SubSeq(q, 1, Len(q) - 1) \in Seq(Ids)
          BY <4>1
        <4>3. stealable' \in [Nodes -> Seq(Ids)]
          BY <3>2, <4>1, <4>2 DEF TakeLocalStealable
        <4> QED BY <2>2, <3>2, <4>3 DEF TakeLocalStealable
      <3>3. ASSUME NEW c, NEW d, TakeUnstealable(w, c, d) PROVE QueueTypeOK'
        <4>1. unstealable[w] # <<>> => Tail(unstealable[w]) \in Seq(Ids)
          OBVIOUS
        <4>2. unstealable' \in [Workers -> Seq(Ids)]
          BY <3>3, <4>1 DEF TakeUnstealable
        <4> QED BY <2>2, <3>3, <4>2 DEF TakeUnstealable
      <3>4. ASSUME NEW c, NEW d, Steal(w, c, d) PROVE QueueTypeOK'
        <4> DEFINE n == (ThreadMapping[w] + scan[w]) % NodeCount
        <4>1. n \in Nodes
          <5>1. scan[w] \in Nat
            BY DEF ThreadTypeOK, Nodes
          <5> QED BY <3>1, <5>1
        <4>2. stealable[n] # <<>> => Tail(stealable[n]) \in Seq(Ids)
          BY <4>1
        <4>3. stealable' \in [Nodes -> Seq(Ids)]
          BY <3>4, <4>1, <4>2 DEF Steal
        <4> QED BY <2>2, <3>4, <4>3 DEF Steal
      <3> QED BY <2>3, <3>2, <3>3, <3>4 DEF TakeRunnableTask
    <2>4. CASE EnterLoop(w) \/ Loop(w) \/ SetIsSleeping(w) \/ Check(w) \/ Wait(w)
               \/ ResetIsSleeping(w) \/ NotifyTaskCompletion(w)
      BY <2>2, <2>4 DEF EnterLoop, Loop, SetIsSleeping, Check, Wait,
         ResetIsSleeping, NotifyTaskCompletion, queues
    <2>5. CASE FinishTask(w) \/ NotifyAll(w) \/ NotifyException(w)
      BY <2>2, <2>5 DEF FinishTask, NotifyAll, NotifyException, FirstException, queues
    <2> QED BY <1>8, <2>3, <2>4, <2>5 DEF WorkerStep
  <1>9. CASE StartWorkers \/ UNCHANGED vars
    BY <1>9 DEF StartWorkers, vars, graph, queues, Ids
  <1> QED
    BY <1>1, <1>2, <1>3, <1>5, <1>6, <1>7, <1>8, <1>9
    DEF Next, ActorStep, Body, Terminated

LEMMA ThreadTypeStep ==
  ASSUME TypeOK, ControlOK, [Next]_vars
  PROVE  ThreadTypeOK'
  <1> USE Constants DEF TypeOK, ThreadTypeOK
  <1>1. ASSUME NEW a \in Actors, NEW o \in Options, CreatePhysicalTask(a, o)
        PROVE  ThreadTypeOK'
    <2>1. Ids \subseteq Ids'
      BY <1>1, NewIds DEF CreatePhysicalTask
    <2> QED BY <1>1, <2>1 DEF CreatePhysicalTask, locals
  <1>2. ASSUME NEW a \in Actors, NEW p \in Tasks, NEW s \in Tasks, AddDependency(a, p, s)
        PROVE  ThreadTypeOK'
    BY <1>2 DEF AddDependency, locals, Ids
  <1>3. ASSUME NEW a \in Actors, NEW t \in Tasks, CommitTask(a, t) \/ Park(a, t)
        PROVE  ThreadTypeOK'
    <2>1. Ids' = Ids /\ t \in Ids
      BY <1>3 DEF CommitTask, Park, Ids, GraphTypeOK
    <2> QED BY <1>3, <2>1 DEF CommitTask, Park, locals, ControlPoints
  <1>4. ASSUME NEW a \in Actors, NEW t \in Ids, NEW c \in {"body", "release"},
               DecrementPredecessorCount(a, t, c),
               UNCHANGED <<created, task, scan, seen>>,
               arg' \in [Actors -> Ids \cup {None}]
        PROVE  ThreadTypeOK'
    <2>1. Ids' = Ids /\ option[t] \in Options
      BY <1>4 DEF Ids, GraphTypeOK
    <2>2. pc' \in [Actors -> ControlPoints] /\ left' \in [Actors -> 0 .. WorkerCount]
      <3>1. c \in ControlPoints /\ "notify" \in ControlPoints
        BY DEF ControlPoints
      <3>2. \/ pc' = [pc EXCEPT ![a] = c] /\ left' = left
            \/ pc' = [pc EXCEPT ![a] = "notify"] /\ left' = [left EXCEPT ![a] = 1]
            \/ pc' = [pc EXCEPT ![a] = "notify"] /\ left' = [left EXCEPT ![a] = WorkerCount]
        BY <1>4 DEF DecrementPredecessorCount
      <3>3. left' \in [Actors -> 0 .. WorkerCount]
        BY <3>2
      <3> QED BY <3>1, <3>2, <3>3
    <2>3. cont' \in [Actors -> {"body", "release", "loop", "exit"}]
      BY <1>4 DEF DecrementPredecessorCount
    <2>4. target' \in [Actors -> Workers]
      <3>1. \/ target' = target
            \/ \E w \in Workers : target' = [target EXCEPT ![a] = w]
        BY <1>4, <2>1, OptionFields DEF DecrementPredecessorCount
      <3> QED BY <3>1
    <2> QED BY <1>4, <2>1, <2>2, <2>3, <2>4
  <1>5. ASSUME NEW a \in Actors, CommitDecrement(a) PROVE ThreadTypeOK'
    BY <1>4, <1>5, NamedTasks DEF CommitDecrement
  <1>6. ASSUME NEW w \in Workers, ReleaseSuccessor(w) PROVE ThreadTypeOK'
    <2>1. task[w] \in Tasks
      BY <1>6, NamedTasks DEF ReleaseSuccessor, BusyPoints
    <2>2. released[task[w]] + 1 \in 1 .. Len(successors[task[w]])
      BY <1>6, <2>1 DEF ReleaseSuccessor, GraphTypeOK
    <2>3. successors[task[w]][released[task[w]] + 1] \in Ids
      BY <1>6, <2>2, NamedTasks DEF ReleaseSuccessor
    <2> QED BY <1>4, <1>6, <2>3 DEF ReleaseSuccessor
  <1>7. ASSUME NEW a \in Actors, Notify(a) PROVE ThreadTypeOK'
    <2>1. target[a] \in 0 .. WorkerCount - 1 /\ left[a] \in 0 .. WorkerCount /\ left[a] # 0
      BY <1>7 DEF Notify, ControlOK, Workers
    <2>2. (target[a] + 1) % WorkerCount \in Workers /\ left[a] - 1 \in 0 .. WorkerCount
      BY <2>1 DEF Workers
    <2>3. target' \in [Actors -> Workers] /\ left' \in [Actors -> 0 .. WorkerCount]
      BY <1>7, <2>2 DEF Notify
    <2>4. pc' \in [Actors -> ControlPoints]
      BY <1>7 DEF Notify, ControlOK, ControlPoints
    <2> QED BY <1>7, <2>3, <2>4 DEF Notify, graph, Ids
  <1>8. ASSUME NEW w \in Workers, WorkerStep(w), ~ReleaseSuccessor(w)
        PROVE  ThreadTypeOK'
    <2>1. created' = created
      BY <1>8 DEF WorkerStep, EnterLoop, Loop, TakeRunnableTask, TakeUnstealable,
         TakeLocalStealable, Steal, SetIsSleeping, Check, Wait, ResetIsSleeping,
         FinishTask, NotifyAll, NotifyException, NotifyTaskCompletion, graph
    <2>2. Ids' = Ids
      BY <2>1 DEF Ids
    <2>3. CASE TakeRunnableTask(w)
      <3>1. CASE TakeLocalStealable(w)
        <4> DEFINE q == stealable[ThreadMapping[w]]
        <4>1. q \in Seq(Ids)
          BY MappingAssumption DEF QueueTypeOK
        <4>2. q # <<>> => q[Len(q)] \in Ids
          BY <4>1
        <4> QED BY ZenonT(60), <2>2, <3>1, <4>2 DEF TakeLocalStealable, ControlPoints
      <3>2. ASSUME NEW c \in ControlPoints, NEW d \in ControlPoints, TakeUnstealable(w, c, d)
            PROVE  ThreadTypeOK'
        <4>1. unstealable[w] # <<>> => Head(unstealable[w]) \in Ids
          BY DEF QueueTypeOK
        <4>2. task' \in [Actors -> Ids \cup {None}]
          BY <3>2, <4>1 DEF TakeUnstealable
        <4>3. pc' \in [Actors -> ControlPoints]
          <5>1. pc' = [pc EXCEPT ![w] = c] \/ pc' = [pc EXCEPT ![w] = d]
            BY <3>2 DEF TakeUnstealable
          <5> QED BY <5>1
        <4> QED BY <2>2, <3>2, <4>2, <4>3 DEF TakeUnstealable
      <3>3. ASSUME NEW c \in ControlPoints, NEW d \in ControlPoints, Steal(w, c, d)
            PROVE  ThreadTypeOK'
        <4> DEFINE n == (ThreadMapping[w] + scan[w]) % NodeCount
        <4>1. n \in Nodes /\ (scan[w] + 1) % NodeCount \in Nodes
          <5>1. scan[w] \in Nat /\ ThreadMapping[w] \in Nat
            BY MappingAssumption DEF Nodes
          <5> QED BY <5>1 DEF Nodes
        <4>2. stealable[n] # <<>> => Head(stealable[n]) \in Ids
          BY <4>1 DEF QueueTypeOK
        <4>3. task' \in [Actors -> Ids \cup {None}]
          <5>1. task' = task \/ \E t \in Ids : task' = [task EXCEPT ![w] = t]
            BY <3>3, <4>2 DEF Steal
          <5> QED BY <5>1
        <4>4. pc' \in [Actors -> ControlPoints]
          <5>1. \/ pc' = [pc EXCEPT ![w] = c] \/ pc' = [pc EXCEPT ![w] = d]
                \/ pc' = pc
            BY <3>3 DEF Steal
          <5> QED BY <5>1
        <4>5. scan' \in [Actors -> Nodes]
          <5>1. \/ scan' = [scan EXCEPT ![w] = 0]
                \/ scan' = [scan EXCEPT ![w] = (scan[w] + 1) % NodeCount]
            BY <3>3 DEF Steal
          <5> QED BY <4>1, <5>1
        <4> QED BY <2>2, <3>3, <4>3, <4>4, <4>5 DEF Steal
      <3> QED BY <2>3, <3>1, <3>2, <3>3 DEF TakeRunnableTask, ControlPoints
    <2>4. CASE EnterLoop(w) \/ Loop(w) \/ SetIsSleeping(w) \/ Check(w) \/ Wait(w)
               \/ ResetIsSleeping(w) \/ NotifyTaskCompletion(w)
      BY <2>2, <2>4 DEF EnterLoop, Loop, SetIsSleeping, Check, Wait,
         ResetIsSleeping, NotifyTaskCompletion, locals, ControlPoints
    <2>5. CASE FinishTask(w) \/ NotifyException(w)
      <3>1. pc' \in [Actors -> ControlPoints]
        <4>1. pc' = [pc EXCEPT ![w] = "notify_all"] \/ pc' = [pc EXCEPT ![w] = "loop"]
          BY <2>5 DEF FinishTask, NotifyException
        <4> QED BY <4>1 DEF ControlPoints
      <3>2. /\ left' \in [Actors -> 0 .. WorkerCount]
            /\ cont' \in [Actors -> {"body", "release", "loop", "exit"}]
        <4>1. /\ left' = left \/ left' = [left EXCEPT ![w] = WorkerCount]
              /\ \/ cont' = cont \/ cont' = [cont EXCEPT ![w] = "loop"]
                 \/ cont' = [cont EXCEPT ![w] = "exit"]
          BY <2>5 DEF FinishTask, NotifyException
        <4> QED BY <4>1
      <3>3. task' \in [Actors -> Ids \cup {None}]
        <4>1. task' = task \/ task' = [task EXCEPT ![w] = None]
          BY <2>5 DEF FinishTask, NotifyException
        <4> QED BY <2>2, <4>1
      <3> QED BY <2>2, <2>5, <3>1, <3>2, <3>3 DEF FinishTask, NotifyException
    <2>6. CASE NotifyAll(w)
      <3>1. target[w] = WorkerCount - left[w] /\ left[w] \in 1 .. WorkerCount
            /\ cont[w] \in ControlPoints
        BY <2>6 DEF NotifyAll, ControlOK, ControlPoints
      <3>2. left[w] # 1 => target[w] + 1 \in Workers
        BY <3>1 DEF Workers
      <3> QED BY <2>2, <2>6, <3>1, <3>2 DEF NotifyAll
    <2> QED BY <1>8, <2>3, <2>4, <2>5, <2>6 DEF WorkerStep
  <1>9. CASE StartWorkers \/ UNCHANGED vars
    BY <1>9 DEF StartWorkers, vars, graph, locals, Ids, ControlPoints
  <1>10. ASSUME NEW a \in Actors, Look(a) PROVE ThreadTypeOK'
    BY <1>10 DEF Look, graph, Ids
  <1> QED
    BY <1>1, <1>2, <1>3, <1>5, <1>6, <1>7, <1>8, <1>9, <1>10
    DEF Next, ActorStep, Body, Terminated

\* What the queues hand out are issued identifiers.
LEMMA TakeFound ==
  ASSUME TypeOK, NEW w \in Workers
  PROVE  /\ unstealable[w] # <<>> => Head(unstealable[w]) \in Ids
         /\ LET q == stealable[ThreadMapping[w]] IN q # <<>> => q[Len(q)] \in Ids
         /\ LET n == (ThreadMapping[w] + scan[w]) % NodeCount IN
            n \in Nodes /\ (stealable[n] # <<>> => Head(stealable[n]) \in Ids)
  <1> USE Constants DEF TypeOK, QueueTypeOK
  <1>1. unstealable[w] # <<>> => Head(unstealable[w]) \in Ids
    OBVIOUS
  <1>2. LET q == stealable[ThreadMapping[w]] IN q # <<>> => q[Len(q)] \in Ids
    <2>1. stealable[ThreadMapping[w]] \in Seq(Ids)
      BY MappingAssumption
    <2> QED BY <2>1
  <1>3. LET n == (ThreadMapping[w] + scan[w]) % NodeCount IN
        n \in Nodes /\ (stealable[n] # <<>> => Head(stealable[n]) \in Ids)
    <2> DEFINE n == (ThreadMapping[w] + scan[w]) % NodeCount
    <2>1. scan[w] \in Nat /\ ThreadMapping[w] \in Nat
      BY MappingAssumption DEF Nodes, ThreadTypeOK
    <2>2. \A i, j \in Nat : (i + j) % NodeCount \in Nodes
      BY DEF Nodes
    <2>3. n \in Nodes
      BY <2>1, <2>2
    <2> QED BY <2>3
  <1> QED BY <1>1, <1>2, <1>3

LEMMA ControlStep ==
  ASSUME TypeOK, ControlOK, [Next]_vars
  PROVE  ControlOK'
  <1> USE Constants DEF TypeOK, ThreadTypeOK, ControlOK, FreePoints, BusyPoints, SleepPoints
  <1>1. ASSUME NEW a \in Actors, NEW o \in Options, CreatePhysicalTask(a, o)
        PROVE  ControlOK'
    BY <1>1 DEF CreatePhysicalTask, locals
  <1>2. ASSUME NEW a \in Actors, NEW p \in Tasks, NEW s \in Tasks, AddDependency(a, p, s)
        PROVE  ControlOK'
    BY <1>2 DEF AddDependency, locals
  <1>3. ASSUME NEW a \in Actors, NEW t \in Tasks, CommitTask(a, t)
        PROVE  ControlOK'
    BY <1>3, NamesAssumption DEF CommitTask
  <1>4. ASSUME NEW a \in Actors, NEW t \in Tasks, Park(a, t)
        PROVE  ControlOK'
    BY <1>4 DEF Park, locals
  <1>5. ASSUME NEW a \in Actors, CommitDecrement(a) PROVE ControlOK'
    <2>1. /\ pc[a] = "commit" /\ mutex = None
          /\ cont' = [cont EXCEPT ![a] = "body"] /\ arg' = [arg EXCEPT ![a] = None]
          /\ UNCHANGED <<task, sleeping>>
          /\ \/ pc' = [pc EXCEPT ![a] = "body"] /\ UNCHANGED <<mutex, target, left>>
             \/ /\ pc' = [pc EXCEPT ![a] = "notify"] /\ mutex' = a
                /\ \E v : target' = [target EXCEPT ![a] = v]
                /\ \E n \in {1, WorkerCount} : left' = [left EXCEPT ![a] = n]
      BY ZenonT(60), <1>5 DEF CommitDecrement, DecrementPredecessorCount
    <2> QED BY <2>1
  <1>6. ASSUME NEW w \in Workers, ReleaseSuccessor(w) PROVE ControlOK'
    <2>1. /\ pc[w] = "release" /\ mutex = None
          /\ cont' = [cont EXCEPT ![w] = "release"]
          /\ UNCHANGED <<task, arg, sleeping>>
          /\ \/ pc' = [pc EXCEPT ![w] = "release"] /\ UNCHANGED <<mutex, target, left>>
             \/ /\ pc' = [pc EXCEPT ![w] = "notify"] /\ mutex' = w
                /\ \E v : target' = [target EXCEPT ![w] = v]
                /\ \E n \in {1, WorkerCount} : left' = [left EXCEPT ![w] = n]
      BY ZenonT(60), <1>6 DEF ReleaseSuccessor, DecrementPredecessorCount
    <2> QED BY <2>1
  <1>7. ASSUME NEW a \in Actors, Notify(a) PROVE ControlOK'
    BY <1>7 DEF Notify
  <1>8. ASSUME NEW w \in Workers, WorkerStep(w), ~ReleaseSuccessor(w)
        PROVE  ControlOK'
    <2>1. CASE TakeRunnableTask(w)
      <3>1. /\ pc[w] \in {"take_unstealable", "take_local", "steal",
                         "retake_unstealable", "resteal"}
            /\ UNCHANGED <<arg, mutex, sleeping, target, left, cont>>
            /\ \/ /\ task' = task
                  /\ \E c \in {"take_local", "steal", "set_sleeping", "resteal", "wait"} :
                       pc' = [pc EXCEPT ![w] = c] \/ pc' = pc
                  /\ pc[w] \in {"retake_unstealable", "resteal"} =>
                       pc' = pc \/ \E c \in {"resteal", "wait"} : pc' = [pc EXCEPT ![w] = c]
               \/ /\ \E t \in Ids : task' = [task EXCEPT ![w] = t]
                  /\ IF pc[w] \in {"retake_unstealable", "resteal"}
                       THEN pc' = [pc EXCEPT ![w] = "reset"]
                       ELSE pc' = [pc EXCEPT ![w] = "body"]
        BY <2>1, TakeFound DEF TakeRunnableTask, TakeUnstealable, TakeLocalStealable, Steal
      <3>2. None \notin Ids
        BY NamedTasks, NamesAssumption
      <3> QED BY <3>1, <3>2
    <2>2. CASE EnterLoop(w)
      BY <2>2 DEF EnterLoop, locals
    <2>3. CASE Loop(w)
      BY <2>3 DEF Loop, locals
    <2>4. CASE SetIsSleeping(w)
      BY <2>4 DEF SetIsSleeping, locals
    <2>5. CASE Check(w) \/ Wait(w)
      BY <2>5 DEF Check, Wait, locals
    <2>6. CASE ResetIsSleeping(w)
      BY <2>6 DEF ResetIsSleeping, locals
    <2>7. CASE NotifyTaskCompletion(w)
      BY <2>7 DEF NotifyTaskCompletion, locals
    <2>8. CASE FinishTask(w)
      BY <2>8 DEF FinishTask
    <2>9. CASE NotifyAll(w)
      BY <2>9 DEF NotifyAll
    <2>10. CASE NotifyException(w)
      BY <2>10 DEF NotifyException
    <2> QED BY <1>8, <2>1, <2>2, <2>3, <2>4, <2>5, <2>6, <2>7, <2>8, <2>9, <2>10 DEF WorkerStep
  <1>9. CASE StartWorkers
    BY <1>9 DEF StartWorkers, locals
  <1>10. CASE UNCHANGED vars
    BY <1>10 DEF vars, locals
  <1>11. ASSUME NEW a \in Actors, Look(a) PROVE ControlOK'
    BY <1>11 DEF Look
  <1> QED
    BY <1>1, <1>2, <1>3, <1>4, <1>5, <1>6, <1>7, <1>8, <1>9, <1>10, <1>11
    DEF Next, ActorStep, Body, Terminated

\* Types and control, for every instance of the constants.
THEOREM TypeCorrect == Spec => [](TypeOK /\ ControlOK)
  <1>1. TypeOK /\ ControlOK /\ [Next]_vars => (TypeOK /\ ControlOK)'
    BY GraphTypeStep, QueueTypeStep, ThreadTypeStep, ControlStep DEF TypeOK
  <1> QED BY <1>1, TypeInit, PTL DEF Spec

\* The type invariant of the scheduler: only issued identifiers are ever
\* queued, run, recorded as successors or committed, the loop indices of
\* steal_task and of the notification loops stay in range.
THEOREM TypeInvariant == Spec => []TypeOK
  BY TypeCorrect, PTL

-----------------------------------------------------------------------------
(* The counting argument of the physical graph: predecessor_count is what  *)
(* is still owed to a vertex, hence a task is released exactly once, after *)
(* its commit and its predecessors, and no thread names a vertex that is   *)
(* gone; and the scheduler therefore implements TaskGraph.                 *)

\* What is recorded in the graph refers to vertices that are still there.
GraphOK ==
  /\ \A t \in vertices : released[t] = 0
  /\ \A t \in Tasks :
       released[t] <= Len(successors[t]) /\ Len(successors[t]) <= MaxSuccessors
  /\ \A t \in Tasks : t \notin Ids => successors[t] = <<>>
  /\ \A t \in Tasks : CommitPending(t) \/ Tokens(t) # {} => t \in vertices
  /\ \A a \in Actors : arg[a] # None =>
       owner[arg[a]] = None /\ \A b \in Actors : arg[a] = arg[b] => a = b

\* A task that is queued or taken owes nothing any more.
PlacesOK ==
  /\ \A t \in Tasks : Queued(t) => t \in vertices /\ predecessor_count[t] = 0
  /\ \A w \in Workers : task[w] # None => predecessor_count[task[w]] = 0

\* A worker's task is in the graph until notify_task_completion erases it.
PhaseOK ==
  \A w \in Workers :
    /\ pc[w] \in {"body", "commit", "reset"} /\ task[w] # None => task[w] \in vertices
    /\ pc[w] = "notify" /\ cont[w] = "body" => task[w] \in vertices
    /\ pc[w] = "notify_all" /\ task[w] # None => task[w] \in vertices
    /\ pc[w] = "exit" /\ task[w] # None => task[w] \in vertices
    /\ pc[w] = "release" => task[w] \notin vertices
    /\ pc[w] = "notify" /\ cont[w] = "release" => task[w] \notin vertices

GraphInv == GraphOK /\ CountExact /\ PlacesOK /\ HeldOnce /\ PhaseOK

-----------------------------------------------------------------------------
(* Tokens.                                                                 *)

LEMMA TokensFinite ==
  ASSUME NEW t
  PROVE  IsFiniteSet(Tokens(t)) /\ Cardinality(Tokens(t)) \in Nat
  <1>1. IsFiniteSet(Tasks) /\ IsFiniteSet(1 .. MaxSuccessors)
    BY FS_Interval, Constants DEF Tasks
  <1>2. IsFiniteSet(Tasks \X (1 .. MaxSuccessors))
    BY <1>1, FS_Product
  <1>3. Tokens(t) \in SUBSET (Tasks \X (1 .. MaxSuccessors))
    BY DEF Tokens
  <1> QED BY <1>2, <1>3, FS_Subset, FS_CardinalityType

\* Nothing is owed to t exactly when its count is zero.
LEMMA ZeroCount ==
  ASSUME CountExact, NEW t \in vertices
  PROVE  /\ predecessor_count[t] \in Nat
         /\ predecessor_count[t] = 0 <=> Tokens(t) = {} /\ ~CommitPending(t)
  <1>1. IsFiniteSet(Tokens(t)) /\ Cardinality(Tokens(t)) \in Nat
    BY TokensFinite
  <1>2. Cardinality(Tokens(t)) = 0 <=> Tokens(t) = {}
    BY <1>1, FS_EmptySet
  <1> QED BY <1>1, <1>2 DEF CountExact

LEMMA SameTokens ==
  ASSUME UNCHANGED <<successors, released>>
  PROVE  \A t : Tokens(t)' = Tokens(t)
  BY DEF Tokens

LEMMA AddedToken ==
  ASSUME TypeOK, GraphOK, NEW p \in vertices, NEW s \in Tasks,
         Len(successors[p]) < MaxSuccessors,
         successors' = [successors EXCEPT ![p] = Append(@, s)],
         released' = released
  PROVE  /\ \A t \in Tasks \ {s} : Tokens(t)' = Tokens(t)
         /\ Tokens(s)' = Tokens(s) \cup {<<p, Len(successors[p]) + 1>>}
         /\ <<p, Len(successors[p]) + 1>> \notin Tokens(s)
  <1> DEFINE n == Len(successors[p]) + 1
  <1>1. p \in Tasks /\ released[p] = 0 /\ n \in 1 .. MaxSuccessors
    <2>1. p \in Tasks
      BY Constants DEF TypeOK, GraphTypeOK, Ids, Tasks
    <2>2. Len(successors[p]) \in Nat
      BY <2>1 DEF TypeOK, GraphTypeOK
    <2> QED BY <2>1, <2>2, Constants DEF GraphOK
  <1>2. successors[p] \in Seq(Ids) /\ DOMAIN successors = Tasks
    BY <1>1 DEF TypeOK, GraphTypeOK
  <1>3. /\ Len(successors'[p]) = n /\ successors'[p][n] = s
        /\ \A i \in 1 .. n - 1 : successors'[p][i] = successors[p][i]
        /\ \A q \in Tasks \ {p} : successors'[q] = successors[q]
    BY <1>1, <1>2
  <1>4. ASSUME NEW t \in Tasks, NEW q \in Tasks, NEW i \in 1 .. MaxSuccessors
        PROVE  <<q, i>> \in Tokens(t)' <=>
                 <<q, i>> \in Tokens(t) \/ (q = p /\ i = n /\ t = s)
    <2>1. CASE q # p
      BY <1>3, <2>1 DEF Tokens
    <2>2. CASE q = p /\ i = n
      BY <1>1, <1>3, <2>2 DEF Tokens
    <2>3. CASE q = p /\ i # n
      BY <1>1, <1>3, <2>3 DEF Tokens
    <2> QED BY <2>1, <2>2, <2>3
  <1>5. \A t : /\ \A d \in Tokens(t) : \E q \in Tasks, i \in 1 .. MaxSuccessors : d = <<q, i>>
               /\ \A d \in Tokens(t)' : \E q \in Tasks, i \in 1 .. MaxSuccessors : d = <<q, i>>
    BY DEF Tokens
  <1>6. <<p, n>> \notin Tokens(s)
    BY <1>1 DEF Tokens
  <1>7. ASSUME NEW t \in Tasks \ {s} PROVE Tokens(t)' = Tokens(t)
    <2>1. ASSUME NEW d PROVE d \in Tokens(t)' <=> d \in Tokens(t)
      BY <1>4, <1>5
    <2> QED BY <2>1
  <1>8. Tokens(s)' = Tokens(s) \cup {<<p, n>>}
    BY <1>1, <1>4, <1>5
  <1> QED BY <1>6, <1>7, <1>8

LEMMA RemovedToken ==
  ASSUME TypeOK, GraphOK, NEW p \in Tasks, released[p] < Len(successors[p]),
         released' = [released EXCEPT ![p] = @ + 1],
         successors' = successors,
         NEW s, s = successors[p][released[p] + 1]
  PROVE  /\ \A t \in Tasks \ {s} : Tokens(t)' = Tokens(t)
         /\ Tokens(s)' = Tokens(s) \ {<<p, released[p] + 1>>}
         /\ <<p, released[p] + 1>> \in Tokens(s)
  <1> DEFINE n == released[p] + 1
  <1>1. released[p] \in Nat /\ n \in 1 .. Len(successors[p]) /\ n \in 1 .. MaxSuccessors
    BY Constants DEF TypeOK, GraphTypeOK, GraphOK
  <1>2. released'[p] = n /\ \A q \in Tasks \ {p} : released'[q] = released[q]
    BY DEF TypeOK, GraphTypeOK
  <1>3. ASSUME NEW t, NEW q \in Tasks, NEW i \in 1 .. MaxSuccessors
        PROVE  <<q, i>> \in Tokens(t)' <=>
                 <<q, i>> \in Tokens(t) /\ ~(q = p /\ i = n)
    BY <1>1, <1>2 DEF Tokens
  <1>4. \A t : /\ \A d \in Tokens(t) : \E q \in Tasks, i \in 1 .. MaxSuccessors : d = <<q, i>>
               /\ \A d \in Tokens(t)' : \E q \in Tasks, i \in 1 .. MaxSuccessors : d = <<q, i>>
    BY DEF Tokens
  <1>5. <<p, n>> \in Tokens(s) /\ \A t : <<p, n>> \in Tokens(t) => t = s
    BY <1>1 DEF Tokens
  <1>6. ASSUME NEW t \in Tasks \ {s} PROVE Tokens(t)' = Tokens(t)
    <2>1. ASSUME NEW d PROVE d \in Tokens(t)' <=> d \in Tokens(t)
      BY <1>3, <1>4, <1>5
    <2> QED BY <2>1
  <1>7. Tokens(s)' = Tokens(s) \ {<<p, n>>}
    <2>1. ASSUME NEW d PROVE d \in Tokens(s)' <=> d \in Tokens(s) /\ d # <<p, n>>
      BY <1>3, <1>4, <1>5
    <2> QED BY <2>1
  <1> QED BY <1>5, <1>6, <1>7

-----------------------------------------------------------------------------
(* The steps.                                                              *)

LEMMA GraphInit == Init => GraphInv
  <1> SUFFICES ASSUME Init PROVE GraphInv
    OBVIOUS
  <1> USE Constants DEF Init
  <1>1. \A t : Tokens(t) = {}
    BY DEF Tokens
  <1>2. \A t \in Tasks : ~CommitPending(t) /\ ~Queued(t)
    BY NamesAssumption DEF CommitPending, Queued
  <1>3. GraphOK
    BY <1>1, <1>2 DEF GraphOK
  <1>4. CountExact
    BY DEF CountExact
  <1>5. PlacesOK /\ HeldOnce /\ PhaseOK
    BY <1>2 DEF PlacesOK, HeldOnce, PhaseOK
  <1> QED BY <1>3, <1>4, <1>5 DEF GraphInv

\* A dependency is only ever added to a vertex that has not been released.
LEMMA ContractLive ==
  ASSUME TypeOK, ControlOK, GraphInv, NEW a \in Actors, NEW p \in Tasks,
         NEW s \in Tasks, pc[a] = "body", DependencyContract(a, p, s)
  PROVE  s \in vertices /\ predecessor_count[s] \in Nat /\ predecessor_count[s] > 0
  <1> USE Constants DEF GraphInv
  <1>1. CommitPending(s) \/ Tokens(s) # {}
    <2>1. CASE owner[s] = a
      BY <2>1 DEF CommitPending
    <2>2. CASE a # Main /\ s # task[a] /\ Downstream(task[a], s)
      <3>1. task[a] \in Tasks
        BY <2>2, NamedTasks DEF BusyPoints
      <3>2. PICK q \in Tasks : Dependency(q, s)
        BY <2>2, <3>1, DownstreamHasPredecessor
      <3>3. PICK i \in 1 .. Len(successors[q]) : successors[q][i] = s
        BY <3>2 DEF Dependency
      <3>4. q \in vertices /\ released[q] = 0 /\ Len(successors[q]) <= MaxSuccessors
        BY <3>2 DEF Dependency, GraphOK
      <3>5. Len(successors[q]) \in Nat
        BY DEF TypeOK, GraphTypeOK
      <3>6. <<q, i>> \in Tokens(s)
        BY <3>3, <3>4, <3>5 DEF Tokens
      <3> QED BY <3>6
    <2> QED BY <2>1, <2>2 DEF DependencyContract
  <1>2. s \in vertices
    BY <1>1 DEF GraphOK
  <1> QED BY <1>1, <1>2, ZeroCount

\* Steps that leave the graph, the queues and the threads' tasks alone.
LEMMA FrameStep ==
  ASSUME GraphOK, CountExact, PlacesOK, HeldOnce,
         UNCHANGED <<graph, queues, task, arg>>
  PROVE  (GraphOK /\ CountExact /\ PlacesOK /\ HeldOnce)'
  <1> USE DEF graph, queues
  <1>1. \A t : Tokens(t)' = Tokens(t)
    BY SameTokens
  <1>2. \A t : CommitPending(t)' = CommitPending(t) /\ Queued(t)' = Queued(t)
    BY DEF CommitPending, Queued
  <1>3. GraphOK'
    BY <1>1, <1>2 DEF GraphOK, Ids
  <1>4. CountExact'
    BY <1>1, <1>2 DEF CountExact
  <1>5. PlacesOK'
    BY <1>2 DEF PlacesOK
  <1>6. HeldOnce'
    BY <1>2 DEF HeldOnce
  <1> QED BY <1>3, <1>4, <1>5, <1>6

LEMMA CreateStep ==
  ASSUME TypeOK, ControlOK, GraphInv, NEW a \in Actors, NEW o \in Options,
         CreatePhysicalTask(a, o)
  PROVE  GraphInv'
  <1> USE Constants DEF GraphInv, CreatePhysicalTask
  <1> PICK c : c = created
    OBVIOUS
  <1>1. Ids' = Ids \cup {c} /\ c \in Tasks /\ c \notin Ids /\ c \notin vertices
    BY NewIds DEF TypeOK, GraphTypeOK
  <1>2. \A t : Tokens(t)' = Tokens(t)
    BY SameTokens
  <1>3. Tokens(c) = {} /\ Cardinality(Tokens(c)) = 0
    BY <1>1, FS_EmptySet DEF GraphOK
  <1>4. \A t \in Tasks : t # c => (CommitPending(t)' <=> CommitPending(t))
    BY <1>1 DEF CommitPending, TypeOK, GraphTypeOK, locals
  <1>5. owner'[c] = a /\ predecessor_count'[c] = 1
    BY <1>1 DEF TypeOK, GraphTypeOK
  <1>6. CommitPending(c)'
    BY <1>5 DEF CommitPending
  <1>7. c # None /\ (\A b \in Actors : arg[b] # c) /\ \A w \in Workers : task[w] # c
    BY <1>1, NamesAssumption DEF TypeOK, ThreadTypeOK
  <1>8. \A t : Queued(t)' = Queued(t)
    BY DEF Queued, queues
  <1>9. GraphOK'
    BY <1>1, <1>2, <1>3, <1>4, <1>6, <1>7 DEF GraphOK, TypeOK, GraphTypeOK, locals
  <1>10. CountExact'
    <2>1. ASSUME NEW t \in vertices
          PROVE  /\ predecessor_count'[t] = predecessor_count[t]
                 /\ CommitPending(t)' <=> CommitPending(t)
      <3>0. vertices \subseteq Tasks
        <4> HIDE DEF GraphInv, CreatePhysicalTask
        <4> QED BY NamedTasks DEF TypeOK, GraphTypeOK, Ids
      <3>1. t \in Tasks /\ t # c
        BY <1>1, <3>0
      <3>2. predecessor_count'[t] = predecessor_count[t]
        BY <3>1 DEF TypeOK, GraphTypeOK
      <3> QED BY <1>4, <3>1, <3>2 DEF CommitPending
    <2> QED BY <1>2, <1>3, <1>5, <1>6, <2>1 DEF CountExact
  <1>11. PlacesOK'
    BY <1>1, <1>8 DEF PlacesOK, TypeOK, GraphTypeOK, ThreadTypeOK, locals
  <1>12. HeldOnce'
    BY <1>1, <1>8 DEF HeldOnce, TypeOK, GraphTypeOK, queues, locals
  <1>13. PhaseOK'
    BY <1>1, <1>7 DEF PhaseOK, locals
  <1> QED BY <1>9, <1>10, <1>11, <1>12, <1>13

LEMMA AddDependencyStep ==
  ASSUME TypeOK, ControlOK, GraphInv, NEW a \in Actors, NEW p \in Tasks,
         NEW s \in Tasks, AddDependency(a, p, s)
  PROVE  GraphInv'
  <1> USE Constants DEF GraphInv, AddDependency
  <1>1. s \in vertices /\ predecessor_count[s] \in Nat /\ predecessor_count[s] > 0
    BY ContractLive
  <1>2. /\ \A t \in Tasks \ {s} : Tokens(t)' = Tokens(t)
        /\ Tokens(s)' = Tokens(s) \cup {<<p, Len(successors[p]) + 1>>}
        /\ <<p, Len(successors[p]) + 1>> \notin Tokens(s)
    BY AddedToken
  <1>3. \A t : CommitPending(t)' = CommitPending(t) /\ Queued(t)' = Queued(t)
    BY DEF CommitPending, Queued, queues, locals
  <1>4. Cardinality(Tokens(s)') = Cardinality(Tokens(s)) + 1 /\ Cardinality(Tokens(s)) \in Nat
    BY ZenonT(60), <1>2, TokensFinite, FS_AddElement
  <1>5. /\ predecessor_count'[s] = predecessor_count[s] + 1
        /\ \A t \in Tasks \ {s} : predecessor_count'[t] = predecessor_count[t]
    BY DEF TypeOK, GraphTypeOK
  <1>6. vertices \subseteq Tasks /\ Ids' = Ids /\ p \in Ids
    BY NamedTasks DEF TypeOK, GraphTypeOK, Ids
  <1>7. \A t \in Tasks : /\ Len(successors'[t]) <= MaxSuccessors
                         /\ released[t] <= Len(successors'[t])
                         /\ t \notin Ids => successors'[t] = <<>>
    BY <1>6 DEF GraphOK, TypeOK, GraphTypeOK
  <1>8. GraphOK'
    BY <1>1, <1>2, <1>3, <1>6, <1>7 DEF GraphOK, locals
  <1>9. CountExact'
    <2>1. ASSUME NEW t \in vertices
          PROVE  predecessor_count'[t] =
                   Cardinality(Tokens(t)') + (IF CommitPending(t) THEN 1 ELSE 0)
      <3>1. t \in Tasks
        BY <1>6
      <3>2. CASE t = s
        BY <1>4, <1>5, <3>2 DEF CountExact
      <3>3. CASE t # s
        BY <1>2, <1>5, <3>1, <3>3 DEF CountExact
      <3> QED BY <3>2, <3>3
    <2> QED BY <1>3, <2>1 DEF CountExact
  <1>10. PlacesOK'
    BY <1>1, <1>3, <1>5, <1>6 DEF PlacesOK, locals, TypeOK, ThreadTypeOK, Ids, Tasks
  <1>11. HeldOnce'
    BY <1>1, <1>3, <1>5, <1>6 DEF HeldOnce, queues, locals
  <1>12. PhaseOK'
    BY DEF PhaseOK, locals
  <1> QED BY <1>8, <1>9, <1>10, <1>11, <1>12

LEMMA CommitTaskStep ==
  ASSUME TypeOK, ControlOK, GraphInv, NEW a \in Actors, NEW t \in Tasks,
         CommitTask(a, t)
  PROVE  GraphInv'
  <1> USE Constants DEF GraphInv, CommitTask
  <1>1. owner[t] # None /\ t \in vertices /\ t # None /\ Ids' = Ids
    BY NamesAssumption DEF GraphOK, CommitPending, Ids
  <1>2. \A u : Tokens(u)' = Tokens(u)
    BY SameTokens
  <1>3. \A b \in Actors : arg[b] # t /\ (b # a => arg'[b] = arg[b])
    BY <1>1 DEF GraphOK, TypeOK, ThreadTypeOK
  <1>4. arg'[a] = t /\ owner'[t] = None /\ arg[a] = None
    BY DEF TypeOK, ThreadTypeOK, GraphTypeOK, ControlOK
  <1>5. \A u \in Tasks \ {t} : owner'[u] = owner[u]
    BY DEF TypeOK, GraphTypeOK
  <1>6. ASSUME NEW u \in Tasks PROVE CommitPending(u)' <=> CommitPending(u)
    <2>1. CASE u = t
      BY <1>1, <1>4, <2>1 DEF CommitPending
    <2>2. CASE u # t
      BY <1>3, <1>4, <1>5, <2>2, NamesAssumption DEF CommitPending
    <2> QED BY <2>1, <2>2
  <1>7. GraphOK'
    <2>1. ASSUME NEW b \in Actors, arg'[b] # None
          PROVE  owner'[arg'[b]] = None /\ \A d \in Actors : arg'[b] = arg'[d] => b = d
      <3>1. CASE b = a
        BY <1>3, <1>4, <3>1
      <3>2. CASE b # a
        <4>1. arg'[b] = arg[b] /\ arg[b] \in Tasks /\ arg[b] # t /\ owner[arg[b]] = None
          BY <1>3, <2>1, <3>2, NamedTasks DEF GraphOK, TypeOK, ThreadTypeOK
        <4>2. owner'[arg[b]] = None
          BY <1>5, <4>1
        <4>3. ASSUME NEW d \in Actors, arg'[b] = arg'[d] PROVE b = d
          <5>1. d # a
            BY <1>4, <4>1, <4>3
          <5>2. arg[b] = arg[d] /\ arg[b] # None
            BY <1>3, <2>1, <4>1, <4>3, <5>1
          <5> QED BY <5>2 DEF GraphOK
        <4> QED BY <4>1, <4>2, <4>3
      <3> QED BY <3>1, <3>2
    <2> QED BY <1>1, <1>2, <1>6, <2>1 DEF GraphOK
  <1>8. CountExact'
    BY <1>2, <1>6, NamedTasks DEF CountExact, TypeOK, GraphTypeOK
  <1>9. PlacesOK' /\ HeldOnce'
    BY DEF PlacesOK, HeldOnce, Queued, queues
  <1>10. PhaseOK'
    BY DEF PhaseOK, TypeOK, ThreadTypeOK, ControlOK, BusyPoints
  <1> QED BY <1>7, <1>8, <1>9, <1>10

LEMMA ParkStep ==
  ASSUME TypeOK, ControlOK, GraphInv, NEW a \in Actors, NEW t \in Tasks, Park(a, t)
  PROVE  GraphInv'
  <1> USE Constants DEF GraphInv, Park
  <1>1. owner[t] # None /\ owner'[t] # None /\ Ids' = Ids
    BY NamesAssumption DEF TypeOK, GraphTypeOK, Ids
  <1>2. \A u : Tokens(u)' = Tokens(u)
    BY SameTokens
  <1>3. \A u \in Tasks \ {t} : owner'[u] = owner[u]
    BY DEF TypeOK, GraphTypeOK
  <1>4. \A u \in Tasks : CommitPending(u)' <=> CommitPending(u)
    BY <1>1, <1>3 DEF CommitPending, locals
  <1>5. GraphOK'
    <2>1. ASSUME NEW b \in Actors, arg[b] # None PROVE owner'[arg[b]] = None
      <3>1. arg[b] \in Tasks /\ arg[b] # t /\ owner[arg[b]] = None
        BY <1>1, <2>1, NamedTasks DEF GraphOK, TypeOK, ThreadTypeOK
      <3> QED BY <1>3, <3>1
    <2> QED BY <1>1, <1>2, <1>4, <2>1 DEF GraphOK, locals
  <1>6. CountExact'
    BY <1>2, <1>4, NamedTasks DEF CountExact, TypeOK, GraphTypeOK
  <1>7. PlacesOK' /\ HeldOnce' /\ PhaseOK'
    BY DEF PlacesOK, HeldOnce, PhaseOK, Queued, queues, locals
  <1> QED BY <1>5, <1>6, <1>7

\* The task of a worker that runs its body owes nothing and is in no queue.
LEMMA RunningTask ==
  ASSUME TypeOK, ControlOK, GraphInv, NEW w \in Workers, task[w] \in vertices
  PROVE  Tokens(task[w]) = {} /\ ~CommitPending(task[w]) /\ ~Queued(task[w])
  <1>1. task[w] # None
    BY NamedTasks, NamesAssumption DEF TypeOK, GraphTypeOK
  <1>2. predecessor_count[task[w]] = 0
    BY <1>1 DEF GraphInv, PlacesOK
  <1>3. ~Queued(task[w])
    BY DEF GraphInv, HeldOnce, Queued
  <1> QED BY <1>2, <1>3, ZeroCount DEF GraphInv

LEMMA CompletionStep ==
  ASSUME TypeOK, ControlOK, GraphInv, NEW w \in Workers, NotifyTaskCompletion(w)
  PROVE  GraphInv'
  <1> USE Constants DEF GraphInv, NotifyTaskCompletion
  <1> PICK r : r = task[w]
    OBVIOUS
  <1>1. r \in vertices /\ r \in Tasks /\ r # None /\ Ids' = Ids
    <2>1. r # None /\ r \in Ids
      BY NamedTasks, NamesAssumption DEF ControlOK, BusyPoints
    <2> QED BY <2>1, NamedTasks DEF PhaseOK, Ids
  <1>2. Tokens(r) = {} /\ ~CommitPending(r) /\ ~Queued(r)
    BY <1>1, RunningTask
  <1>3. \A u : Tokens(u)' = Tokens(u)
    BY SameTokens
  <1>4. \A u : CommitPending(u)' = CommitPending(u) /\ Queued(u)' = Queued(u)
    BY DEF CommitPending, Queued, queues, locals
  <1>5. vertices' = vertices \ {r} /\ task' = task /\ arg' = arg /\ cont' = cont
    BY DEF locals
  <1>6. GraphOK'
    BY <1>1, <1>2, <1>3, <1>4, <1>5 DEF GraphOK
  <1>7. CountExact'
    BY <1>3, <1>4, <1>5 DEF CountExact
  <1>8. PlacesOK'
    BY <1>2, <1>4, <1>5 DEF PlacesOK
  <1>9. HeldOnce'
    BY <1>4, <1>5 DEF HeldOnce, queues
  <1>10. \A v \in Workers \ {w} : pc'[v] = pc[v] /\ task[v] # r
    BY <1>1 DEF TypeOK, ThreadTypeOK, HeldOnce
  <1>11. pc'[w] = "release"
    BY DEF TypeOK, ThreadTypeOK
  <1>12. PhaseOK'
    BY <1>5, <1>10, <1>11 DEF PhaseOK
  <1> QED BY <1>6, <1>7, <1>8, <1>9, <1>12

LEMMA FinishStep ==
  ASSUME TypeOK, ControlOK, GraphInv, NEW w \in Workers, FinishTask(w)
  PROVE  GraphInv'
  <1> USE Constants DEF GraphInv, FinishTask, graph, queues
  <1>1. \A u : Tokens(u)' = Tokens(u)
    BY SameTokens
  <1>2. \A u : CommitPending(u)' = CommitPending(u) /\ Queued(u)' = Queued(u)
    BY DEF CommitPending, Queued
  <1>3. task'[w] = None /\ \A v \in Workers \ {w} : task'[v] = task[v]
    BY DEF TypeOK, ThreadTypeOK
  <1>4. GraphOK' /\ CountExact'
    BY <1>1, <1>2 DEF GraphOK, CountExact, Ids
  <1>5. PlacesOK'
    BY <1>2, <1>3 DEF PlacesOK
  <1>6. task[w] \notin vertices
    BY DEF PhaseOK
  <1>7. \A n \in Nodes : \A i \in DOMAIN stealable[n] : stealable[n][i] # None
    BY NamedTasks, NamesAssumption DEF TypeOK, QueueTypeOK
  <1>8. \A v \in Workers : \A i \in DOMAIN unstealable[v] : unstealable[v][i] # None
    BY NamedTasks, NamesAssumption DEF TypeOK, QueueTypeOK
  <1>9. \A t \in vertices : predecessor_count[t] = 0 =>
          Queued(t) \/ \E v \in Workers : task'[v] = t
    BY <1>3, <1>6 DEF HeldOnce
  <1>10. HeldOnce'
    BY <1>2, <1>3, <1>7, <1>8, <1>9 DEF HeldOnce
  <1>11. pc'[w] \in {"notify_all", "loop"} /\ \A v \in Workers \ {w} : pc'[v] = pc[v] /\ cont'[v] = cont[v]
    BY DEF TypeOK, ThreadTypeOK
  <1>12. PhaseOK'
    BY <1>3, <1>11 DEF PhaseOK
  <1> QED BY <1>4, <1>5, <1>10, <1>12

\* What a push at the back of one queue does to the places of tasks.
LEMMA PushedOnce ==
  ASSUME TypeOK, GraphInv, NEW t \in vertices, predecessor_count[t] = 1,
         task' = task, vertices' = vertices,
         predecessor_count' = [predecessor_count EXCEPT ![t] = @ - 1],
         \/ /\ \E w \in Workers : unstealable' = [unstealable EXCEPT ![w] = Append(@, t)]
            /\ stealable' = stealable
         \/ /\ \E n \in Nodes : stealable' = [stealable EXCEPT ![n] = Append(@, t)]
            /\ unstealable' = unstealable
  PROVE  HeldOnce' /\ \A u : Queued(u)' <=> Queued(u) \/ u = t
  <1> USE Constants DEF GraphInv
  <1>1. ~Queued(t) /\ t \in Tasks /\ \A w \in Workers : task[w] # t
    <2>1. t \in Ids /\ t \in Tasks /\ t # None
      BY NamesAssumption DEF TypeOK, GraphTypeOK, Ids, Tasks
    <2> QED BY <2>1 DEF PlacesOK
  <1>2. /\ \A n \in Nodes : \A i \in DOMAIN stealable[n] : stealable[n][i] # t
        /\ \A w \in Workers : \A i \in DOMAIN unstealable[w] : unstealable[w][i] # t
    BY <1>1 DEF Queued
  <1>3. predecessor_count'[t] = 0 /\ \A u \in vertices \ {t} : predecessor_count'[u] = predecessor_count[u]
    <2>1. vertices \subseteq Tasks
      BY DEF TypeOK, GraphTypeOK, Ids, Tasks
    <2> QED BY <2>1 DEF TypeOK, GraphTypeOK
  <1>4. CASE stealable' = stealable /\ \E w \in Workers : unstealable' = [unstealable EXCEPT ![w] = Append(@, t)]
    <2> PICK w \in Workers : unstealable' = [unstealable EXCEPT ![w] = Append(@, t)]
      BY <1>4
    <2> PICK k : k = Len(unstealable[w])
      OBVIOUS
    <2>1. unstealable[w] \in Seq(Ids) /\ k \in Nat /\ DOMAIN unstealable[w] = 1 .. k
      BY DEF TypeOK, QueueTypeOK
    <2>2. /\ \A v \in Workers \ {w} : unstealable'[v] = unstealable[v]
          /\ DOMAIN unstealable'[w] = 1 .. k + 1 /\ unstealable'[w][k + 1] = t
          /\ \A i \in 1 .. k : unstealable'[w][i] = unstealable[w][i]
      BY <2>1 DEF TypeOK, QueueTypeOK
    <2>3. \A u : Queued(u)' <=> Queued(u) \/ u = t
      <3>1. ASSUME NEW u
            PROVE  (\E i \in DOMAIN unstealable'[w] : unstealable'[w][i] = u)
                     <=> (\E i \in DOMAIN unstealable[w] : unstealable[w][i] = u) \/ u = t
        BY <2>1, <2>2
      <3> QED BY <1>4, <2>2, <3>1 DEF Queued
    <2>4. \A x, y \in Workers : \A i \in DOMAIN unstealable'[x], j \in DOMAIN unstealable'[y] :
            unstealable'[x][i] = unstealable'[y][j] => x = y /\ i = j
      <3> SUFFICES ASSUME NEW x \in Workers, NEW y \in Workers,
                          NEW i \in DOMAIN unstealable'[x], NEW j \in DOMAIN unstealable'[y],
                          unstealable'[x][i] = unstealable'[y][j]
                   PROVE  x = y /\ i = j
        OBVIOUS
      <3>1. \A z \in Workers : \A l \in DOMAIN unstealable'[z] :
              \/ z = w /\ l = k + 1 /\ unstealable'[z][l] = t
              \/ l \in DOMAIN unstealable[z] /\ unstealable'[z][l] = unstealable[z][l] /\ unstealable[z][l] # t
        BY <1>2, <2>1, <2>2
      <3> QED BY <3>1 DEF HeldOnce
    <2>5. \A x \in Workers : \A i \in DOMAIN unstealable'[x] :
            unstealable'[x][i] = t \/ \E j \in DOMAIN unstealable[x] : unstealable'[x][i] = unstealable[x][j]
      BY <2>1, <2>2
    <2>6. HeldOnce'
      BY <1>1, <1>2, <1>3, <1>4, <2>3, <2>4, <2>5 DEF HeldOnce
    <2> QED BY <2>3, <2>6
  <1>5. CASE unstealable' = unstealable /\ \E n \in Nodes : stealable' = [stealable EXCEPT ![n] = Append(@, t)]
    <2> PICK n \in Nodes : stealable' = [stealable EXCEPT ![n] = Append(@, t)]
      BY <1>5
    <2> PICK k : k = Len(stealable[n])
      OBVIOUS
    <2>1. stealable[n] \in Seq(Ids) /\ k \in Nat /\ DOMAIN stealable[n] = 1 .. k
      BY DEF TypeOK, QueueTypeOK
    <2>2. /\ \A m \in Nodes \ {n} : stealable'[m] = stealable[m]
          /\ DOMAIN stealable'[n] = 1 .. k + 1 /\ stealable'[n][k + 1] = t
          /\ \A i \in 1 .. k : stealable'[n][i] = stealable[n][i]
      BY <2>1 DEF TypeOK, QueueTypeOK
    <2>3. \A u : Queued(u)' <=> Queued(u) \/ u = t
      <3>1. ASSUME NEW u
            PROVE  (\E i \in DOMAIN stealable'[n] : stealable'[n][i] = u)
                     <=> (\E i \in DOMAIN stealable[n] : stealable[n][i] = u) \/ u = t
        BY <2>1, <2>2
      <3> QED BY <1>5, <2>2, <3>1 DEF Queued
    <2>4. \A x, y \in Nodes : \A i \in DOMAIN stealable'[x], j \in DOMAIN stealable'[y] :
            stealable'[x][i] = stealable'[y][j] => x = y /\ i = j
      <3> SUFFICES ASSUME NEW x \in Nodes, NEW y \in Nodes,
                          NEW i \in DOMAIN stealable'[x], NEW j \in DOMAIN stealable'[y],
                          stealable'[x][i] = stealable'[y][j]
                   PROVE  x = y /\ i = j
        OBVIOUS
      <3>1. \A z \in Nodes : \A l \in DOMAIN stealable'[z] :
              \/ z = n /\ l = k + 1 /\ stealable'[z][l] = t
              \/ l \in DOMAIN stealable[z] /\ stealable'[z][l] = stealable[z][l] /\ stealable[z][l] # t
        BY <1>2, <2>1, <2>2
      <3> QED BY <3>1 DEF HeldOnce
    <2>5. \A x \in Nodes : \A i \in DOMAIN stealable'[x] :
            stealable'[x][i] = t \/ \E j \in DOMAIN stealable[x] : stealable'[x][i] = stealable[x][j]
      BY <2>1, <2>2
    <2>6. HeldOnce'
      BY <1>1, <1>2, <1>3, <1>5, <2>3, <2>4, <2>5 DEF HeldOnce
    <2> QED BY <2>3, <2>6
  <1> QED BY <1>4, <1>5

\* decrement_predecessor_count on a vertex that is still owed something.
LEMMA DecrementPlaces ==
  ASSUME TypeOK, GraphInv, NEW a \in Actors, NEW t \in vertices, NEW then,
         DecrementPredecessorCount(a, t, then), predecessor_count[t] > 0,
         task' = task, vertices' = vertices, option' = option
  PROVE  /\ PlacesOK' /\ HeldOnce'
         /\ predecessor_count'[t] = predecessor_count[t] - 1
         /\ \A u \in Tasks \ {t} : predecessor_count'[u] = predecessor_count[u]
  <1> USE Constants DEF GraphInv
  <1>1. t \in Ids /\ t \in Tasks /\ option[t] \in Options
    BY DEF TypeOK, GraphTypeOK, Ids, Tasks
  <1>2. /\ predecessor_count'[t] = predecessor_count[t] - 1
        /\ \A u \in Tasks \ {t} : predecessor_count'[u] = predecessor_count[u]
        /\ predecessor_count[t] \in Int
    BY <1>1 DEF DecrementPredecessorCount, TypeOK, GraphTypeOK
  <1>3. vertices \subseteq Tasks /\ Ids \subseteq Tasks
    BY DEF TypeOK, GraphTypeOK, Ids, Tasks
  <1>4. ASSUME \A u : Queued(u)' <=> Queued(u) \/ (u = t /\ predecessor_count[t] = 1)
        PROVE  PlacesOK'
    <2>1. \A u \in Tasks : Queued(u)' => u \in vertices' /\ predecessor_count'[u] = 0
      BY <1>2, <1>4 DEF PlacesOK
    <2>2. ASSUME NEW w \in Workers, task[w] # None PROVE predecessor_count'[task[w]] = 0
      <3>1. task[w] \in Tasks /\ predecessor_count[task[w]] = 0
        BY <1>3, <2>2 DEF PlacesOK, TypeOK, ThreadTypeOK
      <3> QED BY <1>2, <3>1
    <2> QED BY <2>1, <2>2 DEF PlacesOK
  <1>5. CASE predecessor_count[t] # 1
    <2>1. UNCHANGED <<stealable, unstealable>>
      BY <1>5 DEF DecrementPredecessorCount, queues
    <2>2. \A u : Queued(u)' <=> Queued(u)
      BY <2>1 DEF Queued
    <2>3. \A u \in vertices : predecessor_count'[u] = 0 => predecessor_count[u] = 0
      BY <1>2, <1>3, <1>5
    <2>4. HeldOnce'
      BY <2>1, <2>2, <2>3 DEF HeldOnce
    <2> QED BY <1>2, <1>4, <1>5, <2>2, <2>4
  <1>6. CASE predecessor_count[t] = 1
    <2>1. \/ /\ \E w \in Workers : unstealable' = [unstealable EXCEPT ![w] = Append(@, t)]
             /\ stealable' = stealable
          \/ /\ \E n \in Nodes : stealable' = [stealable EXCEPT ![n] = Append(@, t)]
             /\ unstealable' = unstealable
      <3>1. \A w \in Workers : ThreadMapping[w] \in Nodes
        BY MappingAssumption
      <3>2. CASE option[t] \in Unstealable /\ stealable' = stealable
                   /\ unstealable' = [unstealable EXCEPT ![option[t].only] = Append(@, t)]
        BY <1>1, <3>2, OptionFields
      <3>3. CASE option[t] \in Stealable /\ unstealable' = unstealable
                   /\ \E w \in IF option[t].recommended = None THEN Workers ELSE {option[t].recommended} :
                        stealable' = [stealable EXCEPT ![ThreadMapping[w]] = Append(@, t)]
        BY <1>1, <3>1, <3>3, OptionFields
      <3> QED BY <1>6, <3>2, <3>3 DEF DecrementPredecessorCount
    <2>2. predecessor_count' = [predecessor_count EXCEPT ![t] = @ - 1]
      BY DEF DecrementPredecessorCount
    <2>3. HeldOnce' /\ \A u : Queued(u)' <=> Queued(u) \/ u = t
      BY <1>6, <2>1, <2>2, PushedOnce
    <2> QED BY <1>2, <1>4, <1>6, <2>3
  <1> QED BY <1>5, <1>6

LEMMA CommitDecrementStep ==
  ASSUME TypeOK, ControlOK, GraphInv, NEW a \in Actors, CommitDecrement(a)
  PROVE  GraphInv'
  <1> USE Constants DEF GraphInv, CommitDecrement
  <1> PICK t : t = arg[a]
    OBVIOUS
  <1>1. t \in Tasks /\ t # None /\ CommitPending(t) /\ Ids' = Ids
    BY NamedTasks, NamesAssumption DEF CommitPending, ControlOK, Ids
  <1>2. t \in vertices /\ predecessor_count[t] \in Nat /\ predecessor_count[t] > 0
    <2>1. t \in vertices
      BY <1>1 DEF GraphOK
    <2> QED BY <1>1, <2>1, ZeroCount
  <1>3. /\ PlacesOK' /\ HeldOnce'
        /\ predecessor_count'[t] = predecessor_count[t] - 1
        /\ \A u \in Tasks \ {t} : predecessor_count'[u] = predecessor_count[u]
    <2>1. DecrementPredecessorCount(a, t, "body")
      OBVIOUS
    <2> QED BY <1>2, <2>1, DecrementPlaces
  <1>4. \A u : Tokens(u)' = Tokens(u)
    BY SameTokens
  <1>5. arg'[a] = None /\ owner[t] = None /\ \A b \in Actors \ {a} : arg'[b] = arg[b] /\ arg[b] # t
    BY <1>1 DEF TypeOK, ThreadTypeOK, GraphOK
  <1>6. ~CommitPending(t)'
    BY <1>1, <1>5 DEF CommitPending
  <1>7. \A u \in Tasks \ {t} : CommitPending(u)' <=> CommitPending(u)
    BY <1>5, NamesAssumption DEF CommitPending
  <1>8. GraphOK'
    BY <1>1, <1>2, <1>4, <1>5, <1>6, <1>7 DEF GraphOK
  <1>9. CountExact'
    <2>1. \A u \in vertices : Cardinality(Tokens(u)) \in Nat /\ u \in Tasks
      BY TokensFinite, NamedTasks DEF TypeOK, GraphTypeOK
    <2>2. predecessor_count[t] = Cardinality(Tokens(t)) + 1
      BY <1>1, <1>2 DEF CountExact
    <2>3. predecessor_count'[t] = Cardinality(Tokens(t))
      BY <1>2, <1>3, <2>1, <2>2
    <2>4. ASSUME NEW u \in vertices \ {t}
          PROVE  predecessor_count'[u] = Cardinality(Tokens(u)) + (IF CommitPending(u)' THEN 1 ELSE 0)
      BY <1>3, <1>7, <2>1 DEF CountExact
    <2> QED BY <1>4, <1>6, <2>1, <2>3, <2>4 DEF CountExact
  <1>10. /\ \A w \in Workers \ {a} : pc'[w] = pc[w] /\ cont'[w] = cont[w]
         /\ pc'[a] \in {"body", "notify"} /\ cont'[a] = "body"
    BY DEF DecrementPredecessorCount, TypeOK, ThreadTypeOK
  <1>11. a \in Workers => task[a] \in vertices
    BY DEF PhaseOK, ControlOK, BusyPoints
  <1>12. PhaseOK'
    BY <1>10, <1>11 DEF PhaseOK
  <1> QED BY <1>3, <1>8, <1>9, <1>12

LEMMA ReleaseStep ==
  ASSUME TypeOK, ControlOK, GraphInv, NEW w \in Workers, ReleaseSuccessor(w)
  PROVE  GraphInv'
  <1> USE Constants DEF GraphInv, ReleaseSuccessor
  <1> PICK r : r = task[w]
    OBVIOUS
  <1> PICK n : n = released[r] + 1
    OBVIOUS
  <1> PICK t : t = successors[r][n]
    OBVIOUS
  <1>1. r \in Ids /\ r \in Tasks /\ r \notin vertices /\ Ids' = Ids /\ vertices \subseteq Tasks
    BY NamedTasks DEF BusyPoints, PhaseOK, Ids, TypeOK, GraphTypeOK
  <1>2. /\ \A u \in Tasks \ {t} : Tokens(u)' = Tokens(u)
        /\ Tokens(t)' = Tokens(t) \ {<<r, n>>}
        /\ <<r, n>> \in Tokens(t)
    BY <1>1, RemovedToken
  <1>3. t \in Tasks
    <2>1. n \in 1 .. Len(successors[r])
      BY <1>1 DEF TypeOK, GraphTypeOK
    <2> QED BY <2>1, NamedTasks
  <1>4. t \in vertices /\ predecessor_count[t] \in Nat /\ predecessor_count[t] > 0
    <2>1. t \in vertices
      BY <1>2, <1>3 DEF GraphOK
    <2> QED BY <1>2, <2>1, ZeroCount
  <1>5. /\ PlacesOK' /\ HeldOnce'
        /\ predecessor_count'[t] = predecessor_count[t] - 1
        /\ \A u \in Tasks \ {t} : predecessor_count'[u] = predecessor_count[u]
    <2>1. DecrementPredecessorCount(w, t, "release")
      OBVIOUS
    <2> QED BY <1>4, <2>1, DecrementPlaces
  <1>6. \A u : CommitPending(u)' <=> CommitPending(u)
    BY DEF CommitPending
  <1>7. Cardinality(Tokens(t)') = Cardinality(Tokens(t)) - 1 /\ Cardinality(Tokens(t)) \in Nat
    <2>1. IsFiniteSet(Tokens(t)) /\ Cardinality(Tokens(t)) \in Nat
      BY TokensFinite
    <2>2. Cardinality(Tokens(t) \ {<<r, n>>}) = Cardinality(Tokens(t)) - 1
      BY <1>2, <2>1, FS_RemoveElement
    <2> QED BY <1>2, <2>1, <2>2
  <1>8. /\ released'[r] = n /\ n \in Nat /\ n <= Len(successors[r])
        /\ \A u \in Tasks \ {r} : released'[u] = released[u]
    BY <1>1 DEF TypeOK, GraphTypeOK
  <1>9. GraphOK'
    <2>1. \A u \in Tasks : CommitPending(u)' \/ Tokens(u)' # {} => u \in vertices
      BY <1>2, <1>4, <1>6 DEF GraphOK
    <2>2. \A u \in Tasks : released'[u] <= Len(successors[u])
      BY <1>8 DEF GraphOK
    <2>3. \A u \in vertices : released'[u] = 0
      BY <1>1, <1>8 DEF GraphOK
    <2> QED BY <1>1, <2>1, <2>2, <2>3 DEF GraphOK
  <1>10. CountExact'
    <2>1. ASSUME NEW u \in vertices
          PROVE  predecessor_count'[u] = Cardinality(Tokens(u)') + (IF CommitPending(u) THEN 1 ELSE 0)
      <3>1. CASE u = t
        <4>1. predecessor_count[t] = Cardinality(Tokens(t)) + (IF CommitPending(t) THEN 1 ELSE 0)
          BY <1>4 DEF CountExact
        <4> HIDE DEF GraphInv, ReleaseSuccessor
        <4> QED BY <1>4, <1>5, <1>7, <3>1, <4>1
      <3>2. CASE u # t
        BY <1>1, <1>2, <1>5, <3>2 DEF CountExact
      <3> QED BY <3>1, <3>2
    <2> QED BY <1>6, <2>1 DEF CountExact
  <1>11. /\ \A v \in Workers \ {w} : pc'[v] = pc[v] /\ cont'[v] = cont[v]
         /\ pc'[w] \in {"release", "notify"} /\ cont'[w] = "release"
    BY DEF DecrementPredecessorCount, TypeOK, ThreadTypeOK
  <1>12. PhaseOK'
    BY <1>1, <1>11 DEF PhaseOK
  <1> QED BY <1>5, <1>9, <1>10, <1>12

\* No two queue positions hold the same task.
QueuesDistinct ==
  /\ \A m, n \in Nodes :
       \A i \in DOMAIN stealable[m], j \in DOMAIN stealable[n] :
          stealable[m][i] = stealable[n][j] => m = n /\ i = j
  /\ \A v, w \in Workers :
       \A i \in DOMAIN unstealable[v], j \in DOMAIN unstealable[w] :
          unstealable[v][i] = unstealable[w][j] => v = w /\ i = j
  /\ \A n \in Nodes, w \in Workers :
       \A i \in DOMAIN stealable[n], j \in DOMAIN unstealable[w] :
          stealable[n][i] # unstealable[w][j]

Distinct(q) == \A i, j \in DOMAIN q : q[i] = q[j] => i = j

\* r is q without x, an element at one of its ends.
Without(q, x, r) ==
  /\ \E d \in {0, 1} : \A i \in DOMAIN r :
       i \in Nat /\ i + d \in DOMAIN q /\ r[i] = q[i + d] /\ q[i + d] # x
  /\ \A i \in DOMAIN q : q[i] # x => \E j \in DOMAIN r : r[j] = q[i]
  /\ \E i \in DOMAIN q : q[i] = x

\* Taking the first or the last element of a sequence without repetitions.
LEMMA OneGone ==
  ASSUME NEW S, NEW q \in Seq(S), q # <<>>, NEW x, NEW r, Distinct(q),
         \/ x = Head(q) /\ r = Tail(q)
         \/ x = q[Len(q)] /\ r = SubSeq(q, 1, Len(q) - 1)
  PROVE  Without(q, x, r)
  <1> USE DEF Distinct, Without
  <1> PICK n : n = Len(q)
    OBVIOUS
  <1>1. n \in Nat /\ n > 0 /\ DOMAIN q = 1 .. n
    OBVIOUS
  <1>2. CASE x = Head(q) /\ r = Tail(q)
    <2>1. x = q[1] /\ DOMAIN r = 1 .. n - 1 /\ \A i \in 1 .. n - 1 : r[i] = q[i + 1]
      BY <1>1, <1>2
    <2>2. \A i \in DOMAIN r : i \in Nat /\ i + 1 \in DOMAIN q /\ r[i] = q[i + 1] /\ q[i + 1] # x
      BY <1>1, <2>1
    <2>3. ASSUME NEW i \in DOMAIN q, q[i] # x PROVE \E j \in DOMAIN r : r[j] = q[i]
      <3>1. i - 1 \in DOMAIN r /\ r[i - 1] = q[i]
        BY <1>1, <2>1, <2>3
      <3> QED BY <3>1
    <2> QED BY <1>1, <2>1, <2>2, <2>3
  <1>3. CASE x = q[Len(q)] /\ r = SubSeq(q, 1, Len(q) - 1)
    <2>1. x = q[n] /\ DOMAIN r = 1 .. n - 1 /\ \A i \in 1 .. n - 1 : r[i] = q[i]
      BY <1>1, <1>3
    <2>2. \A i \in DOMAIN r : i \in Nat /\ i + 0 \in DOMAIN q /\ r[i] = q[i + 0] /\ q[i + 0] # x
      BY <1>1, <2>1
    <2>3. ASSUME NEW i \in DOMAIN q, q[i] # x PROVE \E j \in DOMAIN r : r[j] = q[i]
      <3>1. i \in DOMAIN r
        BY <1>1, <2>1, <2>3
      <3> QED BY <2>1, <3>1
    <2> QED BY <1>1, <2>1, <2>2, <2>3
  <1> QED BY <1>2, <1>3

\* A worker without a task takes one that was in a queue, and is in none now.
LEMMA TakenPlaces ==
  ASSUME TypeOK, ControlOK, GraphInv, NEW w \in Workers, NEW x \in Tasks,
         task[w] = None, task' = [task EXCEPT ![w] = x],
         UNCHANGED <<graph, arg>>, Queued(x), QueuesDistinct',
         \A u : Queued(u)' <=> Queued(u) /\ u # x
  PROVE  GraphOK' /\ CountExact' /\ PlacesOK' /\ HeldOnce' /\ x \in vertices /\ x # None
  <1> USE Constants DEF GraphInv, graph
  <1>1. \A u : Tokens(u)' = Tokens(u) /\ CommitPending(u)' = CommitPending(u)
    BY SameTokens DEF CommitPending
  <1>2. GraphOK' /\ CountExact'
    BY <1>1 DEF GraphOK, CountExact, Ids
  <1>3. x \in vertices /\ predecessor_count[x] = 0 /\ x # None
    BY NamesAssumption DEF PlacesOK
  <1>4. task'[w] = x /\ \A v \in Workers \ {w} : task'[v] = task[v] /\ task[v] # x
    <2>1. \A v \in Workers : task[v] # x
      BY DEF HeldOnce, Queued
    <2> QED BY <2>1 DEF TypeOK, ThreadTypeOK
  <1>5. PlacesOK'
    BY <1>3, <1>4 DEF PlacesOK
  <1>6. \A t \in vertices : predecessor_count[t] = 0 =>
          Queued(t)' \/ \E v \in Workers : task'[v] = t
    <2>1. ASSUME NEW t \in vertices, NEW v \in Workers, task[v] = t
          PROVE  task'[v] = t
      <3>1. t # None
        BY NamesAssumption, NamedTasks DEF TypeOK, GraphTypeOK
      <3> QED BY <1>4, <2>1, <3>1
    <2> QED BY <1>4, <2>1 DEF HeldOnce
  <1>7. \A v, z \in Workers : task'[v] # None /\ task'[v] = task'[z] => v = z
    BY <1>4 DEF HeldOnce
  <1>8. /\ \A n \in Nodes : \A i \in DOMAIN stealable'[n] : \A v \in Workers : stealable'[n][i] # task'[v]
        /\ \A z \in Workers : \A i \in DOMAIN unstealable'[z] : \A v \in Workers : unstealable'[z][i] # task'[v]
    <2>1. \A u : Queued(u) => \A v \in Workers : u # task[v]
      BY DEF HeldOnce, Queued
    <2>2. \A u : Queued(u)' => \A v \in Workers : u # task'[v]
      BY <1>4, <2>1
    <2> QED BY <2>2 DEF Queued
  <1>9. HeldOnce'
    BY <1>6, <1>7, <1>8 DEF HeldOnce, QueuesDistinct
  <1> QED BY <1>2, <1>3, <1>5, <1>9

Holds(q, u) == \E i \in DOMAIN q : q[i] = u

LEMMA WithoutElements ==
  ASSUME NEW q, NEW x, NEW r, Without(q, x, r), NEW u
  PROVE  Holds(r, u) <=> Holds(q, u) /\ u # x
  <1>1. PICK d \in {0, 1} : \A i \in DOMAIN r :
          i \in Nat /\ i + d \in DOMAIN q /\ r[i] = q[i + d] /\ q[i + d] # x
    BY DEF Without
  <1>2. ASSUME NEW i \in DOMAIN r, r[i] = u PROVE i + d \in DOMAIN q /\ q[i + d] = u /\ u # x
    BY <1>1, <1>2
  <1>3. ASSUME NEW i \in DOMAIN q, q[i] = u, u # x PROVE \E j \in DOMAIN r : r[j] = u
    BY <1>3 DEF Without
  <1> QED BY <1>2, <1>3 DEF Holds

LEMMA TakenUnstealable ==
  ASSUME TypeOK, ControlOK, GraphInv, NEW w \in Workers, NEW q, NEW x, NEW r,
         q = unstealable[w], q # <<>>, x = Head(q), r = Tail(q),
         task[w] = None, task' = [task EXCEPT ![w] = x],
         unstealable' = [unstealable EXCEPT ![w] = r],
         stealable' = stealable, UNCHANGED <<graph, arg>>
  PROVE  GraphOK' /\ CountExact' /\ PlacesOK' /\ HeldOnce' /\ task'[w] \in vertices
  <1> USE Constants
  <1>1. q \in Seq(Ids) /\ DOMAIN unstealable = Workers
    BY DEF TypeOK, QueueTypeOK
  <1>2. QueuesDistinct
    BY DEF GraphInv, HeldOnce, QueuesDistinct
  <1>3. Distinct(q)
    BY <1>2 DEF Distinct, QueuesDistinct
  <1>4. Without(q, x, r)
    BY <1>1, <1>3, OneGone
  <1>5. unstealable'[w] = r /\ \A v \in Workers \ {w} : unstealable'[v] = unstealable[v]
    BY <1>1
  <1>6. Queued(x) /\ x \in Tasks
    <2>1. \E i \in DOMAIN q : q[i] = x
      BY <1>4 DEF Without
    <2> QED BY <1>1, <2>1, NamedTasks DEF Queued
  <1>7. /\ \A v \in Workers \ {w} : \A i \in DOMAIN unstealable[v] : unstealable[v][i] # x
        /\ \A v \in Nodes : \A i \in DOMAIN stealable[v] : stealable[v][i] # x
    BY <1>2, <1>4 DEF QueuesDistinct, Without
  <1>8. ASSUME NEW u PROVE Queued(u)' <=> Queued(u) /\ u # x
    <2>1. (\E i \in DOMAIN r : r[i] = u) <=> (\E i \in DOMAIN q : q[i] = u) /\ u # x
      <3>1. Holds(r, u) <=> Holds(q, u) /\ u # x
        BY <1>4, WithoutElements
      <3> QED BY <3>1 DEF Holds
    <2>2. (\E v \in Workers : \E i \in DOMAIN unstealable'[v] : unstealable'[v][i] = u)
            <=> (\E v \in Workers : \E i \in DOMAIN unstealable[v] : unstealable[v][i] = u) /\ u # x
      <3>1. ASSUME NEW v \in Workers
            PROVE  (\E i \in DOMAIN unstealable'[v] : unstealable'[v][i] = u)
                     <=> (\E i \in DOMAIN unstealable[v] : unstealable[v][i] = u) /\ u # x
        <4>1. CASE v = w
          BY ZenonT(60), <1>5, <2>1, <4>1
        <4>2. CASE v # w
          BY <1>5, <1>7, <4>2
        <4> QED BY <4>1, <4>2
      <3> QED BY <3>1
    <2> QED BY <1>7, <2>2 DEF Queued
  <1>9. ASSUME NEW v \in Workers
        PROVE  \E e \in {0, 1} : \A i \in DOMAIN unstealable'[v] :
                 /\ i \in Nat /\ i + e \in DOMAIN unstealable[v]
                 /\ unstealable'[v][i] = unstealable[v][i + e]
    <2>1. CASE v # w
      <3>1. \A i \in DOMAIN unstealable[v] : i \in Nat /\ i + 0 = i
        BY DEF TypeOK, QueueTypeOK
      <3> QED BY <1>5, <2>1, <3>1
    <2>2. \E e \in {0, 1} : \A i \in DOMAIN r :
            i \in Nat /\ i + e \in DOMAIN q /\ r[i] = q[i + e]
      BY ZenonT(60), <1>4 DEF Without
    <2>3. CASE v = w
      BY SMTT(30), <1>5, <2>2, <2>3
    <2> QED BY <2>1, <2>3
  <1>10. ASSUME NEW v \in Workers, NEW z \in Workers,
                NEW i \in DOMAIN unstealable'[v], NEW j \in DOMAIN unstealable'[z],
                unstealable'[v][i] = unstealable'[z][j]
         PROVE  v = z /\ i = j
    <2>1. v = z
      BY <1>2, <1>9, <1>10 DEF QueuesDistinct
    <2>2. PICK e \in {0, 1} : \A l \in DOMAIN unstealable'[v] :
            /\ l \in Nat /\ l + e \in DOMAIN unstealable[v]
            /\ unstealable'[v][l] = unstealable[v][l + e]
      BY <1>9
    <2>3. i + e = j + e /\ i \in Nat /\ j \in Nat
      BY <1>2, <1>10, <2>1, <2>2 DEF QueuesDistinct
    <2> QED BY <2>1, <2>3
  <1>11. \A m \in Nodes, v \in Workers :
           \A i \in DOMAIN stealable[m], j \in DOMAIN unstealable'[v] :
              stealable[m][i] # unstealable'[v][j]
    BY <1>2, <1>9 DEF QueuesDistinct
  <1>12. QueuesDistinct'
    BY <1>2, <1>10, <1>11 DEF QueuesDistinct
  <1>13. task'[w] = x
    BY DEF TypeOK, ThreadTypeOK
  <1> QED BY <1>6, <1>8, <1>12, <1>13, TakenPlaces

LEMMA TakenStealable ==
  ASSUME TypeOK, ControlOK, GraphInv, NEW w \in Workers, NEW n \in Nodes,
         NEW q, NEW x, NEW r, q = stealable[n], q # <<>>,
         \/ x = Head(q) /\ r = Tail(q)
         \/ x = q[Len(q)] /\ r = SubSeq(q, 1, Len(q) - 1),
         task[w] = None, task' = [task EXCEPT ![w] = x],
         stealable' = [stealable EXCEPT ![n] = r],
         unstealable' = unstealable, UNCHANGED <<graph, arg>>
  PROVE  GraphOK' /\ CountExact' /\ PlacesOK' /\ HeldOnce' /\ task'[w] \in vertices
  <1> USE Constants
  <1>1. q \in Seq(Ids) /\ DOMAIN stealable = Nodes
    BY DEF TypeOK, QueueTypeOK
  <1>2. QueuesDistinct
    BY DEF GraphInv, HeldOnce, QueuesDistinct
  <1>3. Distinct(q)
    BY <1>2 DEF Distinct, QueuesDistinct
  <1>4. Without(q, x, r)
    BY <1>1, <1>3, OneGone
  <1>5. stealable'[n] = r /\ \A v \in Nodes \ {n} : stealable'[v] = stealable[v]
    BY <1>1
  <1>6. Queued(x) /\ x \in Tasks
    <2>1. \E i \in DOMAIN q : q[i] = x
      BY <1>4 DEF Without
    <2> QED BY <1>1, <2>1, NamedTasks DEF Queued
  <1>7. /\ \A v \in Nodes \ {n} : \A i \in DOMAIN stealable[v] : stealable[v][i] # x
        /\ \A v \in Workers : \A i \in DOMAIN unstealable[v] : unstealable[v][i] # x
    BY <1>2, <1>4 DEF QueuesDistinct, Without
  <1>8. ASSUME NEW u PROVE Queued(u)' <=> Queued(u) /\ u # x
    <2>1. (\E i \in DOMAIN r : r[i] = u) <=> (\E i \in DOMAIN q : q[i] = u) /\ u # x
      <3>1. Holds(r, u) <=> Holds(q, u) /\ u # x
        BY <1>4, WithoutElements
      <3> QED BY <3>1 DEF Holds
    <2>2. (\E v \in Nodes : \E i \in DOMAIN stealable'[v] : stealable'[v][i] = u)
            <=> (\E v \in Nodes : \E i \in DOMAIN stealable[v] : stealable[v][i] = u) /\ u # x
      <3>1. ASSUME NEW v \in Nodes
            PROVE  (\E i \in DOMAIN stealable'[v] : stealable'[v][i] = u)
                     <=> (\E i \in DOMAIN stealable[v] : stealable[v][i] = u) /\ u # x
        <4>1. CASE v = n
          BY <1>5, <2>1, <4>1
        <4>2. CASE v # n
          BY <1>5, <1>7, <4>2
        <4> QED BY <4>1, <4>2
      <3> QED BY <3>1
    <2> QED BY <1>7, <2>2 DEF Queued
  <1>9. ASSUME NEW v \in Nodes
        PROVE  \E e \in {0, 1} : \A i \in DOMAIN stealable'[v] :
                 /\ i \in Nat /\ i + e \in DOMAIN stealable[v]
                 /\ stealable'[v][i] = stealable[v][i + e]
    <2>1. CASE v # n
      <3>1. \A i \in DOMAIN stealable[v] : i \in Nat /\ i + 0 = i
        BY DEF TypeOK, QueueTypeOK
      <3> QED BY <1>5, <2>1, <3>1
    <2>2. \E e \in {0, 1} : \A i \in DOMAIN r :
            i \in Nat /\ i + e \in DOMAIN q /\ r[i] = q[i + e]
      BY <1>4 DEF Without
    <2>3. CASE v = n
      BY <1>5, <2>2, <2>3
    <2> QED BY <2>1, <2>3
  <1>10. ASSUME NEW v \in Nodes, NEW z \in Nodes,
                NEW i \in DOMAIN stealable'[v], NEW j \in DOMAIN stealable'[z],
                stealable'[v][i] = stealable'[z][j]
         PROVE  v = z /\ i = j
    <2>1. v = z
      BY <1>2, <1>9, <1>10 DEF QueuesDistinct
    <2>2. PICK e \in {0, 1} : \A l \in DOMAIN stealable'[v] :
            /\ l \in Nat /\ l + e \in DOMAIN stealable[v]
            /\ stealable'[v][l] = stealable[v][l + e]
      BY <1>9
    <2>3. i + e = j + e /\ i \in Nat /\ j \in Nat
      BY <1>2, <1>10, <2>1, <2>2 DEF QueuesDistinct
    <2> QED BY <2>1, <2>3
  <1>11. \A m \in Workers, v \in Nodes :
           \A i \in DOMAIN unstealable[m], j \in DOMAIN stealable'[v] :
              unstealable[m][i] # stealable'[v][j]
    BY <1>2, <1>9 DEF QueuesDistinct
  <1>12. QueuesDistinct'
    BY <1>2, <1>10, <1>11 DEF QueuesDistinct
  <1>13. task'[w] = x
    BY DEF TypeOK, ThreadTypeOK
  <1> QED BY <1>6, <1>8, <1>12, <1>13, TakenPlaces

LEMMA TakeStep ==
  ASSUME TypeOK, ControlOK, GraphInv, NEW w \in Workers, TakeRunnableTask(w)
  PROVE  GraphInv'
  <1> USE Constants
  <1>1. pc[w] \in FreePoints /\ task[w] = None /\ arg' = arg /\ UNCHANGED graph /\ cont' = cont
    BY DEF TakeRunnableTask, TakeUnstealable, TakeLocalStealable, Steal, FreePoints, ControlOK
  <1>2. \/ UNCHANGED <<queues, task>>
        \/ GraphOK' /\ CountExact' /\ PlacesOK' /\ HeldOnce' /\ task'[w] \in vertices
    <2>1. ASSUME NEW found, NEW missed, TakeUnstealable(w, found, missed) PROVE <1>2
      <3>1. CASE unstealable[w] # <<>>
        <4>1. /\ task' = [task EXCEPT ![w] = Head(unstealable[w])]
              /\ unstealable' = [unstealable EXCEPT ![w] = Tail(unstealable[w])]
              /\ stealable' = stealable
          BY <2>1, <3>1 DEF TakeUnstealable
        <4> QED BY <1>1, <3>1, <4>1, TakenUnstealable
      <3>2. CASE unstealable[w] = <<>>
        BY <2>1, <3>2 DEF TakeUnstealable, queues
      <3> QED BY <3>1, <3>2
    <2>2. ASSUME NEW found, NEW missed, Steal(w, found, missed) PROVE <1>2
      <3> PICK n \in Nodes : n = (ThreadMapping[w] + scan[w]) % NodeCount
        BY TakeFound
      <3>1. CASE stealable[n] # <<>>
        <4>1. /\ task' = [task EXCEPT ![w] = Head(stealable[n])]
              /\ stealable' = [stealable EXCEPT ![n] = Tail(stealable[n])]
              /\ unstealable' = unstealable
          BY <2>2, <3>1 DEF Steal
        <4> QED BY <1>1, <3>1, <4>1, TakenStealable
      <3>2. CASE stealable[n] = <<>>
        BY <2>2, <3>2 DEF Steal, queues
      <3> QED BY <3>1, <3>2
    <2>3. ASSUME TakeLocalStealable(w) PROVE <1>2
      <3> PICK n \in Nodes : n = ThreadMapping[w]
        BY MappingAssumption
      <3>1. CASE stealable[n] # <<>>
        <4>1. /\ task' = [task EXCEPT ![w] = stealable[n][Len(stealable[n])]]
              /\ stealable' = [stealable EXCEPT ![n] =
                                 SubSeq(stealable[n], 1, Len(stealable[n]) - 1)]
              /\ unstealable' = unstealable
          BY <2>3, <3>1 DEF TakeLocalStealable
        <4> QED BY <1>1, <3>1, <4>1, TakenStealable
      <3>2. CASE stealable[n] = <<>>
        BY <2>3, <3>2 DEF TakeLocalStealable, queues
      <3> QED BY <3>1, <3>2
    <2> QED BY <2>1, <2>2, <2>3 DEF TakeRunnableTask
  <1>3. GraphOK' /\ CountExact' /\ PlacesOK' /\ HeldOnce' /\ task'[w] \in vertices \cup {None}
    <2>1. CASE UNCHANGED <<queues, task>>
      BY <1>1, <2>1, FrameStep DEF GraphInv
    <2> QED BY <1>2, <2>1
  <1>4. /\ \A v \in Workers \ {w} : pc'[v] = pc[v] /\ task'[v] = task[v]
        /\ pc'[w] \in FreePoints \cup {"body", "reset"}
    BY DEF TakeRunnableTask, TakeUnstealable, TakeLocalStealable, Steal, FreePoints, TypeOK, ThreadTypeOK
  <1>5. PhaseOK'
    BY <1>1, <1>3, <1>4 DEF PhaseOK, graph, GraphInv, FreePoints
  <1> QED BY <1>3, <1>5 DEF GraphInv

\* The other steps change neither the graph nor the queues nor who has what.
LEMMA OtherSteps ==
  ASSUME TypeOK, ControlOK, GraphInv,
         \/ UNCHANGED vars
         \/ \E a \in Actors : Notify(a) \/ Look(a)
         \/ \E w \in Workers :
              \/ EnterLoop(w) \/ Loop(w) \/ SetIsSleeping(w) \/ Check(w)
              \/ Wait(w) \/ ResetIsSleeping(w) \/ NotifyAll(w) \/ NotifyException(w)
         \/ StartWorkers
  PROVE  GraphInv'
  <1> USE Constants
  <1>1. UNCHANGED <<graph, queues, task, arg>>
    BY DEF vars, locals, Notify, Look, EnterLoop, Loop, SetIsSleeping, Check, Wait,
           ResetIsSleeping, NotifyAll, NotifyException, StartWorkers
  <1>2. ASSUME NEW v \in Workers
        PROVE  \/ pc'[v] = pc[v] /\ cont'[v] = cont[v]
               \/ pc[v] = "notify" /\ pc'[v] = cont[v]
               \/ pc[v] \in FreePoints /\ pc'[v] \in FreePoints \cup {"reset", "exit"}
               \/ pc[v] = "reset" /\ pc'[v] \in {"loop", "body"}
               \/ pc[v] = "notify_all" /\ pc'[v] \in {"loop", "exit"}
               \/ pc[v] \in {"body", "idle"} /\ pc'[v] = "notify_all"
    BY DEF vars, locals, Notify, Look, EnterLoop, Loop, SetIsSleeping, Check, Wait,
           ResetIsSleeping, NotifyAll, NotifyException, StartWorkers, FreePoints,
           TypeOK, ThreadTypeOK, ControlOK
  <1>3. GraphOK' /\ CountExact' /\ PlacesOK' /\ HeldOnce'
    BY <1>1, FrameStep DEF GraphInv
  <1>4. \A w \in Workers : pc[w] \in FreePoints => task[w] = None
    BY DEF ControlOK
  <1>5. \A w \in Workers : pc[w] = "notify" => cont[w] \in {"body", "release"}
    BY DEF ControlOK
  <1>6. PhaseOK'
    BY <1>1, <1>2, <1>4, <1>5 DEF PhaseOK, GraphInv, FreePoints, graph
  <1> QED BY <1>3, <1>6 DEF GraphInv

LEMMA GraphStep ==
  ASSUME TypeOK, ControlOK, GraphInv, [Next]_vars
  PROVE  GraphInv'
  <1>1. CASE \E a \in Actors : Body(a)
    BY <1>1, CreateStep, AddDependencyStep, CommitTaskStep, ParkStep DEF Body
  <1>2. CASE \E a \in Actors : CommitDecrement(a)
    BY <1>2, CommitDecrementStep
  <1>3. CASE \E w \in Workers :
               \/ TakeRunnableTask(w) \/ NotifyTaskCompletion(w)
               \/ ReleaseSuccessor(w) \/ FinishTask(w)
    BY <1>3, TakeStep, CompletionStep, ReleaseStep, FinishStep
  <1>4. CASE \/ UNCHANGED vars
             \/ \E a \in Actors : Notify(a) \/ Look(a)
             \/ \E w \in Workers :
                  \/ EnterLoop(w) \/ Loop(w) \/ SetIsSleeping(w) \/ Check(w)
                  \/ Wait(w) \/ ResetIsSleeping(w) \/ NotifyAll(w) \/ NotifyException(w)
             \/ StartWorkers
    BY <1>4, OtherSteps
  <1> QED BY <1>1, <1>2, <1>3, <1>4 DEF Next, ActorStep, WorkerStep, Terminated

LEMMA GraphInvariant == Spec => [](TypeOK /\ ControlOK /\ GraphInv)
  <1>1. Init => GraphInv
    BY GraphInit
  <1>2. TypeOK /\ ControlOK /\ GraphInv /\ [Next]_vars => GraphInv'
    BY GraphStep
  <1> QED BY <1>1, <1>2, TypeCorrect, PTL DEF Spec

\* predecessor_count is exact in every reachable state, whatever the number
\* of threads, tasks and dependencies: the release loop of
\* notify_task_completion, add_dependency and commit_task together lose no
\* decrement and make none too many.
THEOREM PredecessorCountExact == Spec => []CountExact
  BY GraphInvariant, PTL DEF GraphInv

\* Between release and completion a physical task is in one place only, so it
\* is run once.
THEOREM TaskHeldOnce == Spec => []HeldOnce
  BY GraphInvariant, PTL DEF GraphInv

\* No assert of scheduler.cpp or physical_task_list.cpp can fail as long as
\* the logical tasks respect DependencyContract.
THEOREM AssertionsNeverFail == Spec => []AssertionsHold
  <1>1. ASSUME TypeOK, ControlOK, GraphInv PROVE AssertionsHold
    <2> USE Constants
    <2>1. ASSUME NEW a \in Actors, pc[a] = "commit"
          PROVE  arg[a] \in vertices /\ predecessor_count[arg[a]] > 0
      <3>1. CommitPending(arg[a]) /\ arg[a] \in Tasks
        BY <1>1, <2>1, NamedTasks DEF CommitPending
      <3>2. arg[a] \in vertices
        BY <1>1, <3>1 DEF GraphInv, GraphOK
      <3> QED BY <1>1, <3>1, <3>2, ZeroCount DEF GraphInv
    <2>2. ASSUME NEW w \in Workers, pc[w] = "release",
                 NEW i \in released[task[w]] + 1 .. Len(successors[task[w]])
          PROVE  /\ successors[task[w]][i] \in vertices
                 /\ predecessor_count[successors[task[w]][i]] > 0
      <3> PICK r : r = task[w]
        OBVIOUS
      <3> PICK s : s = successors[r][i]
        OBVIOUS
      <3>1. r \in Tasks /\ released[r] \in Nat
        BY <1>1, <2>2, NamedTasks DEF BusyPoints, TypeOK, GraphTypeOK
      <3>2. Len(successors[r]) \in Nat /\ Len(successors[r]) <= MaxSuccessors
        BY <1>1, <3>1 DEF TypeOK, GraphTypeOK, GraphInv, GraphOK
      <3>3. i \in 1 .. Len(successors[r]) /\ i \in 1 .. MaxSuccessors /\ released[r] < i
        BY <3>1, <3>2
      <3>4. s \in Tasks
        BY <1>1, <2>2, <3>3, NamedTasks
      <3>5. <<r, i>> \in Tokens(s)
        BY <3>1, <3>3 DEF Tokens
      <3>6. s \in vertices
        BY <1>1, <3>4, <3>5 DEF GraphInv, GraphOK
      <3> QED BY <1>1, <3>5, <3>6, ZeroCount DEF GraphInv
    <2>3. ASSUME NEW w \in Workers, pc[w] = "body" PROVE task[w] \in vertices
      BY <1>1, <2>3 DEF GraphInv, PhaseOK, ControlOK, BusyPoints
    <2>4. ASSUME NEW a \in Actors, NEW p \in Tasks, NEW s \in Tasks,
                 pc[a] = "body", DependencyContract(a, p, s)
          PROVE  s \in vertices /\ predecessor_count[s] > 0
      BY <1>1, <2>4, ContractLive
    <2> QED BY <2>1, <2>2, <2>3, <2>4 DEF AssertionsHold
  <1> QED BY <1>1, GraphInvariant, PTL

-----------------------------------------------------------------------------
(* The refinement of TaskGraph: every step of a thread is one step in the  *)
(* life of one task, or none.                                              *)

\* What a successful attempt on a queue hands out is a vertex.
LEMMA TakeEffect ==
  ASSUME TypeOK, ControlOK, GraphInv, NEW w \in Workers, TakeRunnableTask(w)
  PROVE  /\ UNCHANGED <<graph, unfinished, sleeping, exception_ptr, mutex, arg,
                        target, left, cont, seen>>
         /\ task[w] = None
         /\ \/ UNCHANGED <<queues, task>>
            \/ \E x \in vertices : task' = [task EXCEPT ![w] = x] /\ Queued(x)
  <1> USE Constants
  <1>1. UNCHANGED <<graph, unfinished, sleeping, exception_ptr, mutex, arg,
                    target, left, cont, seen>>
    BY DEF TakeRunnableTask, TakeUnstealable, TakeLocalStealable, Steal
  <1>2. task[w] = None
    BY DEF TakeRunnableTask, TakeLocalStealable, ControlOK, FreePoints
  <1>3. \/ UNCHANGED <<queues, task>>
        \/ \E x : task' = [task EXCEPT ![w] = x] /\ Queued(x)
    <2>1. ASSUME NEW found, NEW missed, TakeUnstealable(w, found, missed) PROVE <1>3
      <3>1. CASE unstealable[w] # <<>>
        <4>1. unstealable[w] \in Seq(Ids)
          BY DEF TypeOK, QueueTypeOK
        <4>2. 1 \in DOMAIN unstealable[w] /\ unstealable[w][1] = Head(unstealable[w])
          BY <3>1, <4>1
        <4>3. Queued(Head(unstealable[w]))
          BY <4>2 DEF Queued
        <4> QED BY <2>1, <3>1, <4>3 DEF TakeUnstealable
      <3>2. CASE unstealable[w] = <<>>
        BY <2>1, <3>2 DEF TakeUnstealable, queues
      <3> QED BY <3>1, <3>2
    <2>2. ASSUME NEW found, NEW missed, Steal(w, found, missed) PROVE <1>3
      <3> PICK n \in Nodes : n = (ThreadMapping[w] + scan[w]) % NodeCount
        BY TakeFound
      <3>1. CASE stealable[n] # <<>>
        <4>1. stealable[n] \in Seq(Ids)
          BY DEF TypeOK, QueueTypeOK
        <4>2. 1 \in DOMAIN stealable[n] /\ stealable[n][1] = Head(stealable[n])
          BY <3>1, <4>1
        <4>3. Queued(Head(stealable[n]))
          BY <4>2 DEF Queued
        <4> QED BY <2>2, <3>1, <4>3 DEF Steal
      <3>2. CASE stealable[n] = <<>>
        BY <2>2, <3>2 DEF Steal, queues
      <3> QED BY <3>1, <3>2
    <2>3. ASSUME TakeLocalStealable(w) PROVE <1>3
      <3> PICK n \in Nodes : n = ThreadMapping[w]
        BY MappingAssumption
      <3>1. CASE stealable[n] # <<>>
        <4>1. stealable[n] \in Seq(Ids)
          BY DEF TypeOK, QueueTypeOK
        <4>2. Len(stealable[n]) \in DOMAIN stealable[n]
          BY <3>1, <4>1
        <4>3. Queued(stealable[n][Len(stealable[n])])
          BY <4>2 DEF Queued
        <4> QED BY <2>3, <3>1, <4>3 DEF TakeLocalStealable
      <3>2. CASE stealable[n] = <<>>
        BY <2>3, <3>2 DEF TakeLocalStealable, queues
      <3> QED BY <3>1, <3>2
    <2> QED BY <2>1, <2>2, <2>3 DEF TakeRunnableTask
  <1>4. ASSUME NEW x, Queued(x) PROVE x \in vertices
    <2>1. x \in Ids
      BY <1>4 DEF Queued, TypeOK, QueueTypeOK
    <2> QED BY <1>4, <2>1, NamedTasks DEF GraphInv, PlacesOK
  <1> QED BY <1>1, <1>2, <1>3, <1>4

\* The refinement mapping.
status == [t \in Tasks |-> Status(t)]
Preds(t) == {p \in Tasks : \E i \in DOMAIN successors[p] : successors[p][i] = t}
preds == [t \in Tasks |-> Preds(t)]

\* Only the named task moves.
Moves(t, from, to) ==
  /\ Status(t) = from /\ Status(t)' = to
  /\ \A u \in Tasks \ {t} : Status(u)' = Status(u)
  /\ UNCHANGED successors

-----------------------------------------------------------------------------
(* Statuses and how a step moves them.                                     *)

\* Status(t) by the state of the vertex and of the threads.
LEMMA StatusCases ==
  ASSUME TypeOK, NEW t \in Tasks
  PROVE  /\ Status(t) = "none" <=> t \notin Ids
         /\ Status(t) = "done" <=> t \in Ids /\ t \notin vertices
         /\ Status(t) = "running" <=> t \in vertices /\ \E w \in Workers : task[w] = t
         /\ Status(t) = "created" <=>
              t \in vertices /\ (\A w \in Workers : task[w] # t) /\ CommitPending(t)
         /\ Status(t) = "committed" <=>
              t \in vertices /\ (\A w \in Workers : task[w] # t) /\ ~CommitPending(t)
  <1>1. t \in Ids <=> ~(t >= created)
    BY Constants DEF TypeOK, GraphTypeOK, Ids, Tasks
  <1>2. t \in vertices => t \in Ids
    BY DEF TypeOK, GraphTypeOK
  <1> QED BY <1>1, <1>2 DEF Status

LEMMA MovesMove ==
  ASSUME NEW t \in Tasks, NEW from, NEW to, Moves(t, from, to)
  PROVE  TG!Move(t, from, to)
  <1>1. status[t] = from /\ status' = [status EXCEPT ![t] = to]
    BY DEF status, Moves
  <1>2. UNCHANGED preds
    BY DEF Moves, preds, Preds
  <1> QED BY <1>1, <1>2 DEF TG!Move, status, preds, Preds

LEMMA Stutter ==
  ASSUME \A t \in Tasks : Status(t)' = Status(t), UNCHANGED successors
  PROVE  UNCHANGED TG!vars
  <1>1. UNCHANGED <<status, preds>>
    BY DEF status, preds, Preds
  <1> QED BY <1>1 DEF TG!vars, status, preds, Preds

\* Steps after which every vertex is where it was.
LEMMA SamePlaces ==
  ASSUME UNCHANGED <<created, vertices, successors>>,
         \A t \in vertices : CommitPending(t)' <=> CommitPending(t),
         \A t \in vertices :
           (\E w \in Workers : task'[w] = t) <=> (\E w \in Workers : task[w] = t)
  PROVE  UNCHANGED TG!vars
  <1>1. \A t \in Tasks : Status(t)' = Status(t)
    BY DEF Status
  <1> QED BY <1>1, Stutter

-----------------------------------------------------------------------------
(* The steps.                                                              *)

LEMMA CreateRefines ==
  ASSUME TypeOK, TypeOK', ControlOK, GraphInv, NEW a \in Actors, NEW o \in Options,
         CreatePhysicalTask(a, o)
  PROVE  TG!Next
  <1> USE Constants DEF CreatePhysicalTask
  <1> PICK c : c = created
    OBVIOUS
  <1>1. Ids' = Ids \cup {c} /\ c \in Tasks /\ c \notin Ids
    BY NewIds
  <1>2. vertices' = vertices \cup {c} /\ task' = task /\ arg' = arg
    BY DEF locals
  <1>3. owner'[c] = a /\ \A t \in Tasks \ {c} : owner'[t] = owner[t]
    BY <1>1 DEF TypeOK, GraphTypeOK
  <1>4. \A w \in Workers : task[w] # c
    BY <1>1, NamesAssumption DEF TypeOK, ThreadTypeOK
  <1>5. Status(c) = "none"
    BY <1>1, StatusCases
  <1>6. Status(c)' = "created"
    <2>1. CommitPending(c)' /\ ~(c >= created')
      BY <1>1, <1>3 DEF CommitPending, TypeOK, GraphTypeOK
    <2> QED BY <1>2, <1>4, <2>1 DEF Status
  <1>7. ASSUME NEW t \in Tasks \ {c} PROVE Status(t)' = Status(t)
    <2>1. CommitPending(t)' <=> CommitPending(t)
      BY <1>2, <1>3 DEF CommitPending
    <2>2. t >= created' <=> t >= created
      BY DEF Tasks, TypeOK, GraphTypeOK
    <2> QED BY <1>2, <2>1, <2>2 DEF Status
  <1>8. Moves(c, "none", "created")
    BY <1>5, <1>6, <1>7 DEF Moves
  <1> QED BY <1>1, <1>8, MovesMove DEF TG!Next, TG!Create

LEMMA AddDependencyRefines ==
  ASSUME TypeOK, TypeOK', ControlOK, GraphInv, NEW a \in Actors, NEW p \in Tasks,
         NEW s \in Tasks, AddDependency(a, p, s)
  PROVE  TG!Next
  <1> USE Constants DEF AddDependency
  <1>1. s \in vertices /\ predecessor_count[s] > 0 /\ predecessor_count[s] \in Nat
    BY ContractLive
  <1>2. \A w \in Workers : task[w] # s
    <2>1. s # None
      BY NamesAssumption
    <2> QED BY <1>1, <2>1 DEF GraphInv, PlacesOK
  <1>3. Status(s) \in {"created", "committed"} /\ Status(p) \notin {"none", "done"}
    <2>1. p \in Ids
      BY DEF TypeOK, GraphTypeOK
    <2> QED BY <1>1, <1>2, <2>1, StatusCases
  <1>4. \A t \in Tasks : Status(t)' = Status(t)
    BY DEF Status, CommitPending, locals
  <1>5. successors[p] \in Seq(Ids)
    BY DEF TypeOK, GraphTypeOK
  <1>6. ASSUME NEW t \in Tasks
        PROVE  Preds(t)' = IF t = s THEN Preds(t) \cup {p} ELSE Preds(t)
    <2>1. (\E i \in DOMAIN successors'[p] : successors'[p][i] = t)
            <=> (\E i \in DOMAIN successors[p] : successors[p][i] = t) \/ t = s
      <3> PICK k : k = Len(successors[p])
        OBVIOUS
      <3>1. k \in Nat /\ DOMAIN successors[p] = 1 .. k
        BY <1>5
      <3>2. /\ DOMAIN successors'[p] = 1 .. k + 1 /\ successors'[p][k + 1] = s
            /\ \A i \in 1 .. k : successors'[p][i] = successors[p][i]
        BY <1>5, <3>1 DEF TypeOK, GraphTypeOK
      <3> QED BY <3>1, <3>2
    <2>2. \A q \in Tasks \ {p} : successors'[q] = successors[q]
      BY DEF TypeOK, GraphTypeOK
    <2> QED BY <2>1, <2>2 DEF Preds
  <1>7. preds' = [preds EXCEPT ![s] = @ \cup {p}]
    BY <1>6 DEF preds
  <1>8. status' = status /\ status[p] \notin {"none", "done"}
        /\ status[s] \in {"created", "committed"}
    BY <1>3, <1>4 DEF status
  <1>9. TG!AddDependency(p, s)
    BY <1>7, <1>8 DEF TG!AddDependency, status, preds, Preds
  <1> QED BY <1>9 DEF TG!Next

LEMMA CommitRefines ==
  ASSUME TypeOK, TypeOK', ControlOK, GraphInv, NEW a \in Actors, CommitDecrement(a)
  PROVE  TG!Next
  <1> USE Constants DEF CommitDecrement
  <1> PICK t : t = arg[a]
    OBVIOUS
  <1>1. t \in Tasks /\ CommitPending(t) /\ t \in vertices /\ owner[t] = None
    <2>1. t \in Ids /\ t \in Tasks /\ t # None
      BY NamedTasks, NamesAssumption
    <2>2. CommitPending(t)
      BY DEF CommitPending
    <2> QED BY <2>1, <2>2 DEF GraphInv, GraphOK
  <1>2. \A w \in Workers : task[w] # t
    <2>1. predecessor_count[t] # 0
      BY <1>1, ZeroCount DEF GraphInv
    <2>2. t # None
      BY <1>1, NamesAssumption
    <2> QED BY <2>1, <2>2 DEF GraphInv, PlacesOK
  <1>3. UNCHANGED <<created, vertices, successors, owner, task>>
    OBVIOUS
  <1>4. arg'[a] = None /\ \A b \in Actors \ {a} : arg'[b] = arg[b] /\ arg[b] # t
    BY <1>1, NamesAssumption DEF TypeOK, ThreadTypeOK, GraphInv, GraphOK
  <1>5. ~CommitPending(t)'
    <2>1. t # None
      BY <1>1, NamesAssumption
    <2> QED BY <1>1, <1>3, <1>4, <2>1 DEF CommitPending
  <1>6. ASSUME NEW u \in Tasks \ {t} PROVE Status(u)' = Status(u)
    <2>1. u # None
      BY NamesAssumption
    <2>2. CommitPending(u)' <=> CommitPending(u)
      BY <1>3, <1>4, <2>1 DEF CommitPending
    <2> QED BY <1>3, <2>2 DEF Status
  <1>7. Status(t) = "created" /\ Status(t)' = "committed"
    <2>1. Status(t) = "created"
      BY <1>1, <1>2, StatusCases
    <2> QED BY <1>2, <1>3, <1>5, <2>1 DEF Status
  <1>8. Moves(t, "created", "committed")
    BY <1>3, <1>6, <1>7 DEF Moves
  <1> QED BY <1>1, <1>8, MovesMove DEF TG!Next, TG!Commit

LEMMA CompletionRefines ==
  ASSUME TypeOK, ControlOK, GraphInv, NEW w \in Workers, NotifyTaskCompletion(w)
  PROVE  TG!Next
  <1> USE Constants DEF NotifyTaskCompletion
  <1> PICK r : r = task[w]
    OBVIOUS
  <1>1. r \in vertices /\ r \in Tasks
    BY NamedTasks DEF GraphInv, PhaseOK, ControlOK, BusyPoints
  <1>2. vertices' = vertices \ {r} /\ UNCHANGED <<created, successors, owner, task, arg>>
    BY DEF locals
  <1>3. Status(r) = "running"
    BY <1>1, StatusCases
  <1>4. Status(r)' = "done"
    BY <1>2, <1>3 DEF Status
  <1>5. ASSUME NEW u \in Tasks \ {r} PROVE Status(u)' = Status(u)
    BY <1>2 DEF Status, CommitPending
  <1>6. Moves(r, "running", "done")
    BY <1>2, <1>3, <1>4, <1>5 DEF Moves
  <1> QED BY <1>1, <1>6, MovesMove DEF TG!Next, TG!Complete

\* What is released has no predecessor that has not completed.
LEMMA ReleasedIsReady ==
  ASSUME TypeOK, GraphInv, NEW t \in vertices, predecessor_count[t] = 0
  PROVE  \A p \in Preds(t) : Status(p) = "done"
  <1> SUFFICES ASSUME NEW p \in Preds(t) PROVE Status(p) = "done"
    OBVIOUS
  <1>1. p \in Tasks /\ \E i \in DOMAIN successors[p] : successors[p][i] = t
    BY DEF Preds
  <1>2. PICK i \in DOMAIN successors[p] : successors[p][i] = t
    BY <1>1
  <1>3. successors[p] \in Seq(Ids)
    BY <1>1 DEF TypeOK, GraphTypeOK
  <1>4. i \in 1 .. Len(successors[p]) /\ Len(successors[p]) \in Nat
    BY <1>3
  <1>5. p \in Ids
    BY <1>1, <1>4 DEF GraphInv, GraphOK
  <1>6. p \notin vertices
    <2> SUFFICES ASSUME p \in vertices PROVE FALSE
      OBVIOUS
    <2>1. released[p] = 0 /\ Len(successors[p]) <= MaxSuccessors
      BY <1>1 DEF GraphInv, GraphOK
    <2>2. <<p, i>> \in Tokens(t)
      BY <1>1, <1>2, <1>4, <2>1, Constants DEF Tokens
    <2> QED BY <2>2, ZeroCount DEF GraphInv
  <1> QED BY <1>1, <1>5, <1>6, StatusCases

LEMMA TakeRefines ==
  ASSUME TypeOK, ControlOK, GraphInv, NEW w \in Workers, TakeRunnableTask(w)
  PROVE  TG!Next \/ UNCHANGED TG!vars
  <1> USE Constants
  <1>1. UNCHANGED <<graph, arg>> /\ task[w] = None
    BY TakeEffect
  <1>2. ASSUME UNCHANGED task PROVE UNCHANGED TG!vars
    BY <1>1, <1>2, SamePlaces DEF graph, CommitPending
  <1>3. ASSUME NEW x \in vertices, Queued(x), task' = [task EXCEPT ![w] = x] PROVE TG!Next
    <2>1. x \in Tasks /\ x # None
      BY NamedTasks, NamesAssumption DEF TypeOK, GraphTypeOK
    <2>2. predecessor_count[x] = 0 /\ ~CommitPending(x)
      BY <1>3, <2>1, ZeroCount DEF GraphInv, PlacesOK
    <2>3. \A v \in Workers : task[v] # x
      BY <1>3 DEF GraphInv, HeldOnce, Queued
    <2>4. task'[w] = x /\ \A v \in Workers \ {w} : task'[v] = task[v]
      BY <1>3 DEF TypeOK, ThreadTypeOK
    <2>5. Status(x) = "committed"
      BY <2>1, <2>2, <2>3, StatusCases
    <2>6. Status(x)' = "running"
      BY <1>1, <2>4, <2>5 DEF Status, graph
    <2>7. ASSUME NEW u \in Tasks \ {x} PROVE Status(u)' = Status(u)
      <3>1. u # None
        BY NamesAssumption
      <3>2. (\E v \in Workers : task'[v] = u) <=> (\E v \in Workers : task[v] = u)
        BY <1>1, <2>4, <3>1
      <3> QED BY <1>1, <3>2 DEF Status, CommitPending, graph
    <2>8. Moves(x, "committed", "running")
      BY <1>1, <2>5, <2>6, <2>7 DEF Moves, graph
    <2>9. \A p \in preds[x] : status[p] = "done"
      BY <2>1, <2>2, ReleasedIsReady DEF preds, status, Preds
    <2>10. TG!Start(x)
      BY <2>1, <2>8, <2>9, MovesMove DEF TG!Start, status, preds, Preds
    <2> QED BY <2>1, <2>10 DEF TG!Next
  <1> QED BY <1>2, <1>3, TakeEffect

LEMMA StepRefines ==
  ASSUME TypeOK, TypeOK', ControlOK, GraphInv, [Next]_vars
  PROVE  TG!Next \/ UNCHANGED TG!vars
  <1> USE Constants
  <1>1. CASE \E a \in Actors : \/ \E o \in Options : CreatePhysicalTask(a, o)
                               \/ \E p, s \in Tasks : AddDependency(a, p, s)
                               \/ CommitDecrement(a)
    BY <1>1, CreateRefines, AddDependencyRefines, CommitRefines
  <1>2. CASE \E w \in Workers : TakeRunnableTask(w) \/ NotifyTaskCompletion(w)
    BY <1>2, TakeRefines, CompletionRefines
  <1>3. ASSUME NEW a \in Actors, NEW t \in Tasks, CommitTask(a, t) PROVE UNCHANGED TG!vars
    <2>1. owner[t] # None /\ arg[a] = None /\ t # None
      BY <1>3, NamesAssumption DEF CommitTask, ControlOK
    <2>2. UNCHANGED <<created, vertices, successors, task>>
      BY <1>3 DEF CommitTask
    <2>3. /\ owner'[t] = None /\ \A u \in Tasks \ {t} : owner'[u] = owner[u]
          /\ arg'[a] = t /\ \A b \in Actors \ {a} : arg'[b] = arg[b]
      BY <1>3 DEF CommitTask, TypeOK, GraphTypeOK, ThreadTypeOK
    <2>4. ASSUME NEW u \in Tasks PROVE CommitPending(u)' <=> CommitPending(u)
      <3>1. u # None
        BY NamesAssumption
      <3>2. CASE u = t
        BY <2>1, <2>3, <3>2 DEF CommitPending
      <3>3. CASE u # t
        BY <2>1, <2>3, <3>1, <3>3 DEF CommitPending
      <3> QED BY <3>2, <3>3
    <2>5. vertices \subseteq Tasks
      BY NamedTasks DEF TypeOK, GraphTypeOK
    <2> QED BY <2>2, <2>4, <2>5, SamePlaces
  <1>4. ASSUME NEW a \in Actors, NEW t \in Tasks, Park(a, t) PROVE UNCHANGED TG!vars
    <2>1. UNCHANGED <<created, vertices, successors, task, arg>>
      BY <1>4 DEF Park, locals
    <2>2. owner[t] # None /\ owner'[t] # None /\ \A u \in Tasks \ {t} : owner'[u] = owner[u]
      BY <1>4 DEF Park, TypeOK, GraphTypeOK
    <2>3. \A u \in Tasks : CommitPending(u)' <=> CommitPending(u)
      BY <2>1, <2>2 DEF CommitPending
    <2>4. vertices \subseteq Tasks
      BY NamedTasks DEF TypeOK, GraphTypeOK
    <2> QED BY <2>1, <2>3, <2>4, SamePlaces
  <1>5. ASSUME NEW w \in Workers, FinishTask(w) PROVE UNCHANGED TG!vars
    <2>1. task[w] \notin vertices
      BY <1>5 DEF FinishTask, GraphInv, PhaseOK
    <2>2. task'[w] = None /\ \A v \in Workers \ {w} : task'[v] = task[v]
      BY <1>5 DEF FinishTask, TypeOK, ThreadTypeOK
    <2>3. None \notin vertices
      BY NamedTasks, NamesAssumption DEF TypeOK, GraphTypeOK
    <2>4. \A t \in vertices :
            (\E v \in Workers : task'[v] = t) <=> (\E v \in Workers : task[v] = t)
      BY <2>1, <2>2, <2>3
    <2>5. UNCHANGED <<graph, arg>>
      BY <1>5 DEF FinishTask
    <2> QED BY <2>4, <2>5, SamePlaces DEF graph, CommitPending
  <1>6. ASSUME UNCHANGED <<created, vertices, successors, owner, task, arg>>
        PROVE  UNCHANGED TG!vars
    BY <1>6, SamePlaces DEF CommitPending
  <1>7. ASSUME NEW a \in Actors, Look(a) \/ Notify(a) PROVE UNCHANGED TG!vars
    BY <1>6, <1>7 DEF Look, Notify, graph
  <1>8. ASSUME NEW w \in Workers,
               \/ EnterLoop(w) \/ Loop(w) \/ SetIsSleeping(w) \/ Check(w) \/ Wait(w)
               \/ ResetIsSleeping(w) \/ ReleaseSuccessor(w) \/ NotifyAll(w)
               \/ NotifyException(w)
        PROVE  UNCHANGED TG!vars
    BY <1>6, <1>8 DEF EnterLoop, Loop, SetIsSleeping, Check, Wait, ResetIsSleeping,
       ReleaseSuccessor, NotifyAll, NotifyException, graph, locals
  <1>9. CASE StartWorkers \/ UNCHANGED vars
    BY <1>6, <1>9 DEF StartWorkers, vars, graph, locals
  <1> QED
    BY <1>1, <1>2, <1>3, <1>4, <1>5, <1>7, <1>8, <1>9
    DEF Next, ActorStep, Body, WorkerStep, Terminated

LEMMA InitRefines == Init => TG!Init
  <1> SUFFICES ASSUME Init PROVE TG!Init
    OBVIOUS
  <1>1. \A t \in Tasks : Status(t) = "none"
    BY Constants DEF Init, Status, Tasks
  <1>2. \A t \in Tasks : Preds(t) = {}
    BY DEF Init, Preds
  <1>3. status = [t \in Tasks |-> "none"] /\ preds = [t \in Tasks |-> {}]
    BY <1>1, <1>2 DEF status, preds
  <1> QED BY <1>3 DEF TG!Init, status, preds, Preds

\* The scheduler implements the task graph: whatever the interleaving of
\* commits, dependencies, completions, steals and sleeps, a physical task
\* starts once, after its commit and after every task it was made to depend
\* on has completed.
THEOREM ImplementsTaskGraph == Spec => RefinesTaskGraph
  <1>1. TypeOK /\ TypeOK' /\ ControlOK /\ GraphInv /\ [Next]_vars => [TG!Next]_(TG!vars)
    BY StepRefines
  <1> QED BY <1>1, InitRefines, GraphInvariant, PTL DEF Spec, TG!Spec, RefinesTaskGraph

-----------------------------------------------------------------------------
(* is_finished() and the sleep protocol of take_runnable_task: the count   *)
(* of unfinished tasks is exact, zero means that nothing is left to do,    *)
(* and no worker sleeps through a task or through the end.                 *)

\* The tasks that m_unfinished_task_count counts: committed, and not yet at
\* the end of notify_task_completion.
Counted ==
  {t \in Ids : owner[t] = None /\ (t \in vertices \/ \E w \in Workers : task[w] = t)}

\* Whoever still has to commit a task is alive and committed itself: the body
\* that created it, or, once parked, some vertex that is there.
OwnersOK ==
  /\ \A t \in Tasks, w \in Workers : owner[t] = w => task[w] \in vertices
  /\ \A t \in Tasks : owner[t] = Main => pc[Main] # "exit"
  /\ \A t \in Tasks : owner[t] = Parked => \E q \in vertices : owner[q] = None

CountOK == unfinished = Cardinality(Counted) /\ OwnersOK

\* A worker leaves for good only when the graph is empty or cancelled.
ExitOK ==
  \A w \in Workers :
    /\ pc[w] = "notify_all" /\ cont[w] = "exit" => IsCancelled
    /\ pc[w] = "exit" /\ ~IsCancelled => vertices = {}

\* w has set its flag and looked for the end, and the flag is still set.
PastCheck(w) ==
  w \in sleeping /\ pc[w] \in {"retake_unstealable", "resteal", "wait"}

EndOK ==
  \A w \in Workers :
    PastCheck(w) /\ (IsFinished \/ IsCancelled)
      => \E v \in Workers : pc[v] = "notify_all" /\ target[v] <= w

\* w has set its flag and looked at its own queue.
PastOwnQueue(w) == w \in sleeping /\ pc[w] \in {"resteal", "wait"}

UnstealableOK ==
  \A w \in Workers :
    PastOwnQueue(w) /\ unstealable[w] # <<>>
      => \E a \in Actors : pc[a] = "notify" /\ target[a] = w

\* w has set its flag and looked at the queue of node n.
PastQueue(w, n) ==
  /\ w \in sleeping
  /\ \/ pc[w] = "wait"
     \/ /\ pc[w] = "resteal"
        /\ \E i \in Nodes : i < scan[w] /\ n = (ThreadMapping[w] + i) % NodeCount

StealableOK ==
  \A n \in Nodes :
    stealable[n] # <<>>
      => \/ \E a \in Actors : pc[a] = "notify"
         \/ \E w \in Workers : ~PastQueue(w, n)

\* steal_task starts at the worker's own node.
ScanOK == \A w \in Workers : pc[w] \notin {"steal", "resteal"} => scan[w] = 0

SleepInv ==
  CountOK /\ ExitOK /\ EndOK /\ UnstealableOK /\ StealableOK /\ ScanOK

-----------------------------------------------------------------------------
(* The count of unfinished tasks.                                          *)

LEMMA CountedFinite ==
  ASSUME TypeOK
  PROVE  /\ Counted \subseteq Tasks
         /\ IsFiniteSet(Counted) /\ Cardinality(Counted) \in Nat
         /\ Cardinality(Counted) = 0 <=> Counted = {}
  <1>1. IsFiniteSet(Tasks)
    BY FS_Interval, Constants DEF Tasks
  <1>2. Counted \subseteq Tasks
    BY Constants DEF Counted, TypeOK, GraphTypeOK, Ids, Tasks
  <1>3. IsFiniteSet(Counted)
    BY <1>1, <1>2, FS_Subset
  <1> QED BY <1>2, <1>3, FS_CardinalityType, FS_EmptySet

\* What decrement_predecessor_count does to the threads and the queues: it
\* returns, or it has pushed a task and is about to notify.
Decremented(a, then) ==
  /\ mutex = None
  /\ \/ pc' = [pc EXCEPT ![a] = then] /\ UNCHANGED <<stealable, unstealable, target>>
     \/ /\ pc' = [pc EXCEPT ![a] = "notify"]
        /\ \E w \in Workers :
             /\ target' = [target EXCEPT ![a] = w]
             /\ \A v \in Workers \ {w} : unstealable'[v] = unstealable[v]

LEMMA DecrementEffect ==
  ASSUME TypeOK, NEW a \in Actors, NEW t \in Ids, NEW then,
         DecrementPredecessorCount(a, t, then)
  PROVE  Decremented(a, then)
  <1> USE Constants
  <1>1. option[t] \in Options
    BY DEF TypeOK, GraphTypeOK
  <1>2. mutex = None
    BY DEF DecrementPredecessorCount
  <1>3. CASE predecessor_count[t] # 1
    BY <1>2, <1>3 DEF Decremented, DecrementPredecessorCount, queues
  <1>4. CASE predecessor_count[t] = 1 /\ pc' = [pc EXCEPT ![a] = "notify"]
             /\ option[t] \in Unstealable
             /\ unstealable' = [unstealable EXCEPT ![option[t].only] = Append(@, t)]
             /\ target' = [target EXCEPT ![a] = option[t].only]
    <2>1. option[t].only \in Workers
      BY <1>1, <1>4, OptionFields
    <2>2. \A v \in Workers \ {option[t].only} : unstealable'[v] = unstealable[v]
      BY <1>4 DEF TypeOK, QueueTypeOK
    <2> QED BY <1>2, <1>4, <2>1, <2>2 DEF Decremented
  <1>5. CASE predecessor_count[t] = 1 /\ pc' = [pc EXCEPT ![a] = "notify"]
             /\ option[t] \in Stealable /\ unstealable' = unstealable
             /\ \E w \in IF option[t].recommended = None
                           THEN Workers ELSE {option[t].recommended} :
                  target' = [target EXCEPT ![a] = w]
    <2>1. \E w \in Workers : target' = [target EXCEPT ![a] = w]
      BY <1>1, <1>5, OptionFields
    <2> QED BY <1>2, <1>5, <2>1 DEF Decremented
  <1> QED BY ZenonT(60), <1>3, <1>4, <1>5 DEF DecrementPredecessorCount

LEMMA CommitEffect ==
  ASSUME TypeOK, ControlOK, NEW a \in Actors, CommitDecrement(a)
  PROVE  Decremented(a, "body")
  BY NamedTasks, DecrementEffect DEF CommitDecrement

LEMMA ReleaseEffect ==
  ASSUME TypeOK, ControlOK, NEW w \in Workers, ReleaseSuccessor(w)
  PROVE  Decremented(w, "release")
  <1>1. task[w] \in Tasks
    BY NamedTasks DEF ReleaseSuccessor, BusyPoints
  <1>2. released[task[w]] + 1 \in 1 .. Len(successors[task[w]])
    BY <1>1 DEF ReleaseSuccessor, TypeOK, GraphTypeOK
  <1>3. successors[task[w]][released[task[w]] + 1] \in Ids
    BY <1>2, NamedTasks DEF ReleaseSuccessor
  <1> QED BY <1>3, DecrementEffect, Constants DEF ReleaseSuccessor

LEMMA CountInit == Init => CountOK
  <1> SUFFICES ASSUME Init PROVE CountOK
    OBVIOUS
  <1>1. Counted = {}
    BY Constants DEF Init, Counted, Ids
  <1>2. Cardinality(Counted) = 0
    BY <1>1, FS_EmptySet
  <1> QED BY <1>2, Constants, NamesAssumption DEF Init, CountOK, OwnersOK

\* Steps that change neither who has to commit what nor what is being run.
LEMMA CountFrame ==
  ASSUME CountOK, UNCHANGED <<created, vertices, owner, unfinished, task>>,
         pc'[Main] = "exit" => pc[Main] = "exit" \/ \A t \in Tasks : owner[t] # Main
  PROVE  CountOK'
  <1>1. Counted' = Counted
    BY DEF Counted, Ids
  <1>2. OwnersOK'
    BY DEF OwnersOK, CountOK
  <1> QED BY <1>1, <1>2 DEF CountOK

LEMMA CountCreate ==
  ASSUME TypeOK, ControlOK, GraphInv, CountOK, NEW a \in Actors, NEW o \in Options,
         CreatePhysicalTask(a, o)
  PROVE  CountOK'
  <1> USE Constants DEF CreatePhysicalTask
  <1> PICK c : c = created
    OBVIOUS
  <1>1. Ids' = Ids \cup {c} /\ c \in Tasks /\ c \notin Ids /\ c \notin vertices
    BY NewIds DEF TypeOK, GraphTypeOK
  <1>2. owner'[c] = a /\ \A t \in Tasks \ {c} : owner'[t] = owner[t]
    BY <1>1 DEF TypeOK, GraphTypeOK
  <1>3. task' = task /\ pc' = pc /\ unfinished' = unfinished /\ vertices' = vertices \cup {c}
    BY DEF locals
  <1>4. Ids \subseteq Tasks /\ vertices \subseteq Tasks
    BY NamedTasks DEF TypeOK, GraphTypeOK
  <1>5. Counted' = Counted
    BY <1>1, <1>2, <1>3, <1>4 DEF Counted
  <1>6. a # Main => task[a] \in vertices
    BY DEF GraphInv, PhaseOK, ControlOK, BusyPoints
  <1>7. OwnersOK'
    <2>1. ASSUME NEW t \in Tasks, NEW w \in Workers, owner'[t] = w PROVE task[w] \in vertices
      BY <1>2, <1>6, <2>1 DEF CountOK, OwnersOK
    <2>2. ASSUME NEW t \in Tasks, owner'[t] = Main PROVE pc[Main] # "exit"
      BY <1>2, <2>2 DEF CountOK, OwnersOK
    <2>3. ASSUME NEW t \in Tasks, owner'[t] = Parked
          PROVE  \E q \in vertices : owner'[q] = None
      <3>1. t # c
        BY <1>2, <2>3
      <3>2. PICK q \in vertices : owner[q] = None
        BY <1>2, <2>3, <3>1 DEF CountOK, OwnersOK
      <3> QED BY <1>1, <1>2, <1>4, <3>2
    <2> QED BY <1>3, <2>1, <2>2, <2>3 DEF OwnersOK
  <1> QED BY <1>3, <1>5, <1>7 DEF CountOK

LEMMA CountCommit ==
  ASSUME TypeOK, ControlOK, GraphInv, CountOK, NEW a \in Actors, NEW t \in Tasks,
         CommitTask(a, t)
  PROVE  CountOK'
  <1> USE Constants DEF CommitTask
  <1>1. owner[t] # None /\ t \in vertices /\ t \in Ids
    BY DEF GraphInv, GraphOK, CommitPending, TypeOK, GraphTypeOK
  <1>2. owner'[t] = None /\ \A u \in Tasks \ {t} : owner'[u] = owner[u]
    BY DEF TypeOK, GraphTypeOK
  <1>3. Ids \subseteq Tasks /\ vertices \subseteq Tasks /\ Ids' = Ids
    BY NamedTasks DEF TypeOK, GraphTypeOK, Ids
  <1>4. Counted' = Counted \cup {t} /\ t \notin Counted
    BY <1>1, <1>2, <1>3 DEF Counted
  <1>5. Cardinality(Counted') = Cardinality(Counted) + 1
    BY ZenonT(60), <1>4, CountedFinite, FS_AddElement
  <1>6. pc'[Main] = "exit" => pc[Main] = "exit"
    BY DEF TypeOK, ThreadTypeOK
  <1>7. OwnersOK'
    <2>1. ASSUME NEW u \in Tasks, owner'[u] # None PROVE owner'[u] = owner[u]
      BY <1>2, <2>1
    <2>2. \A q \in vertices : owner[q] = None => owner'[q] = None
      BY <1>2, <1>3
    <2> QED BY <1>6, <2>1, <2>2 DEF CountOK, OwnersOK
  <1> QED BY <1>5, <1>7 DEF CountOK

LEMMA CountPark ==
  ASSUME TypeOK, ControlOK, GraphInv, CountOK, NEW a \in Actors, NEW t \in Tasks,
         Park(a, t)
  PROVE  CountOK'
  <1> USE Constants DEF Park
  <1>1. owner[t] # None /\ owner'[t] = Parked /\ \A u \in Tasks \ {t} : owner'[u] = owner[u]
    BY DEF TypeOK, GraphTypeOK
  <1>2. Ids \subseteq Tasks /\ vertices \subseteq Tasks /\ Ids' = Ids
    BY NamedTasks DEF TypeOK, GraphTypeOK, Ids
  <1>3. Counted' = Counted
    BY <1>1, <1>2 DEF Counted, locals
  <1>4. task[a] \in vertices /\ owner[task[a]] = None
    <2>1. task[a] \in vertices
      BY DEF GraphInv, PhaseOK, ControlOK, BusyPoints
    <2> QED BY <2>1, RunningTask DEF CommitPending
  <1>5. owner'[task[a]] = None
    BY <1>1, <1>2, <1>4
  <1>6. OwnersOK'
    BY <1>1, <1>4, <1>5 DEF CountOK, OwnersOK, locals
  <1> QED BY <1>3, <1>6 DEF CountOK

LEMMA CountTake ==
  ASSUME TypeOK, ControlOK, GraphInv, CountOK, NEW w \in Workers, TakeRunnableTask(w)
  PROVE  CountOK'
  <1> USE Constants
  <1>1. /\ UNCHANGED <<graph, unfinished>> /\ task[w] = None
        /\ \/ UNCHANGED task
           \/ \E x \in vertices : task' = [task EXCEPT ![w] = x]
    BY TakeEffect
  <1>2. pc'[Main] = pc[Main]
    BY DEF TakeRunnableTask, TakeUnstealable, TakeLocalStealable, Steal, TypeOK, ThreadTypeOK
  <1>3. CASE UNCHANGED task
    BY <1>1, <1>2, <1>3, CountFrame DEF graph
  <1>4. ASSUME NEW x \in vertices, task' = [task EXCEPT ![w] = x] PROVE CountOK'
    <2>1. task'[w] = x /\ \A v \in Workers \ {w} : task'[v] = task[v]
      BY <1>4 DEF TypeOK, ThreadTypeOK
    <2>2. None \notin Ids /\ None \notin vertices
      BY NamedTasks, NamesAssumption DEF TypeOK, GraphTypeOK
    <2>3. Counted' = Counted
      BY <1>1, <2>1, <2>2 DEF Counted, Ids, graph
    <2>4. OwnersOK'
      BY <1>1, <1>2, <2>1, <2>2 DEF CountOK, OwnersOK, graph
    <2> QED BY <1>1, <2>3, <2>4 DEF CountOK
  <1> QED BY <1>1, <1>3, <1>4

LEMMA CountCompletion ==
  ASSUME TypeOK, ControlOK, GraphInv, CountOK, NEW w \in Workers, NotifyTaskCompletion(w)
  PROVE  CountOK'
  <1> USE Constants DEF NotifyTaskCompletion
  <1> PICK r : r = task[w]
    OBVIOUS
  <1>1. r \in vertices /\ r # None
    BY NamedTasks, NamesAssumption DEF GraphInv, PhaseOK, ControlOK, BusyPoints
  <1>2. vertices' = vertices \ {r} /\ task' = task /\ Ids' = Ids
    BY DEF locals, Ids
  <1>3. Counted' = Counted
    BY <1>2 DEF Counted
  <1>4. \A v \in Workers \ {w} : task[v] # r
    BY <1>1 DEF GraphInv, HeldOnce
  <1>5. pc'[Main] = pc[Main]
    BY DEF TypeOK, ThreadTypeOK
  <1>6. /\ \A t \in Tasks : owner[t] # w
        /\ \A t \in Tasks : owner[t] = Parked => \E q \in vertices \ {r} : owner[q] = None
    BY DEF BodyDone
  <1>7. OwnersOK'
    BY <1>2, <1>4, <1>5, <1>6 DEF CountOK, OwnersOK
  <1> QED BY <1>3, <1>7 DEF CountOK

LEMMA CountFinish ==
  ASSUME TypeOK, ControlOK, GraphInv, CountOK, NEW w \in Workers, FinishTask(w)
  PROVE  CountOK' /\ unfinished \in Nat /\ unfinished > 0
  <1> USE Constants DEF FinishTask
  <1> PICK r : r = task[w]
    OBVIOUS
  <1>1. r \in Ids /\ r \in Tasks /\ r # None /\ r \notin vertices
    BY NamedTasks, NamesAssumption DEF BusyPoints, GraphInv, PhaseOK
  <1>2. owner[r] = None
    BY <1>1 DEF GraphInv, GraphOK, CommitPending
  <1>3. task'[w] = None /\ \A v \in Workers \ {w} : task'[v] = task[v] /\ task[v] # r
    BY <1>1 DEF TypeOK, ThreadTypeOK, GraphInv, HeldOnce
  <1>4. None \notin Ids /\ Ids' = Ids /\ UNCHANGED <<vertices, owner>>
    BY NamedTasks, NamesAssumption DEF Ids, graph
  <1>5. Counted' = Counted \ {r} /\ r \in Counted
    BY <1>1, <1>2, <1>3, <1>4 DEF Counted
  <1>6. Cardinality(Counted') = Cardinality(Counted) - 1
    BY ZenonT(60), <1>5, CountedFinite, FS_RemoveElement
  <1>7. Cardinality(Counted) \in Nat /\ Cardinality(Counted) # 0
    BY <1>5, CountedFinite
  <1>8. pc'[Main] = pc[Main]
    BY DEF TypeOK, ThreadTypeOK
  <1>9. OwnersOK'
    BY <1>1, <1>3, <1>4, <1>8 DEF CountOK, OwnersOK
  <1> QED BY <1>6, <1>7, <1>9 DEF CountOK

LEMMA CountStep ==
  ASSUME TypeOK, ControlOK, GraphInv, CountOK, [Next]_vars
  PROVE  CountOK'
  <1> USE Constants
  <1>1. CASE \E a \in Actors : \/ \E o \in Options : CreatePhysicalTask(a, o)
                               \/ \E t \in Tasks : CommitTask(a, t) \/ Park(a, t)
    BY <1>1, CountCreate, CountCommit, CountPark
  <1>2. CASE \E w \in Workers : \/ TakeRunnableTask(w) \/ NotifyTaskCompletion(w)
                                \/ FinishTask(w)
    BY <1>2, CountTake, CountCompletion, CountFinish
  <1>3. ASSUME NEW a \in Actors,
               \/ \E p, s \in Tasks : AddDependency(a, p, s)
               \/ CommitDecrement(a) \/ Look(a) \/ Notify(a)
        PROVE  CountOK'
    <2>1. UNCHANGED <<created, vertices, owner, unfinished, task>>
      BY <1>3 DEF AddDependency, CommitDecrement, Look, Notify, graph, locals
    <2>2. pc'[Main] = "exit" => pc[Main] = "exit"
      <3>1. CASE \E p, s \in Tasks : AddDependency(a, p, s)
        BY <3>1 DEF AddDependency
      <3>2. CASE CommitDecrement(a)
        BY <3>2 DEF CommitDecrement, DecrementPredecessorCount, TypeOK, ThreadTypeOK
      <3>3. CASE Look(a) \/ Notify(a)
        BY <3>3 DEF Look, Notify, TypeOK, ThreadTypeOK, ControlOK
      <3> QED BY <1>3, <3>1, <3>2, <3>3
    <2> QED BY <2>1, <2>2, CountFrame
  <1>4. ASSUME NEW w \in Workers,
               \/ EnterLoop(w) \/ Loop(w) \/ SetIsSleeping(w) \/ Check(w) \/ Wait(w)
               \/ ResetIsSleeping(w) \/ ReleaseSuccessor(w) \/ NotifyAll(w)
               \/ NotifyException(w)
        PROVE  CountOK'
    <2>1. UNCHANGED <<created, vertices, owner, unfinished, task>>
      BY <1>4 DEF EnterLoop, Loop, SetIsSleeping, Check, Wait, ResetIsSleeping,
         ReleaseSuccessor, NotifyAll, NotifyException, graph, locals
    <2>2. pc'[Main] = pc[Main]
      <3>1. CASE ReleaseSuccessor(w)
        BY <3>1 DEF ReleaseSuccessor, DecrementPredecessorCount, TypeOK, ThreadTypeOK
      <3>2. CASE ~ReleaseSuccessor(w)
        BY <1>4, <3>2 DEF EnterLoop, Loop, SetIsSleeping, Check, Wait, ResetIsSleeping,
           NotifyAll, NotifyException, TypeOK, ThreadTypeOK
      <3> QED BY <3>1, <3>2
    <2> QED BY <2>1, <2>2, CountFrame
  <1>5. CASE StartWorkers \/ UNCHANGED vars
    <2>1. /\ UNCHANGED <<created, vertices, owner, unfinished, task>>
          /\ pc'[Main] = "exit" => pc[Main] = "exit" \/ \A t \in Tasks : owner[t] # Main
      BY <1>5 DEF StartWorkers, vars, graph, locals
    <2> QED BY <2>1, CountFrame
  <1> QED
    BY <1>1, <1>2, <1>3, <1>4, <1>5 DEF Next, ActorStep, Body, WorkerStep, Terminated

LEMMA CountInvariant == Spec => [](TypeOK /\ ControlOK /\ GraphInv /\ CountOK)
  <1>1. TypeOK /\ ControlOK /\ GraphInv /\ CountOK /\ [Next]_vars => CountOK'
    BY CountStep
  <1> QED BY <1>1, CountInit, GraphInvariant, PTL DEF Spec

\* The state behind is_finished(): nothing is left in the graph.
LEMMA NothingLeft ==
  ASSUME TypeOK, ControlOK, GraphInv, CountOK
  PROVE  unfinished \in Nat /\ FinishedMeansAllDone
  <1> USE Constants
  <1>1. unfinished \in Nat /\ (IsFinished <=> Counted = {})
    BY CountedFinite DEF CountOK, IsFinished
  <1>2. \A q \in vertices : owner[q] = None => q \in Counted
    BY DEF Counted, TypeOK, GraphTypeOK
  <1>3. \A w \in Workers : task[w] \in vertices => task[w] \in Counted
    BY <1>2, RunningTask DEF CommitPending
  <1>4. ASSUME pc[Main] = "exit", Counted = {}, NEW t \in vertices PROVE FALSE
    <2>1. t \in Tasks /\ owner[t] # None
      BY <1>2, <1>4, NamedTasks DEF TypeOK, GraphTypeOK
    <2>2. owner[t] \in Workers \cup {Main, Parked}
      BY <2>1 DEF TypeOK, GraphTypeOK
    <2> QED BY <1>2, <1>3, <1>4, <2>1, <2>2 DEF CountOK, OwnersOK
  <1> QED BY <1>1, <1>4 DEF FinishedMeansAllDone

\* is_finished() is never true too early: m_unfinished_task_count is the number
\* of committed tasks that have not been counted down, and whoever holds an
\* uncommitted task, a body or a local queue, keeps a committed one alive.
THEOREM FinishedIsDone == Spec => []FinishedMeansAllDone
  BY CountInvariant, NothingLeft, PTL

-----------------------------------------------------------------------------
(* The end of an execution.                                                *)

LEMMA ExitStep ==
  ASSUME TypeOK, ControlOK, GraphInv, CountOK, ExitOK, [Next]_vars
  PROVE  ExitOK'
  <1> USE Constants DEF ExitOK, IsCancelled
  \* Steps of the threads other than the ones that end a loop.
  <1>1. ASSUME exception_ptr' = exception_ptr, vertices = {} => vertices' = {},
               \A w \in Workers : /\ pc'[w] = "exit" => pc[w] = "exit"
                                  /\ pc'[w] = "notify_all" /\ cont'[w] = "exit"
                                       => pc[w] = "notify_all" /\ cont[w] = "exit"
        PROVE  ExitOK'
    BY <1>1
  <1>2. ASSUME NEW a \in Actors, NEW o \in Options, CreatePhysicalTask(a, o) PROVE ExitOK'
    <2>1. vertices = {} => \A w \in Workers : pc[w] # "exit"
      <3>1. a \in Workers => task[a] \in vertices
        BY <1>2 DEF CreatePhysicalTask, GraphInv, PhaseOK, ControlOK, BusyPoints
      <3>2. a = Main => \A w \in Workers : pc[w] = "idle"
        BY <1>2 DEF CreatePhysicalTask, ControlOK
      <3> QED BY <3>1, <3>2
    <2> QED BY <1>2, <2>1 DEF CreatePhysicalTask, locals
  <1>3. ASSUME NEW a \in Actors, Body(a), \A o \in Options : ~CreatePhysicalTask(a, o)
        PROVE  ExitOK'
    BY <1>1, <1>3 DEF Body, AddDependency, CommitTask, Park, locals, TypeOK, ThreadTypeOK
  <1>4. ASSUME NEW a \in Actors, CommitDecrement(a) PROVE ExitOK'
    BY <1>1, <1>4 DEF CommitDecrement, DecrementPredecessorCount, TypeOK, ThreadTypeOK
  <1>5. ASSUME NEW a \in Actors, Look(a) \/ Notify(a) PROVE ExitOK'
    BY <1>1, <1>5 DEF Look, Notify, graph, TypeOK, ThreadTypeOK, ControlOK
  <1>6. ASSUME NEW w \in Workers, TakeRunnableTask(w) PROVE ExitOK'
    BY <1>1, <1>6 DEF TakeRunnableTask, TakeUnstealable, TakeLocalStealable, Steal, graph,
       TypeOK, ThreadTypeOK
  <1>7. ASSUME NEW w \in Workers, Loop(w) PROVE ExitOK'
    <2>1. pc[Main] = "exit"
      BY <1>7 DEF Loop, ControlOK
    <2>2. IsFinished => vertices = {}
      BY <2>1, NothingLeft DEF FinishedMeansAllDone
    <2> QED BY <1>7, <2>2 DEF Loop, graph, locals, TypeOK, ThreadTypeOK
  <1>8. ASSUME NEW w \in Workers,
               \/ EnterLoop(w) \/ SetIsSleeping(w) \/ Check(w) \/ Wait(w)
               \/ ResetIsSleeping(w) \/ NotifyTaskCompletion(w)
        PROVE  ExitOK'
    BY <1>1, <1>8 DEF EnterLoop, SetIsSleeping, Check, Wait, ResetIsSleeping,
       NotifyTaskCompletion, graph, locals, TypeOK, ThreadTypeOK
  <1>9. ASSUME NEW w \in Workers, ReleaseSuccessor(w) PROVE ExitOK'
    BY <1>1, <1>9 DEF ReleaseSuccessor, DecrementPredecessorCount, TypeOK, ThreadTypeOK
  <1>10. ASSUME NEW w \in Workers, FinishTask(w) PROVE ExitOK'
    BY <1>1, <1>10 DEF FinishTask, graph, TypeOK, ThreadTypeOK
  <1>11. ASSUME NEW w \in Workers, NotifyAll(w) PROVE ExitOK'
    BY <1>11 DEF NotifyAll, graph, TypeOK, ThreadTypeOK
  <1>12. ASSUME NEW w \in Workers, NotifyException(w) PROVE ExitOK'
    <2>1. exception_ptr' # None
      BY <1>12 DEF NotifyException, FirstException
    <2> QED BY <2>1
  <1>13. CASE StartWorkers \/ UNCHANGED vars
    BY <1>1, <1>13 DEF StartWorkers, vars, graph, locals, TypeOK, ThreadTypeOK
  <1> QED
    BY <1>2, <1>3, <1>4, <1>5, <1>6, <1>7, <1>8, <1>9, <1>10, <1>11, <1>12, <1>13
    DEF Next, ActorStep, WorkerStep, Terminated

LEMMA EndStep ==
  ASSUME TypeOK, ControlOK, GraphInv, CountOK, EndOK, [Next]_vars
  PROVE  EndOK'
  <1> USE Constants DEF EndOK, PastCheck, IsFinished, IsCancelled
  <1>0. unfinished \in Nat
    BY NothingLeft
  \* Steps that neither start nor advance a notify_all().
  <1>1. ASSUME sleeping' \subseteq sleeping, exception_ptr' = exception_ptr,
               unfinished' = 0 => unfinished = 0,
               \A w \in Workers :
                 /\ PastCheck(w)' => PastCheck(w)
                 /\ pc[w] = "notify_all" => pc'[w] = "notify_all" /\ target'[w] = target[w]
        PROVE  EndOK'
    BY <1>1
  <1>2. ASSUME NEW a \in Actors, Body(a) PROVE EndOK'
    <2>1. CASE \E t \in Tasks : CommitTask(a, t)
      BY <1>0, <1>1, <2>1 DEF CommitTask, TypeOK, ThreadTypeOK
    <2>2. CASE ~\E t \in Tasks : CommitTask(a, t)
      <3>1. UNCHANGED <<sleeping, exception_ptr, unfinished, pc, target>>
        BY <1>2, <2>2 DEF Body, CreatePhysicalTask, AddDependency, Park, locals
      <3> QED BY <1>1, <3>1
    <2> QED BY <2>1, <2>2
  <1>3. ASSUME NEW a \in Actors, CommitDecrement(a) PROVE EndOK'
    <2>1. /\ UNCHANGED <<sleeping, exception_ptr, unfinished>>
          /\ pc[a] = "commit" /\ Decremented(a, "body")
      BY <1>3, CommitEffect DEF CommitDecrement
    <2> QED BY <1>1, <2>1 DEF Decremented, TypeOK, ThreadTypeOK
  <1>4. ASSUME NEW a \in Actors, Look(a) \/ Notify(a) PROVE EndOK'
    BY <1>1, <1>4 DEF Look, Notify, TypeOK, ThreadTypeOK, ControlOK
  <1>5. ASSUME NEW w \in Workers, TakeRunnableTask(w) PROVE EndOK'
    <2>1. UNCHANGED <<sleeping, exception_ptr, unfinished, target>>
      BY <1>5, TakeEffect
    <2>2. \/ w \notin sleeping
          \/ pc[w] \in {"retake_unstealable", "resteal"}
      BY <1>5 DEF TakeRunnableTask, TakeLocalStealable, ControlOK, SleepPoints
    <2>3. pc[w] # "notify_all" /\ \A v \in Workers \ {w} : pc'[v] = pc[v]
      BY <1>5 DEF TakeRunnableTask, TakeUnstealable, TakeLocalStealable, Steal,
         TypeOK, ThreadTypeOK
    <2> QED BY <1>1, <2>1, <2>2, <2>3
  <1>6. ASSUME NEW w \in Workers, SetIsSleeping(w) PROVE EndOK'
    <2>1. /\ sleeping' = sleeping \cup {w} /\ pc'[w] = "check" /\ pc[w] # "notify_all"
          /\ UNCHANGED <<unfinished, exception_ptr, target>>
          /\ \A v \in Workers \ {w} : pc'[v] = pc[v]
      BY <1>6 DEF SetIsSleeping, locals, TypeOK, ThreadTypeOK
    <2>2. \A v \in Workers : PastCheck(v)' => PastCheck(v)
      BY <2>1
    <2> QED BY <2>1, <2>2
  <1>7. ASSUME NEW w \in Workers, Check(w) PROVE EndOK'
    BY <1>7 DEF Check, locals, TypeOK, ThreadTypeOK
  <1>8. ASSUME NEW w \in Workers,
               \/ EnterLoop(w) \/ Loop(w) \/ Wait(w) \/ ResetIsSleeping(w)
               \/ NotifyTaskCompletion(w)
        PROVE  EndOK'
    BY <1>1, <1>8 DEF EnterLoop, Loop, Wait, ResetIsSleeping, NotifyTaskCompletion,
       locals, TypeOK, ThreadTypeOK
  <1>9. ASSUME NEW w \in Workers, ReleaseSuccessor(w) PROVE EndOK'
    <2>1. /\ UNCHANGED <<sleeping, exception_ptr, unfinished>>
          /\ pc[w] = "release" /\ Decremented(w, "release")
      BY <1>9, ReleaseEffect DEF ReleaseSuccessor
    <2> QED BY <1>1, <2>1 DEF Decremented, TypeOK, ThreadTypeOK
  <1>10. ASSUME NEW w \in Workers, FinishTask(w) \/ NotifyException(w) PROVE EndOK'
    <2>1. target[w] = 0 /\ target' = target /\ sleeping' = sleeping
      BY <1>10 DEF FinishTask, NotifyException, ControlOK
    <2>2. \A v \in Workers \ {w} : pc'[v] = pc[v]
      BY <1>10 DEF FinishTask, NotifyException, TypeOK, ThreadTypeOK
    <2>3. \/ pc'[w] = "notify_all"
          \/ /\ pc[w] = "release" /\ pc'[w] = "loop" /\ exception_ptr' = exception_ptr
             /\ unfinished' # 0
      BY <1>0, <1>10 DEF FinishTask, NotifyException, TypeOK, ThreadTypeOK
    <2>4. \A v \in Workers : v \in Nat
      BY DEF Workers
    <2>5. CASE pc'[w] = "notify_all"
      BY <2>1, <2>4, <2>5
    <2>6. CASE pc[w] = "release" /\ pc'[w] = "loop" /\ exception_ptr' = exception_ptr
               /\ unfinished' # 0
      <3>1. \A v \in Workers : PastCheck(v)' => PastCheck(v)
        BY <2>1, <2>2, <2>6
      <3>2. \A v \in Workers : pc[v] = "notify_all" => pc'[v] = "notify_all"
        BY <2>2, <2>6
      <3> QED BY <2>1, <2>6, <3>1, <3>2
    <2> QED BY <2>3, <2>5, <2>6
  <1>11. ASSUME NEW w \in Workers, NotifyAll(w) PROVE EndOK'
    <2>1. /\ left[w] \in 1 .. WorkerCount /\ target[w] = WorkerCount - left[w]
          /\ target[w] \in Workers
      BY <1>11 DEF NotifyAll, ControlOK, TypeOK, ThreadTypeOK
    <2>2. /\ \A v \in Workers \ {w} : pc'[v] = pc[v] /\ target'[v] = target[v]
          /\ left[w] # 1 => pc'[w] = "notify_all" /\ target'[w] = target[w] + 1
          /\ pc'[w] \in {"notify_all", "loop", "exit"}
          /\ sleeping' = sleeping \ {target[w]} /\ UNCHANGED <<unfinished, exception_ptr>>
      BY <1>11 DEF NotifyAll, ControlOK, TypeOK, ThreadTypeOK
    <2>3. ASSUME NEW v \in Workers, PastCheck(v)', (IsFinished \/ IsCancelled)'
          PROVE  \E u \in Workers : pc'[u] = "notify_all" /\ target'[u] <= v
      <3>1. v # target[w] /\ PastCheck(v) /\ (IsFinished \/ IsCancelled)
        BY <2>2, <2>3
      <3>2. PICK u \in Workers : pc[u] = "notify_all" /\ target[u] <= v
        BY <3>1
      <3>3. CASE u # w
        BY <2>2, <3>2, <3>3
      <3>4. CASE u = w
        <4>1. target[w] < v /\ v < WorkerCount
          BY <2>1, <3>1, <3>2, <3>4 DEF Workers
        <4>2. left[w] # 1 /\ target[w] + 1 <= v
          BY <2>1, <4>1 DEF Workers
        <4> QED BY <2>2, <4>2
      <3> QED BY <3>3, <3>4
    <2> QED BY <2>3
  <1>12. CASE StartWorkers \/ UNCHANGED vars
    BY <1>1, <1>12 DEF StartWorkers, vars, locals, TypeOK, ThreadTypeOK
  <1> QED
    BY <1>2, <1>3, <1>4, <1>5, <1>6, <1>7, <1>8, <1>9, <1>10, <1>11, <1>12
    DEF Next, ActorStep, WorkerStep, Terminated

-----------------------------------------------------------------------------
(* Tasks that wait in the queues.                                          *)

LEMMA ScanStep ==
  ASSUME TypeOK, ControlOK, ScanOK, [Next]_vars
  PROVE  ScanOK'
  <1> USE Constants DEF ScanOK
  <1>1. ASSUME scan' = scan,
               \A w \in Workers : pc[w] \in {"steal", "resteal"} => pc'[w] = pc[w]
        PROVE  ScanOK'
    BY <1>1
  <1>2. ASSUME NEW a \in Actors, Body(a) PROVE ScanOK'
    BY <1>1, <1>2 DEF Body, CreatePhysicalTask, AddDependency, CommitTask, Park, locals,
       TypeOK, ThreadTypeOK
  <1>3. ASSUME NEW a \in Actors, CommitDecrement(a) PROVE ScanOK'
    <2>1. pc[a] = "commit" /\ scan' = scan /\ Decremented(a, "body")
      BY <1>3, CommitEffect DEF CommitDecrement
    <2> QED BY <1>1, <2>1 DEF Decremented, TypeOK, ThreadTypeOK
  <1>4. ASSUME NEW a \in Actors, Look(a) \/ Notify(a) PROVE ScanOK'
    BY <1>1, <1>4 DEF Look, Notify, TypeOK, ThreadTypeOK
  <1>5. ASSUME NEW w \in Workers, TakeRunnableTask(w) PROVE ScanOK'
    <2>1. CASE TakeLocalStealable(w)
      BY <1>1, <2>1 DEF TakeLocalStealable, TypeOK, ThreadTypeOK
    <2>2. ASSUME NEW c, NEW d, TakeUnstealable(w, c, d),
                 pc[w] \in {"take_unstealable", "retake_unstealable"}
          PROVE  ScanOK'
      BY <1>1, <2>2 DEF TakeUnstealable, TypeOK, ThreadTypeOK
    <2>3. ASSUME NEW c, NEW d, Steal(w, c, d), pc[w] \in {"steal", "resteal"}
          PROVE  ScanOK'
      <3>1. scan[w] \in 0 .. NodeCount - 1
        BY DEF TypeOK, ThreadTypeOK, Nodes
      <3>2. scan[w] + 1 = NodeCount => (scan[w] + 1) % NodeCount = 0
        BY <3>1
      <3>3. \/ scan' = [scan EXCEPT ![w] = 0] /\ pc' = [pc EXCEPT ![w] = c]
            \/ /\ scan[w] + 1 = NodeCount /\ pc' = [pc EXCEPT ![w] = d]
               /\ scan' = [scan EXCEPT ![w] = (scan[w] + 1) % NodeCount]
            \/ pc' = pc /\ scan' = [scan EXCEPT ![w] = (scan[w] + 1) % NodeCount]
        BY <2>3 DEF Steal
      <3>4. \A v \in Workers \ {w} : pc'[v] = pc[v] /\ scan'[v] = scan[v]
        BY <3>3 DEF TypeOK, ThreadTypeOK
      <3>5. pc'[w] \notin {"steal", "resteal"} => scan'[w] = 0
        BY <2>3, <3>2, <3>3 DEF TypeOK, ThreadTypeOK
      <3> QED BY <3>4, <3>5
    <2> QED BY <1>5, <2>1, <2>2, <2>3 DEF TakeRunnableTask
  <1>6. ASSUME NEW w \in Workers,
               \/ EnterLoop(w) \/ Loop(w) \/ SetIsSleeping(w) \/ Check(w) \/ Wait(w)
               \/ ResetIsSleeping(w) \/ NotifyTaskCompletion(w)
        PROVE  ScanOK'
    BY <1>1, <1>6 DEF EnterLoop, Loop, SetIsSleeping, Check, Wait, ResetIsSleeping,
       NotifyTaskCompletion, locals, TypeOK, ThreadTypeOK
  <1>7. ASSUME NEW w \in Workers, ReleaseSuccessor(w) PROVE ScanOK'
    <2>1. pc[w] = "release" /\ scan' = scan /\ Decremented(w, "release")
      BY <1>7, ReleaseEffect DEF ReleaseSuccessor
    <2> QED BY <1>1, <2>1 DEF Decremented, TypeOK, ThreadTypeOK
  <1>8. ASSUME NEW w \in Workers, FinishTask(w) \/ NotifyAll(w) \/ NotifyException(w)
        PROVE  ScanOK'
    BY <1>1, <1>8 DEF FinishTask, NotifyAll, NotifyException, TypeOK, ThreadTypeOK
  <1>9. CASE StartWorkers \/ UNCHANGED vars
    BY <1>1, <1>9 DEF StartWorkers, vars, locals, TypeOK, ThreadTypeOK
  <1> QED
    BY <1>2, <1>3, <1>4, <1>5, <1>6, <1>7, <1>8, <1>9
    DEF Next, ActorStep, WorkerStep, Terminated

\* There is one notification loop at a time, under m_physical_graph_mutex.
LEMMA UnstealableStep ==
  ASSUME TypeOK, ControlOK, GraphInv, UnstealableOK, [Next]_vars
  PROVE  UnstealableOK'
  <1> USE Constants DEF UnstealableOK, PastOwnQueue
  <1>1. ASSUME sleeping' \subseteq sleeping, unstealable' = unstealable,
               \A w \in Workers : PastOwnQueue(w)' => PastOwnQueue(w),
               \A a \in Actors :
                 pc[a] = "notify" => pc'[a] = "notify" /\ target'[a] = target[a]
        PROVE  UnstealableOK'
    BY <1>1
  <1>2. ASSUME NEW a \in Actors, Body(a) PROVE UnstealableOK'
    BY <1>1, <1>2 DEF Body, CreatePhysicalTask, AddDependency, CommitTask, Park, locals,
       queues, TypeOK, ThreadTypeOK
  <1>3. ASSUME NEW a \in Actors, NEW then \in {"body", "release"}, Decremented(a, then),
               sleeping' = sleeping
        PROVE  UnstealableOK'
    <2>1. \A b \in Actors : pc[b] # "notify"
      BY <1>3 DEF Decremented, ControlOK
    <2>2. \A w \in Workers : PastOwnQueue(w)' => PastOwnQueue(w)
      BY <1>3 DEF Decremented, TypeOK, ThreadTypeOK
    <2>3. CASE unstealable' = unstealable
      BY <2>1, <2>2, <2>3
    <2>4. ASSUME NEW w \in Workers, target' = [target EXCEPT ![a] = w],
                 pc' = [pc EXCEPT ![a] = "notify"],
                 \A v \in Workers \ {w} : unstealable'[v] = unstealable[v]
          PROVE  UnstealableOK'
      <3>1. pc'[a] = "notify" /\ target'[a] = w
        BY <2>4 DEF TypeOK, ThreadTypeOK
      <3> QED BY <2>1, <2>2, <2>4, <3>1
    <2> QED BY <1>3, <2>3, <2>4 DEF Decremented
  <1>4. ASSUME NEW a \in Actors, CommitDecrement(a) PROVE UnstealableOK'
    BY <1>3, <1>4, CommitEffect DEF CommitDecrement
  <1>5. ASSUME NEW a \in Actors, Look(a) PROVE UnstealableOK'
    BY <1>1, <1>5 DEF Look, queues
  <1>6. ASSUME NEW a \in Actors, Notify(a) PROVE UnstealableOK'
    <2>1. sleeping' = sleeping \ {target[a]} /\ unstealable' = unstealable
      BY <1>6 DEF Notify, queues
    <2>2. \A b \in Actors : pc[b] = "notify" => b = a
      BY <1>6 DEF Notify, ControlOK
    <2>3. \A w \in Workers : PastOwnQueue(w)' => PastOwnQueue(w) /\ w # target[a]
      <3>1. pc'[a] \in {"notify", "body", "release"} /\ \A b \in Actors \ {a} : pc'[b] = pc[b]
        BY <1>6 DEF Notify, ControlOK, TypeOK, ThreadTypeOK
      <3> QED BY <2>1, <3>1
    <2> QED BY <2>1, <2>2, <2>3
  <1>7. ASSUME NEW w \in Workers, TakeRunnableTask(w) PROVE UnstealableOK'
    <2>1. /\ UNCHANGED <<sleeping, target>>
          /\ \A a \in Actors \ {w} : pc'[a] = pc[a]
          /\ pc[w] # "notify"
      BY <1>7 DEF TakeRunnableTask, TakeUnstealable, TakeLocalStealable, Steal,
         TypeOK, ThreadTypeOK
    <2>2. \A v \in Workers \ {w} : unstealable'[v] = unstealable[v]
      BY <1>7 DEF TakeRunnableTask, TakeUnstealable, TakeLocalStealable, Steal,
         TypeOK, QueueTypeOK
    <2>3. \/ w \notin sleeping
          \/ pc'[w] \notin {"resteal", "wait"}
          \/ unstealable'[w] = <<>>
          \/ pc[w] = "resteal" /\ unstealable' = unstealable
      <3>1. CASE pc[w] \in {"take_unstealable", "take_local", "steal"}
        BY <3>1 DEF ControlOK, SleepPoints
      <3>2. CASE pc[w] = "retake_unstealable"
        BY <1>7, <3>2 DEF TakeRunnableTask, TakeUnstealable, TakeLocalStealable,
           TypeOK, ThreadTypeOK
      <3>3. CASE pc[w] = "resteal"
        BY <1>7, <3>3 DEF TakeRunnableTask, TakeLocalStealable, Steal
      <3> QED BY <1>7, <3>1, <3>2, <3>3 DEF TakeRunnableTask, TakeLocalStealable
    <2>4. \A v \in Workers : PastOwnQueue(v)' /\ unstealable'[v] # <<>>
                               => PastOwnQueue(v) /\ unstealable[v] # <<>>
      BY <2>1, <2>2, <2>3
    <2>5. \A a \in Actors : pc[a] = "notify" => pc'[a] = "notify" /\ target'[a] = target[a]
      BY <2>1
    <2> QED BY <2>4, <2>5
  <1>8. ASSUME NEW w \in Workers, SetIsSleeping(w) PROVE UnstealableOK'
    <2>1. /\ sleeping' = sleeping \cup {w} /\ pc'[w] = "check" /\ pc[w] # "notify"
          /\ UNCHANGED <<target, unstealable>>
          /\ \A a \in Actors \ {w} : pc'[a] = pc[a]
      BY <1>8 DEF SetIsSleeping, locals, queues, TypeOK, ThreadTypeOK
    <2>2. \A v \in Workers : PastOwnQueue(v)' => PastOwnQueue(v)
      BY <2>1
    <2> QED BY <2>1, <2>2
  <1>9. ASSUME NEW w \in Workers,
               \/ EnterLoop(w) \/ Loop(w) \/ Check(w) \/ Wait(w)
               \/ ResetIsSleeping(w) \/ NotifyTaskCompletion(w)
        PROVE  UnstealableOK'
    BY <1>1, <1>9 DEF EnterLoop, Loop, Check, Wait, ResetIsSleeping,
       NotifyTaskCompletion, locals, queues, TypeOK, ThreadTypeOK
  <1>10. ASSUME NEW w \in Workers, ReleaseSuccessor(w) PROVE UnstealableOK'
    BY <1>3, <1>10, ReleaseEffect DEF ReleaseSuccessor
  <1>11. ASSUME NEW w \in Workers, FinishTask(w) \/ NotifyAll(w) \/ NotifyException(w)
         PROVE  UnstealableOK'
    BY <1>1, <1>11 DEF FinishTask, NotifyAll, NotifyException, queues, ControlOK,
       TypeOK, ThreadTypeOK
  <1>12. CASE StartWorkers \/ UNCHANGED vars
    BY <1>1, <1>12 DEF StartWorkers, vars, locals, queues, TypeOK, ThreadTypeOK
  <1> QED
    BY <1>2, <1>4, <1>5, <1>6, <1>7, <1>8, <1>9, <1>10, <1>11, <1>12
    DEF Next, ActorStep, WorkerStep, Terminated

\* NodeCount turns from any node on reach every node.
LEMMA EveryNodeVisited ==
  ASSUME NEW m \in Nodes, NEW n \in Nodes
  PROVE  \E i \in Nodes : n = (m + i) % NodeCount
  <1> USE Constants DEF Nodes
  <1>1. CASE m <= n
    <2>1. n - m \in Nodes /\ m + (n - m) = n /\ n % NodeCount = n
      BY <1>1
    <2> QED BY <2>1
  <1>2. CASE n < m
    <2>1. n - m + NodeCount \in Nodes /\ m + (n - m + NodeCount) = n + NodeCount
      BY <1>2
    <2>2. (n + NodeCount) % NodeCount = n
      OBVIOUS
    <2> QED BY <2>1, <2>2
  <1> QED BY <1>1, <1>2

LEMMA StealableStep ==
  ASSUME TypeOK, ControlOK, GraphInv, ScanOK, StealableOK, [Next]_vars
  PROVE  StealableOK'
  <1> USE Constants DEF StealableOK
  <1>1. ASSUME \A n \in Nodes : stealable'[n] # <<>> => stealable[n] # <<>>,
               \A w \in Workers, n \in Nodes : PastQueue(w, n)' => PastQueue(w, n),
               \A a \in Actors : pc[a] = "notify" => pc'[a] = "notify"
        PROVE  StealableOK'
    BY <1>1
  \* A worker that is at work has looked at no queue yet.
  <1>2. ASSUME NEW w \in Workers, pc'[w] \notin {"resteal", "wait"} PROVE StealableOK'
    BY <1>2 DEF PastQueue
  <1>3. ASSUME NEW a \in Actors, a \in Workers => pc'[a] \notin {"resteal", "wait"},
               a = Main => pc[Main] # "exit" /\ \A w \in Workers : pc'[w] = pc[w]
        PROVE  StealableOK'
    BY <1>2, <1>3 DEF ControlOK
  <1>4. ASSUME NEW a \in Actors, Body(a) PROVE StealableOK'
    <2>1. pc[a] = "body" /\ pc'[a] \in {"body", "commit"} /\ \A b \in Actors \ {a} : pc'[b] = pc[b]
      BY <1>4 DEF Body, CreatePhysicalTask, AddDependency, CommitTask, Park, TypeOK, ThreadTypeOK
    <2> QED BY <1>3, <2>1
  <1>5. ASSUME NEW a \in Actors, NEW then \in {"body", "release"}, Decremented(a, then),
               pc[a] # "exit"
        PROVE  StealableOK'
    <2>1. pc'[a] \in {"body", "release", "notify"} /\ \A b \in Actors \ {a} : pc'[b] = pc[b]
      BY <1>5 DEF Decremented, TypeOK, ThreadTypeOK
    <2> QED BY <1>3, <1>5, <2>1
  <1>6. ASSUME NEW a \in Actors, CommitDecrement(a) PROVE StealableOK'
    BY <1>5, <1>6, CommitEffect DEF CommitDecrement
  <1>7. ASSUME NEW w \in Workers, ReleaseSuccessor(w) PROVE StealableOK'
    BY <1>5, <1>7, ReleaseEffect DEF ReleaseSuccessor
  <1>8. ASSUME NEW a \in Actors, Look(a) PROVE StealableOK'
    BY <1>1, <1>8 DEF Look, queues, PastQueue
  <1>9. ASSUME NEW a \in Actors, Notify(a) PROVE StealableOK'
    <2>1. pc'[a] \in {"body", "release", "notify"} /\ \A b \in Actors \ {a} : pc'[b] = pc[b]
      BY <1>9 DEF Notify, ControlOK, TypeOK, ThreadTypeOK
    <2> QED BY <1>3, <1>9, <2>1 DEF Notify
  \* The last attempt before wait() passes a queue only when it is empty.
  <1>10. ASSUME NEW w \in Workers, pc[w] = "resteal", Steal(w, "reset", "wait")
         PROVE  StealableOK'
    <2> PICK m \in Nodes : m = (ThreadMapping[w] + scan[w]) % NodeCount
      BY TakeFound
    <2>1. CASE stealable[m] # <<>>
      <3>1. pc'[w] = "reset"
        BY <1>10, <2>1 DEF Steal, TypeOK, ThreadTypeOK
      <3> QED BY <1>2, <3>1
    <2>2. CASE stealable[m] = <<>>
      <3>1. /\ scan' = [scan EXCEPT ![w] = (scan[w] + 1) % NodeCount]
            /\ pc' = IF scan[w] + 1 = NodeCount THEN [pc EXCEPT ![w] = "wait"] ELSE pc
            /\ UNCHANGED <<stealable, sleeping>>
        BY <1>10, <2>2 DEF Steal
      <3>2. scan[w] \in 0 .. NodeCount - 1 /\ ThreadMapping[w] \in Nodes
        BY MappingAssumption DEF TypeOK, ThreadTypeOK, Nodes
      <3>3. \A v \in Workers \ {w} : pc'[v] = pc[v] /\ scan'[v] = scan[v]
        BY <3>1 DEF TypeOK, ThreadTypeOK
      <3>4. pc'[w] = IF scan[w] + 1 = NodeCount THEN "wait" ELSE "resteal"
        BY <1>10, <3>1 DEF TypeOK, ThreadTypeOK
      <3>5. scan[w] + 1 # NodeCount => scan'[w] = scan[w] + 1
        <4>1. scan[w] + 1 # NodeCount => (scan[w] + 1) % NodeCount = scan[w] + 1
          BY <3>2
        <4> QED BY <3>1, <4>1 DEF TypeOK, ThreadTypeOK
      <3>6. ASSUME NEW n \in Nodes, stealable[n] # <<>>, w \in sleeping, PastQueue(w, n)'
            PROVE  PastQueue(w, n)
        <4>1. n # m
          BY <2>2, <3>6
        <4>2. PICK i \in Nodes : n = (ThreadMapping[w] + i) % NodeCount
                                 /\ (scan[w] + 1 # NodeCount => i < scan[w] + 1)
          <5>1. CASE scan[w] + 1 = NodeCount
            BY <3>2, <5>1, EveryNodeVisited
          <5>2. CASE scan[w] + 1 # NodeCount
            BY <3>4, <3>5, <3>6, <5>2 DEF PastQueue
          <5> QED BY <5>1, <5>2
        <4>3. i # scan[w]
          BY <4>1, <4>2
        <4>4. i < scan[w]
          BY <3>2, <4>2, <4>3 DEF Nodes
        <4> QED BY <1>10, <3>6, <4>2, <4>4 DEF PastQueue
      <3>7. \A v \in Workers \ {w}, n \in Nodes : PastQueue(v, n)' => PastQueue(v, n)
        BY <3>1, <3>3 DEF PastQueue
      <3>8. w \notin sleeping => \A n \in Nodes : ~PastQueue(w, n)'
        BY <3>1 DEF PastQueue
      <3>9. \A a \in Actors : pc[a] = "notify" => pc'[a] = "notify"
        BY <1>10, <3>1 DEF TypeOK, ThreadTypeOK
      <3>10. ASSUME NEW n \in Nodes, stealable'[n] # <<>>
             PROVE  \/ \E a \in Actors : pc'[a] = "notify"
                    \/ \E v \in Workers : ~PastQueue(v, n)'
        <4>1. stealable[n] # <<>>
          BY <3>1, <3>10
        <4>2. \A v \in Workers : PastQueue(v, n)' => PastQueue(v, n)
          BY <3>6, <3>7, <3>8, <4>1
        <4> QED BY <3>9, <4>1, <4>2
      <3> QED BY <3>10
    <2> QED BY <2>1, <2>2
  <1>11. ASSUME NEW w \in Workers, pc[w] = "retake_unstealable",
                TakeUnstealable(w, "reset", "resteal")
         PROVE  StealableOK'
    <2>1. scan'[w] = 0 /\ pc'[w] \in {"reset", "resteal"}
      BY <1>11 DEF TakeUnstealable, ScanOK, TypeOK, ThreadTypeOK
    <2>2. \A n \in Nodes : ~PastQueue(w, n)'
      BY <2>1 DEF PastQueue, Nodes
    <2> QED BY <2>2
  <1>12. ASSUME NEW w \in Workers, pc[w] \in {"take_unstealable", "take_local", "steal"},
                TakeRunnableTask(w)
         PROVE  StealableOK'
    <2>1. pc'[w] \in {"take_local", "steal", "set_sleeping", "body"}
      BY <1>12 DEF TakeRunnableTask, TakeUnstealable, TakeLocalStealable, Steal,
         TypeOK, ThreadTypeOK
    <2> QED BY <1>2, <2>1
  <1>13. ASSUME NEW w \in Workers, TakeRunnableTask(w) PROVE StealableOK'
    BY <1>10, <1>11, <1>12, <1>13 DEF TakeRunnableTask, TakeLocalStealable
  <1>14. ASSUME NEW w \in Workers,
                \/ EnterLoop(w) \/ Loop(w) \/ SetIsSleeping(w) \/ Check(w) \/ Wait(w)
                \/ ResetIsSleeping(w) \/ NotifyTaskCompletion(w)
                \/ FinishTask(w) \/ NotifyAll(w) \/ NotifyException(w)
         PROVE  StealableOK'
    <2>1. pc'[w] \notin {"resteal", "wait"}
      BY <1>14 DEF EnterLoop, Loop, SetIsSleeping, Check, Wait, ResetIsSleeping,
         NotifyTaskCompletion, FinishTask, NotifyAll, NotifyException, ControlOK,
         TypeOK, ThreadTypeOK
    <2> QED BY <1>2, <2>1
  <1>15. CASE StartWorkers
    <2>1. \A w \in Workers : pc'[w] = pc[w] /\ pc[Main] # "exit"
      BY <1>15 DEF StartWorkers, TypeOK, ThreadTypeOK
    <2>2. 0 \in Workers /\ pc[0] = "idle"
      BY <2>1 DEF ControlOK
    <2> QED BY <1>2, <2>1, <2>2
  <1>16. CASE UNCHANGED vars
    BY <1>1, <1>16 DEF vars, locals, queues, PastQueue
  <1> QED
    BY <1>4, <1>6, <1>7, <1>8, <1>9, <1>13, <1>14, <1>15, <1>16
    DEF Next, ActorStep, WorkerStep, Terminated

-----------------------------------------------------------------------------
(* The results.                                                            *)

LEMMA SleepInit == Init => SleepInv
  <1> SUFFICES ASSUME Init PROVE SleepInv
    OBVIOUS
  <1>1. CountOK
    BY CountInit
  <1>2. ExitOK /\ EndOK /\ UnstealableOK /\ StealableOK /\ ScanOK
    BY Constants DEF Init, ExitOK, EndOK, PastCheck, UnstealableOK, PastOwnQueue,
       StealableOK, ScanOK
  <1> QED BY <1>1, <1>2 DEF SleepInv

LEMMA SleepInvariant == Spec => [](TypeOK /\ ControlOK /\ GraphInv /\ SleepInv)
  <1>1. TypeOK /\ ControlOK /\ GraphInv /\ SleepInv /\ [Next]_vars => SleepInv'
    BY CountStep, ExitStep, EndStep, UnstealableStep, StealableStep, ScanStep DEF SleepInv
  <1> QED BY <1>1, SleepInit, GraphInvariant, PTL DEF Spec

\* No lost wake-up at the end, however the workers' tests of is_finished() and
\* is_cancelled() interleave with the two steps of each notify(): a worker
\* that sleeps then is still ahead of a notify_all() loop.
THEOREM EndWakesSleepers == Spec => []NoSleepThroughEnd
  <1>1. EndOK => NoSleepThroughEnd
    BY DEF EndOK, PastCheck, NoSleepThroughEnd, Asleep
  <1> QED BY <1>1, SleepInvariant, PTL DEF SleepInv

\* No lost wake-up for tasks: a pushed task never waits while everybody who
\* could take it sleeps and no notification is on its way.
THEOREM WorkWakesSleepers == Spec => []NoSleepThroughWork
  <1>1. ASSUME TypeOK, ControlOK, GraphInv, SleepInv PROVE NoSleepThroughWork
    <2> USE Constants DEF SleepInv
    <2>1. ASSUME NEW w \in Workers, unstealable[w] # <<>>, Asleep(w)
          PROVE  \E a \in Actors : pc[a] = "notify" /\ target[a] = w
      BY <1>1, <2>1 DEF UnstealableOK, PastOwnQueue, Asleep
    <2>2. ASSUME NEW n \in Nodes, stealable[n] # <<>>, ~IsCancelled
          PROVE  \/ \E a \in Actors : pc[a] = "notify"
                 \/ \E w \in Workers : pc[w] # "exit" /\ ~Asleep(w)
      <3>1. vertices # {}
        <4>1. stealable[n] \in Seq(Ids)
          BY <1>1 DEF TypeOK, QueueTypeOK
        <4>2. 1 \in DOMAIN stealable[n] /\ stealable[n][1] \in Ids
          BY <2>2, <4>1
        <4>3. Queued(stealable[n][1])
          BY <4>2 DEF Queued
        <4> QED BY <1>1, <4>2, <4>3, NamedTasks DEF GraphInv, PlacesOK
      <3>2. \A w \in Workers : pc[w] # "exit"
        BY <1>1, <2>2, <3>1 DEF ExitOK
      <3>3. \A w \in Workers : Asleep(w) => PastQueue(w, n)
        BY DEF Asleep, PastQueue
      <3> QED BY <1>1, <2>2, <3>2, <3>3 DEF StealableOK
    <2> QED BY <2>1, <2>2 DEF NoSleepThroughWork
  <1> QED BY <1>1, SleepInvariant, PTL
=============================================================================
