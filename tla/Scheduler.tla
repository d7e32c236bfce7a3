------------------------------ MODULE Scheduler ------------------------------
(***************************************************************************)
(* The physical-task scheduler of m3bp (src/scheduler) and the task loop   *)
(* of its worker threads (src/context/worker_thread.cpp).                  *)
(*                                                                         *)
(* Actors are the worker threads and Main, the thread of Executor::execute *)
(* that builds the initial graph before it starts the workers.  Every      *)
(* critical section and every atomic access is one step; a call of         *)
(* decrement_predecessor_count keeps m_physical_graph_mutex over the push  *)
(* and over each notify() that follows it.                                 *)
(*                                                                         *)
(* The body of a task is user code or a logical task's own code.  What it  *)
(* may ask of the scheduler is the contract all call sites respect:        *)
(* it creates tasks, makes a new task depend on any task, makes committed  *)
(* tasks downstream of itself depend on a new task, and commits what it    *)
(* created, or leaves it in the local queue of its logical task            *)
(* (ProcessLogicalTaskBase::m_task_queue) for another body to commit.      *)
(***************************************************************************)
EXTENDS Integers, Sequences, FiniteSets

CONSTANTS
  WorkerCount,      \* LocalityManager::max_concurrency()
  NodeCount,        \* LocalityManager::node_count()
  ThreadMapping,    \* LocalityManager::thread_mapping()
  Options,          \* the LocalityOptions that tasks are created with
  MaxTasks,         \* bound: physical tasks created
  MaxSuccessors,    \* bound: successors recorded for one task
  MayThrow,         \* may task bodies and thread observers throw?
  Main, Parked, None

Workers == 0 .. WorkerCount - 1
Nodes   == 0 .. NodeCount - 1
Actors  == Workers \cup {Main}
Tasks   == 0 .. MaxTasks - 1

ASSUME SizesAssumption ==
  /\ WorkerCount \in Nat \ {0}
  /\ NodeCount \in Nat \ {0}
  /\ MaxTasks \in Nat
  /\ MaxSuccessors \in Nat
  /\ MayThrow \in BOOLEAN

ASSUME MappingAssumption == ThreadMapping \in [Workers -> Nodes]

\* LocalityOption: an unstealable task always names its worker, a stealable
\* one may recommend a worker.
Unstealable == [only : Workers]
Stealable   == [recommended : Workers \cup {None}]

ASSUME OptionsAssumption == Options \subseteq Unstealable \cup Stealable

ASSUME NamesAssumption ==
  /\ Main \notin Workers /\ Parked \notin Workers /\ None \notin Workers
  /\ Main # Parked /\ Main # None /\ Parked # None
  /\ None \notin Tasks

VARIABLES
  created,            \* m_created_task_count
  vertices,           \* domain of m_vertices
  predecessor_count,  \* PhysicalVertex::predecessor_count
  successors,         \* PhysicalVertex::successors, also once moved out
  released,           \* position in the moved successors, per completed task
  option,             \* PhysicalVertex::locality_option
  owner,              \* history: who still has to commit the task
  stealable,          \* m_stealable_queues
  unstealable,        \* m_unstealable_queues
  unfinished,         \* m_unfinished_task_count
  sleeping,           \* the workers whose m_is_sleeping is set
  exception_ptr,      \* CancellationManager: whose exception is kept, if any
  mutex,              \* holder of m_physical_graph_mutex
  pc, task, arg,      \* control point, task being run, task being committed
  scan,               \* loop index of steal_task
  target, left, cont, \* next synchronizer to notify, how many, what follows
  seen                \* threads in notify() that have found the flag set

graph  == <<created, vertices, predecessor_count, successors, released,
            option, owner>>
queues == <<stealable, unstealable>>
locals == <<task, arg, scan, target, left, cont, seen>>
vars   == <<graph, queues, unfinished, sleeping, exception_ptr, mutex, pc, locals>>

ControlPoints ==
  {"idle", "loop", "take_unstealable", "take_local", "steal", "set_sleeping",
   "check", "retake_unstealable", "resteal", "wait", "reset", "body",
   "commit", "notify", "release", "notify_all", "exit"}

-----------------------------------------------------------------------------
Init ==
  /\ created = 0
  /\ vertices = {}
  /\ predecessor_count = [t \in Tasks |-> 0]
  /\ successors = [t \in Tasks |-> <<>>]
  /\ released = [t \in Tasks |-> 0]
  /\ option = [t \in Tasks |-> None]
  /\ owner = [t \in Tasks |-> None]
  /\ stealable = [n \in Nodes |-> <<>>]
  /\ unstealable = [w \in Workers |-> <<>>]
  /\ unfinished = 0
  /\ sleeping = {}
  /\ exception_ptr = None
  /\ mutex = None
  /\ pc = [a \in Actors |-> IF a = Main THEN "body" ELSE "idle"]
  /\ task = [a \in Actors |-> None]
  /\ arg = [a \in Actors |-> None]
  /\ scan = [a \in Actors |-> 0]
  /\ target = [a \in Actors |-> 0]
  /\ left = [a \in Actors |-> 0]
  /\ cont = [a \in Actors |-> "body"]
  /\ seen = {}

IsFinished  == unfinished = 0
IsCancelled == exception_ptr # None

-----------------------------------------------------------------------------
(* The physical graph.                                                     *)

\* s is recorded as a successor of p, and p has not completed.
Dependency(p, s) ==
  p \in vertices /\ \E i \in 1 .. Len(successors[p]) : successors[p][i] = s

\* s is r or depends on r through vertices that have not completed.
Downstream(r, s) ==
  \A S \in SUBSET Tasks :
     (r \in S /\ \A p \in S, q \in Tasks : Dependency(p, q) => q \in S)
       => s \in S

\* LogicalGraph::create_physical_tasks commits only after it has created and
\* connected all tasks; the body of a task has no such phases.
MayBuild(a) == a = Main => IsFinished

\* Mutant: a vertex without the creator's own token.
CreatePhysicalTaskUnheld(a, o) ==
  /\ pc[a] = "body" /\ MayBuild(a)
  /\ mutex = None
  /\ created < MaxTasks
  /\ created' = created + 1
  /\ vertices' = vertices \cup {created}
  /\ option' = [option EXCEPT ![created] = o]
  /\ owner' = [owner EXCEPT ![created] = a]
  /\ UNCHANGED <<predecessor_count, successors, released, queues, unfinished,
                 sleeping, exception_ptr, mutex, pc, locals>>

CreatePhysicalTask(a, o) ==
  /\ pc[a] = "body" /\ MayBuild(a)
  /\ mutex = None
  /\ created < MaxTasks
  /\ created' = created + 1
  /\ vertices' = vertices \cup {created}
  /\ predecessor_count' = [predecessor_count EXCEPT ![created] = 1]
  /\ option' = [option EXCEPT ![created] = o]
  /\ owner' = [owner EXCEPT ![created] = a]
  /\ UNCHANGED <<successors, released, queues, unfinished, sleeping,
                 exception_ptr, mutex, pc, locals>>

\* What the call sites guarantee of add_dependency(p, s).
DependencyContract(a, p, s) ==
  /\ ~Downstream(s, p)
  /\ \/ owner[s] = a
     \/ /\ owner[p] = a /\ owner[s] = None
        /\ a # Main /\ s # task[a] /\ Downstream(task[a], s)

\* Mutant: the successor is recorded and not counted.
AddDependencyUncounted(a, p, s) ==
  /\ pc[a] = "body" /\ MayBuild(a)
  /\ mutex = None
  /\ DependencyContract(a, p, s)
  /\ p \in vertices
  /\ Len(successors[p]) < MaxSuccessors
  /\ successors' = [successors EXCEPT ![p] = Append(@, s)]
  /\ UNCHANGED <<created, vertices, predecessor_count, released, option, owner,
                 queues, unfinished, sleeping, exception_ptr, mutex, pc, locals>>

\* A predecessor that has completed is no longer found, and nothing happens.
AddDependency(a, p, s) ==
  /\ pc[a] = "body" /\ MayBuild(a)
  /\ mutex = None
  /\ DependencyContract(a, p, s)
  /\ p \in vertices
  /\ Len(successors[p]) < MaxSuccessors
  /\ successors' = [successors EXCEPT ![p] = Append(@, s)]
  /\ predecessor_count' = [predecessor_count EXCEPT ![s] = @ + 1]
  /\ UNCHANGED <<created, vertices, released, option, owner, queues,
                 unfinished, sleeping, exception_ptr, mutex, pc, locals>>

\* Not a call: the body keeps the task in its logical task's own queue, where
\* a committed successor (its barrier or terminal task) waits for it.
Park(a, t) ==
  /\ pc[a] = "body" /\ a # Main
  /\ owner[t] = a
  /\ \E i \in DOMAIN successors[t] : owner[successors[t][i]] = None
  /\ owner' = [owner EXCEPT ![t] = Parked]
  /\ UNCHANGED <<created, vertices, predecessor_count, successors, released,
                 option, queues, unfinished, sleeping, exception_ptr, mutex, pc,
                 locals>>

\* Mutant: tasks that are committed by bodies are not counted.
CommitTaskUncounted(a, t) ==
  /\ pc[a] = "body"
  /\ owner[t] = a \/ (owner[t] = Parked /\ a # Main)
  /\ unfinished' = IF a = Main THEN unfinished + 1 ELSE unfinished
  /\ owner' = [owner EXCEPT ![t] = None]
  /\ arg' = [arg EXCEPT ![a] = t]
  /\ pc' = [pc EXCEPT ![a] = "commit"]
  /\ UNCHANGED <<created, vertices, predecessor_count, successors, released,
                 option, queues, sleeping, exception_ptr, mutex, task, scan,
                 target, left, cont, seen>>

CommitTask(a, t) ==
  /\ pc[a] = "body"
  /\ owner[t] = a \/ (owner[t] = Parked /\ a # Main)
  /\ unfinished' = unfinished + 1
  /\ owner' = [owner EXCEPT ![t] = None]
  /\ arg' = [arg EXCEPT ![a] = t]
  /\ pc' = [pc EXCEPT ![a] = "commit"]
  /\ UNCHANGED <<created, vertices, predecessor_count, successors, released,
                 option, queues, sleeping, exception_ptr, mutex, task, scan,
                 target, left, cont, seen>>

\* Body of decrement_predecessor_count(t) up to the first notify(); then is
\* where the caller goes on.
DecrementPredecessorCount(a, t, then) ==
  /\ mutex = None
  /\ predecessor_count' = [predecessor_count EXCEPT ![t] = @ - 1]
  /\ cont' = [cont EXCEPT ![a] = then]
  /\ \/ /\ predecessor_count[t] # 1
        /\ pc' = [pc EXCEPT ![a] = then]
        /\ UNCHANGED <<queues, mutex, target, left>>
     \/ /\ predecessor_count[t] = 1
        /\ option[t] \in Unstealable
        /\ LET w == option[t].only IN
             /\ unstealable' = [unstealable EXCEPT ![w] = Append(@, t)]
             /\ target' = [target EXCEPT ![a] = w]
        /\ left' = [left EXCEPT ![a] = 1]
        /\ mutex' = a
        /\ pc' = [pc EXCEPT ![a] = "notify"]
        /\ UNCHANGED stealable
     \/ /\ predecessor_count[t] = 1
        /\ option[t] \in Stealable
        /\ \E w \in IF option[t].recommended = None
                      THEN Workers ELSE {option[t].recommended} :
             /\ stealable' =
                  [stealable EXCEPT ![ThreadMapping[w]] = Append(@, t)]
             /\ target' = [target EXCEPT ![a] = w]
        /\ left' = [left EXCEPT ![a] = WorkerCount]
        /\ mutex' = a
        /\ pc' = [pc EXCEPT ![a] = "notify"]
        /\ UNCHANGED unstealable

CommitDecrement(a) ==
  /\ pc[a] = "commit"
  /\ DecrementPredecessorCount(a, arg[a], "body")
  /\ arg' = [arg EXCEPT ![a] = None]
  /\ UNCHANGED <<created, vertices, successors, released, option, owner,
                 unfinished, sleeping, exception_ptr, task, scan, seen>>

\* m_sleep_mutex of w is held by a thread that has found w asleep.
SleepLocked(w) == \E b \in seen : target[b] = w

\* notify() finds the flag set; it clears the flag in a later step, before
\* which the worker itself may reset it and even set it again.
Look(a) ==
  /\ pc[a] \in {"notify", "notify_all"} /\ a \notin seen
  /\ target[a] \in sleeping /\ ~SleepLocked(target[a])
  /\ seen' = seen \cup {a}
  /\ UNCHANGED <<graph, queues, unfinished, sleeping, exception_ptr, mutex, pc,
                 task, arg, scan, target, left, cont>>

\* One turn of the loop over synchronizers in decrement_predecessor_count:
\* the first one found asleep is woken and ends the loop.
Notify(a) ==
  /\ pc[a] = "notify"
  /\ a \in seen \/ target[a] \notin sleeping
  /\ sleeping' = sleeping \ {target[a]}
  /\ seen' = seen \ {a}
  /\ IF a \in seen \/ left[a] = 1
       THEN /\ left' = [left EXCEPT ![a] = 0]
            /\ target' = [target EXCEPT ![a] = 0]
            /\ mutex' = None
            /\ pc' = [pc EXCEPT ![a] = cont[a]]
       ELSE /\ left' = [left EXCEPT ![a] = @ - 1]
            /\ target' = [target EXCEPT ![a] = (@ + 1) % WorkerCount]
            /\ UNCHANGED <<mutex, pc>>
  /\ UNCHANGED <<graph, queues, unfinished, exception_ptr, task, arg, scan, cont>>

-----------------------------------------------------------------------------
(* take_runnable_task and the task loop of a worker.                       *)

\* The conditions of the task loop (WorkerThread::run).
Loop(w) ==
  /\ pc[w] = "loop"
  /\ pc' = [pc EXCEPT ![w] =
              IF IsCancelled \/ IsFinished THEN "exit" ELSE "take_unstealable"]
  /\ UNCHANGED <<graph, queues, unfinished, sleeping, exception_ptr, mutex, locals>>

\* An attempt on a queue: to found with the task, or to missed without.
TakeUnstealable(w, found, missed) ==
  /\ IF unstealable[w] # <<>>
       THEN /\ task' = [task EXCEPT ![w] = Head(unstealable[w])]
            /\ unstealable' = [unstealable EXCEPT ![w] = Tail(@)]
            /\ pc' = [pc EXCEPT ![w] = found]
       ELSE pc' = [pc EXCEPT ![w] = missed] /\ UNCHANGED <<task, unstealable>>
  /\ UNCHANGED <<graph, stealable, unfinished, sleeping, exception_ptr, mutex,
                 arg, scan, target, left, cont, seen>>

\* Mutant: reads the back of the queue and removes the front.
TakeLocalStealableMixed(w) ==
  /\ pc[w] = "take_local"
  /\ LET q == stealable[ThreadMapping[w]] IN
       IF q # <<>>
         THEN /\ task' = [task EXCEPT ![w] = q[Len(q)]]
              /\ stealable' = [stealable EXCEPT ![ThreadMapping[w]] = Tail(q)]
              /\ pc' = [pc EXCEPT ![w] = "body"]
         ELSE pc' = [pc EXCEPT ![w] = "steal"] /\ UNCHANGED <<task, stealable>>
  /\ UNCHANGED <<graph, unstealable, unfinished, sleeping, exception_ptr, mutex,
                 arg, scan, target, left, cont, seen>>

\* The worker's own node is served from the back.
TakeLocalStealable(w) ==
  /\ pc[w] = "take_local"
  /\ LET q == stealable[ThreadMapping[w]] IN
       IF q # <<>>
         THEN /\ task' = [task EXCEPT ![w] = q[Len(q)]]
              /\ stealable' = [stealable EXCEPT ![ThreadMapping[w]] =
                                 SubSeq(q, 1, Len(q) - 1)]
              /\ pc' = [pc EXCEPT ![w] = "body"]
         ELSE pc' = [pc EXCEPT ![w] = "steal"] /\ UNCHANGED <<task, stealable>>
  /\ UNCHANGED <<graph, unstealable, unfinished, sleeping, exception_ptr, mutex,
                 arg, scan, target, left, cont, seen>>

\* One turn of steal_task, which visits the nodes from the worker's own on
\* and serves each from the front.
Steal(w, found, missed) ==
  /\ LET n == (ThreadMapping[w] + scan[w]) % NodeCount IN
       IF stealable[n] # <<>>
         THEN /\ task' = [task EXCEPT ![w] = Head(stealable[n])]
              /\ stealable' = [stealable EXCEPT ![n] = Tail(@)]
              /\ scan' = [scan EXCEPT ![w] = 0]
              /\ pc' = [pc EXCEPT ![w] = found]
         ELSE /\ scan' = [scan EXCEPT ![w] = (@ + 1) % NodeCount]
              /\ pc' = IF scan[w] + 1 = NodeCount
                         THEN [pc EXCEPT ![w] = missed] ELSE pc
              /\ UNCHANGED <<task, stealable>>
  /\ UNCHANGED <<graph, unstealable, unfinished, sleeping, exception_ptr, mutex,
                 arg, target, left, cont, seen>>

TakeRunnableTask(w) ==
  \/ pc[w] = "take_unstealable" /\ TakeUnstealable(w, "body", "take_local")
  \/ TakeLocalStealable(w)
  \/ pc[w] = "steal" /\ Steal(w, "body", "set_sleeping")
  \/ pc[w] = "retake_unstealable" /\ TakeUnstealable(w, "reset", "resteal")
  \/ pc[w] = "resteal" /\ Steal(w, "reset", "wait")

SetIsSleeping(w) ==
  /\ pc[w] = "set_sleeping"
  /\ sleeping' = sleeping \cup {w}
  /\ pc' = [pc EXCEPT ![w] = "check"]
  /\ UNCHANGED <<graph, queues, unfinished, exception_ptr, mutex, locals>>

\* Mutants: the queues, or the ends, are not looked at again before sleeping.
CheckNoRescan(w) ==
  /\ pc[w] = "check"
  /\ pc' = [pc EXCEPT ![w] = IF IsFinished \/ IsCancelled THEN "reset" ELSE "wait"]
  /\ UNCHANGED <<graph, queues, unfinished, sleeping, exception_ptr, mutex, locals>>

CheckNoEnd(w) ==
  /\ pc[w] = "check"
  /\ pc' = [pc EXCEPT ![w] = "retake_unstealable"]
  /\ UNCHANGED <<graph, queues, unfinished, sleeping, exception_ptr, mutex, locals>>

Check(w) ==
  /\ pc[w] = "check"
  /\ pc' = [pc EXCEPT ![w] =
              IF IsFinished \/ IsCancelled THEN "reset" ELSE "retake_unstealable"]
  /\ UNCHANGED <<graph, queues, unfinished, sleeping, exception_ptr, mutex, locals>>

\* wait() returns once somebody has cleared the flag.
Wait(w) ==
  /\ pc[w] = "wait"
  /\ w \notin sleeping /\ ~SleepLocked(w)
  /\ pc' = [pc EXCEPT ![w] = "set_sleeping"]
  /\ UNCHANGED <<graph, queues, unfinished, sleeping, exception_ptr, mutex, locals>>

ResetIsSleeping(w) ==
  /\ pc[w] = "reset"
  /\ sleeping' = sleeping \ {w}
  /\ pc' = [pc EXCEPT ![w] = IF task[w] = None THEN "loop" ELSE "body"]
  /\ UNCHANGED <<graph, queues, unfinished, exception_ptr, mutex, locals>>

-----------------------------------------------------------------------------
(* Completion, exceptions, start and end.                                  *)

\* A body ends when it has committed or parked what it created, and the last
\* one that can serve a local queue does so (process_task_base.cpp, 409-418).
BodyDone(w) ==
  \A t \in Tasks :
    /\ owner[t] # w
    /\ owner[t] = Parked =>
         \E q \in vertices \ {task[w]} : owner[q] = None /\ ~Downstream(t, q)

\* notify_task_completion takes the vertex out of the graph ...
NotifyTaskCompletion(w) ==
  /\ pc[w] = "body" /\ BodyDone(w)
  /\ mutex = None
  /\ vertices' = vertices \ {task[w]}
  /\ pc' = [pc EXCEPT ![w] = "release"]
  /\ UNCHANGED <<created, predecessor_count, successors, released, option,
                 owner, queues, unfinished, sleeping, exception_ptr, mutex, locals>>

\* ... decrements the successors one by one ...
ReleaseSuccessor(w) ==
  /\ pc[w] = "release"
  /\ released[task[w]] < Len(successors[task[w]])
  /\ released' = [released EXCEPT ![task[w]] = @ + 1]
  /\ DecrementPredecessorCount(
        w, successors[task[w]][released[task[w]] + 1], "release")
  /\ UNCHANGED <<created, vertices, successors, option, owner, unfinished,
                 sleeping, exception_ptr, task, arg, scan, seen>>

\* ... and counts the task as finished; the last one wakes everybody.
FinishTask(w) ==
  /\ pc[w] = "release"
  /\ released[task[w]] = Len(successors[task[w]])
  /\ unfinished' = unfinished - 1
  /\ task' = [task EXCEPT ![w] = None]
  /\ IF unfinished = 1
       THEN /\ pc' = [pc EXCEPT ![w] = "notify_all"]
            /\ left' = [left EXCEPT ![w] = WorkerCount]
            /\ cont' = [cont EXCEPT ![w] = "loop"]
       ELSE pc' = [pc EXCEPT ![w] = "loop"] /\ UNCHANGED <<left, cont>>
  /\ UNCHANGED <<graph, queues, sleeping, exception_ptr, mutex, arg, scan, target,
                 seen>>

\* Mutant: the loop makes one turn too many.
NotifyAllTooFar(a) ==
  /\ pc[a] = "notify_all"
  /\ a \in seen \/ target[a] \notin sleeping
  /\ sleeping' = sleeping \ {target[a]}
  /\ seen' = seen \ {a}
  /\ left' = [left EXCEPT ![a] = @ - 1]
  /\ IF left[a] = 0
       THEN /\ target' = [target EXCEPT ![a] = 0]
            /\ pc' = [pc EXCEPT ![a] = cont[a]]
       ELSE target' = [target EXCEPT ![a] = @ + 1] /\ UNCHANGED pc
  /\ UNCHANGED <<graph, queues, unfinished, exception_ptr, mutex, task, arg, scan,
                 cont>>

\* One turn of the loop in notify_all.
NotifyAll(a) ==
  /\ pc[a] = "notify_all"
  /\ a \in seen \/ target[a] \notin sleeping
  /\ sleeping' = sleeping \ {target[a]}
  /\ seen' = seen \ {a}
  /\ left' = [left EXCEPT ![a] = @ - 1]
  /\ IF left[a] = 1
       THEN /\ target' = [target EXCEPT ![a] = 0]
            /\ pc' = [pc EXCEPT ![a] = cont[a]]
       ELSE target' = [target EXCEPT ![a] = @ + 1] /\ UNCHANGED pc
  /\ UNCHANGED <<graph, queues, unfinished, exception_ptr, mutex, task, arg, scan,
                 cont>>

\* CancellationManager keeps the first exception; a later one is suppressed.
FirstException(w) == IF exception_ptr = None THEN w ELSE exception_ptr

\* An observer throws before the task loop, or a task body in it: the worker
\* records the exception, wakes everybody and leaves.
NotifyException(w) ==
  /\ MayThrow
  /\ pc[w] = "body" \/ (pc[w] = "idle" /\ pc[Main] = "exit")
  /\ exception_ptr' = FirstException(w)
  /\ pc' = [pc EXCEPT ![w] = "notify_all"]
  /\ left' = [left EXCEPT ![w] = WorkerCount]
  /\ cont' = [cont EXCEPT ![w] = "exit"]
  /\ UNCHANGED <<graph, queues, unfinished, sleeping, mutex, task, arg, scan,
                 target, seen>>

\* Main has committed the initial graph and starts the workers ...
StartWorkers ==
  /\ pc[Main] = "body"
  /\ \A t \in Tasks : owner[t] # Main
  /\ pc' = [pc EXCEPT ![Main] = "exit"]
  /\ UNCHANGED <<graph, queues, unfinished, sleeping, exception_ptr, mutex, locals>>

\* ... each of which reaches its task loop in its own time.
EnterLoop(w) ==
  /\ pc[w] = "idle" /\ pc[Main] = "exit"
  /\ pc' = [pc EXCEPT ![w] = "loop"]
  /\ UNCHANGED <<graph, queues, unfinished, sleeping, exception_ptr, mutex, locals>>

\* All threads have ended; the system stays as it is.
Terminated == (\A a \in Actors : pc[a] = "exit") /\ UNCHANGED vars

Body(a) ==
  \/ \E o \in Options : CreatePhysicalTask(a, o)
  \/ \E p, s \in Tasks : AddDependency(a, p, s)
  \/ \E t \in Tasks : CommitTask(a, t)
  \/ \E t \in Tasks : Park(a, t)

ActorStep(a) == Body(a) \/ CommitDecrement(a) \/ Look(a) \/ Notify(a)

WorkerStep(w) ==
  \/ EnterLoop(w)
  \/ Loop(w)
  \/ TakeRunnableTask(w)
  \/ SetIsSleeping(w)
  \/ Check(w)
  \/ Wait(w)
  \/ ResetIsSleeping(w)
  \/ NotifyTaskCompletion(w)
  \/ ReleaseSuccessor(w)
  \/ FinishTask(w)
  \/ NotifyAll(w)
  \/ NotifyException(w)

Next ==
  \/ \E a \in Actors : ActorStep(a)
  \/ \E w \in Workers : WorkerStep(w)
  \/ StartWorkers
  \/ Terminated

Spec == Init /\ [][Next]_vars

\* Threads are scheduled fairly by the operating system, and every task body
\* ends.
Fairness ==
  /\ WF_vars(ActorStep(Main) \/ StartWorkers)
  /\ \A w \in Workers : WF_vars(ActorStep(w) \/ WorkerStep(w))

FairSpec == Spec /\ Fairness

-----------------------------------------------------------------------------
(* What the scheduler promises.                                            *)

\* The identifiers issued so far.
Ids == 0 .. created - 1

GraphTypeOK ==
  /\ created \in 0 .. MaxTasks
  /\ vertices \subseteq Ids
  /\ predecessor_count \in [Tasks -> Int]
  /\ successors \in [Tasks -> Seq(Ids)]
  /\ released \in [Tasks -> Nat]
  /\ option \in [Tasks -> Options \cup {None}]
  /\ \A t \in Ids : option[t] \in Options
  /\ owner \in [Tasks -> Actors \cup {Parked, None}]
  /\ \A t \in Tasks : owner[t] # None => t \in Ids

QueueTypeOK ==
  /\ stealable \in [Nodes -> Seq(Ids)]
  /\ unstealable \in [Workers -> Seq(Ids)]
  /\ unfinished \in Int
  /\ sleeping \subseteq Workers
  /\ exception_ptr \in Workers \cup {None}
  /\ mutex \in Actors \cup {None}

ThreadTypeOK ==
  /\ pc \in [Actors -> ControlPoints]
  /\ task \in [Actors -> Ids \cup {None}]
  /\ arg \in [Actors -> Ids \cup {None}]
  /\ scan \in [Actors -> Nodes]
  /\ target \in [Actors -> Workers]
  /\ left \in [Actors -> 0 .. WorkerCount]
  /\ cont \in [Actors -> {"body", "release", "loop", "exit"}]
  /\ seen \subseteq Actors

\* The state has the shape its declarations in scheduler.hpp give it, and only
\* issued identifiers are used.
TypeOK ==
  /\ GraphTypeOK
  /\ QueueTypeOK
  /\ ThreadTypeOK

\* The dependencies on t that have been recorded and not yet released.
Tokens(t) ==
  {d \in Tasks \X (1 .. MaxSuccessors) :
     /\ released[d[1]] < d[2] /\ d[2] <= Len(successors[d[1]])
     /\ successors[d[1]][d[2]] = t}

\* The creator's own token, which commit_task gives back.
CommitPending(t) == owner[t] # None \/ \E a \in Actors : arg[a] = t

\* PhysicalVertex::predecessor_count of a live vertex is exactly what still
\* has to be decremented: one per dependency that is recorded and not yet
\* released, by whatever interleaving of add_dependency with the release loop
\* of notify_task_completion, and one for the commit.  With fewer the task
\* would run too early, with more it would never run.
CountExact ==
  \A t \in vertices :
     predecessor_count[t] =
        Cardinality(Tokens(t)) + (IF CommitPending(t) THEN 1 ELSE 0)

\* The asserts of scheduler.cpp (87, 156, 238) and of PhysicalTaskList:
\* whenever a thread is about to call decrement_predecessor_count, or to add
\* a dependency, or to complete a task, the vertex it names is in m_vertices,
\* and its physical task has not been moved to a queue before.
AssertionsHold ==
  /\ \A a \in Actors : pc[a] = "commit" =>
       arg[a] \in vertices /\ predecessor_count[arg[a]] > 0
  /\ \A w \in Workers : pc[w] = "release" =>
       \A i \in released[task[w]] + 1 .. Len(successors[task[w]]) :
          LET s == successors[task[w]][i] IN
          s \in vertices /\ predecessor_count[s] > 0
  /\ \A w \in Workers : pc[w] = "body" => task[w] \in vertices
  /\ \A a \in Actors, p, s \in Tasks :
       pc[a] = "body" /\ p \in vertices /\ DependencyContract(a, p, s)
         => s \in vertices /\ predecessor_count[s] > 0

\* The physical task of t waits in a queue.
Queued(t) ==
  \/ \E n \in Nodes : \E i \in DOMAIN stealable[n] : stealable[n][i] = t
  \/ \E w \in Workers : \E i \in DOMAIN unstealable[w] : unstealable[w][i] = t

\* From its release until its completion a physical task is in exactly one
\* place, one queue position or one worker: no push, pop or steal, by
\* whatever two threads, loses it or duplicates it.
HeldOnce ==
  /\ \A t \in vertices : predecessor_count[t] = 0 =>
       Queued(t) \/ \E w \in Workers : task[w] = t
  /\ \A m, n \in Nodes :
       \A i \in DOMAIN stealable[m], j \in DOMAIN stealable[n] :
          stealable[m][i] = stealable[n][j] => m = n /\ i = j
  /\ \A v, w \in Workers :
       \A i \in DOMAIN unstealable[v], j \in DOMAIN unstealable[w] :
          unstealable[v][i] = unstealable[w][j] => v = w /\ i = j
  /\ \A n \in Nodes, w \in Workers :
       \A i \in DOMAIN stealable[n], j \in DOMAIN unstealable[w] :
          stealable[n][i] # unstealable[w][j]
  /\ \A v, w \in Workers : task[v] # None /\ task[v] = task[w] => v = w
  /\ \A w \in Workers :
       /\ \A n \in Nodes : \A i \in DOMAIN stealable[n] : stealable[n][i] # task[w]
       /\ \A v \in Workers : \A i \in DOMAIN unstealable[v] : unstealable[v][i] # task[w]

\* is_finished() is never true too early: once the workers run, a count of
\* zero means that every task that was created has completed, also the ones
\* whose commit waits in a local queue.
FinishedMeansAllDone ==
  pc[Main] = "exit" /\ IsFinished => vertices = {}

Asleep(w) == pc[w] = "wait" /\ w \in sleeping

\* No lost wake-up for tasks: an unstealable task never waits for a sleeping
\* worker that nobody is about to notify, and stealable tasks never wait
\* while all workers sleep and no notification is on its way.
NoSleepThroughWork ==
  /\ \A w \in Workers :
       unstealable[w] # <<>> /\ Asleep(w)
         => \E a \in Actors : pc[a] = "notify" /\ target[a] = w
  /\ (\E n \in Nodes : stealable[n] # <<>>) /\ ~IsCancelled
       => \/ \E a \in Actors : pc[a] = "notify"
          \/ \E w \in Workers : pc[w] # "exit" /\ ~Asleep(w)

\* No lost wake-up at the end: a worker that sleeps although everything is
\* finished or cancelled is still to be visited by a notify_all().
NoSleepThroughEnd ==
  \A w \in Workers :
     Asleep(w) /\ (IsFinished \/ IsCancelled)
       => \E v \in Workers : pc[v] = "notify_all" /\ target[v] <= w

\* Every execution ends: all workers leave their loops, with or without
\* exceptions (Executor::execute joins them).
Termination == <>(\A a \in Actors : pc[a] = "exit")

\* Every committed task completes, unless the execution is cancelled.
EveryTaskCompletes ==
  \A t \in Tasks :
     (t \in vertices /\ owner[t] = None) ~> (t \notin vertices \/ IsCancelled)

\* The life of a task as its logical task sees it.
Status(t) ==
  IF t >= created THEN "none"
  ELSE IF t \notin vertices THEN "done"
  ELSE IF \E w \in Workers : task[w] = t THEN "running"
  ELSE IF CommitPending(t) THEN "created" ELSE "committed"

TG == INSTANCE TaskGraph WITH
        status <- [t \in Tasks |-> Status(t)],
        preds  <- [t \in Tasks |->
                     {p \in Tasks : \E i \in DOMAIN successors[p] :
                                       successors[p][i] = t}]

\* The scheduler implements the task graph: a task starts once, only after
\* its commit and after all tasks it was made to depend on have completed.
RefinesTaskGraph == TG!Spec
=============================================================================
