# Verification of m3bp

M3 for Batch Processing executes a data-flow graph of user-written processors
on the cores of one machine.  This directory holds TLA+ models of the parts
that carry its correctness, the TLC configurations that check them on small
instances, and theorems about them that TLAPS proves for every size.
Paths below are relative to the repository; `src/...` is the library.

## 1. The system

A user builds a `FlowGraph`, gives it to a `Context` and calls `execute()`.
An executor thread translates the flow graph into a *logical graph* of logical
tasks, has every logical task create its first *physical tasks* (entry,
barrier, terminal) in the `Scheduler`, and starts one `WorkerThread` per core.
The workers take physical tasks from the scheduler and run them; running one
creates further physical tasks, and passes data fragments along the edges of
the logical graph.  An exception in user code cancels the execution: the
workers leave their loops, each calls the thread-local finalizers, and the
executor calls the global ones and rethrows the first exception in `wait()`.

| Component | State | Operations | Hard behaviour | What makes it correct |
|---|---|---|---|---|
| `Scheduler` (src/scheduler/scheduler.cpp, physical_task_list, locality_option) | vertices with predecessor counts and successor lists, per-node and per-worker queues, count of unfinished tasks | create_physical_task, add_dependency, commit_task, take_runnable_task, notify_task_completion, notify_exception | the graph grows while it is executed; four locks and three atomics; stealing | a task runs once, after its commit and its predecessors; the counts are exact; nobody sleeps while there is work or after the end |
| `SchedulerSynchronizer` | sleep flag, mutex, condition variable, per worker | set/reset_is_sleeping, wait, notify | double-checked flag, late store, spurious wake-ups | no signal is lost; `wait()` returns |
| `CancellationManager` | first exception | notify_exception, is_cancelled, rethrow_exception | unlocked reads | the first exception is kept; everyone learns of it |
| `LocalityManager`, `Topology`, `Configuration` | what the process may use of the machine; worker, node and partition mappings | binding of threads, lookups, random worker of a node | uneven or unusable nodes, a node without workers | workers can be bound, share the units evenly, and every node that memory names has a worker |
| `WorkerThread` | initialized observers | task loop, observers, exception path | exceptions of tasks, observers and cancellation | every observer that was initialized is finalized once, in reverse order |
| `Executor`, `Context` | executor thread, kept exception | execute, wait | repeated executions, settings read by another thread | workers are joined, the first exception of this very execution is rethrown, everything is cancelled |
| Process logical tasks (src/tasks/process) | initialization flags, broadcast inputs, concurrency slots and local queue, partition pool | global/thread-local initialize and finalize, run, receive_fragment, cancel | callbacks of several workers, fragments of several ports, cancellation in between | callbacks are bracketed; at most max_concurrency commands at a time; every run gets all its inputs |
| Gather, shuffle, value-sort tasks | fragments collected by the barrier | receive_fragment, partition, sort, combine | concurrent appends | no fragment is lost or used twice; groups are right |
| MSD radix sort | record pointers | sort and mark equal keys | key lengths at block boundaries | sorted permutation, exact groups |
| `LogicalGraph`, `LogicalGraphBuilder` | tasks and edges | add_edge, create_physical_tasks, build | which physical task an edge leads to | consumers start after what they need |
| Memory (memory manager, object, reference) | lock counts, shared ownership, accounts | allocate, lock, copy and move of references, release | concurrent lock and release | memory is locked while a locked reference exists, freed once, with its last reference |
| Serialized buffers, input and output buffers | layout, offset tables | allocate, parse, flush, read | a layout written in one place and derived again in another | every part is found where it was put |
| Flow graph, ports, processors (public API) | vertices with their sources | add_vertex, add_edge, search for a cycle | marks shared by all roots; a graph edited after it was handed over | cycles and unusable edges are refused, and nothing else |
| Profiling | per thread a chain of blocks of events | log, flush, dump | an event at the end of a block | every event is dumped, in order |
| General logging | - | - | - | pure output, not modelled |

## 2. Modules

| Module | Models | State and actions |
|---|---|---|
| `TaskGraph` | the promise of the scheduler | status and predecessors of each task; Create, AddDependency, Commit, Start, Complete |
| `Scheduler` | scheduler.cpp and the task loop of worker_thread.cpp | the members of `Scheduler` under their own names, and the control point and locals of every thread; one action per critical section or atomic access |
| `SchedulerProofs` | - | theorems about `Scheduler`: control, the graph and its queues, sleep, the refinement |
| `ProcessTaskInvariant`, `ProcessTaskProofs` | - | the inductive invariant of `ProcessTask`, and theorems about it |
| `DataflowInvariant`, `DataflowProofs` | - | the inductive invariant of `Dataflow`, and theorems about it: its control and its content |
| `SynchronizerProofs`, `ExecutorProofs`, `MemoryProofs`, `FlowGraphProofs`, `LocalityProofs` | - | theorems about `SchedulerSynchronizer`, `Executor`, `Memory`, `FlowGraph` and `Locality` |
| `SchedulerSynchronizer` | scheduler_synchronizer.hpp | flag, mutex, condition variable; one action per access, including the steps of `std::condition_variable::wait` |
| `AtomicSleep` | how `Scheduler` uses a synchronizer | the same flag with a notify of two steps and a wait of one |
| `ProcessTask` | src/tasks/process, the exception path of worker_thread.cpp and the end of Executor::execute | on top of `TaskGraph`; the members of `ProcessLogicalTaskBase` and of `ScatterGatherProcessLogicalTask`; each worker's remaining work is a script of operations |
| `Dataflow` | src/graph, src/tasks/{gather,shuffle,value_sort}, receive_fragment of src/tasks/process, OutputWriter::flush_buffer | on top of `TaskGraph`; the logical graph as definitions over the flow graph (a constant); the fragments that logical tasks hold, and those moved into each command |
| `Memory` | src/memory/memory_{manager,object,reference} | reference slots of threads and a shared pool, lock counts, the manager's members; an operation on references is a script of accesses, one action per kind of access |
| `EventLog` | profile_event_logger.cpp | operators on a thread's chain of blocks: write an event as words of four bytes, read the words back in the loop of `to_json` |
| `Executor` | src/context, api/context, cancellation_manager.cpp, profile_logger.cpp | the user's settings and calls, the executor thread, each worker from its start to its end with observers, tasks, exceptions and its event log |
| `FlowGraph` | src/api: flow_graph, ports, processors | the user's graph and the accepted copy; AddVertex, AddEdge, SetFlowGraph; has_cycle as a recursive function of the vertex and the search so far |
| `Locality` | topology.cpp, locality_manager.cpp, configuration.cpp | machine, configuration, mappings, bound threads; SetConfiguration, StartExecution, SetThreadCpubind, Recommend, EndExecution |
| `RadixSort` | msd_radix_sort.hpp | recursive operators on the two pairs of arrays |
| `Shuffle` | serialized_buffer, input and output buffers, the computations of src/tasks/{gather,shuffle,value_sort} | buffers as bytes, offsets and layouts; one action per command |
| `MC...` | instances for TLC | values of the constants |

How they fit together: `Scheduler` uses the sleep flag as `AtomicSleep`
describes it (`RefinesAtomicSleep`), and implements `TaskGraph`
(`RefinesTaskGraph`) as long as task bodies respect `DependencyContract`;
`ProcessTask` runs on `TaskGraph` and is shown to respect that contract
(`ContractRespected`).  `Dataflow` runs on `TaskGraph` too and looks at many
processors where `ProcessTask` looks into one; `Shuffle` computes what the
commands of `Dataflow` do to the bytes.  `Executor` takes tasks as the
scheduler promises them and looks at the threads around them.  `FlowGraph`
shows what `Dataflow` assumes of its constant flow graph, and `Locality` what
`Scheduler` assumes of its mappings.

### Scheduler

Actors are the workers and `Main`, the executor thread.  A task body is
arbitrary within the contract that all call sites respect: it creates tasks,
lets a new task depend on anything, lets committed tasks that are downstream of
itself depend on a new task, commits its tasks or parks them in the queue of
its logical task.  `DecrementPredecessorCount` keeps
`m_physical_graph_mutex` through the push and the notifications; a
notification is split into `Look` (the flag is found set) and `Notify` (it is
cleared), because the worker may reset and set its flag in between.  The queue
operations are atomic by the mutex of `PhysicalTaskList`.  `owner` and
`released` are history: who has still to commit a task, and how far the release
loop of a completed task has got.

### ProcessTask

The constant `Shapes` makes the processor an input processor (no data port), a
one-to-one processor (one fragment per command) or a scatter-gather processor
(one fragment of every port per command); a one-to-one processor is the case
where the first fragment is the last.  Upstream of the processor stands one
task per port that delivers its fragments, and an unrelated task that may
throw.  Callbacks into user code are the scripts' operations, so they have a
duration.  `live` records what the processor sees: which thread has been
initialized and not yet finalized.

### Dataflow

A flow graph is given by the input ports of its vertices.  `Edges` is what
`LogicalGraphBuilder::build` makes of it, with the phase of the consumer that
each edge holds up; `Init` is the graph after `create_physical_tasks`.  A
processor is arbitrary: in each of its physical tasks it may or may not write
to each output port (`FlushBuffer`); a fragment has a record for each
partition, and is a function from places to records, so that a record could be
in it twice and "exactly once" says something.  `commit_fragment` is a series of `receive_fragment` calls, one step
each, so that other workers act in between.  What a task does at the end of its
body is one step with its completion; the tasks it creates there depend on it,
so that nothing can see them earlier.  Duplicate edges of a flow graph are not
represented (the sources of a port are a set), nor are exceptions and the
concurrency limit, which `ProcessTask` treats.

### Memory

The program's variables of type `MemoryReference` and `LockedMemoryReference`
are slots.  A constructor, assignment or destructor is a script of accesses:
copy or take a reference, lock or unlock the object, put the temporary into a
slot and destroy what was there if that was its last reference, tell the
manager.  Two threads interleave between any two accesses.  The pool is an
element of the vectors in which logical tasks keep fragments; their mutex or
their task order lets one thread at a time use it.

### Executor

The user sets a graph, a configuration and observers, calls `execute()` and
`wait()`, and does so again.  Every callback (observers, prepare and run of a
task, thread_local_cancel, global_cancel) may throw.  An exception is known by
the execution it belongs to, so that a stale one can be told.  A callback that
throws is one step with its `notify_exception`.

### FlowGraph and Locality

Calls that throw change nothing.  Port descriptors are arbitrary pairs, because
their constructors are public.  `Cyclic` is the reference for `has_cycle`: some
set of vertices is fed from within.  In `Locality` a machine is any assignment
of processing units to nodes, with the units that the process may bind to;
`hwloc_set_cpubind` is external and succeeds when it may use one of the units.

### RadixSort and Shuffle

The memory of a partitioned fragment is a sequence of cells; sizes take one
cell, as bytes do, so that offsets stay those of the code up to the width of a
size.  `get_block` reads what follows the key once its depth is past the end
of the key, as the code does; reads behind the fragment give a garbage value.
The hash is any function on keys.  The block size (8 in the code) and the
threshold below which quick_sort takes over (256) are constants.

## 3. Runs

| Run | Instance | Shows |
|---|---|---|
| `scheduler` | 2 workers, 1 node, 3 tasks (any worker, or pinned to worker 0), at most 2 successors each | types; exact predecessor counts; no assert fails; tasks are neither lost nor duplicated; `is_finished()` is never true too early; refinement of `TaskGraph` |
| `scheduler_throw` | 3 workers on 2 nodes, 2 tasks, exceptions | no worker sleeps through the end or through work |
| `scheduler_live` | 2 workers, 2 tasks with all three kinds of locality option, exceptions, fair threads | every execution ends; every committed task completes or the execution is cancelled |
| `synchronizer` | 3 notifiers, fair | `wait()` returns once its flag is clear; refinement of `AtomicSleep` |
| `process` | 2 workers, 3 commands, limits 1 and 2, exceptions, fair; an input and a one-to-one processor with a broadcast port, a scatter-gather processor with 2 ports | slots are exact, the limit holds, the scheduler's contract is respected, runs get all inputs, callbacks are bracketed and matched, global_finalize is last without exceptions, `execute()` ends |
| `dataflow` | 2 workers, 2 partitions; A one to one into B; A and B into a sorted and a plain port of C that share a shuffle, and B broadcast to C; B writes in its commands and in its finalization | no call comes too late; a partition's command has exactly the records of its partition from both ports; broadcasts are complete; everything is delivered once; the execution ends |
| `memory` | 2 threads, 2 objects, 2 references per thread of each kind and the pool | no assert fails, a buffer is freed exactly with its last reference, locks cover locked references, the accounts are exact |
| `executor` | up to 2 workers, 2 observers, 2 logical tasks, 2 executions, 2 exceptions, event blocks of 60 bytes, fair | observers are bracketed, the outcome is that of this execution, everything is cancelled, the first exception is kept, the profile is complete, executions end |
| `flow_graph` | 3 vertices of 4 kinds of processor, 3 edges | has_cycle is exact, the accepted graph stays acyclic and is what the builder expects |
| `locality` | 5 machines (without nodes, even, uneven and partly usable, with an unusable node, with a unit above all nodes), 1 to 6 workers, 3 affinities | binding succeeds, units are shared evenly, recommendations are local |
| `shuffle` | 4 records of 3 kinds in 1 or 2 fragments, 2 partitions, blocks of 2 bytes, threshold 4 | layouts agree and no buffer overflows, the gather and the groups are exact, values are sorted |
| `process_cancel` (violation) | 3 workers, 1 command, exceptions | after an exception global_finalize may overlap thread_local_finalize |

Bounds.  Two workers are enough for every race of two threads on one vertex,
queue or flag; `scheduler_throw` has a third because `notify_all` and the
notification loop pass workers in different phases.  Three tasks
give a chain, a fork and a join, with dependencies added before, during and
after a completion, and a task parked by one body and committed by another.
`MaxTasks` and `MaxSuccessors` bound what bodies may create; no other bound is
needed, all loops of the code are finite.  A limit of one makes every second command wait
in the local queue; three commands with a limit of two exercise the case where
one waits while two run.

In the dataflow run a processor makes one command (B one per fragment) and
writes at most once to a port in each physical task: enough for empty ports and
partitions, for fragments that arrive in either order, and for a producer that
goes on writing while its consumer runs.  `MaxCommands` is large enough for all
commands of the instance; were it not, `Completes` would fail.

Two objects are what an assignment has: the one it drops and the one it takes.
In `executor`, blocks of 60 bytes hold one to three events, so that every kind
of event meets the end of a block; two exceptions are a cause and one that follows it,
in a task, an observer or a cancellation, and two executions let the second see
what the first left behind.  Three vertices and edges give every cycle up to
length three and a diamond that is none.  In `shuffle` keys have up to two
blocks, are empty, equal, or prefixes of each other; four records reach the
buckets (all four in one partition) and quick_sort (fewer).  Keys that differ
in trailing zero bytes only are left out, see below.

Fairness.  Weak fairness of each thread: the operating system runs every
thread, and user code returns.  Nothing obliges the user to call anything.
Nothing is assumed about which of two enabled operations a thread takes, about
random numbers or about spurious wake-ups.
The mutex of a synchronizer needs strong fairness in `SchedulerSynchronizer`:
a mutex that is released again and again is obtained in the end.

Every property has a mutant: an operator next to the action it mutates
(`CheckNoRescan`, `AddDependencyUncounted`, ...) with a bug of the kind the
property is there to exclude.  They are not part of any specification.

### Disagreements found

* `process_cancel`: the test processors expect that no thread is still
  initialized when `global_finalize` is called.  `thread_local_cancel` clears
  the thread's flag before it calls the user's `thread_local_finalize`; a
  barrier that runs on another worker at that moment makes no finalizer for
  that thread and the terminal task does not wait for it.  A third worker that
  passed its loop condition before the exception can run the terminal task.
  Without exceptions `GlobalFinalizeLast` holds (part of `CallbacksBracketed`).

Seen while modelling, without a run of their own:

* processor_base.hpp:172 documents that `max_concurrency` may be called in
  `global_initialize`; the value is read when the logical task is constructed
  (process_task_base.cpp:200) and never again.
* `MemoryObject::unlock` decrements its count inside an `assert`
  (memory_object.cpp:94): with `NDEBUG` objects are never unlocked.  The model
  is the build with assertions.
* `get_block` (msd_radix_sort.hpp:57) subtracts the depth from the key's length
  unsigned: once a shorter key of a run has ended, its block is read from the
  bytes behind it.  Keys of one run are equal up to their zero padding, so only
  keys that differ in trailing zero bytes get there.
* A value-sorted buffer never gets its record count (value_sort_logical_task.cpp:172),
  so that `value_buffer_size()` of an input buffer is 0 for it.
* An input port without a movement is accepted and treated as scatter-gather
  when edges are made (logical_graph_builder.cpp:215) but not when shuffles are.
* A gather without any fragment leaves its first offset unset
  (gather_logical_task.cpp:77).

## 4. Proofs

### Scheduler

`SchedulerProofs` proves, for any number of workers, nodes, tasks and
successors, from the assumptions of `Scheduler` on its constants (a positive
number of workers and nodes, a total thread mapping, locality options that name
existing workers):

| Theorem | Statement |
|---|---|
| `TypeInvariant` | `Spec => []TypeOK` |
| `PredecessorCountExact` | `Spec => []CountExact` |
| `TaskHeldOnce` | `Spec => []HeldOnce` |
| `AssertionsNeverFail` | `Spec => []AssertionsHold` |
| `FinishedIsDone` | `Spec => []FinishedMeansAllDone` |
| `EndWakesSleepers` | `Spec => []NoSleepThroughEnd` |
| `WorkWakesSleepers` | `Spec => []NoSleepThroughWork` |
| `ImplementsTaskGraph` | `Spec => RefinesTaskGraph` |

`TypeOK` is not inductive: that `notify_all` stays within the synchronizers
needs `target = WorkerCount - left`, and that a thread in its body has a task
needs to know how it got there.  `ControlOK` says how a
thread's locals depend on its control point and who holds the graph mutex;
`TypeOK /\ ControlOK` is inductive.

`CountExact` is not inductive either.  Its argument is one of tokens: every
recorded dependency `<<p, i>>`, position `i` of the successors of `p`, is a token
of the successor until the release loop of `p` has passed it, and the commit is
one more.  The invariant `GraphInv` adds that tasks with a token are live
(`GraphOK`), that a live task whose count is zero is in one place and all
others in none (`PlacesOK`, `HeldOnce`), and which tasks run or release
(`PhaseOK`).  Each action then adds or removes exactly one token where it
changes a count (`AddedToken`, `RemovedToken`), and the cardinality theorems of
`FiniteSetTheorems` do the rest.  `AssertionsHold` follows from `GraphInv`: the
successor that a body names is its own uncommitted task or downstream of the
running task, so it holds a token and is live (`ContractLive`).

`FinishedMeansAllDone` rests on two facts (`CountOK`): `unfinished` is the
number of committed tasks that are not yet past the end of
notify_task_completion, and whoever still has to commit a task, a body or a
local queue, keeps a committed vertex alive.  So a count of zero means that
nothing is left to commit either.

For the wake-ups the invariant follows the worker through its double check.  A
worker that has set its flag and has looked for the end (`PastCheck`) can sleep
through the end only if the loop of notify_all has yet to pass it (`EndOK`); one
that has set its flag and has looked at a queue (`PastQueue`, `PastOwnQueue`)
finds that queue filled only if the notification loop of whoever pushed the
task has yet to pass it (`StealableOK`, `UnstealableOK`).  The two steps of each
notification, and the flag that the worker resets and sets again in between,
are in these statements.

In the refinement a task's status is read off the vertices, the workers' tasks
and what is still to be committed.  Creating, committing, taking a task and the
last step of its completion are the steps of `TaskGraph` of the same names;
add_dependency is one if the predecessor is there; everything else (queues,
flags, locks, the release loop) leaves the mapped state alone.  That a taken
task has no predecessor left is where `CountExact` and `HeldOnce` are needed.

### Process tasks

`ProcessTaskProofs`, for any number of workers and runs, any finite set of ports,
every shape of a processor (input, one-to-one, scatter-gather, with or without
broadcasts), every positive `max_concurrency`, and callbacks that may throw or not:

| Theorem | Statement |
|---|---|
| `ProcessInvariant` | `Spec => []ProcessInv` |
| `SlotsAreExact` | `Spec => []SlotsExact` |
| `ContractIsRespected` | `Spec => []ContractRespected` |
| `InputsAreComplete` | `Spec => []InputsComplete` |
| `CallbacksAreBracketed` | `Spec => []CallbacksBracketed` |
| `AllIsFinalized` | `Spec => []AllFinalized` |

None of the five properties is inductive: each speaks of commands and flags
while what happens next is in the scripts.  `ProcessInv`
(`ProcessTaskInvariant`) therefore starts with what a script may be:
`ScriptOK` lists, for each kind of task, what may be left of it.  For the entry
task, the barrier and the producers of fragments that is a loop, so what is left
is the rest of one turn, perhaps in the middle of the making of a command,
followed by the agenda of the turns to come (`InLoop`).  The proofs use scripts
only as sets of operations that are left (`Left`): the first part of the module
shows once what each step does to that set, and that no operation occurs twice.

The other parts relate `Left` to the rest of the state.  `OwnOK` and `GraphOK`:
a started task has one runner and completed predecessors, and a dependency that
a command must have is in the graph or ahead of the worker that makes it.  From
these follows the order of the physical tasks (`OrderFacts`): producers and
the entry task before the barrier, runs before the barrier, finalizers before
the terminal task; a task that is made during the execution can be ordered
before the barrier only because its maker precedes the barrier itself.
`SpawnOK`: a command is made by one worker, and waits in the local queue at most
once.  `CountOK`: a counter is the number of fragments not yet counted, a
fragment being stored before it is counted, so exactly one producer finds zero
and makes the run.  `SlotsOK` counts the commands between their commit and their
notify_completion (`HoldsSlot`) with the cardinality theorems; notify_completion
hands its slot to the head of the queue or frees it.  `LiveOK`, `GlobalOK` and
`InputOK` say where each bracket stands by the flags and by what is left:
`thread_local_cancel` clears the flag first and calls the user afterwards, so
between the two the worker is live without a flag.

### Dataflow

`DataflowProofs`, for every flow graph that the
library accepts (without a cycle, no vertex with both one-to-one and
scatter-gather ports; see `FlowAssumption`), any number of workers, partitions
and commands, and processors that write to any of their ports or to none:

| Theorem | Statement |
|---|---|
| `CallsAreInTime` | `Spec => []CallsInTime` |
| `FlowInvariant` | `Spec => []IInv` |
| `InputsAreComplete` | `Spec => []InputsComplete` |
| `RecordsAreDeliveredOnce` | `Spec => []DeliveredOnce` |

The invariant `IInv` (`DataflowInvariant`) has two halves.  `Control` says that
the first physical tasks keep the dependencies they were created with
(`PhasesOrdered`), that a command stands between the phase that makes it and
the phase that waits for it (`CommandsOrdered`), that a started task has
completed predecessors (`PredsDone`), and that calls are made along the edges of
the logical graph.  A call is made by a task that is not later than the
terminal task of its producer; the phase of the consumer that the edge names
waits for that terminal task; so the consumer's phase cannot have started, and
there is still something a new command can be ordered before.  This half is
inductive by itself and gives `CallsInTime`.

`Content` follows a fragment.  The two properties speak of what commands have been
given, but a fragment is in turn in a `receive_fragment` call under way, in the
list of a gather or a shuffle, in the input of a partition's sort, in the pool
of a partition that waits for other ports, and only then in a command; neither
property is inductive without all of these places.  The parts of `Content` say
for each class of logical task that what it holds are exactly the flushes whose
call has been made (`Gathers`, `ShuffleCommands`, `ShuffleInputs`,
`OneToOnes`), that what a partition's sort and value sort pass on is the records
of that partition (`SortCommands`, `ValueSorts`), and that a counter of a
partition is the number of ports that have not arrived (`Pools`), so that
exactly one call completes it (`ScatterGathers`).  `Exactly` demands every
record at one place, so a step that stores a fragment must show that it was not
there before: a call is made once because it leaves `calls` with the store.
When a barrier starts, `Control` says that all producers have completed, so
what was received is all that was flushed.

### SchedulerSynchronizer

`SynchronizerProofs` proves about `SchedulerSynchronizer`, for any set of
notifiers:

| Theorem | Statement |
|---|---|
| `NoSignalLost` | `Spec => [](TypeOK /\ NoLostSignal)` |
| `ImplementsAtomicSleep` | `Spec => RefinesAtomicSleep` |

`TypeOK`, which says who holds the mutex, is inductive.  `NoLostSignal` needs
`BlockOK`: the flag that `wait()` saw set under the mutex is still set when it
blocks, because a notifier clears it under the same mutex.  In the refinement the
second look of `notify()` is the look of `AtomicSleep` (the first one, if it finds
the flag clear), locking, blocking and signalling change nothing, and the mutex
is why `wait()` cannot return between a second look and the store after it.

### Executor

`ExecutorProofs`, for any number of workers, observers, logical tasks,
executions and exceptions, and event blocks of any size that an event fits in:

| Theorem | Statement |
|---|---|
| `ExecInvariant` | `Spec => []ExecInv` |
| `ObserversAreBracketed` | `Spec => []ObserversBracketed` |
| `OutcomeIsTrue` | `Spec => []OutcomeTrue` |
| `CancelIsComplete` | `Spec => []CancelReachesAll` |
| `FirstExceptionIsKept` | `Spec => FirstExceptionKept` |
| `ProfileIsComplete` | `Spec => []ProfileComplete` |

`ExecInv` says how far the executor thread has come (`MainOK`: the context it
works on is the one that was set, what it cancelled, which exception it stored)
and for each worker how far it has come with `thread_local_cancel`
(`CancelOK`) and with its observers (`BracketOK`: those initialized are the
first k in order, those finalized the last of them in reverse, those left are
the difference).  `Started` ties the workers to Main: before its thread is
started and after it was joined a worker is at its end.  The properties need
both halves, because what a worker does depends on an exception that another
one notes, and Main on what all of them did.

The profile has an invariant of its own, `ProfileInv`, inductive together with
`ExecInv`.  `LogsOK` says that the log of a thread is disabled or prints what
the thread has logged; `BegunOK` that a thread logs nothing before it has its
log; `FlushedOK` that what was flushed is final, since the worker that flushed
has ended, and that without an exception every worker that has ended has
flushed.  An exception excuses the handler, which ends without a flush: then
`execute` never dumps.

`LogsOK` needs to know that reading undoes writing.  `Holds` says what a block
contains: its events lie one behind the other from offset zero, each of the
size that its magic number tells, up to `written`.  From it follows that the
loop of `to_json` finds them (`BlockIsRead`: after as many turns as there are
events it is at the end of the block, and there it stays), and a write keeps it,
in a block with room or in a new one (`WriteHolds`, `WriteBinaryHolds`: a new
block is printed after all the others although it is the first of the chain).
`FoldHolds` does this for all the events of an action, by induction on how many of them
are written.  The assumption on `MemoryEvents` only says that they are sequences of
events of the known kinds.

### Memory

`MemoryProofs`, for any finite set of threads and any number of objects:

| Theorem | Statement |
|---|---|
| `MemInvariant` | `Spec => []MemInv` |
| `BuffersAreFreedInTime` | `Spec => []FreedWhenUnreferenced` |
| `LocksAreHeld` | `Spec => []LocksHeld` |
| `AssertionsNeverFail` | `Spec => []AssertionsHold` |

Neither property is inductive: in the middle of an assignment a locked
reference has given its lock up, or the temporary has it.  `ScriptOK` lists
what may be left of an operation and says that the temporary is empty until it
is loaded.  From what is left it follows which slot or temporary holds a lock
(`Holds`), and `LocksOK` says that the count of an object is the number of its
holders.  Every step then leaves the holders alone, moves a lock from one to
another (a move, a put), or adds or removes one together with the count; other
threads see none of it (`Private`).  `LifeOK` says that an object is referenced,
or about to be destroyed by exactly one thread, or freed; a put that finds a
use count of one drops the only reference there is, whatever others did before.
`RegOK` does the same for the manager's set: an object outside it belongs to
the thread that is about to register it, or was released by one thread.

For the account, `AccountOK` says that the total is the sum of the sizes of the
managed objects, without those that are registered and not yet accounted for, and
that each of these belongs to one thread.  `LeakOK` is about the
search for leaks, after which no object may be released: it has found a total of
zero while all threads were idle, so nothing is managed, since sizes are positive;
so all objects are freed, and none is referenced.  All slots are empty, and no
operation can start any more.
The sums are the folds of the community modules.  That a sum grows by what is
added to the set is an induction on the cardinality, stated for the set of the
numbers up to which it holds, so that it needs no theorem with an operator as
a parameter (`NatInduct`, `SumsAdd`).

### Flow graph

`FlowGraphProofs`, for any set of processors and any bounds:

| Theorem | Statement |
|---|---|
| `GraphInvariant` | `Spec => []GraphsOK` |
| `CyclesAreFound` | `Spec => []HasCycleExact` |
| `BuilderCanRely` | `Spec => []BuilderPreconditions` |

`GraphsOK` is what the checks of `add_vertex` and `add_edge` leave behind, for the
user's graph and for the accepted one, which has no cycle in addition.  It is inductive
once `has_cycle` is known to be right about such graphs (`CycleIsFound`), which is
the larger part.  The recursion ends because every call from its loops has one
vertex less that is not done (`RecursExists`).  While nothing was found, the
vertices that the search has left (done, and not in the stack) are closed: all
that leads to them was left too, and no set of them feeds itself (`Clean`).  Those
in the stack lead from one to the next and on to the vertex that is called next
(`OnPath`), so a call for a vertex of the stack has closed a cycle.  `BodySound`
carries both through one call, `VisitSound` through its loops, and `RecursSound`
through the recursion.  Since the roots share their marks, a vertex that an
earlier root has left is skipped, and `Clean` is why that misses nothing.

### Locality

`LocalityProofs`, for every machine (any finite set of processing units, any nodes,
any part of the units usable, and a node above one of these if there are nodes), any
number of threads and partitions:

| Theorem | Statement |
|---|---|
| `EveryBindSucceeds` | `Spec => []BindingSucceeds` |
| `EveryHintIsLocal` | `Spec => []RecommendedIsLocal` |
| `UnitsAreAlwaysShared` | `Spec => []UnitsShared` |

`LocalityInv` says that the manager is the one that the constructor makes of the
machine and the configuration, and that a worker that has bound itself is where
the mapping puts it.  The rest is about the mappings.  An available node has a
unit (`UnitsAre`), so the search for the next node ends, COMPACT never skips a
node (`CompactIs`), and SCATTER, whose units left add up to the workers still to
come in the round, always finds one (`ScatterIs`).  Both put worker 0 on node 0,
and a partition is put where a worker is, so every node that memory can name has a
worker (`LocalityHasWorker`).

For `UnitsShared` the workers of a node are counted.  After each worker, COMPACT has
filled the nodes before the current one, on top of the complete rounds
(`FilledHolds`).  SCATTER has come to each node equally often, or once more to the
nodes it has passed in this turn, and a node has had a worker at each turn or has no
unit left (`EvenStep`, `FoundNext`).  That the units per node add up to the
available ones, and that the sums of the code behave as sums, are inductions over
the nodes (`UnitsSum`, `TableLess`), stated like those of the account.

### Only model-checked

* Liveness (`Termination`, `EveryTaskCompletes`, `WaitReturns`, `ExecutionEnds`,
  `Completes`): out of the prover's reach.
* The properties of `Shuffle` and of the radix sort: what recursive operators, which
  the prover does not accept, compute over bytes and arrays.

## 5. Not modelled

Weak memory: steps interleave and atomics are sequentially consistent, as the
default memory order of the code makes them; the unlocked read of
`CancellationManager::m_exception_ptr` is a data race, modelled as a read of
either value.  `ThreadLocalScheduler` is not used by the rest of the library,
nor is `SerializedBuffer::compute_hash`.  `max_concurrency` zero, of a processor
or of the configuration, is excluded by assumptions: the code accepts it and
never runs a command.  Settings changed while an execution reads them, and
threads that cannot be created, are excluded by the guards of `Executor`.  The
general logger, the texts of the profile, names of vertices and ports, and
where hwloc allocates memory are pure output or have no effect on results.
