----------------------------- MODULE ProcessTask -----------------------------
(***************************************************************************)
(* The life of one processor in an execution: ProcessLogicalTaskBase and   *)
(* its three kinds (src/tasks/process), the task loop and the exception    *)
(* path of the workers (src/context/worker_thread.cpp) and the end of      *)
(* Executor::execute, on top of what the scheduler promises (TaskGraph).   *)
(*                                                                         *)
(* A worker's body is the script of operations still to be done; the one   *)
(* at its head is in progress, so that callbacks into user code have a     *)
(* duration and other workers act meanwhile.                               *)
(*                                                                         *)
(* Around the processor stand one upstream physical task per input port,   *)
(* which delivers the fragments of that port, and one foreign task that    *)
(* has nothing to do with it but may throw.                                *)
(***************************************************************************)
EXTENDS Integers, Sequences, FiniteSets

CONSTANTS
  WorkerCount,      \* worker threads
  RunCount,         \* process commands: task_count, fragments or partitions
  Ports,            \* non-broadcast input ports
  BroadcastPorts,   \* broadcast input ports
  Shapes,           \* processors: [needs |-> the ports that each run command gets
                    \* a fragment from, broadcasts |-> its broadcast ports]
  Limits,           \* values of ProcessorBase::max_concurrency() at construction
  MayThrow,         \* may callbacks throw?
  Main

Workers == 0 .. WorkerCount - 1
Runs    == 1 .. RunCount
Actors  == Workers \cup {Main}

\* An input processor has no data ports; a one-to-one processor runs once per
\* fragment, a scatter-gather processor once per partition with all its ports.
ASSUME ShapeAssumption ==
  /\ WorkerCount \in Nat \ {0} /\ RunCount \in Nat /\ IsFiniteSet(Ports)
  /\ Shapes \subseteq [needs : [Runs -> SUBSET Ports], broadcasts : SUBSET BroadcastPorts]
  /\ \A s \in Shapes :
       \/ \A r \in Runs : s.needs[r] = {}
       \/ \A r \in Runs : \E j \in Ports : s.needs[r] = {j}
       \/ \E J \in SUBSET Ports : \A r \in Runs : s.needs[r] = J
  /\ Ports \cap BroadcastPorts = {}

\* A limit of zero would leave every command in the local queue for ever.
ASSUME LimitAssumption == Limits \subseteq Nat \ {0}

ASSUME MainAssumption == Main \notin Workers /\ MayThrow \in BOOLEAN

\* Physical tasks.
Entry        == <<"entry", 0>>
Barrier      == <<"barrier", 0>>
Terminal     == <<"terminal", 0>>
Foreign      == <<"foreign", 0>>
Run(r)       == <<"run", r>>
Finalizer(w) == <<"finalize", w>>
Producer(j)  == <<"produce", j>>

Commands == {Run(r) : r \in Runs} \cup {Finalizer(w) : w \in Workers}
Tasks    == {Entry, Barrier, Terminal, Foreign} \cup Commands
              \cup {Producer(j) : j \in Ports \cup BroadcastPorts}

VARIABLES
  shape,                    \* the processor
  status, preds,            \* the scheduler's graph (TaskGraph)
  remaining,                \* m_remaining_concurrency
  task_queue,               \* m_task_queue
  limit,                    \* max_concurrency(), read by the constructor
  global_initialized,       \* m_global_initialized
  thread_local_initialized, \* the workers whose m_thread_local_initialized is set
  broadcast_inputs,         \* the ports m_broadcast_inputs has fragments of
  partitioned_pool,         \* m_partitioned_pool
  waiting_counters,         \* m_waiting_counters
  given,                    \* the fragments moved into each run command
  cancelled,                \* CancellationManager::is_cancelled()
  pc, task, script,         \* where a thread is, its task, what is left of it
  live                      \* history: initialized and not yet finalized,
                            \* as the processor sees it (Main: global)

setup == <<shape, limit>>
sched == <<status, preds>>
slots == <<remaining, task_queue>>
flags == <<global_initialized, thread_local_initialized, live>>
data  == <<broadcast_inputs, partitioned_pool, waiting_counters, given>>
vars  == <<setup, sched, slots, flags, data, cancelled, pc, task, script>>

TG == INSTANCE TaskGraph

Needs(r)  == shape.needs[r]
DataPorts == UNION {Needs(r) : r \in Runs}
Initial   == {Entry, Barrier, Terminal, Foreign}
               \cup {Producer(j) : j \in DataPorts \cup shape.broadcasts}

\* Mutant: without the edges from the producers.
InitialPredsNoEdges(t) ==
  IF t = Barrier THEN {Entry} ELSE IF t = Terminal THEN {Barrier} ELSE {}

\* create_physical_tasks of the processor and of LogicalGraph: entry, barrier
\* and terminal in a row; producers of broadcasts precede the entry, the
\* other producers precede the barrier.
InitialPreds(t) ==
  CASE t = Entry    -> {Producer(j) : j \in shape.broadcasts}
    [] t = Barrier  -> {Entry} \cup {Producer(j) : j \in DataPorts}
    [] t = Terminal -> {Barrier}
    [] OTHER        -> {}

Init ==
  /\ shape \in Shapes
  /\ limit \in Limits
  /\ status = [t \in Tasks |-> IF t \in Initial THEN "committed" ELSE "none"]
  /\ preds = [t \in Tasks |-> InitialPreds(t)]
  /\ remaining = limit
  /\ task_queue = <<>>
  /\ global_initialized = FALSE
  /\ thread_local_initialized = {}
  /\ broadcast_inputs = {}
  /\ partitioned_pool = [r \in Runs |-> {}]
  /\ waiting_counters = [r \in Runs |-> Cardinality(Needs(r))]
  /\ given = [r \in Runs |-> {}]
  /\ cancelled = FALSE
  /\ pc = [a \in Actors |-> IF a = Main THEN "join" ELSE "loop"]
  /\ task = [a \in Actors |-> Foreign]
  /\ script = [a \in Actors |-> <<>>]
  /\ live = {}

\* m_unfinished_task_count = 0.
IsFinished == \A t \in Tasks : status[t] \in {"none", "created", "done"}

-----------------------------------------------------------------------------
(* Scripts.                                                                *)

\* The bodies of the physical tasks (their prepare and run).
Body(t) ==
  CASE t[1] = "entry"    -> <<<<"prepare">>, <<"global_init">>, <<"complete">>>>
    [] t[1] = "run"      -> <<<<"prepare">>, <<"tl_init">>, <<"run">>, <<"notify">>,
                              <<"complete">>>>
    [] t[1] = "barrier"  -> [i \in 1 .. WorkerCount |-> <<"finalizer", i - 1>>]
                              \o <<<<"complete">>>>
    [] t[1] = "finalize" -> <<<<"prepare">>, <<"tl_finalize">>, <<"notify">>,
                              <<"complete">>>>
    [] t[1] = "terminal" -> <<<<"prepare">>, <<"global_finalize">>, <<"complete">>>>
    [] t[1] = "produce"  -> IF t[2] \in BroadcastPorts
                              THEN <<<<"broadcast", t[2]>>, <<"complete">>>>
                              ELSE [r \in Runs |-> <<"store", r, t[2]>>]
                                     \o <<<<"complete">>>>
    [] OTHER             -> <<<<"foreign">>, <<"complete">>>>

\* Mutant: a finalizer that the terminal task does not wait for.
SpawnUnordered(t) ==
  IF t[1] = "run"
    THEN <<<<"create", t>>, <<"depend", Entry, t>>, <<"depend", t, Barrier>>,
           <<"commit", t>>>>
    ELSE <<<<"create", t>>, <<"commit", t>>>>

\* The calls that make a run command or a thread local finalizer.
Spawn(t) ==
  IF t[1] = "run"
    THEN <<<<"create", t>>, <<"depend", Entry, t>>, <<"depend", t, Barrier>>,
           <<"commit", t>>>>
    ELSE <<<<"create", t>>, <<"depend", t, Terminal>>, <<"commit", t>>>>

Op(a)       == IF script[a] = <<>> THEN <<"none">> ELSE Head(script[a])
At(a, name) == Op(a)[1] = name
Rest(a)     == Tail(script[a])
Become(a, s) == script' = [script EXCEPT ![a] = s]

-----------------------------------------------------------------------------
(* The calls into the scheduler.                                           *)

Create(w) ==
  /\ At(w, "create")
  /\ TG!Create(Op(w)[2])
  /\ Become(w, Rest(w))
  /\ UNCHANGED <<slots, flags, data, setup, cancelled, pc, task>>

Depend(w) ==
  /\ At(w, "depend")
  /\ IF status[Op(w)[2]] = "done" THEN UNCHANGED sched
     ELSE TG!AddDependency(Op(w)[2], Op(w)[3])
  /\ Become(w, Rest(w))
  /\ UNCHANGED <<slots, flags, data, setup, cancelled, pc, task>>

\* Mutant: the limit is not looked at.
CommitProcessCommandUnlimited(w) ==
  /\ At(w, "commit")
  /\ remaining' = remaining - 1
  /\ TG!Commit(Op(w)[2])
  /\ Become(w, Rest(w))
  /\ UNCHANGED <<task_queue, flags, data, setup, cancelled, pc, task>>

CommitProcessCommand(w) ==
  /\ At(w, "commit")
  /\ IF remaining = 0
       THEN task_queue' = Append(task_queue, Op(w)[2]) /\ UNCHANGED <<remaining, sched>>
       ELSE remaining' = remaining - 1 /\ TG!Commit(Op(w)[2]) /\ UNCHANGED task_queue
  /\ Become(w, Rest(w))
  /\ UNCHANGED <<flags, data, setup, cancelled, pc, task>>

\* Mutant: the local queue is not served.
NotifyCompletionUnserved(w) ==
  /\ At(w, "notify")
  /\ remaining' = remaining + 1
  /\ Become(w, Rest(w))
  /\ UNCHANGED <<sched, task_queue, flags, data, setup, cancelled, pc, task>>

\* The slot goes to the commands that wait, as far as slots reach.
NotifyCompletion(w) ==
  /\ At(w, "notify")
  /\ LET n == IF remaining + 1 < Len(task_queue) THEN remaining + 1
              ELSE Len(task_queue)
     IN /\ remaining' = remaining + 1 - n
        /\ status' = [t \in Tasks |-> IF \E i \in 1 .. n : task_queue[i] = t
                                        THEN "committed" ELSE status[t]]
        /\ task_queue' = SubSeq(task_queue, n + 1, Len(task_queue))
  /\ Become(w, Rest(w))
  /\ UNCHANGED <<preds, flags, data, setup, cancelled, pc, task>>

Complete(w) ==
  /\ At(w, "complete")
  /\ TG!Complete(task[w])
  /\ Become(w, <<>>)
  /\ pc' = [pc EXCEPT ![w] = "loop"]
  /\ UNCHANGED <<slots, flags, data, setup, cancelled, task>>

-----------------------------------------------------------------------------
(* Fragments.                                                              *)

ReceiveBroadcast(w) ==
  /\ At(w, "broadcast")
  /\ broadcast_inputs' = broadcast_inputs \cup {Op(w)[2]}
  /\ Become(w, Rest(w))
  /\ UNCHANGED <<sched, slots, flags, partitioned_pool, waiting_counters, given,
                 setup, cancelled, pc, task>>

\* The producer of a port that run r has no fragment of skips it.
ReceiveFragment(w) ==
  /\ At(w, "store")
  /\ LET r == Op(w)[2]
         j == Op(w)[3]
     IN IF j \in Needs(r)
          THEN /\ partitioned_pool' = [partitioned_pool EXCEPT ![r] = @ \cup {j}]
               /\ Become(w, <<<<"count", r>>>> \o Rest(w))
          ELSE Become(w, Rest(w)) /\ UNCHANGED partitioned_pool
  /\ UNCHANGED <<sched, slots, flags, broadcast_inputs, waiting_counters, given,
                 setup, cancelled, pc, task>>

\* Mutant: the command is made with the first fragment.
CountFragmentFirst(w) ==
  /\ At(w, "count")
  /\ LET r == Op(w)[2] IN
       /\ waiting_counters' = [waiting_counters EXCEPT ![r] = @ - 1]
       /\ IF waiting_counters[r] = Cardinality(Needs(r))
            THEN /\ given' = [given EXCEPT ![r] = partitioned_pool[r]]
                 /\ partitioned_pool' = [partitioned_pool EXCEPT ![r] = {}]
                 /\ Become(w, Spawn(Run(r)) \o Rest(w))
            ELSE Become(w, Rest(w)) /\ UNCHANGED <<given, partitioned_pool>>
  /\ UNCHANGED <<sched, slots, flags, broadcast_inputs, setup, cancelled, pc, task>>

\* Whoever brings the counter to zero makes the command and moves the pool
\* into it.
CountFragment(w) ==
  /\ At(w, "count")
  /\ LET r == Op(w)[2] IN
       /\ waiting_counters' = [waiting_counters EXCEPT ![r] = @ - 1]
       /\ IF waiting_counters[r] = 1
            THEN /\ given' = [given EXCEPT ![r] = partitioned_pool[r]]
                 /\ partitioned_pool' = [partitioned_pool EXCEPT ![r] = {}]
                 /\ Become(w, Spawn(Run(r)) \o Rest(w))
            ELSE Become(w, Rest(w)) /\ UNCHANGED <<given, partitioned_pool>>
  /\ UNCHANGED <<sched, slots, flags, broadcast_inputs, setup, cancelled, pc, task>>

-----------------------------------------------------------------------------
(* The callbacks of the processor.                                         *)

\* prepare() locks the broadcast inputs.
Prepare(w) ==
  /\ At(w, "prepare")
  /\ Become(w, Rest(w))
  /\ UNCHANGED <<sched, slots, flags, data, setup, cancelled, pc, task>>

\* global_initialize returns; an input processor then makes its commands.
GlobalInitialize(w) ==
  /\ At(w, "global_init")
  /\ global_initialized' = TRUE
  /\ live' = live \cup {Main}
  /\ Become(w, [r \in {q \in Runs : Needs(q) = {}} |-> <<"spawn", r>>] \o Rest(w))
  /\ UNCHANGED <<setup, sched, slots, data, thread_local_initialized, cancelled, pc, task>>

SpawnRun(w) ==
  /\ At(w, "spawn")
  /\ Become(w, Spawn(Run(Op(w)[2])) \o Rest(w))
  /\ UNCHANGED <<sched, slots, flags, data, setup, cancelled, pc, task>>

\* The callback is made only for a worker that is not initialized yet.
ThreadLocalInitialize(w) ==
  /\ At(w, "tl_init")
  /\ thread_local_initialized' = thread_local_initialized \cup {w}
  /\ live' = live \cup {w}
  /\ Become(w, Rest(w))
  /\ UNCHANGED <<sched, slots, data, global_initialized, setup, cancelled, pc, task>>

\* run() of the processor, or the body of the foreign task, returns.
Return(w) ==
  /\ At(w, "run") \/ At(w, "foreign")
  /\ Become(w, Rest(w))
  /\ UNCHANGED <<sched, slots, flags, data, setup, cancelled, pc, task>>

\* One turn of the loop in create_thread_local_finalizers.
CreateThreadLocalFinalizer(w) ==
  /\ At(w, "finalizer")
  /\ LET v == Op(w)[2] IN
     Become(w, (IF v \in thread_local_initialized THEN Spawn(Finalizer(v)) ELSE <<>>)
                 \o Rest(w))
  /\ UNCHANGED <<sched, slots, flags, data, setup, cancelled, pc, task>>

\* thread_local_finalize and thread_local_cancel: the flag is cleared first.
ThreadLocalFinalize(w) ==
  /\ At(w, "tl_finalize")
  /\ thread_local_initialized' = thread_local_initialized \ {w}
  /\ Become(w, (IF w \in thread_local_initialized
                  THEN <<<<"user_tl_finalize">>>> ELSE <<>>) \o Rest(w))
  /\ UNCHANGED <<sched, slots, data, global_initialized, live, setup, cancelled, pc,
                 task>>

ThreadLocalFinalized(w) ==
  /\ At(w, "user_tl_finalize")
  /\ live' = live \ {w}
  /\ Become(w, Rest(w))
  /\ UNCHANGED <<sched, slots, data, global_initialized, thread_local_initialized,
                 setup, cancelled, pc, task>>

\* global_finalize in the terminal task and global_cancel in Executor::execute.
GlobalFinalize(a) ==
  /\ At(a, "global_finalize")
  /\ global_initialized' = FALSE
  /\ Become(a, (IF global_initialized THEN <<<<"user_global_finalize">>>> ELSE <<>>)
                 \o Rest(a))
  /\ UNCHANGED <<sched, slots, data, thread_local_initialized, live, setup, cancelled,
                 pc, task>>

GlobalFinalized(a) ==
  /\ At(a, "user_global_finalize")
  /\ live' = live \ {Main}
  /\ broadcast_inputs' = {}
  /\ Become(a, Rest(a))
  /\ UNCHANGED <<sched, slots, global_initialized, thread_local_initialized,
                 partitioned_pool, waiting_counters, given, setup, cancelled, pc, task>>

-----------------------------------------------------------------------------
(* The threads.                                                            *)

\* The conditions of the task loop.
Loop(w) ==
  /\ pc[w] = "loop"
  /\ pc' = [pc EXCEPT ![w] = IF cancelled \/ IsFinished THEN "left" ELSE "take"]
  /\ UNCHANGED <<sched, slots, flags, data, setup, cancelled, task, script>>

\* take_runnable_task: a finalizer is taken by its own worker only; without a
\* task the call returns once the execution is finished or cancelled.
TakeTask(w) ==
  /\ pc[w] = "take"
  /\ \E t \in Tasks :
       /\ t[1] = "finalize" => t[2] = w
       /\ TG!Start(t)
       /\ task' = [task EXCEPT ![w] = t]
       /\ Become(w, Body(t))
  /\ pc' = [pc EXCEPT ![w] = "run"]
  /\ UNCHANGED <<slots, flags, data, setup, cancelled>>

TakeNothing(w) ==
  /\ pc[w] = "take"
  /\ cancelled \/ IsFinished
  /\ pc' = [pc EXCEPT ![w] = "loop"]
  /\ UNCHANGED <<sched, slots, flags, data, setup, cancelled, task, script>>

\* Mutant: no thread_local_cancel after the loop.
LeaveUncancelled(w) ==
  /\ pc[w] = "left"
  /\ pc' = [pc EXCEPT ![w] = "leave"]
  /\ Become(w, <<>>)
  /\ UNCHANGED <<sched, slots, flags, data, setup, cancelled, task>>

\* After the loop: thread_local_cancel, if the execution was cancelled.
Leave(w) ==
  /\ pc[w] = "left"
  /\ pc' = [pc EXCEPT ![w] = "leave"]
  /\ Become(w, IF cancelled THEN <<<<"tl_finalize">>>> ELSE <<>>)
  /\ UNCHANGED <<sched, slots, flags, data, setup, cancelled, task>>

Exit(a) ==
  /\ pc[a] = "leave" /\ script[a] = <<>>
  /\ pc' = [pc EXCEPT ![a] = "exit"]
  /\ UNCHANGED <<sched, slots, flags, data, setup, cancelled, task, script>>

\* A callback throws: notify_exception, and on to thread_local_cancel.  A
\* callback that throws while the thread leaves is only recorded.
Throw(a) ==
  /\ MayThrow
  /\ \/ At(a, "foreign") \/ At(a, "global_init") \/ At(a, "run")
     \/ At(a, "tl_init") /\ a \notin thread_local_initialized
     \/ At(a, "user_tl_finalize") \/ At(a, "user_global_finalize")
  /\ cancelled' = TRUE
  /\ live' = live \ (IF At(a, "user_tl_finalize") THEN {a}
                     ELSE IF At(a, "user_global_finalize") THEN {Main} ELSE {})
  /\ pc' = [pc EXCEPT ![a] = "leave"]
  /\ Become(a, IF pc[a] = "run" THEN <<<<"tl_finalize">>>> ELSE <<>>)
  /\ UNCHANGED <<sched, slots, data, global_initialized, thread_local_initialized,
                 setup, task>>

\* Executor::execute has joined the workers; global_cancel, if cancelled.
Join ==
  /\ pc[Main] = "join"
  /\ \A w \in Workers : pc[w] = "exit"
  /\ pc' = [pc EXCEPT ![Main] = "leave"]
  /\ Become(Main, IF cancelled THEN <<<<"global_finalize">>>> ELSE <<>>)
  /\ UNCHANGED <<sched, slots, flags, data, setup, cancelled, task>>

Terminated == pc[Main] = "exit" /\ UNCHANGED vars

WorkerStep(w) ==
  \/ Create(w) \/ Depend(w) \/ CommitProcessCommand(w) \/ NotifyCompletion(w)
  \/ Complete(w)
  \/ ReceiveBroadcast(w) \/ ReceiveFragment(w) \/ CountFragment(w)
  \/ Prepare(w) \/ GlobalInitialize(w) \/ SpawnRun(w) \/ ThreadLocalInitialize(w)
  \/ Return(w) \/ CreateThreadLocalFinalizer(w)
  \/ ThreadLocalFinalize(w) \/ ThreadLocalFinalized(w)
  \/ Loop(w) \/ TakeTask(w) \/ TakeNothing(w) \/ Leave(w)

AnyStep(a) == GlobalFinalize(a) \/ GlobalFinalized(a) \/ Exit(a) \/ Throw(a)

Next ==
  \/ \E w \in Workers : WorkerStep(w)
  \/ \E a \in Actors : AnyStep(a)
  \/ Join
  \/ Terminated

Spec == Init /\ [][Next]_vars

\* Threads are scheduled fairly and callbacks return.
FairSpec ==
  /\ Spec
  /\ \A w \in Workers : WF_vars(WorkerStep(w) \/ AnyStep(w))
  /\ WF_vars(Join \/ AnyStep(Main))

-----------------------------------------------------------------------------
(* What a processor may rely on.                                           *)

\* The command that runs on w has its slot: it was committed and has not
\* reached notify_completion.
HoldsSlot(t) ==
  /\ t \in Commands
  /\ \/ status[t] = "committed"
     \/ status[t] = "running" /\
          \E w \in Workers :
             /\ task[w] = t
             /\ pc[w] \in {"leave", "exit"} \/ \E i \in DOMAIN script[w] : script[w][i] = <<"notify">>

\* Callbacks of commands in progress.
InCommand(w) ==
  \/ At(w, "run")
  \/ At(w, "tl_init") /\ w \notin thread_local_initialized
  \/ At(w, "user_tl_finalize") /\ pc[w] = "run"

\* m_remaining_concurrency is exact: it never wraps below zero, the free slots
\* and the commands that hold one add up to max_concurrency as it was when the
\* processor was constructed, and no command waits in the local queue while a
\* slot is free.  So the queue is always served by somebody who has not
\* reached notify_completion yet, or was cancelled, and the processor is
\* entered by at most max_concurrency commands at a time.
SlotsExact ==
  /\ remaining >= 0
  /\ remaining + Cardinality({t \in Commands : HoldsSlot(t)}) = limit
  /\ task_queue # <<>> => remaining = 0
  /\ Cardinality({w \in Workers : InCommand(w)}) <= limit

\* The scheduler's contract (Scheduler!DependencyContract) on every path: a
\* dependency is only added to a task that has not started.
ContractRespected ==
  \A w \in Workers : At(w, "depend") =>
     \/ status[Op(w)[2]] = "done"
     \/ status[Op(w)[2]] # "none" /\ status[Op(w)[3]] \in {"created", "committed"}

\* A run gets every fragment of its inputs and every broadcast input, and the
\* assert of receive_fragment holds: broadcasts come before initialization.
InputsComplete ==
  /\ \A w \in Workers :
       /\ At(w, "prepare") => broadcast_inputs = shape.broadcasts
       /\ At(w, "run") => given[task[w][2]] = Needs(task[w][2])
       /\ At(w, "broadcast") => ~global_initialized
  /\ \A r \in Runs : status[Run(r)] # "none" => waiting_counters[r] = 0

\* test_processor_base.hpp, global_finalize:
\* "EXPECT_TRUE(m_thread_local_initialized.empty())".
GlobalFinalizeLast ==
  \A a \in Actors : At(a, "user_global_finalize") => live = {Main}

\* Each callback is made in the bracket it belongs to, on the right thread and
\* once (the expectations of TestProcessorBase), and as long as no callback
\* has thrown global_finalize comes after the thread_local_finalize of every
\* worker has returned.
CallbacksBracketed ==
  /\ \A w \in Workers :
       /\ At(w, "run") => w \in live /\ Main \in live
       /\ InCommand(w) /\ At(w, "tl_init") => w \notin live /\ Main \in live
       /\ At(w, "user_tl_finalize") => w \in live
       /\ At(w, "global_init") => live = {}
  /\ \A a \in Actors : At(a, "user_global_finalize") => Main \in live
  /\ ~cancelled => GlobalFinalizeLast

\* When execute() ends, whether normally or by an exception, every callback
\* that initialized something has been matched by its finalizer; and without
\* an exception every run has been made.
AllFinalized ==
  pc[Main] = "exit" =>
    /\ live = {}
    /\ ~cancelled => \A r \in Runs : status[Run(r)] = "done"

\* execute() ends.
ExecutionEnds == <>(pc[Main] = "exit")
=============================================================================
