------------------------------- MODULE Executor -------------------------------
(***************************************************************************)
(* A Context and its executions as the user of the library sees them: the  *)
(* calls of Context (src/api/context.cpp), Executor and ExecutionContext   *)
(* (src/context), the whole life of the worker threads with their          *)
(* observers and exceptions (src/context/worker_thread.cpp), the           *)
(* CancellationManager and the profile log (src/logging).                  *)
(*                                                                         *)
(* The scheduler is what Scheduler and TaskGraph show it to be: a task is  *)
(* taken once, and take_runnable_task returns without one only when the    *)
(* execution is finished or cancelled.  What a task does is the subject of *)
(* ProcessTask and Dataflow.  The user changes settings only while no      *)
(* execution is running, since the executor thread reads them unguarded.   *)
(***************************************************************************)
EXTENDS EventLog, FiniteSets, SequencesExt

CONSTANTS
  MaxWorkers,     \* the largest max_concurrency of a configuration
  Configurations, \* what the user may set: <<max_concurrency, profiling>>
  MaxObservers,   \* bound: calls of add_thread_observer
  Graphs,         \* flow graphs: [cyclic, logical_tasks, tasks]
  MemoryEvents,   \* sequences of memory events that a task may log
  MaxExecutions,  \* bound: calls of execute
  MaxThrows,      \* bound: callbacks that throw
  Main,           \* the executor thread
  None

Workers == 0 .. MaxWorkers - 1
Actors  == Workers \cup {Main}

ASSUME ExecutorAssumption ==
  /\ MaxWorkers \in Nat \ {0} /\ Main \notin Workers
  /\ None \notin Nat \X Nat   \* None is no exception
  /\ Configurations \subseteq (1 .. MaxWorkers) \X BOOLEAN
  /\ \A es \in MemoryEvents :
       /\ Len(es) \in Nat /\ es = [i \in 1 .. Len(es) |-> es[i]]
       /\ \A i \in 1 .. Len(es) : IsMessage(es[i])
  /\ \A g \in Graphs : g.cyclic \in BOOLEAN /\ g.logical_tasks \in Nat /\ g.tasks \in Nat

VARIABLES
  settings,     \* m_flow_graph, m_configuration and m_thread_observers
  joinable,     \* m_executor_thread.joinable()
  thrown,       \* m_thrown_exception
  waiting,      \* is the user in wait()?
  ctx,          \* the settings that the ExecutionContext was made of
  exception,    \* CancellationManager::m_exception_ptr
  tasks,        \* the physical tasks: "todo", "running", "done"
  pc, idx,      \* where each thread is, and in which turn of its loop
  task,         \* the task of a worker
  initialized,  \* of each worker: initialized_observers
  log,          \* of each thread: its ProfileEventLogger
  event_jsons,  \* ProfileLogger::m_event_jsons, by thread
  dump,         \* what was written to the profile destination
  executions, throws,   \* history: calls of execute, callbacks that threw
  events,               \* history: the events logged, by thread
  inits, finals,        \* history: observers by their callbacks, by worker
  cancels               \* history: logical tasks whose thread_local_cancel
                        \* (Main: global_cancel) was called, by thread

user    == <<settings, joinable, thrown, waiting, executions>>
profile == <<log, event_jsons, dump, events>>
calls   == <<inits, finals, cancels>>
place   == <<pc, idx, task, initialized>>
vars    == <<user, ctx, exception, tasks, place, profile, calls, throws>>

Defaults == [graph |-> None, workers |-> MaxWorkers, profiling |-> FALSE, observers |-> 0]

\* The state of an execution, and what is known of it, before it starts.
Fresh(ctx_, exception_, tasks_, task_, log_, jsons, dump_, events_, inits_, finals_, cancels_) ==
  /\ ctx_ = Defaults
  /\ exception_ = None
  /\ tasks_ = <<>>
  /\ task_ = [w \in Workers |-> None]
  /\ log_ = [a \in Actors |-> Disabled]
  /\ jsons = <<>> /\ dump_ = None
  /\ events_ = [a \in Actors |-> <<>>]
  /\ inits_ = [w \in Workers |-> <<>>] /\ finals_ = [w \in Workers |-> <<>>]
  /\ cancels_ = [a \in Actors |-> {}]

Init ==
  /\ Fresh(ctx, exception, tasks, task, log, event_jsons, dump, events, inits, finals, cancels)
  /\ settings = Defaults
  /\ joinable = FALSE /\ thrown = None /\ waiting = FALSE
  /\ pc = [a \in Actors |-> "exit"]
  /\ idx = [a \in Actors |-> 1]
  /\ initialized = [w \in Workers |-> <<>>]
  /\ executions = 0 /\ throws = 0

Goto(a, place_) == pc' = [pc EXCEPT ![a] = place_] /\ idx' = [idx EXCEPT ![a] = 1]
NextTurn(a)     == idx' = [idx EXCEPT ![a] = @ + 1] /\ UNCHANGED pc

-----------------------------------------------------------------------------
(* The user's calls.                                                       *)

\* A graph with a cycle is refused (RoutingError) and nothing is set.
SetFlowGraph ==
  /\ ~joinable
  /\ \E g \in Graphs :
       settings' = IF g.cyclic THEN settings ELSE [settings EXCEPT !.graph = g]
  /\ UNCHANGED <<joinable, thrown, waiting, executions, ctx, exception, tasks,
                 place, profile, calls, throws>>

SetConfiguration ==
  /\ ~joinable
  /\ \E c \in Configurations :
       settings' = [settings EXCEPT !.workers = c[1], !.profiling = c[2]]
  /\ UNCHANGED <<joinable, thrown, waiting, executions, ctx, exception, tasks,
                 place, profile, calls, throws>>

AddThreadObserver ==
  /\ ~joinable /\ settings.observers < MaxObservers
  /\ settings' = [settings EXCEPT !.observers = @ + 1]
  /\ UNCHANGED <<joinable, thrown, waiting, executions, ctx, exception, tasks,
                 place, profile, calls, throws>>

\* Mutant: the exception of the previous execution is kept.
ExecuteStale ==
  /\ settings.graph # None /\ executions < MaxExecutions
  /\ ~joinable
  /\ joinable' = TRUE
  /\ executions' = executions + 1
  /\ Goto(Main, "construct")
  /\ UNCHANGED <<settings, thrown, waiting, ctx, exception, tasks, task, initialized,
                 profile, calls, throws>>

\* A call while an execution has not been waited for throws and changes
\* nothing.
Execute ==
  /\ settings.graph # None /\ executions < MaxExecutions
  /\ ~joinable
  /\ joinable' = TRUE
  /\ thrown' = None
  /\ executions' = executions + 1
  /\ Goto(Main, "construct")
  /\ UNCHANGED <<settings, waiting, ctx, exception, tasks, task, initialized, profile,
                 calls, throws>>

\* wait() joins the executor thread, by then without its context, and rethrows
\* what it stored.
Wait ==
  /\ joinable /\ ~waiting
  /\ waiting' = TRUE
  /\ UNCHANGED <<settings, joinable, thrown, executions, ctx, exception, tasks,
                 place, profile, calls, throws>>

WaitReturn ==
  /\ waiting /\ pc[Main] = "exit"
  /\ waiting' = FALSE /\ joinable' = FALSE
  /\ Fresh(ctx', exception', tasks', task', log', event_jsons', dump', events', inits',
           finals', cancels')
  /\ UNCHANGED <<settings, thrown, executions, pc, idx, initialized, throws>>

-----------------------------------------------------------------------------
(* Events and exceptions.                                                  *)

WriteAll(blocks, es) == FoldLeft(WriteBinary, blocks, es)

\* The events get their timestamps and go through the thread's logger.
LogAll(a, es) ==
  LET stamped == [i \in 1 .. Len(es) |->
                    <<es[i][1], Len(events[a]) + i>> \o Tail(es[i])]
  IN /\ log' = [log EXCEPT ![a] = WriteAll(@, stamped)]
     /\ events' = [events EXCEPT ![a] = @ \o stamped]
     /\ UNCHANGED <<event_jsons, dump>>

\* Mutant: the last exception wins.
NotifyExceptionLast(e) == exception' = e

\* CancellationManager::notify_exception keeps the first.
NotifyException(e) == exception' = IF exception = None THEN e ELSE exception

\* Callbacks may throw; an exception is known by its execution and its number.
MayThrow  == throws < MaxThrows /\ throws' = throws + 1
Exception == <<executions, throws + 1>>

IsCancelled == exception # None
IsFinished  == \A t \in DOMAIN tasks : tasks[t] = "done"

\* ProfileEventLogger::flush: what thread a has logged joins what others have.
Flushed(a) ==
  [v \in {a} \cup DOMAIN event_jsons |-> IF v = a THEN ToJson(log[a]) ELSE event_jsons[v]]

-----------------------------------------------------------------------------
(* The executor thread.                                                    *)

\* The ExecutionContext, with a scheduler, a cancellation manager and, if a
\* destination is set, a profile logger of its own.
Construct ==
  /\ pc[Main] = "construct"
  /\ ctx' = settings
  /\ log' = [log EXCEPT ![Main] = IF settings.profiling THEN Enabled ELSE Disabled]
  /\ Goto(Main, "create")
  /\ UNCHANGED <<user, exception, tasks, task, initialized, event_jsons, dump, events, calls, throws>>

\* create_physical_tasks, each task after the one before.
CreatePhysicalTasks ==
  /\ pc[Main] = "create"
  /\ LET n == ctx.graph.tasks
     IN /\ tasks' = [t \in 1 .. n |-> "todo"]
        /\ LogAll(Main, [t \in 1 .. n |-> <<"create_physical_task", t, 1>>]
                          \o [t \in 1 .. n - 1 |-> <<"physical_dependency", t, t + 1>>])
  /\ Goto(Main, "start")
  /\ UNCHANGED <<user, ctx, exception, task, initialized, calls, throws>>

\* WorkerThread::run: a new thread, whose logger is that of the thread.
StartWorker ==
  /\ pc[Main] = "start"
  /\ LET w == idx[Main] - 1
     IN IF w < ctx.workers
          THEN /\ pc' = [pc EXCEPT ![w] = "initialize"]
               /\ idx' = [idx EXCEPT ![Main] = @ + 1, ![w] = 1]
               /\ initialized' = [initialized EXCEPT ![w] = <<>>]
               /\ log' = [log EXCEPT ![w] = IF ctx.profiling THEN Enabled ELSE Disabled]
          ELSE Goto(Main, "join") /\ UNCHANGED <<initialized, log>>
  /\ UNCHANGED <<user, ctx, exception, tasks, task, event_jsons, dump, events, calls, throws>>

Join ==
  /\ pc[Main] = "join"
  /\ \A w \in Workers : pc[w] = "exit"
  /\ Goto(Main, IF IsCancelled THEN "global_cancel" ELSE "profile")
  /\ UNCHANGED <<user, ctx, exception, tasks, task, initialized, profile, calls, throws>>

\* global_cancel of every logical task, which may throw; then the exception
\* is rethrown and stored.
GlobalCancel ==
  /\ pc[Main] = "global_cancel"
  /\ IF idx[Main] <= ctx.graph.logical_tasks
       THEN /\ cancels' = [cancels EXCEPT ![Main] = @ \cup {idx[Main]}]
            /\ NextTurn(Main)
            /\ \/ UNCHANGED <<exception, throws>>
               \/ MayThrow /\ NotifyException(Exception)
            /\ UNCHANGED thrown
       ELSE /\ thrown' = exception
            /\ Goto(Main, "exit")
            /\ UNCHANGED <<cancels, exception, throws>>
  /\ UNCHANGED <<settings, joinable, waiting, executions, ctx, tasks, task,
                 initialized, profile, inits, finals>>

\* The profile of the executor thread itself, and the dump.
DumpProfile ==
  /\ pc[Main] = "profile"
  /\ IF ctx.profiling THEN event_jsons' = Flushed(Main) /\ dump' = Flushed(Main)
     ELSE UNCHANGED <<event_jsons, dump>>
  /\ Goto(Main, "exit")
  /\ UNCHANGED <<user, ctx, exception, tasks, task, initialized, log, events, calls, throws>>

-----------------------------------------------------------------------------
(* A worker thread.                                                        *)

\* on_initialize of the next observer, which is pushed when it returns.
OnInitialize(w) ==
  /\ pc[w] = "initialize"
  /\ IF idx[w] <= ctx.observers
       THEN /\ initialized' = [initialized EXCEPT ![w] = Append(@, idx[w])]
            /\ inits' = [inits EXCEPT ![w] = Append(@, idx[w])]
            /\ NextTurn(w)
       ELSE Goto(w, "loop") /\ UNCHANGED <<initialized, inits>>
  /\ UNCHANGED <<user, ctx, exception, tasks, task, profile, finals, cancels, throws>>

\* Mutant: the loop is left only when every task is done.
LoopUncancelled(w) ==
  /\ pc[w] = "loop"
  /\ Goto(w, IF ~IsFinished THEN "take" ELSE IF IsCancelled THEN "cancel" ELSE "finalize")
  /\ UNCHANGED <<user, ctx, exception, tasks, task, initialized, profile, calls, throws>>

\* The condition of the loop: out of it to thread_local_cancel or to the
\* observers.
Loop(w) ==
  /\ pc[w] = "loop"
  /\ Goto(w, IF IsCancelled THEN "cancel" ELSE IF IsFinished THEN "finalize" ELSE "take")
  /\ UNCHANGED <<user, ctx, exception, tasks, task, initialized, profile, calls, throws>>

\* take_runnable_task: a task, also after an exception that came behind the
\* condition of the loop; or none, and back to the condition.
TakeRunnableTask(w) ==
  /\ pc[w] = "take"
  /\ \/ \E t \in DOMAIN tasks :
          /\ tasks[t] = "todo"
          /\ tasks' = [tasks EXCEPT ![t] = "running"]
          /\ task' = [task EXCEPT ![w] = t]
          /\ Goto(w, "prepare")
     \/ /\ IsCancelled \/ IsFinished
        /\ Goto(w, "loop")
        /\ UNCHANGED <<tasks, task>>
  /\ UNCHANGED <<user, ctx, exception, initialized, profile, calls, throws>>

Prepare(w) ==
  /\ pc[w] = "prepare"
  /\ LogAll(w, <<<<"begin_preparation", task[w]>>, <<"end_preparation", task[w]>>,
                 <<"begin_execution", task[w]>>>>)
  /\ Goto(w, "run")
  /\ UNCHANGED <<user, ctx, exception, tasks, task, initialized, calls, throws>>

\* run() returns, and the completion is notified.
Complete(w) ==
  /\ pc[w] = "run"
  /\ \E es \in MemoryEvents : LogAll(w, es \o <<<<"end_execution", task[w]>>>>)
  /\ tasks' = [tasks EXCEPT ![task[w]] = "done"]
  /\ Goto(w, "loop")
  /\ UNCHANGED <<user, ctx, exception, task, initialized, calls, throws>>

\* Mutant: the loop over the logical tasks ends one too early.
ThreadLocalCancelFewer(w) ==
  /\ pc[w] \in {"cancel", "caught_cancel"}
  /\ IF idx[w] < ctx.graph.logical_tasks
       THEN /\ cancels' = [cancels EXCEPT ![w] = @ \cup {idx[w]}]
            /\ NextTurn(w)
       ELSE /\ Goto(w, IF pc[w] = "cancel" THEN "finalize" ELSE "caught_finalize")
            /\ UNCHANGED cancels
  /\ UNCHANGED <<user, ctx, exception, tasks, task, initialized, profile, inits, finals, throws>>

\* After the loop: thread_local_cancel of every logical task.
ThreadLocalCancel(w) ==
  /\ pc[w] \in {"cancel", "caught_cancel"}
  /\ IF idx[w] <= ctx.graph.logical_tasks
       THEN /\ cancels' = [cancels EXCEPT ![w] = @ \cup {idx[w]}]
            /\ NextTurn(w)
       ELSE /\ Goto(w, IF pc[w] = "cancel" THEN "finalize" ELSE "caught_finalize")
            /\ UNCHANGED cancels
  /\ UNCHANGED <<user, ctx, exception, tasks, task, initialized, profile, inits, finals, throws>>

\* Mutant: the observer is taken off the list only after its callback.
OnFinalizeLate(w) ==
  /\ pc[w] = "finalize" /\ initialized[w] # <<>>
  /\ \/ initialized' = [initialized EXCEPT ![w] = Front(@)] /\ UNCHANGED <<pc, idx, exception, throws>>
     \/ /\ MayThrow /\ NotifyException(Exception)
        /\ Goto(w, "caught_cancel")
        /\ UNCHANGED initialized
  /\ finals' = [finals EXCEPT ![w] = Append(@, Last(initialized[w]))]
  /\ UNCHANGED <<user, ctx, tasks, task, profile, inits, cancels>>

\* The last observer is taken off the list first, so that it is not finalized
\* again if its on_finalize throws.
OnFinalize(w) ==
  /\ pc[w] = "finalize" /\ initialized[w] # <<>>
  /\ initialized' = [initialized EXCEPT ![w] = Front(@)]
  /\ finals' = [finals EXCEPT ![w] = Append(@, Last(initialized[w]))]
  /\ \/ UNCHANGED <<pc, idx, exception, throws>>
     \/ /\ MayThrow /\ NotifyException(Exception)
        /\ Goto(w, "caught_cancel")
  /\ UNCHANGED <<user, ctx, tasks, task, profile, inits, cancels>>

Flush(w) ==
  /\ pc[w] = "finalize" /\ initialized[w] = <<>>
  /\ event_jsons' = IF ctx.profiling /\ w \notin DOMAIN event_jsons
                      THEN Flushed(w) ELSE event_jsons
  /\ Goto(w, "exit")
  /\ UNCHANGED <<user, ctx, exception, tasks, task, initialized, log, dump, events, calls,
                 throws>>

\* Another callback throws: on_initialize, prepare or run of a task, or
\* thread_local_cancel after the loop.
Throw(w) ==
  /\ MayThrow
  /\ \/ pc[w] = "initialize" /\ idx[w] <= ctx.observers /\ UNCHANGED cancels
     \/ pc[w] \in {"prepare", "run"} /\ UNCHANGED cancels
     \/ /\ pc[w] = "cancel" /\ idx[w] <= ctx.graph.logical_tasks
        /\ cancels' = [cancels EXCEPT ![w] = @ \cup {idx[w]}]
  /\ NotifyException(Exception)
  /\ Goto(w, "caught_cancel")
  /\ UNCHANGED <<user, ctx, tasks, task, initialized, profile, inits, finals>>

\* In the handler an exception of thread_local_cancel is recorded only.
CaughtThrow(w) ==
  /\ MayThrow
  /\ pc[w] = "caught_cancel" /\ idx[w] <= ctx.graph.logical_tasks
  /\ cancels' = [cancels EXCEPT ![w] = @ \cup {idx[w]}]
  /\ NotifyException(Exception)
  /\ NextTurn(w)
  /\ UNCHANGED <<user, ctx, tasks, task, initialized, profile, inits, finals>>

\* In the handler: on_finalize of those that are left, whether it throws or
\* not.
CaughtFinalize(w) ==
  /\ pc[w] = "caught_finalize"
  /\ IF initialized[w] # <<>>
       THEN /\ initialized' = [initialized EXCEPT ![w] = Front(@)]
            /\ finals' = [finals EXCEPT ![w] = Append(@, Last(initialized[w]))]
            /\ NextTurn(w)
            /\ \/ UNCHANGED <<exception, throws>>
               \/ MayThrow /\ NotifyException(Exception)
       ELSE Goto(w, "exit") /\ UNCHANGED <<initialized, finals, exception, throws>>
  /\ UNCHANGED <<user, ctx, tasks, task, profile, inits, cancels>>

-----------------------------------------------------------------------------

ExecutorStep ==
  Construct \/ CreatePhysicalTasks \/ StartWorker \/ Join \/ GlobalCancel \/ DumpProfile

WorkerStep(w) ==
  \/ OnInitialize(w) \/ Loop(w) \/ TakeRunnableTask(w) \/ Prepare(w) \/ Complete(w)
  \/ ThreadLocalCancel(w) \/ OnFinalize(w) \/ Flush(w) \/ Throw(w) \/ CaughtThrow(w) \/ CaughtFinalize(w)

Next ==
  \/ SetFlowGraph \/ SetConfiguration \/ AddThreadObserver \/ Execute \/ Wait \/ WaitReturn
  \/ ExecutorStep
  \/ \E w \in Workers : WorkerStep(w)

Spec == Init /\ [][Next]_vars

\* Threads are scheduled fairly and callbacks return; nothing obliges the user.
FairSpec == Spec /\ WF_vars(ExecutorStep) /\ \A w \in Workers : WF_vars(WorkerStep(w))

-----------------------------------------------------------------------------
(* What the user may rely on.                                              *)

\* thread_observer_base.hpp: on every worker thread each observer that was
\* initialized is finalized exactly once, in reverse order, before the thread
\* ends, whatever throws; and tasks run only between the two.
ObserversBracketed ==
  \A w \in Workers :
    /\ IsPrefix(inits[w], [i \in 1 .. ctx.observers |-> i])
    /\ IsPrefix(finals[w], Reverse(inits[w]))
    /\ pc[w] = "exit" => Len(finals[w]) = Len(inits[w])
    /\ pc[w] \in {"loop", "take", "prepare", "run"} => Len(inits[w]) = ctx.observers /\ finals[w] = <<>>

\* When the executor thread has ended no worker is left; it stored an
\* exception if and only if a callback of this very execution threw, and
\* otherwise every task was done.
OutcomeTrue ==
  (joinable /\ pc[Main] = "exit") =>
    /\ \A w \in Workers : pc[w] = "exit"
    /\ thrown = exception
    /\ thrown # None => thrown[1] = executions
    /\ thrown = None => IsFinished

\* After an exception the executor cancels every logical task and so did every
\* worker, unless all tasks were done before: then a worker may have ended in
\* order while an observer of another threw.
CancelReachesAll ==
  (joinable /\ pc[Main] = "exit" /\ thrown # None) =>
    /\ cancels[Main] = 1 .. ctx.graph.logical_tasks
    /\ IsFinished \/ \A w \in 0 .. ctx.workers - 1 : cancels[w] = cancels[Main]

\* What was recorded first is what is reported: the exception of an execution
\* never changes once it is set.
FirstExceptionKept ==
  [][exception # None => exception' = exception \/ ~joinable']_vars

\* The dump of an execution without exceptions has exactly the events that
\* every thread has logged, in their order, however many blocks they fill; and
\* no block is written past its end.
ProfileComplete ==
  /\ dump # None =>
       /\ DOMAIN dump = {Main} \cup 0 .. ctx.workers - 1
       /\ \A a \in DOMAIN dump : dump[a] = events[a]
  /\ \A a \in Actors : \A i \in DOMAIN log[a] : log[a][i].written <= LOG_BLOCK_SIZE

\* An execution ends, with or without exceptions.
ExecutionEnds == pc[Main] = "construct" ~> pc[Main] = "exit"
=============================================================================
