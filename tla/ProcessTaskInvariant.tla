------------------------ MODULE ProcessTaskInvariant ------------------------
(***************************************************************************)
(* The inductive invariant of the life of a processor: what may be left of *)
(* the script of a thread, and how it fits the graph, the counters and the *)
(* callbacks that were made.                                               *)
(***************************************************************************)
EXTENDS ProcessTask

\* Where a thread may be.
Places == {"loop", "take", "run", "left", "leave", "exit", "join"}

\* The operations of scripts.
Ops ==
  {<<"prepare">>, <<"global_init">>, <<"tl_init">>, <<"run">>, <<"notify">>, <<"complete">>,
   <<"tl_finalize">>, <<"user_tl_finalize">>, <<"global_finalize">>,
   <<"user_global_finalize">>, <<"foreign">>}
    \cup {<<"create", t>> : t \in Commands} \cup {<<"commit", t>> : t \in Commands}
    \cup {<<"depend", p, t>> : p \in Tasks, t \in Tasks}
    \cup {<<"store", r, j>> : r \in Runs, j \in Ports}
    \cup {<<"count", r>> : r \in Runs} \cup {<<"spawn", r>> : r \in Runs}
    \cup {<<"finalizer", v>> : v \in Workers} \cup {<<"broadcast", j>> : j \in BroadcastPorts}

\* Types.
ProcessTypeOK ==
  /\ shape \in Shapes /\ limit \in Limits
  /\ status \in [Tasks -> {"none", "created", "committed", "running", "done"}]
  /\ preds \in [Tasks -> SUBSET Tasks]
  /\ remaining \in Nat /\ task_queue \in Seq(Commands)
  /\ global_initialized \in BOOLEAN /\ cancelled \in BOOLEAN
  /\ thread_local_initialized \subseteq Workers /\ live \subseteq Actors
  /\ broadcast_inputs \subseteq shape.broadcasts
  /\ partitioned_pool \in [Runs -> SUBSET Ports] /\ given \in [Runs -> SUBSET Ports]
  /\ waiting_counters \in [Runs -> Nat]
  /\ pc \in [Actors -> Places] /\ task \in [Actors -> Tasks]
  /\ script \in [Actors -> Seq(Ops)]

-----------------------------------------------------------------------------
(* What may be left of a task.                                             *)

\* The loops in the bodies of the entry task, the barrier and the producers of
\* data: the number of turns, the operation of turn i and the command that it
\* makes, and what is left after k turns.
Turns(t)   == IF t = Barrier THEN WorkerCount ELSE RunCount
Turn(t, i) == IF t = Entry THEN <<"spawn", i>>
              ELSE IF t = Barrier THEN <<"finalizer", i - 1>> ELSE <<"store", i, t[2]>>
Made(t, i) == IF t = Barrier THEN Finalizer(i - 1) ELSE Run(i)
Agenda(t, k) == [i \in 1 .. Turns(t) - k |-> Turn(t, k + i)] \o <<<<"complete">>>>

\* Turn k of task t makes a command.
Makes(t, k) ==
  \/ t = Barrier
  \/ t = Entry /\ Needs(k) = {}
  \/ \E j \in Needs(k) : t = Producer(j)

\* What is left of the making of a command.
Makings(t) ==
  IF t[1] = "run"
    THEN {Spawn(t), <<<<"depend", Entry, t>>, <<"depend", t, Barrier>>, <<"commit", t>>>>,
          <<<<"depend", t, Barrier>>, <<"commit", t>>>>, <<<<"commit", t>>>>}
    ELSE {Spawn(t), <<<<"depend", t, Terminal>>, <<"commit", t>>>>, <<<<"commit", t>>>>}

\* Tasks whose body is a loop.
Loops == {Entry, Barrier} \cup {Producer(j) : j \in DataPorts}

\* What may be left of turn k.
Prefixes(t, k) ==
  {<<>>} \cup
  (IF k > 0 /\ Makes(t, k)
     THEN Makings(Made(t, k)) \cup (IF t \in {Entry, Barrier} THEN {} ELSE {<<<<"count", k>>>>})
     ELSE {})

\* A task in its loop.
InLoop(t, s) ==
  /\ t \in Loops
  /\ \E k \in 0 .. Turns(t) :
       /\ t = Entry => k = Turns(t) \/ \A r \in Runs : Needs(r) = {}
       /\ \E p \in Prefixes(t, k) : s = p \o Agenda(t, k)

\* A task without a loop.
Straight(t, s) ==
  \/ t = Entry /\ s \in {Body(t), <<<<"global_init">>, <<"complete">>>>}
  \/ t = Terminal /\ s \in {Body(t), <<<<"global_finalize">>, <<"complete">>>>,
                            <<<<"user_global_finalize">>, <<"complete">>>>, <<<<"complete">>>>}
  \/ t = Foreign /\ s \in {Body(t), <<<<"complete">>>>}
  \/ \E j \in shape.broadcasts : t = Producer(j) /\ s \in {Body(t), <<<<"complete">>>>}
  \/ \E r \in Runs :
       t = Run(r) /\ s \in {Body(t), <<<<"tl_init">>, <<"run">>, <<"notify">>, <<"complete">>>>,
                            <<<<"run">>, <<"notify">>, <<"complete">>>>,
                            <<<<"notify">>, <<"complete">>>>, <<<<"complete">>>>}
  \/ \E v \in Workers :
       t = Finalizer(v) /\ s \in {Body(t), <<<<"tl_finalize">>, <<"notify">>, <<"complete">>>>,
                                  <<<<"user_tl_finalize">>, <<"notify">>, <<"complete">>>>,
                                  <<<<"notify">>, <<"complete">>>>, <<<<"complete">>>>}

\* Where a thread is and what is left of its script.
ScriptOK ==
  /\ \A w \in Workers :
       /\ pc[w] # "join"
       /\ pc[w] = "run" => InLoop(task[w], script[w]) \/ Straight(task[w], script[w])
       /\ pc[w] = "leave" => script[w] \in {<<>>, <<<<"tl_finalize">>>>, <<<<"user_tl_finalize">>>>}
       /\ pc[w] = "leave" /\ script[w] # <<>> => cancelled
       /\ pc[w] \notin {"run", "leave"} => script[w] = <<>>
  /\ pc[Main] \in {"join", "leave", "exit"}
  /\ pc[Main] = "leave" =>
       script[Main] \in {<<>>, <<<<"global_finalize">>>>, <<<<"user_global_finalize">>>>}
  /\ pc[Main] # "leave" => script[Main] = <<>>
  /\ script[Main] # <<>> => cancelled
  /\ pc[Main] # "join" => \A w \in Workers : pc[w] = "exit"

\* The operations that are left.
Elements(s) == {s[i] : i \in DOMAIN s}
Left(a)     == Elements(script[a])

-----------------------------------------------------------------------------
(* Threads and the graph.                                                  *)

Started(t) == status[t] \in {"running", "done"}

\* Who runs what: a running task has one worker, which stays with it until it
\* completes or the worker leaves; the foreign task stands for any other task.
OwnOK ==
  /\ \A w \in Workers :
       /\ pc[w] = "run" => status[task[w]] = "running"
       /\ task[w] # Foreign => Started(task[w])
       /\ task[w] # Foreign /\ pc[w] \in {"loop", "take", "left"} => status[task[w]] = "done"
       /\ \A v \in Workers :
            w # v /\ task[w] = task[v] => task[w] = Foreign /\ ~(pc[w] = "run" /\ pc[v] = "run")
       /\ \A v \in Workers : task[w] = Finalizer(v) => v = w
       /\ pc[w] \in {"left", "leave", "exit"} => cancelled \/ status[Terminal] = "done"
       /\ task[w] \in Initial \cup Commands
  /\ \A t \in Tasks : status[t] = "running" =>
       \E w \in Workers : task[w] = t /\ pc[w] \in {"run", "leave", "exit"}

\* A worker in the body of a task, and an operation that some worker has ahead.
Runner(w, t)   == task[w] = t /\ pc[w] = "run"
Doing(op)      == \E w \in Workers : pc[w] = "run" /\ op \in Left(w)

\* A task starts after its predecessors, and a dependency that a command must
\* have is in the graph or ahead of the worker that makes the command.
GraphOK ==
  /\ \A t \in Initial : status[t] \in {"committed", "running", "done"}
  /\ \A t \in Tasks : status[t] # "none" => t \in Initial \cup Commands
  /\ \A t \in Tasks : Started(t) => \A p \in preds[t] : status[p] = "done"
  /\ \A t \in Initial : InitialPreds(t) \subseteq preds[t]
  /\ \A r \in Runs : status[Run(r)] # "none" =>
       /\ Entry \in preds[Run(r)] \/ status[Entry] = "done" \/ Doing(<<"depend", Entry, Run(r)>>)
       /\ Run(r) \in preds[Barrier] \/ Doing(<<"depend", Run(r), Barrier>>)
  /\ \A v \in Workers : status[Finalizer(v)] # "none" =>
       Finalizer(v) \in preds[Terminal] \/ Doing(<<"depend", Finalizer(v), Terminal>>)

\* Commands are made once.
QueueHas(t) == \E i \in 1 .. Len(task_queue) : task_queue[i] = t

SpawnOK ==
  /\ \A i \in 1 .. Len(task_queue) : status[task_queue[i]] = "created"
  /\ \A i, k \in 1 .. Len(task_queue) : task_queue[i] = task_queue[k] => i = k
  /\ \A w \in Workers : \A t \in Commands :
       /\ <<"create", t>> \in Left(w) => status[t] = "none"
       /\ <<"commit", t>> \in Left(w) /\ <<"create", t>> \notin Left(w) =>
            status[t] = "created" /\ ~QueueHas(t)
       /\ \A v \in Workers :
            <<"commit", t>> \in Left(w) /\ <<"commit", t>> \in Left(v) => w = v

\* Task t has begun the turn of which op is the first operation.
Begun(t, op) ==
  \/ status[t] = "done"
  \/ \E w \in Workers : Runner(w, t) /\ op \notin Left(w)
                        /\ <<"global_init">> \notin Left(w)

\* The fragment of input j for run r has been counted.
Counted(j, r) ==
  \/ status[Producer(j)] = "done"
  \/ \E w \in Workers : Runner(w, Producer(j)) /\ <<"store", r, j>> \notin Left(w)
                        /\ <<"count", r>> \notin Left(w)

\* Command t has been made, or its creation is ahead of some worker.
IsMade(t) == status[t] # "none" \/ Doing(<<"create", t>>)

\* A counter is the number of fragments that were not counted, and a command is
\* made by the turn, or by the last fragment, that has to make it.
CountOK ==
  /\ \A r \in Runs :
       /\ waiting_counters[r] = Cardinality({j \in Needs(r) : ~Counted(j, r)})
       /\ waiting_counters[r] > 0 =>
            /\ partitioned_pool[r] = {j \in Needs(r) : Begun(Producer(j), <<"store", r, j>>)}
            /\ ~IsMade(Run(r))
       /\ waiting_counters[r] = 0 => given[r] = Needs(r)
       /\ Needs(r) # {} /\ waiting_counters[r] = 0 => IsMade(Run(r))
       /\ Needs(r) = {} => (IsMade(Run(r)) <=> Begun(Entry, <<"spawn", r>>))
  /\ \A v \in Workers :
       /\ IsMade(Finalizer(v)) => Begun(Barrier, <<"finalizer", v>>)
       /\ Begun(Barrier, <<"finalizer", v>>) /\ v \in thread_local_initialized =>
            IsMade(Finalizer(v)) /\ status[Finalizer(v)] # "done"

\* Slots are neither lost nor made, and none is free while a command waits.
SlotsOK ==
  /\ remaining + Cardinality({t \in Commands : HoldsSlot(t)}) = limit
  /\ task_queue # <<>> => remaining = 0

\* global_initialize has returned.
Initialized ==
  \/ status[Entry] = "done"
  \/ \E w \in Workers : Runner(w, Entry) /\ <<"global_init">> \notin Left(w)

\* The thread local bracket of a worker: thread_local_initialized is whether it
\* is open and nobody has begun to close it.
LiveOK ==
  /\ \A w \in Workers :
       /\ w \in live <=> w \in thread_local_initialized \/ <<"user_tl_finalize">> \in Left(w)
       /\ <<"user_tl_finalize">> \in Left(w) => w \notin thread_local_initialized
       /\ w \in live => status[Entry] = "done"
       /\ \A r \in Runs : Runner(w, Run(r)) /\ <<"tl_init">> \notin Left(w) =>
            w \in thread_local_initialized
       /\ Runner(w, Finalizer(w)) /\ <<"tl_finalize">> \notin Left(w) =>
            w \notin thread_local_initialized
       /\ status[Finalizer(w)] = "done" => w \notin live
       /\ pc[w] \in {"leave", "exit"} /\ w \in thread_local_initialized =>
            <<"tl_finalize">> \in Left(w)

\* The global bracket: opened by the entry task, closed by the terminal task or
\* by the caller of execute().
GlobalOK ==
  /\ Main \in live <=>
       global_initialized \/ \E a \in Actors : <<"user_global_finalize">> \in Left(a)
  /\ \A a \in Actors : <<"user_global_finalize">> \in Left(a) => ~global_initialized
  /\ Main \in live => Initialized
  /\ Initialized => Main \in live \/ pc[Main] # "join" \/ Started(Terminal)
  /\ \A w \in Workers :
       Runner(w, Terminal) /\ <<"global_finalize">> \in Left(w) => global_initialized
  /\ Started(Terminal) /\ global_initialized =>
       \E w \in Workers : Runner(w, Terminal) /\ <<"global_finalize">> \in Left(w)
  /\ pc[Main] # "join" /\ global_initialized => <<"global_finalize">> \in Left(Main)

\* A broadcast that was sent before the processor is initialized, or while it
\* is alive, is among its inputs.
InputOK ==
  \A j \in shape.broadcasts :
    /\ \/ status[Producer(j)] = "done"
       \/ \E w \in Workers : Runner(w, Producer(j)) /\ <<"broadcast", j>> \notin Left(w)
    /\ Initialized => Main \in live
    => j \in broadcast_inputs

\* The inductive invariant.
ProcessInv ==
  /\ ProcessTypeOK /\ ScriptOK /\ OwnOK /\ GraphOK /\ SpawnOK /\ CountOK /\ SlotsOK
  /\ LiveOK /\ GlobalOK /\ InputOK
=============================================================================
