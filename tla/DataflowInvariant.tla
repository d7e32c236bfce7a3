-------------------------- MODULE DataflowInvariant --------------------------
(***************************************************************************)
(* The inductive invariant of Dataflow.  Control: which tasks have been    *)
(* made to wait for which, from what the calls under way follow that they  *)
(* come in time.  Content: where every fragment is between the flush that  *)
(* wrote it and the command that is given it.                              *)
(***************************************************************************)
EXTENDS Dataflow

States == {"none", "committed", "running", "done"}

GraphOK == status \in [Tasks -> States] /\ preds \in [Tasks -> SUBSET Tasks]

\* The other functions have their domains.
ShapeOK ==
  /\ DOMAIN inputs = LogicalTasks
  /\ \A l \in LogicalTasks : DOMAIN inputs[l] = 1 .. Len(inputs[l]) /\ Len(inputs[l]) \in Nat
  /\ DOMAIN pool = Vertices /\ \A v \in Vertices : DOMAIN pool[v] = Partitions
  /\ DOMAIN waiting = Vertices /\ \A v \in Vertices : DOMAIN waiting[v] = Partitions
  /\ DOMAIN broadcasts = Vertices /\ DOMAIN given = Tasks /\ DOMAIN calls = Tasks

-----------------------------------------------------------------------------
(* Control.                                                                *)

Started(t) == status[t] \in {"running", "done"}

\* The phases that a command comes after and before.
PhaseBefore(u) == IF u[2] = "sort" THEN BarrierTask(u[1]) ELSE EntryTask(u[1])
PhaseAfter(u)  == IF u[2] = "sort" THEN TerminalTask(u[1]) ELSE WaitingPhase(u[1])

\* The phases exist from the beginning and keep their dependencies.
PhasesOrdered ==
  \A t \in Initial : status[t] # "none" /\ PhasePreds(t[1])[t] \cup EdgePreds(t) \subseteq preds[t]

\* A command is between its phases, and only the phase after it waits for it.
CommandsOrdered ==
  \A u \in Tasks \ Initial :
    /\ status[u] # "none" => PhaseBefore(u) \in preds[u] /\ u \in preds[PhaseAfter(u)]
    /\ \A t \in Tasks : u \in preds[t] => t = PhaseAfter(u)

PredsDone == \A t \in Tasks : Started(t) => \A u \in preds[t] : status[u] = "done"

Ordered == GraphOK /\ PhasesOrdered /\ CommandsOrdered /\ PredsDone

\* Calls are made along the edges.
CallsAlongEdges ==
  \A t \in Tasks : \A c \in calls[t] :
    \E e \in Edges : e.from = t[1] /\ c.to = e.to /\ c.port = e.port

Control == ShapeOK /\ Ordered /\ CallsAlongEdges

-----------------------------------------------------------------------------
(* Content.                                                                *)

\* What a flush commits, what flushes do, and the records of some partitions.
FlushOf(f) == [q \in Partitions |-> [by |-> f[1], oport |-> f[2], partition |-> q]]
FlushesIn(F) == {FlushOf(f) : f \in F}
RecordsIn(F, Q) == {[by |-> f[1], oport |-> f[2], partition |-> q] : f \in F, q \in Q}

\* The flushes of the output ports ps, and their records.

FlushedTo(ps) == {f \in flushed : <<f[1][1][2], f[2]>> \in ps}
RecordsOf(ps, Q) == RecordsIn(FlushedTo(ps), Q)

\* The flushes of ps whose call to a port of l has been made.
Received(ps, l, port) ==
  {f \in FlushedTo(ps) :
     [to |-> l, port |-> port, partition |-> 0, fragment |-> FlushOf(f)] \notin calls[f[1]]}

\* The call of t to a port of l has been made.
Sent(t, l, port) == Started(t) /\ \A c \in calls[t] : ~(c.to = l /\ c.port = port)

Numbers(l) == {k \in 1 .. MaxCommands : status[Command(l, k)] # "none"}

\* Only running tasks call, each port once, and only tasks that have something
\* to commit.
Callers ==
  \A t \in Tasks :
    /\ calls[t] # {} =>
         /\ status[t] = "running"
         /\ t[1][1] = "shuffle" => t[2] = "sort"
         /\ t[1][1] = "value_sort" => t[2] = "command"
    /\ \A c, d \in calls[t] : c.to = d.to /\ c.port = d.port => c = d

\* Processors flush what they have written, and call with what they flushed.
Flushes ==
  /\ \A f \in flushed :
       \E t \in Tasks : \E o \in OPorts(t[1][2]) :
         f = <<t, o>> /\ t[1][1] = "process" /\ Started(t)
  /\ \A t \in Tasks : t[1][1] = "process" =>
       \A c \in calls[t] :
         \E f \in flushed : f[1] = t /\ c \in CommitFragment(t[1], f[2], 0, FlushOf(f))

\* A gather holds the flushes it has received, and commits all their records.
Gathers ==
  \A l \in OfClass("gather") :
    /\ status[EntryTask(l)] # "done" =>
         Exactly(inputs[l], FlushesIn(Received(l[2], l, 1)))
    /\ \A c \in calls[EntryTask(l)] : Exactly(c.fragment, RecordsOf(l[2], Partitions))

\* Each command of a shuffle is given one of the flushes it has received, ...
ShuffleCommands ==
  \A l \in OfClass("shuffle") :
    /\ \E n \in 0 .. MaxCommands : Numbers(l) = 1 .. n
    /\ Exactly([k \in Numbers(l) |-> given[Command(l, k)][1]],
               FlushesIn(Received(l[2], l, 1)))

\* ... the ended ones have put it on the list, ...
ShuffleInputs ==
  \A l \in OfClass("shuffle") : status[BarrierTask(l)] # "done" =>
    Exactly(inputs[l], {given[Command(l, k)][1] :
                          k \in {i \in Numbers(l) : status[Command(l, i)] = "done"}})

\* ... and the sort commands, made by the barrier, are given the list.
SortCommands ==
  \A l \in OfClass("shuffle") : \A q \in Partitions :
    LET t == SortCommand(l, q) IN
    /\ status[t] # "none" <=> status[BarrierTask(l)] = "done"
    /\ status[t] # "none" => Exactly(given[t][1], FlushesIn(FlushedTo(l[2])))
    /\ \A c \in calls[t] : c.partition = q /\ Exactly(c.fragment, RecordsOf(l[2], {q}))

\* A value sort has a command for every partition it has received.
ValueSorts ==
  \A p \in InPorts("scatter_gather") : Inputs[p[1]][p[2]].sorted =>
    LET l == ValueSort(p) IN
    /\ Numbers(l) = {q \in Partitions : Sent(SortCommand(Shuffle(Sources(p)), q), l, 1)}
    /\ \A k \in Numbers(l) : Exactly(given[Command(l, k)][1], RecordsOf(Sources(p), {k}))
    /\ \A k \in 1 .. MaxCommands : \A c \in calls[Command(l, k)] :
         c.partition = k /\ Exactly(c.fragment, RecordsOf(Sources(p), {k}))

\* The task that sends a partition to a scatter-gather port.
Feeder(p, q) ==
  IF Inputs[p[1]][p[2]].sorted THEN Command(ValueSort(p), q)
  ELSE SortCommand(Shuffle(Sources(p)), q)

Arrived(v, q) ==
  {j \in ScatterGatherPorts(v) :
     Feeder(<<v, j>>, q) \in Tasks /\ Sent(Feeder(<<v, j>>, q), Process(v), j)}

\* What has arrived waits in the pool for the other ports.
Pools ==
  \A v \in Vertices : \A q \in Partitions :
    /\ waiting[v][q] = Cardinality(ScatterGatherPorts(v) \ Arrived(v, q))
    /\ Arrived(v, q) # ScatterGatherPorts(v) =>
         /\ DOMAIN pool[v][q] = Arrived(v, q)
         /\ \A j \in Arrived(v, q) :
              Exactly(pool[v][q][j], RecordsOf(Sources(<<v, j>>), {q}))

\* The partitions that are complete have a command.
ScatterGathers ==
  \A v \in Vertices : CreateProcessTask(v) = "scatter_gather" =>
    /\ Numbers(Process(v)) = {q \in Partitions : Arrived(v, q) = ScatterGatherPorts(v)}
    /\ \A q \in Numbers(Process(v)) : \A j \in ScatterGatherPorts(v) :
         /\ j \in DOMAIN given[Command(Process(v), q)]
         /\ Exactly(given[Command(Process(v), q)][j], RecordsOf(Sources(<<v, j>>), {q}))

\* Each command of a one-to-one processor is given one flush.
OneToOnes ==
  \A v \in Vertices : CreateProcessTask(v) = "one_to_one" =>
    /\ \E n \in 0 .. MaxCommands : Numbers(Process(v)) = 1 .. n
    /\ \A j \in DOMAIN Inputs[v] : Inputs[v][j].movement = "one_to_one" =>
         Exactly([k \in {i \in Numbers(Process(v)) : j \in DOMAIN given[Command(Process(v), i)]} |->
                    given[Command(Process(v), k)][j]],
                 FlushesIn(Received(Sources(<<v, j>>), Process(v), j)))

\* A consumer keeps what was broadcast to it until it is finalized.
Broadcasts ==
  \A p \in InPorts("broadcast") :
    /\ Sent(EntryTask(Gather(Sources(p))), Process(p[1]), p[2])
    /\ status[TerminalTask(Process(p[1]))] # "done"
    => /\ p[2] \in DOMAIN broadcasts[p[1]]
       /\ Exactly(broadcasts[p[1]][p[2]], RecordsOf(Sources(p), Partitions))

Content ==
  /\ Callers /\ Flushes /\ Gathers /\ ShuffleCommands /\ ShuffleInputs /\ SortCommands /\ ValueSorts
  /\ Pools /\ ScatterGathers /\ OneToOnes /\ Broadcasts

IInv == Control /\ Content
=============================================================================
