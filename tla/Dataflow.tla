------------------------------ MODULE Dataflow ------------------------------
(***************************************************************************)
(* From a flow graph to its execution: LogicalGraphBuilder and             *)
(* LogicalGraph (src/graph), the gather, shuffle and value sort tasks that *)
(* stand between processors (src/tasks), and the fragments that travel     *)
(* along the edges, on top of what the scheduler promises (TaskGraph).     *)
(*                                                                         *)
(* A record tells which physical task wrote it to which output port, and   *)
(* the partition that the hash of its key falls into.  A fragment is a     *)
(* function from places to records, so that a record can be in it twice;   *)
(* the order of the places, and what the sorts do to it, is the subject of *)
(* Shuffle.  How processors are initialized, finalized and limited in      *)
(* their concurrency is the subject of ProcessTask.                        *)
(***************************************************************************)
EXTENDS Integers, Sequences, FiniteSets, Functions

CONSTANTS
  WorkerCount,     \* physical tasks that run at a time
  PartitionCount,  \* Configuration::partition_count()
  Vertices,        \* the vertices of the flow graph
  Inputs,          \* of each vertex: its input ports, each with its movement,
                   \* its sources and whether it has a value comparator
  TaskCount,       \* of a vertex without data ports: its task_count()
  Writing,         \* of each vertex: the physical tasks in which its processor
                   \* may write ("entry", "command", "terminal")
  MaxCommands      \* bound: no logical task of the instance makes more commands
                   \* (if it did, it could not go on, and Completes would fail)

Partitions == 1 .. PartitionCount

\* The sources of an input port <<vertex, port>>: output ports.
Sources(p) == Inputs[p[1]][p[2]].sources

Movements(v) == {Inputs[v][j].movement : j \in DOMAIN Inputs[v]}

Port == [movement : {"one_to_one", "scatter_gather", "broadcast"}, sorted : BOOLEAN,
         sources : SUBSET (Vertices \X Nat)]

\* The flow graph has no cycle (ContextImpl::set_flow_graph) and no vertex
\* mixes one-to-one and scatter-gather ports (the assert of the builder).
ASSUME FlowAssumption ==
  /\ WorkerCount \in Nat \ {0} /\ PartitionCount \in Nat \ {0} /\ MaxCommands \in Nat
  /\ Inputs \in [Vertices -> Seq(Port)] /\ TaskCount \in [Vertices -> Nat]
  /\ \A v \in Vertices : ~({"one_to_one", "scatter_gather"} \subseteq Movements(v))
  /\ \E rank \in [Vertices -> 1 .. Cardinality(Vertices)] :
       \A v \in Vertices : \A j \in DOMAIN Inputs[v] :
         \A s \in Sources(<<v, j>>) : rank[s[1]] < rank[v]

-----------------------------------------------------------------------------
(* LogicalGraphBuilder.                                                    *)

\* The class of the logical task made for a vertex.
CreateProcessTask(v) ==
  CASE "one_to_one" \in Movements(v)     -> "one_to_one"
    [] "scatter_gather" \in Movements(v) -> "scatter_gather"
    [] OTHER                             -> "input"

\* The input ports of the flow graph with a given movement.
InPorts(movement) ==
  UNION {{<<v, j>> : j \in {i \in DOMAIN Inputs[v] : Inputs[v][i].movement = movement}}
           : v \in Vertices}

\* Logical tasks: processors; one shuffle and one gather for each set of
\* output ports that is their source, shared by all ports with that set; a
\* value sort for each port that has a comparator.
Process(v)   == <<"process", v>>
Shuffle(ps)  == <<"shuffle", ps>>
Gather(ps)   == <<"gather", ps>>
ValueSort(p) == <<"value_sort", p>>

AddEdge(from, oport, to, port, successor) ==
  [from |-> from, oport |-> oport, to |-> to, port |-> port, successor |-> successor]

CreateShuffleNode(ps) == {AddEdge(Process(s[1]), s[2], Shuffle(ps), 1, "barrier") : s \in ps}
CreateGatherNode(ps)  == {AddEdge(Process(s[1]), s[2], Gather(ps), 1, "entry") : s \in ps}

\* Mutant: the producer is not waited for before the consumer's barrier.
OneToOneEdgesLate(p) ==
  {AddEdge(Process(s[1]), s[2], Process(p[1]), p[2], "terminal") : s \in Sources(p)}

OneToOneEdges(p) ==
  {AddEdge(Process(s[1]), s[2], Process(p[1]), p[2], "barrier") : s \in Sources(p)}

BroadcastEdges(p) == {AddEdge(Gather(Sources(p)), 1, Process(p[1]), p[2], "entry")}

ScatterGatherEdges(p) ==
  IF Inputs[p[1]][p[2]].sorted
    THEN {AddEdge(Shuffle(Sources(p)), 1, ValueSort(p), 1, "terminal"),
          AddEdge(ValueSort(p), 1, Process(p[1]), p[2], "barrier")}
    ELSE {AddEdge(Shuffle(Sources(p)), 1, Process(p[1]), p[2], "barrier")}

\* create_intermediate_nodes and create_edges.
Edges ==
  UNION ({CreateShuffleNode(Sources(p)) \cup ScatterGatherEdges(p)
            : p \in InPorts("scatter_gather")}
         \cup {CreateGatherNode(Sources(p)) \cup BroadcastEdges(p)
                 : p \in InPorts("broadcast")}
         \cup {OneToOneEdges(p) : p \in InPorts("one_to_one")})

LogicalTasks ==
  {Process(v) : v \in Vertices} \cup {e.from : e \in Edges} \cup {e.to : e \in Edges}

OPorts(v) == {e.oport : e \in {f \in Edges : f.from = Process(v)}}

-----------------------------------------------------------------------------
(* Physical tasks.                                                         *)

\* create_physical_tasks of the logical tasks: a gather is a single physical
\* task, a value sort has no barrier of its own.
EntryTask(l)    == <<l, "entry", 0>>
BarrierTask(l)  == IF l[1] \in {"gather", "value_sort"} THEN EntryTask(l)
                   ELSE <<l, "barrier", 0>>
TerminalTask(l) == IF l[1] = "gather" THEN EntryTask(l) ELSE <<l, "terminal", 0>>

Initial == UNION {{EntryTask(l), BarrierTask(l), TerminalTask(l)} : l \in LogicalTasks}

\* The commands of a logical task: of a partition, or numbered as they are
\* created, and the sort commands of a shuffle.
Command(l, k)     == <<l, "command", k>>
SortCommand(l, p) == <<l, "sort", p>>

OfClass(class) == {l \in LogicalTasks : l[1] = class}

Tasks == Initial \cup {Command(l, k) : l \in LogicalTasks \ OfClass("gather"), k \in 1 .. MaxCommands}
           \cup {SortCommand(l, p) : l \in OfClass("shuffle"), p \in Partitions}

VARIABLES
  status, preds,  \* the scheduler's graph (TaskGraph)
  inputs,         \* GatherLogicalTask::m_inputs, ShuffleLogicalTask::m_partitioned_buffers
  pool,           \* m_partitioned_pool: by partition, the fragments that have arrived
  waiting,        \* m_waiting_counters: by partition
  broadcasts,     \* m_broadcast_inputs
  given,          \* of each command: the fragments moved into it, by port
  calls,          \* of each running task: the receive_fragment calls under way
  flushed         \* history: <<physical task, output port>> of every flush_buffer

sched == <<status, preds>>
data  == <<inputs, pool, waiting, broadcasts, given>>
vars  == <<sched, data, calls, flushed>>

TG == INSTANCE TaskGraph

\* The phase of the consumer that waits for the terminal task of the producer.
SuccessorTask(e) ==
  CASE e.successor = "entry"    -> EntryTask(e.to)
    [] e.successor = "barrier"  -> BarrierTask(e.to)
    [] e.successor = "terminal" -> TerminalTask(e.to)

EdgePreds(t) == {TerminalTask(e.from) : e \in {f \in Edges : SuccessorTask(f) = t}}

\* Mutant: the entry after the barrier.
PhasePredsSwapped(l) ==
  [t \in {EntryTask(l), BarrierTask(l), TerminalTask(l)} |->
     IF t = BarrierTask(l) THEN {}
     ELSE {BarrierTask(l)}]

\* The phases of a logical task, in a row.
PhasePreds(l) ==
  [t \in {EntryTask(l), BarrierTask(l), TerminalTask(l)} |->
     IF t = EntryTask(l) THEN {}
     ELSE IF t = BarrierTask(l) THEN {EntryTask(l)} ELSE {BarrierTask(l)}]

ScatterGatherPorts(v) == {j \in DOMAIN Inputs[v] : Inputs[v][j].movement = "scatter_gather"}

\* Mutant: one port is not counted.
ScatterGatherCountLess(v) == Cardinality(ScatterGatherPorts(v)) - 1

\* The constructor's scatter_gather_count.
ScatterGatherCount(v) == Cardinality(ScatterGatherPorts(v))

\* LogicalGraph::create_physical_tasks has made, connected and committed the
\* phases of all logical tasks before a worker starts.
Init ==
  /\ status = [t \in Tasks |-> IF t \in Initial THEN "committed" ELSE "none"]
  /\ preds = [t \in Tasks |-> IF t \in Initial THEN PhasePreds(t[1])[t] \cup EdgePreds(t)
                              ELSE {}]
  /\ inputs = [l \in LogicalTasks |-> <<>>]
  /\ pool = [v \in Vertices |-> [p \in Partitions |-> <<>>]]
  /\ waiting = [v \in Vertices |-> [p \in Partitions |-> ScatterGatherCount(v)]]
  /\ broadcasts = [v \in Vertices |-> <<>>]
  /\ given = [t \in Tasks |-> <<>>]
  /\ calls = [t \in Tasks |-> {}]
  /\ flushed = {}

-----------------------------------------------------------------------------
(* receive_fragment.                                                       *)

\* create_physical_task, add_dependency twice and commit_task: every new task
\* comes after one phase of its logical task and before another.  Tasks in
\* ended complete in the same step.
Spawn(new, before, after, ended) ==
  /\ new \subseteq Tasks
  /\ status' = [t \in Tasks |-> IF t \in new THEN "committed"
                              ELSE IF t \in ended THEN "done" ELSE status[t]]
  /\ preds' = [t \in Tasks |-> IF t \in new THEN {before}
                               ELSE IF t = after THEN preds[t] \cup new ELSE preds[t]]

\* The phase of l that waits for the commands of l.
WaitingPhase(l) == IF l[1] = "value_sort" THEN TerminalTask(l) ELSE BarrierTask(l)

\* A command of l with number k is given fragments by port.
SpawnCommand(l, k, fragments) ==
  /\ Spawn({Command(l, k)}, EntryTask(l), WaitingPhase(l), {})
  /\ given' = [given EXCEPT ![Command(l, k)] = fragments]

NextCommand(l) ==
  1 + Cardinality({k \in 1 .. MaxCommands : status[Command(l, k)] # "none"})

\* One more port has its fragment.
Put(fragments, port, fragment) ==
  [j \in DOMAIN fragments \cup {port} |-> IF j = port THEN fragment ELSE fragments[j]]

\* A gather keeps the fragment.
GatherReceive(l, fragment) ==
  /\ inputs' = [inputs EXCEPT ![l] = Append(@, fragment)]
  /\ UNCHANGED <<sched, pool, waiting, broadcasts, given>>

\* A shuffle makes a command for the fragment, ...
ShuffleReceive(l, fragment) ==
  /\ SpawnCommand(l, NextCommand(l), <<fragment>>)
  /\ UNCHANGED <<inputs, pool, waiting, broadcasts>>

\* ... as does a one-to-one processor, and a value sort for the partition.
OneToOneReceive(v, port, fragment) ==
  /\ SpawnCommand(Process(v), NextCommand(Process(v)), [j \in {port} |-> fragment])
  /\ UNCHANGED <<inputs, pool, waiting, broadcasts>>

ValueSortReceive(l, partition, fragment) ==
  /\ SpawnCommand(l, partition, <<fragment>>)
  /\ UNCHANGED <<inputs, pool, waiting, broadcasts>>

BroadcastReceive(v, port, fragment) ==
  /\ broadcasts' = [broadcasts EXCEPT ![v] = Put(@, port, fragment)]
  /\ UNCHANGED <<sched, inputs, pool, waiting, given>>

\* A scatter-gather processor makes the command of a partition when the
\* partition's counter has come down to zero.
ScatterGatherReceive(v, port, partition, fragment) ==
  LET all == Put(pool[v][partition], port, fragment) IN
  /\ waiting' = [waiting EXCEPT ![v][partition] = @ - 1]
  /\ \/ /\ waiting[v][partition] = 1
        /\ SpawnCommand(Process(v), partition, all)
        /\ pool' = [pool EXCEPT ![v][partition] = <<>>]
     \/ /\ waiting[v][partition] # 1
        /\ pool' = [pool EXCEPT ![v][partition] = all]
        /\ UNCHANGED <<sched, given>>
  /\ UNCHANGED <<inputs, broadcasts>>

ProcessReceive(v, port, partition, fragment) ==
  \/ /\ Inputs[v][port].movement = "broadcast"
     /\ BroadcastReceive(v, port, fragment)
  \/ /\ Inputs[v][port].movement = "one_to_one"
     /\ OneToOneReceive(v, port, fragment)
  \/ /\ Inputs[v][port].movement = "scatter_gather"
     /\ ScatterGatherReceive(v, port, partition, fragment)

ReceiveFragment(l, port, partition, fragment) ==
  \/ l[1] = "gather"     /\ GatherReceive(l, fragment)
  \/ l[1] = "shuffle"    /\ ShuffleReceive(l, fragment)
  \/ l[1] = "value_sort" /\ ValueSortReceive(l, partition, fragment)
  \/ l[1] = "process"    /\ ProcessReceive(l[2], port, partition, fragment)

-----------------------------------------------------------------------------
(* Bodies of physical tasks.                                               *)

\* commit_fragment: a receive_fragment call for every successor of the port.
CommitFragment(l, oport, partition, fragment) ==
  {[to |-> e.to, port |-> e.port, partition |-> partition, fragment |-> fragment]
     : e \in {f \in Edges : f.from = l /\ f.oport = oport}}

\* The places of several fragments, in one: concatenation up to the order.
Joined(fragments) ==
  [at \in UNION {{<<i, j>> : j \in DOMAIN fragments[i]} : i \in DOMAIN fragments} |->
     fragments[at[1]][at[2]]]

\* Mutant: the records of every partition.
PartitionOfAll(fragments, p) == Joined(fragments)

\* sort_records: the records of a partition in the buffers of the shuffle.
PartitionOf(fragments, p) ==
  LET all == Joined(fragments) IN
  Restrict(all, {at \in DOMAIN all : all[at].partition = p})

\* What a task commits by itself: a gather its inputs in a row, a sort command
\* the records of its partition, a value sort its input in another order.
OwnFragments(t) ==
  LET l == t[1] IN
  IF l[1] = "gather" THEN CommitFragment(l, 1, 0, Joined(inputs[l]))
  ELSE IF t[2] = "sort" THEN CommitFragment(l, 1, t[3], PartitionOf(given[t][1], t[3]))
  ELSE IF l[1] = "value_sort" /\ t[2] = "command" THEN CommitFragment(l, 1, t[3], given[t][1])
  ELSE {}

Running == {t \in Tasks : status[t] = "running"}

Start(t) ==
  /\ TG!Start(t)
  /\ Cardinality(Running) < WorkerCount
  /\ calls' = [calls EXCEPT ![t] = OwnFragments(t)]
  /\ UNCHANGED <<data, flushed>>

\* One receive_fragment call of commit_fragment.
Deliver(t) ==
  \E c \in calls[t] :
    /\ calls' = [calls EXCEPT ![t] = @ \ {c}]
    /\ ReceiveFragment(c.to, c.port, c.partition, c.fragment)
    /\ UNCHANGED flushed

\* OutputWriter::flush_buffer of a processor; bound: once for each output port
\* in a physical task, with one record for each partition.
FlushBuffer(t) ==
  /\ calls[t] = {}
  /\ t[1][1] = "process" /\ t[2] \in Writing[t[1][2]]
  /\ \E o \in OPorts(t[1][2]) :
       /\ <<t, o>> \notin flushed
       /\ flushed' = flushed \cup {<<t, o>>}
       /\ calls' = [calls EXCEPT ![t] = CommitFragment(t[1], o, 0,
                      [p \in Partitions |-> [by |-> t, oport |-> o, partition |-> p]])]
  /\ UNCHANGED <<sched, data>>

-----------------------------------------------------------------------------
(* How bodies end: t has made its calls and completes.  The tasks that it  *)
(* creates at its end depend on t, so they cannot start any earlier.       *)

Ends(t) == calls[t] = {} /\ UNCHANGED <<calls, flushed>>

\* partition_fragment puts its fragment on the list of the shuffle.
PartitionFragment(t) ==
  /\ t[1][1] = "shuffle" /\ t[2] = "command"
  /\ Ends(t) /\ TG!Complete(t)
  /\ inputs' = [inputs EXCEPT ![t[1]] = Append(@, given[t][1])]
  /\ UNCHANGED <<pool, waiting, broadcasts, given>>

\* Every sort command gets a copy of the list, which is then cleared.
CreateSortTasks(t) ==
  LET new == {SortCommand(t[1], p) : p \in Partitions} IN
  /\ t[1][1] = "shuffle" /\ t[2] = "barrier"
  /\ Ends(t) /\ Spawn(new, t, TerminalTask(t[1]), {t})
  /\ given' = [u \in Tasks |-> IF u \in new THEN <<inputs[t[1]]>> ELSE given[u]]
  /\ inputs' = [inputs EXCEPT ![t[1]] = <<>>]
  /\ UNCHANGED <<pool, waiting, broadcasts>>

\* run_gather clears its inputs after it has committed them.
RunGather(t) ==
  /\ t[1][1] = "gather"
  /\ Ends(t) /\ TG!Complete(t)
  /\ inputs' = [inputs EXCEPT ![t[1]] = <<>>]
  /\ UNCHANGED <<pool, waiting, broadcasts, given>>

\* An input processor makes its commands at the end of its initialization.
AfterGlobalInitialize(t) ==
  LET l == t[1]
      count == IF CreateProcessTask(l[2]) = "input" THEN TaskCount[l[2]] ELSE 0 IN
  /\ l[1] = "process" /\ t[2] = "entry"
  /\ Ends(t) /\ Spawn({Command(l, k) : k \in 1 .. count}, t, BarrierTask(l), {t})
  /\ UNCHANGED data

GlobalFinalize(t) ==
  /\ t[1][1] = "process" /\ t[2] = "terminal"
  /\ Ends(t) /\ TG!Complete(t)
  /\ broadcasts' = [broadcasts EXCEPT ![t[1][2]] = <<>>]
  /\ UNCHANGED <<inputs, pool, waiting, given>>

\* The bodies that have nothing left to do.
Complete(t) ==
  /\ CASE t[1][1] = "process" -> t[2] \in {"command", "barrier"}
       [] t[1][1] = "shuffle" -> t[2] \in {"entry", "sort", "terminal"}
       [] OTHER -> t[1][1] = "value_sort"
  /\ Ends(t) /\ TG!Complete(t)
  /\ UNCHANGED data

-----------------------------------------------------------------------------

Body(t) ==
  \/ Deliver(t) \/ FlushBuffer(t)
  \/ PartitionFragment(t) \/ CreateSortTasks(t) \/ RunGather(t)
  \/ AfterGlobalInitialize(t) \/ GlobalFinalize(t) \/ Complete(t)

Next == (\E t \in Tasks : Start(t)) \/ (\E t \in Running : Body(t))

Spec == Init /\ [][Next]_vars

\* The workers go on as long as there is a task that one of them can run.
FairSpec == Spec /\ WF_vars(Next)

-----------------------------------------------------------------------------
(* What the dataflow promises.                                             *)

\* The records that were written to the sources of an input port.
AllRecords(p) ==
  {[by |-> f[1], oport |-> f[2], partition |-> q] :
     f \in {g \in flushed : <<g[1][1][2], g[2]>> \in Sources(p)}, q \in Partitions}

\* The fragment holds every record of R once, and no other.
Exactly(fragment, R) == IsInjective(fragment) /\ Range(fragment) = R

\* A receive_fragment call never comes too late, whatever runs concurrently:
\* the phase that is to wait for the new command (that is to read the inputs,
\* for a gather) has not started, nor has, for a broadcast, the initialization
\* of the consumer (the asserts of add_dependency and of receive_fragment).
CallsInTime ==
  \A t \in Running : \A c \in calls[t] :
    IF c.to[1] = "process" /\ Inputs[c.to[2]][c.port].movement = "broadcast"
      THEN status[EntryTask(c.to)] = "committed"
      ELSE status[WaitingPhase(c.to)] = "committed"

\* When a command of a processor runs, every broadcast input holds all that
\* its sources ever write; and a scatter-gather command has been given, for
\* every port, all records of its partition and no others.
InputsComplete ==
  \A t \in Running : t[1][1] = "process" /\ t[2] = "command" =>
    LET v == t[1][2] IN
    /\ \A p \in InPorts("broadcast") : p[1] = v =>
         p[2] \in DOMAIN broadcasts[v] /\ Exactly(broadcasts[v][p[2]], AllRecords(p))
    /\ \A p \in InPorts("scatter_gather") : p[1] = v =>
         /\ p[2] \in DOMAIN given[t]
         /\ Exactly(given[t][p[2]], {r \in AllRecords(p) : r.partition = t[3]})

Finished == \A t \in Tasks : status[t] \in {"none", "done"}

CommandsOf(v) == {t \in {Command(Process(v), k) : k \in 1 .. MaxCommands} : status[t] # "none"}

\* The commands that were given a fragment of an input port.
GivenTo(p) == {t \in CommandsOf(p[1]) : p[2] \in DOMAIN given[t]}

\* At the end every record has reached every consumer of its port: some
\* command of a one-to-one or scatter-gather consumer got it, only once; and
\* a scatter-gather consumer has run for every partition, even an empty one.
DeliveredOnce ==
  Finished =>
    /\ \A p \in InPorts("one_to_one") \cup InPorts("scatter_gather") :
         Exactly(Joined([t \in GivenTo(p) |-> given[t][p[2]]]), AllRecords(p))
    /\ \A v \in Vertices : CreateProcessTask(v) = "scatter_gather" =>
         Cardinality(CommandsOf(v)) = PartitionCount

\* The execution of an acyclic flow graph ends: tasks never wait for one another.
Completes == <>Finished
=============================================================================
