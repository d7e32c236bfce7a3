------------------------------- MODULE Locality -------------------------------
(***************************************************************************)
(* Where threads, partitions and tasks are placed: the Configuration       *)
(* (src/api/configuration.cpp), what Topology finds out about the machine  *)
(* and binds threads to (src/system/topology.cpp), and the LocalityManager *)
(* of an execution (src/scheduler/locality_manager.cpp).                   *)
(*                                                                         *)
(* hwloc is external: binding a thread to a set of processing units        *)
(* succeeds when the process may use one of them.  A build without hwloc   *)
(* is a machine without a level of NUMA nodes.                             *)
(***************************************************************************)
EXTENDS Integers, FiniteSets, SequencesExt

CONSTANTS
  Machines,     \* [numa, parent, usable]: is there a level of NUMA nodes? the
                \* node above each processing unit; the units one may bind to
  ThreadCounts, PartitionCounts,  \* values given to the setters
  NoNode,       \* the "node" of a unit that has no node above it
  None

Affinities == {"NONE", "COMPACT", "SCATTER"}

ASSUME LocalityAssumption ==
  /\ ThreadCounts \subseteq Nat \ {0} /\ PartitionCounts \subseteq Nat
  /\ \A m \in Machines :
       /\ IsFiniteSet(DOMAIN m.parent)
       /\ \A u \in DOMAIN m.parent : m.parent[u] \in Nat \cup {NoNode}
       /\ m.usable \subseteq DOMAIN m.parent /\ m.usable # {}
       /\ m.numa => \E u \in m.usable : m.parent[u] # NoNode

VARIABLES
  machine,        \* the hardware and what of it the process may use
  config,         \* the user's Configuration
  manager,        \* the LocalityManager of the execution, or None
  binded_node,    \* of each worker thread that has bound itself: g_binded_node
  hint,           \* a recommendation: [node, worker]
  terminated      \* has a thread ended the program by an exception?

vars == <<machine, config, manager, binded_node, hint, terminated>>

-----------------------------------------------------------------------------
(* Topology.                                                               *)

\* hwloc_set_cpubind, by its success.
CanBind(m, units) == units \cap m.usable # {}

UnitsOf(m, node) == {u \in DOMAIN m.parent : m.parent[u] = node}

AvailableUnits(m) == {u \in DOMAIN m.parent : CanBind(m, {u})}

\* The numbers of a set as a loop over the numbers meets them.
Increasing(S) ==
  CHOOSE s \in [1 .. Cardinality(S) -> S] :
    Range(s) = S /\ \A i, j \in DOMAIN s : i < j => s[i] < s[j]

\* m_available_numa_nodes: the nodes by their index, in increasing order.
AvailableNodes(m) ==
  IF ~m.numa THEN <<0>>
  ELSE Increasing({n \in {m.parent[u] : u \in DOMAIN m.parent} \ {NoNode} :
                     CanBind(m, UnitsOf(m, n))})

NodeIds(m) == 0 .. Len(AvailableNodes(m)) - 1

\* The available units that count for a node: units without a node, for the first.
UnitsUnder(m, n) ==
  IF Len(AvailableNodes(m)) = 1 THEN AvailableUnits(m)
  ELSE {u \in AvailableUnits(m) : \/ m.parent[u] = AvailableNodes(m)[n + 1]
                                  \/ n = 0 /\ m.parent[u] = NoNode}

\* m_processing_units_per_node.
UnitsPerNode(m) == [n \in NodeIds(m) |-> Cardinality(UnitsUnder(m, n))]

\* Mutant: the index of an available node is taken for the node itself.
CpuSetByIndex(m, n) ==
  IF Len(AvailableNodes(m)) = 1 THEN DOMAIN m.parent ELSE UnitsOf(m, n)

\* The units that set_thread_cpubind binds a thread to.
CpuSet(m, n) ==
  IF Len(AvailableNodes(m)) = 1 THEN DOMAIN m.parent ELSE UnitsOf(m, AvailableNodes(m)[n + 1])

-----------------------------------------------------------------------------
(* LocalityManager.                                                        *)

SumOver(f) == FoldLeft(+, 0, [i \in 1 .. Cardinality(DOMAIN f) |-> f[i - 1]])

\* The first node from `node' on, in a circle, that has some of `left'.
FirstFrom(node, left) ==
  LET count == Cardinality(DOMAIN left)
      steps == CHOOSE k \in 0 .. count :
                 /\ left[(node + k) % count] > 0
                 /\ \A l \in 0 .. k - 1 : left[(node + l) % count] = 0
  IN  (node + steps) % count

\* Mutant: j is not reset on the next node.
CompactFromNoReset(units, last) ==
  IF last.j # units[last.node] THEN last
  ELSE [node |-> FirstFrom((last.node + 1) % Cardinality(DOMAIN units), units), j |-> last.j]

\* The next node from the j-th unit of a node that has no more than j units.
CompactFrom(units, last) ==
  IF last.j # units[last.node] THEN last
  ELSE [node |-> FirstFrom((last.node + 1) % Cardinality(DOMAIN units), units), j |-> 0]

\* COMPACT fills one node after the other: at[i] is where the loop puts worker i,
\* the j-th of its node.
CompactMapping(units, threads) ==
  LET at[i \in 0 .. threads - 1] ==
        CompactFrom(units, IF i = 0 THEN [node |-> 0, j |-> 0]
                           ELSE [at[i - 1] EXCEPT !.j = @ + 1])
  IN  [i \in 0 .. threads - 1 |-> at[i].node]

\* The place of worker i after the one of the worker before it; remains starts anew
\* when all units are taken.
ScatterFrom(units, i, last) ==
  LET anew    == i % SumOver(units) = 0
      remains == IF anew THEN units ELSE [last.remains EXCEPT ![last.node] = @ - 1]
      start   == IF anew THEN 0 ELSE (last.node + 1) % Cardinality(DOMAIN units)
  IN  [node |-> FirstFrom(start, remains), remains |-> remains]

\* SCATTER deals the workers out in turn.
ScatterMapping(units, threads) ==
  LET at[i \in 0 .. threads - 1] == ScatterFrom(units, i, at[i - 1])
  IN  [i \in 0 .. threads - 1 |-> at[i].node]

NodeCount(m, c) == IF c.affinity = "NONE" THEN 1 ELSE Len(AvailableNodes(m))

\* Mutant: partitions are dealt out over the nodes, not over the workers.
PartitionNodesByNode(m, c, threads) ==
  [i \in 0 .. c.partition_count - 1 |-> i % Len(AvailableNodes(m))]

PartitionNodes(m, c, threads) ==
  [i \in 0 .. c.partition_count - 1 |-> threads[i % c.max_concurrency]]

\* The constructor; without an affinity the mappings stay empty.
LocalityManager(m, c) ==
  LET units   == UnitsPerNode(m)
      threads == CASE c.affinity = "NONE"    -> <<>>
                   [] c.affinity = "COMPACT" -> CompactMapping(units, c.max_concurrency)
                   [] c.affinity = "SCATTER" -> ScatterMapping(units, c.max_concurrency)
  IN  [max_concurrency   |-> c.max_concurrency,
       affinity          |-> c.affinity,
       node_count        |-> NodeCount(m, c),
       thread_mapping    |-> threads,
       partition_mapping |-> IF c.affinity = "NONE" THEN <<>> ELSE PartitionNodes(m, c, threads)]

ThreadMapping(mgr, w)    == IF mgr.thread_mapping = <<>> THEN 0 ELSE mgr.thread_mapping[w]
PartitionMapping(mgr, p) == IF mgr.partition_mapping = <<>> THEN 0 ELSE mgr.partition_mapping[p]
NodeToWorker(mgr, n)     == {w \in DOMAIN mgr.thread_mapping : mgr.thread_mapping[w] = n}
WorkersOf(mgr)           == 0 .. mgr.max_concurrency - 1

\* random_worker_from_node: the set it draws from; the upper bound of the draw
\* wraps around for a node without workers, and the access is out of range.
RandomWorkerFromNode(mgr, n) ==
  IF mgr.affinity = "NONE" THEN WorkersOf(mgr)
  ELSE IF NodeToWorker(mgr, n) # {} THEN NodeToWorker(mgr, n) ELSE {None}

-----------------------------------------------------------------------------
Init ==
  /\ machine \in Machines
  /\ config = [max_concurrency |-> Cardinality(AvailableUnits(machine)),
               partition_count |-> 8 * Cardinality(AvailableUnits(machine)),
               affinity |-> "NONE"]
  /\ manager = None /\ binded_node = <<>> /\ hint = None /\ terminated = FALSE

\* The setters of Configuration take any value.
SetConfiguration ==
  /\ manager = None
  /\ \/ \E n \in ThreadCounts : config' = [config EXCEPT !.max_concurrency = n]
     \/ \E n \in PartitionCounts : config' = [config EXCEPT !.partition_count = n]
     \/ \E a \in Affinities : config' = [config EXCEPT !.affinity = a]
  /\ UNCHANGED <<machine, manager, binded_node, hint, terminated>>

\* An execution starts with a manager of its own.
StartExecution ==
  /\ manager = None
  /\ manager' = LocalityManager(machine, config)
  /\ UNCHANGED <<machine, config, binded_node, hint, terminated>>

\* A worker thread binds itself before anything else; the exception of a failing
\* bind leaves the thread's function.
SetThreadCpubind(w) ==
  /\ w \notin DOMAIN binded_node /\ ~terminated
  /\ LET n == ThreadMapping(manager, w) IN
     IF manager.thread_mapping = <<>> \/ CanBind(machine, CpuSet(machine, n))
       THEN /\ binded_node' = [v \in DOMAIN binded_node \cup {w} |->
                                 IF v = w THEN n ELSE binded_node[v]]
            /\ UNCHANGED terminated
       ELSE terminated' = TRUE /\ UNCHANGED binded_node
  /\ UNCHANGED <<machine, config, manager, hint>>

\* What MemoryObject::locality says: the writer's node for the buffers of an output
\* writer and of the partitioning, a partition's node for what a shuffle sorts, and
\* 0 for what a gather or a value sort writes.
MemoryLocalities ==
  {0} \cup {binded_node[w] : w \in DOMAIN binded_node}
      \cup {PartitionMapping(manager, p) : p \in DOMAIN manager.partition_mapping}

\* A task is recommended to a worker of the node of the memory it reads.
Recommend ==
  \E n \in MemoryLocalities : \E w \in RandomWorkerFromNode(manager, n) :
    /\ hint' = [node |-> n, worker |-> w]
    /\ UNCHANGED <<machine, config, manager, binded_node, terminated>>

EndExecution ==
  /\ manager' = None /\ binded_node' = <<>> /\ hint' = None
  /\ UNCHANGED <<machine, config, terminated>>

Next ==
  \/ SetConfiguration
  \/ StartExecution
  \/ /\ manager # None
     /\ \/ \E w \in WorkersOf(manager) : SetThreadCpubind(w)
        \/ Recommend
        \/ EndExecution

Spec == Init /\ [][Next]_vars

-----------------------------------------------------------------------------
\* No worker ends the program by failing to bind: the nodes that Topology found
\* to be available still are when LocalityManager's mapping leads a worker there.
BindingSucceeds == ~terminated

\* Whichever node a memory names, a task that reads it is recommended to a worker
\* of this very node: no node of a worker or a partition, nor node 0, is
\* without a worker when random_worker_from_node draws one.  The node is one that
\* the scheduler keeps a queue for.
RecommendedIsLocal ==
  hint # None =>
    /\ hint.worker \in WorkersOf(manager)
    /\ hint.node \in 0 .. manager.node_count - 1
    /\ manager.affinity # "NONE" => ThreadMapping(manager, hint.worker) = hint.node

\* Under an affinity, T workers on U units load each node with T \div U or one
\* more rounds of its units, so that no unit is shared while another is idle.
\* In the last round COMPACT leaves at most one node partly used, and SCATTER
\* gives a node two workers more than another only if that one is full.
UnitsShared ==
  manager # None /\ manager.affinity # "NONE" =>
    LET units   == UnitsPerNode(machine)
        rounds  == manager.max_concurrency \div SumOver(units)
        rest[n \in NodeIds(machine)] == Cardinality(NodeToWorker(manager, n)) - rounds * units[n]
    IN  /\ SumOver(units) = Cardinality(AvailableUnits(machine))
        /\ \A n \in NodeIds(machine) : rest[n] \in 0 .. units[n]
        /\ manager.affinity = "COMPACT" =>
             Cardinality({n \in NodeIds(machine) : rest[n] \notin {0, units[n]}}) <= 1
        /\ manager.affinity = "SCATTER" =>
             \A n, l \in NodeIds(machine) : rest[l] >= rest[n] + 2 => rest[n] = units[n]
=============================================================================
