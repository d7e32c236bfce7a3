------------------------------ MODULE FlowGraph ------------------------------
(***************************************************************************)
(* How the user describes the work: ports, processors and the FlowGraph    *)
(* (src/api and src/api/internal), and the copy of the graph that a        *)
(* Context accepts.  A call that throws changes nothing.  What the logical *)
(* graph made of an accepted graph does is the subject of Dataflow.        *)
(*                                                                         *)
(* Identifiers are one more than in the code, where they are indices; the  *)
(* public constructors of the port descriptors take any identifier.        *)
(***************************************************************************)
EXTENDS Integers, FiniteSets, SequencesExt

CONSTANTS
  Processors,   \* what the user defines: [inputs : movements, outputs : has_key flags]
  MaxVertices, MaxEdges,  \* bounds: accepted calls of add_vertex, add_edge
  MaxPorts                \* bound: the largest port identifier of a processor

\* A port is "undefined" until its movement is set; nothing refuses such a port.
Movements == {"undefined", "one_to_one", "scatter_gather", "broadcast"}

ASSUME FlowGraphAssumption ==
  \A p \in Processors : p.inputs \in Seq(Movements) /\ p.outputs \in Seq(BOOLEAN)

VARIABLES
  graph,     \* the user's FlowGraph: its vertices, [processor, sources]
  accepted   \* Executor::m_flow_graph

vars == <<graph, accepted>>

Init == graph = <<>> /\ accepted = <<>>

-----------------------------------------------------------------------------
(* Processors and vertices.                                                *)

\* The constructor of a processor throws ProcessorDefinitionError otherwise.
WellDefined(p) ==
  ~ \E i, j \in DOMAIN p.inputs :
      p.inputs[i] = "one_to_one" /\ p.inputs[j] = "scatter_gather"

Vertex(p) == [processor |-> p, sources |-> [i \in DOMAIN p.inputs |-> <<>>]]

AddVertex(p) ==
  /\ Len(graph) < MaxVertices
  /\ WellDefined(p)
  /\ graph' = Append(graph, Vertex(p))
  /\ UNCHANGED accepted

-----------------------------------------------------------------------------
(* Edges.                                                                  *)

\* A descriptor: <<vertex_id, port_id>>.
Descriptors == (1 .. MaxVertices + 1) \X (1 .. MaxPorts + 1)

IsValidInput(g, d) ==
  d[1] \in DOMAIN g /\ d[2] \in DOMAIN g[d[1]].processor.inputs

IsValidOutput(g, d) ==
  d[1] \in DOMAIN g /\ d[2] \in DOMAIN g[d[1]].processor.outputs

EdgeCount(g) == FoldLeft(LAMBDA n, v : n + Len(FlattenSeq(v.sources)), 0, g)

\* Mutant: the copy that the Context holds shares its vertices with the user's.
AddEdgeShared(producer, consumer) ==
  /\ IsValidOutput(graph, producer) /\ IsValidInput(graph, consumer)
  /\ EdgeCount(graph) < MaxEdges
  /\ graph[consumer[1]].processor.inputs[consumer[2]] = "scatter_gather"
       => graph[producer[1]].processor.outputs[producer[2]]
  /\ graph' = [graph EXCEPT ![consumer[1]].sources[consumer[2]] = Append(@, producer)]
  /\ accepted' = IF Len(accepted) = Len(graph) THEN graph' ELSE accepted

AddEdge(producer, consumer) ==
  /\ IsValidOutput(graph, producer) /\ IsValidInput(graph, consumer)
  /\ EdgeCount(graph) < MaxEdges
  /\ graph[consumer[1]].processor.inputs[consumer[2]] = "scatter_gather"
       => graph[producer[1]].processor.outputs[producer[2]]
  /\ graph' = [graph EXCEPT ![consumer[1]].sources[consumer[2]] = Append(@, producer)]
  /\ UNCHANGED accepted

-----------------------------------------------------------------------------
(* The search for a cycle.                                                 *)

\* The vectors done and in_stack as sets, and whether the search has returned true.
Searches(g) == [done : SUBSET DOMAIN g, in_stack : SUBSET DOMAIN g, found : BOOLEAN]

\* The producers of u: the two loops over its sources.
Producers(g, u) ==
  LET sources == FlattenSeq(g[u].sources) IN [i \in DOMAIN sources |-> sources[i][1]]

\* The search, continued from one vertex after the other.
Visit(recur, s, vertices) == FoldLeft(LAMBDA r, v : recur[v][r], s, vertices)

\* Mutant: done is tested before in_stack.
HasCycleRecurDoneFirst(g) ==
  LET recur[u \in DOMAIN g] ==
        [s \in Searches(g) |->
           IF s.found \/ u \in s.done THEN s
           ELSE IF u \in s.in_stack THEN [s EXCEPT !.found = TRUE]
           ELSE LET t == Visit(recur, [s EXCEPT !.done = @ \cup {u}, !.in_stack = @ \cup {u}],
                               Producers(g, u))
                IN  IF t.found THEN t ELSE [t EXCEPT !.in_stack = @ \ {u}]]
  IN  recur

\* has_cycle_recur, as a function of the vertex and of the search so far.
HasCycleRecur(g) ==
  LET recur[u \in DOMAIN g] ==
        [s \in Searches(g) |->
           IF s.found THEN s
           ELSE IF u \in s.in_stack THEN [s EXCEPT !.found = TRUE]
           ELSE IF u \in s.done THEN s
           ELSE LET t == Visit(recur, [s EXCEPT !.done = @ \cup {u}, !.in_stack = @ \cup {u}],
                               Producers(g, u))
                IN  IF t.found THEN t ELSE [t EXCEPT !.in_stack = @ \ {u}]]
  IN  recur

HasCycle(g) ==
  Visit(HasCycleRecur(g), [done |-> {}, in_stack |-> {}, found |-> FALSE],
        [u \in DOMAIN g |-> u]).found

\* Context::set_flow_graph: a graph with a cycle is refused with a RoutingError,
\* any other is copied with its vertices and processors.
SetFlowGraph ==
  /\ accepted' = IF HasCycle(graph) THEN accepted ELSE graph
  /\ UNCHANGED graph

Next ==
  \/ \E p \in Processors : AddVertex(p)
  \/ \E producer, consumer \in Descriptors : AddEdge(producer, consumer)
  \/ SetFlowGraph

Spec == Init /\ [][Next]_vars

-----------------------------------------------------------------------------
\* u is a source of some input port of v.
Feeds(g, u, v) == \E i \in DOMAIN g[v].sources : \E d \in Range(g[v].sources[i]) : d[1] = u

\* A graph is cyclic when every vertex of some set is fed from within the set.
Cyclic(g) ==
  \E S \in (SUBSET DOMAIN g) \ {{}} : \A v \in S : \E u \in S : Feeds(g, u, v)

\* The depth-first search of has_cycle, with one pair of marks for all its
\* roots, answers true exactly when the graph has a cycle: edges that meet again
\* at a common source are no cycle, and one behind an earlier root is not missed.
HasCycleExact == HasCycle(graph) <=> Cyclic(graph)

\* What the LogicalGraphBuilder takes for granted of an accepted graph stays
\* true whatever the user adds to his own graph after set_flow_graph: there is no
\* cycle, whose tasks would wait for each other, no processor is both one-to-one
\* and scatter-gather (its assertion), every source is an output port of a
\* vertex (its array accesses), and what feeds a scatter-gather port has a key
\* to shuffle by.
BuilderPreconditions ==
  /\ ~Cyclic(accepted)
  /\ \A v \in DOMAIN accepted : LET inputs == accepted[v].processor.inputs IN
       /\ ~({"one_to_one", "scatter_gather"} \subseteq Range(inputs))
       /\ \A i \in DOMAIN inputs : \A d \in Range(accepted[v].sources[i]) :
            /\ IsValidOutput(accepted, d)
            /\ inputs[i] = "scatter_gather" => accepted[d[1]].processor.outputs[d[2]]
=============================================================================
