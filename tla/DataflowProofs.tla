---------------------------- MODULE DataflowProofs ----------------------------
(***************************************************************************)
(* Proofs about Dataflow, for every flow graph without cycles and any      *)
(* number of workers, partitions and commands: first the form of the       *)
(* logical and of the physical graph, and that calls come in time; then    *)
(* what the calls carry, where every fragment is between the flush that    *)
(* wrote it and the command that is given it.  Content of the inductive    *)
(* invariant is shown part by part: what leaves a part alone, then each    *)
(* action; that inputs are complete when a command runs and that every     *)
(* record is delivered once follow from it.                                *)
(***************************************************************************)
EXTENDS DataflowInvariant, FiniteSetTheorems, TLAPS

-----------------------------------------------------------------------------
(* The logical graph.                                                      *)

\* The parameters.
LEMMA FlowParameters ==
  /\ Inputs \in [Vertices -> Seq(Port)] /\ PartitionCount \in Nat \ {0} /\ MaxCommands \in Nat
  /\ \A v \in Vertices : ~({"one_to_one", "scatter_gather"} \subseteq Movements(v))
BY FlowAssumption

\* A port is a vertex and a number, with its movement and its sources.
LEMMA PortForm ==
  ASSUME NEW m, NEW p \in InPorts(m)
  PROVE  /\ p = <<p[1], p[2]>> /\ p[1] \in Vertices /\ p[2] \in DOMAIN Inputs[p[1]]
         /\ Inputs[p[1]][p[2]].movement = m
BY DEF InPorts

LEMMA PortOf ==
  ASSUME NEW m, NEW v \in Vertices, NEW j \in DOMAIN Inputs[v], Inputs[v][j].movement = m
  PROVE  <<v, j>> \in InPorts(m)
BY DEF InPorts

\* The sources of a port are output ports.
LEMMA SourceForm ==
  ASSUME NEW m, NEW p \in InPorts(m), NEW s \in Sources(p)
  PROVE  s = <<s[1], s[2]>> /\ s[1] \in Vertices
<1>1. p[1] \in Vertices /\ p[2] \in DOMAIN Inputs[p[1]]
  BY PortForm
<1>2. Inputs[p[1]] \in Seq(Port)
  BY <1>1, FlowParameters
<1>3. Inputs[p[1]][p[2]] \in Port
  BY <1>1, <1>2
<1>4. Sources(p) \subseteq Vertices \X Nat
  BY <1>3 DEF Port, Sources
<1> QED
  BY <1>4

\* The edges, one kind after the other.
EdgeKinds(e) ==
  \/ \E p \in InPorts("scatter_gather") : \E s \in Sources(p) :
       e = AddEdge(Process(s[1]), s[2], Shuffle(Sources(p)), 1, "barrier")
  \/ \E p \in InPorts("broadcast") : \E s \in Sources(p) :
       e = AddEdge(Process(s[1]), s[2], Gather(Sources(p)), 1, "entry")
  \/ \E p \in InPorts("one_to_one") : \E s \in Sources(p) :
       e = AddEdge(Process(s[1]), s[2], Process(p[1]), p[2], "barrier")
  \/ \E p \in InPorts("broadcast") :
       e = AddEdge(Gather(Sources(p)), 1, Process(p[1]), p[2], "entry")
  \/ \E p \in InPorts("scatter_gather") :
       /\ Inputs[p[1]][p[2]].sorted
       /\ \/ e = AddEdge(Shuffle(Sources(p)), 1, ValueSort(p), 1, "terminal")
          \/ e = AddEdge(ValueSort(p), 1, Process(p[1]), p[2], "barrier")
  \/ \E p \in InPorts("scatter_gather") :
       /\ ~Inputs[p[1]][p[2]].sorted
       /\ e = AddEdge(Shuffle(Sources(p)), 1, Process(p[1]), p[2], "barrier")

LEMMA EdgeForm ==
  ASSUME NEW e
  PROVE  e \in Edges <=> EdgeKinds(e)
<1>1. e \in Edges <=>
        \/ \E p \in InPorts("scatter_gather") : e \in CreateShuffleNode(Sources(p)) \cup ScatterGatherEdges(p)
        \/ \E p \in InPorts("broadcast") : e \in CreateGatherNode(Sources(p)) \cup BroadcastEdges(p)
        \/ \E p \in InPorts("one_to_one") : e \in OneToOneEdges(p)
  BY DEF Edges
<1> QED
  BY <1>1 DEF EdgeKinds, CreateShuffleNode, ScatterGatherEdges, CreateGatherNode, BroadcastEdges, OneToOneEdges

\* The logical tasks, of four kinds.
LEMMA LogicalForm ==
  ASSUME NEW l \in LogicalTasks
  PROVE  \/ \E v \in Vertices : l = Process(v)
         \/ \E p \in InPorts("scatter_gather") : l = Shuffle(Sources(p))
         \/ \E p \in InPorts("broadcast") : l = Gather(Sources(p))
         \/ \E p \in InPorts("scatter_gather") : Inputs[p[1]][p[2]].sorted /\ l = ValueSort(p)
<1>1. CASE \E v \in Vertices : l = Process(v)
  BY <1>1
<1>2. ASSUME NEW e \in Edges, l = e.from \/ l = e.to
      PROVE  \/ \E v \in Vertices : l = Process(v)
             \/ \E p \in InPorts("scatter_gather") : l = Shuffle(Sources(p))
             \/ \E p \in InPorts("broadcast") : l = Gather(Sources(p))
             \/ \E p \in InPorts("scatter_gather") : Inputs[p[1]][p[2]].sorted /\ l = ValueSort(p)
  <2>1. \A m : \A p \in InPorts(m) : p[1] \in Vertices /\ \A s \in Sources(p) : s[1] \in Vertices
    BY PortForm, SourceForm
  <2>2. EdgeKinds(e)
    BY EdgeForm
  <2> QED
    BY <1>2, <2>1, <2>2 DEF EdgeKinds, AddEdge
<1> QED
  BY <1>1, <1>2 DEF LogicalTasks

LEMMA LogicalOfEdge ==
  ASSUME NEW e \in Edges
  PROVE  e.from \in LogicalTasks /\ e.to \in LogicalTasks
BY DEF LogicalTasks

LEMMA ProcessLogical ==
  ASSUME NEW v \in Vertices
  PROVE  Process(v) \in LogicalTasks
BY DEF LogicalTasks

\* A logical task is its kind and what it is made for.
LEMMA LogicalKind ==
  ASSUME NEW l \in LogicalTasks
  PROVE  /\ l[1] = "process" => l = Process(l[2]) /\ l[2] \in Vertices
         /\ l[1] = "shuffle" => l = Shuffle(l[2])
                                /\ \E p \in InPorts("scatter_gather") : l[2] = Sources(p)
         /\ l[1] = "gather"  => l = Gather(l[2])
                                /\ \E p \in InPorts("broadcast") : l[2] = Sources(p)
         /\ l[1] = "value_sort" => /\ l = ValueSort(l[2]) /\ l[2] \in InPorts("scatter_gather")
                                   /\ Inputs[l[2][1]][l[2][2]].sorted
         /\ l[1] \in {"process", "shuffle", "gather", "value_sort"}
BY LogicalForm DEF Process, Shuffle, Gather, ValueSort

-----------------------------------------------------------------------------
(* Physical tasks.                                                         *)

LEMMA InitialForm ==
  ASSUME NEW t \in Initial
  PROVE  /\ t = <<t[1], t[2], 0>> /\ t[1] \in LogicalTasks
         /\ t \in {EntryTask(t[1]), BarrierTask(t[1]), TerminalTask(t[1])}
         /\ t[2] \in {"entry", "barrier", "terminal"}
<1>1. PICK l \in LogicalTasks : t \in {EntryTask(l), BarrierTask(l), TerminalTask(l)}
  BY DEF Initial
<1>2. t \in {<<l, "entry", 0>>, <<l, "barrier", 0>>, <<l, "terminal", 0>>}
  BY <1>1 DEF EntryTask, BarrierTask, TerminalTask
<1>3. t[1] = l
  BY <1>2
<1> QED
  BY <1>1, <1>2, <1>3

\* A physical task is its logical task, its role and its number.
LEMMA TaskForm ==
  ASSUME NEW t \in Tasks
  PROVE  /\ t = <<t[1], t[2], t[3]>> /\ t[1] \in LogicalTasks
         /\ t \in Initial => /\ t \in {EntryTask(t[1]), BarrierTask(t[1]), TerminalTask(t[1])}
                             /\ t[2] \in {"entry", "barrier", "terminal"}
         /\ t \notin Initial =>
              \/ /\ t[2] = "command" /\ t[3] \in 1 .. MaxCommands /\ t = Command(t[1], t[3])
                 /\ t[1][1] # "gather"
              \/ /\ t[2] = "sort" /\ t[3] \in Partitions /\ t = SortCommand(t[1], t[3])
                 /\ t[1][1] = "shuffle"
<1>1. CASE t \in Initial
  <2>1. /\ t[2] \in {"entry", "barrier", "terminal"} /\ t = <<t[1], t[2], 0>> /\ t[1] \in LogicalTasks
        /\ t \in {EntryTask(t[1]), BarrierTask(t[1]), TerminalTask(t[1])}
    BY <1>1, InitialForm
  <2>2. t[3] = 0
    BY <2>1
  <2> QED
    BY <1>1, <2>1, <2>2
<1>2. CASE t \notin Initial
  <2>1. \/ \E l \in LogicalTasks, k \in 1 .. MaxCommands : l[1] # "gather" /\ t = Command(l, k)
        \/ \E l \in LogicalTasks, q \in Partitions : l[1] = "shuffle" /\ t = SortCommand(l, q)
    BY <1>2 DEF Tasks, OfClass
  <2> QED
    BY <1>2, <2>1 DEF Command, SortCommand
<1> QED
  BY <1>1, <1>2

LEMMA PhaseTasks ==
  ASSUME NEW l \in LogicalTasks
  PROVE  /\ EntryTask(l) \in Initial /\ BarrierTask(l) \in Initial /\ TerminalTask(l) \in Initial
         /\ WaitingPhase(l) \in Initial
         /\ EntryTask(l)[1] = l /\ BarrierTask(l)[1] = l /\ TerminalTask(l)[1] = l
<1>1. EntryTask(l) \in Initial /\ BarrierTask(l) \in Initial /\ TerminalTask(l) \in Initial
  BY DEF Initial
<1>2. WaitingPhase(l) \in Initial
  BY <1>1 DEF WaitingPhase
<1>3. EntryTask(l)[1] = l /\ BarrierTask(l)[1] = l /\ TerminalTask(l)[1] = l
  BY DEF EntryTask, BarrierTask, TerminalTask
<1> QED
  BY <1>1, <1>2, <1>3

LEMMA InitialTasks == Initial \subseteq Tasks
BY DEF Tasks

LEMMA CommandTasks ==
  ASSUME NEW l \in LogicalTasks, NEW k
  PROVE  /\ k \in 1 .. MaxCommands /\ l[1] # "gather" => Command(l, k) \in Tasks
         /\ Command(l, k) \notin Initial
         /\ Command(l, k) \in Tasks => k \in 1 .. MaxCommands
         /\ k \in Partitions /\ l[1] = "shuffle" => SortCommand(l, k) \in Tasks
         /\ SortCommand(l, k) \notin Initial
<1>1. Command(l, k) \notin Initial /\ SortCommand(l, k) \notin Initial
  BY InitialForm DEF Command, SortCommand
<1>2. Command(l, k) \in Tasks => k \in 1 .. MaxCommands
  BY <1>1, TaskForm DEF Command
<1>3. k \in 1 .. MaxCommands /\ l[1] # "gather" => Command(l, k) \in Tasks
  BY DEF Tasks, OfClass
<1>4. k \in Partitions /\ l[1] = "shuffle" => SortCommand(l, k) \in Tasks
  BY DEF Tasks, OfClass
<1> QED
  BY <1>1, <1>2, <1>3, <1>4

\* The phases of a logical task are in a row, and wait for its producers.
LEMMA PhaseOrder ==
  ASSUME NEW l \in LogicalTasks
  PROVE  /\ BarrierTask(l) # EntryTask(l) => EntryTask(l) \in PhasePreds(l)[BarrierTask(l)]
         /\ TerminalTask(l) # EntryTask(l) => BarrierTask(l) \in PhasePreds(l)[TerminalTask(l)]
BY DEF PhasePreds, EntryTask, BarrierTask, TerminalTask

LEMMA EdgeOrder ==
  ASSUME NEW e \in Edges
  PROVE  /\ SuccessorTask(e) \in Initial
         /\ TerminalTask(e.from) \in EdgePreds(SuccessorTask(e))
<1>1. e.successor \in {"entry", "barrier", "terminal"}
  BY EdgeForm DEF EdgeKinds, AddEdge
<1>2. SuccessorTask(e) \in {EntryTask(e.to), BarrierTask(e.to), TerminalTask(e.to)}
  BY <1>1 DEF SuccessorTask
<1> QED
  BY <1>2, LogicalOfEdge, PhaseTasks DEF EdgePreds

LEMMA CommandPhases ==
  ASSUME NEW u \in Tasks \ Initial
  PROVE  /\ PhaseBefore(u) \in Initial /\ PhaseAfter(u) \in Initial
         /\ PhaseAfter(u) \in {BarrierTask(u[1]), TerminalTask(u[1])}
         /\ u[1][1] # "gather"
<1>1. u[1] \in LogicalTasks
  BY TaskForm
<1>2. u[1][1] # "gather"
  BY TaskForm
<1> QED
  BY <1>1, <1>2, PhaseTasks DEF PhaseBefore, PhaseAfter, WaitingPhase

\* The phase that waits for what travels along an edge.
LEMMA SuccessorWaits ==
  ASSUME NEW e \in Edges
  PROVE  SuccessorTask(e) =
           IF e.to[1] = "process" /\ Inputs[e.to[2]][e.port].movement = "broadcast"
             THEN EntryTask(e.to) ELSE WaitingPhase(e.to)
<1>1. EdgeKinds(e)
  BY EdgeForm
<1>2. \A m : \A p \in InPorts(m) : Inputs[p[1]][p[2]].movement = m
  BY PortForm
<1> QED
  BY <1>1, <1>2 DEF EdgeKinds, AddEdge, SuccessorTask, WaitingPhase, Process, Shuffle, Gather, ValueSort, BarrierTask

-----------------------------------------------------------------------------
(* What follows from the order of the tasks.                               *)

\* All tasks of a logical task come before its terminal task.
LEMMA TerminalIsLast ==
  ASSUME Control, NEW t \in Tasks, status[t] # "none",
         Started(TerminalTask(t[1])), t # TerminalTask(t[1])
  PROVE  status[t] = "done"
<1> DEFINE l == t[1]
<1>1. l \in LogicalTasks
  BY TaskForm
<1>2. /\ EntryTask(l) \in Initial /\ BarrierTask(l) \in Initial /\ TerminalTask(l) \in Initial
      /\ EntryTask(l)[1] = l /\ BarrierTask(l)[1] = l /\ TerminalTask(l)[1] = l
  BY <1>1, PhaseTasks
<1>3. TerminalTask(l) # EntryTask(l) => status[BarrierTask(l)] = "done"
  <2>1. SUFFICES ASSUME TerminalTask(l) # EntryTask(l)
                 PROVE  status[BarrierTask(l)] = "done"
    OBVIOUS
  <2>2. BarrierTask(l) \in PhasePreds(l)[TerminalTask(l)]
    BY <1>1, <2>1, PhaseOrder
  <2>3. BarrierTask(l) \in preds[TerminalTask(l)]
    BY <1>2, <2>2 DEF Control, Ordered, PhasesOrdered
  <2> QED
    BY <1>2, <2>3, InitialTasks DEF Control, Ordered, PredsDone
<1>4. TerminalTask(l) # EntryTask(l) /\ BarrierTask(l) # EntryTask(l) => status[EntryTask(l)] = "done"
  <2>1. SUFFICES ASSUME TerminalTask(l) # EntryTask(l), BarrierTask(l) # EntryTask(l)
                 PROVE  status[EntryTask(l)] = "done"
    OBVIOUS
  <2>2. EntryTask(l) \in PhasePreds(l)[BarrierTask(l)]
    BY <1>1, <2>1, PhaseOrder
  <2>3. EntryTask(l) \in preds[BarrierTask(l)]
    BY <1>2, <2>2 DEF Control, Ordered, PhasesOrdered
  <2>4. Started(BarrierTask(l))
    BY <1>3, <2>1 DEF Started
  <2> QED
    BY <1>2, <2>3, <2>4, InitialTasks DEF Control, Ordered, PredsDone
<1>5. CASE t \in Initial
  <2>1. t \in {EntryTask(l), BarrierTask(l), TerminalTask(l)}
    BY <1>5, TaskForm
  <2>2. TerminalTask(l) = EntryTask(l) => BarrierTask(l) = TerminalTask(l)
    BY DEF TerminalTask, EntryTask, BarrierTask
  <2> QED
    BY <1>3, <1>4, <2>1, <2>2
<1>6. CASE t \notin Initial
  <2>1. PhaseAfter(t) \in {BarrierTask(l), TerminalTask(l)} /\ PhaseAfter(t) \in Initial /\ l[1] # "gather"
    BY <1>6, CommandPhases
  <2>2. TerminalTask(l) # EntryTask(l)
    BY <2>1 DEF TerminalTask, EntryTask
  <2>3. Started(PhaseAfter(t))
    BY <1>3, <2>1, <2>2 DEF Started
  <2>4. t \in preds[PhaseAfter(t)]
    BY <1>6 DEF Control, Ordered, CommandsOrdered
  <2> QED
    BY <2>1, <2>3, <2>4, InitialTasks DEF Control, Ordered, PredsDone
<1> QED
  BY <1>5, <1>6

\* A phase that a producer's terminal task comes before starts after all tasks
\* of the producer.
LEMMA ProducerIsDone ==
  ASSUME Control, NEW e \in Edges, Started(SuccessorTask(e)),
         NEW t \in Tasks, t[1] = e.from, status[t] # "none"
  PROVE  status[t] = "done"
<1>1. /\ SuccessorTask(e) \in Initial /\ TerminalTask(e.from) \in EdgePreds(SuccessorTask(e))
  BY EdgeOrder
<1>2. TerminalTask(e.from) \in preds[SuccessorTask(e)]
  BY <1>1 DEF Control, Ordered, PhasesOrdered
<1>3. status[TerminalTask(e.from)] = "done"
  BY <1>1, <1>2, InitialTasks DEF Control, Ordered, PredsDone
<1> QED
  BY <1>3, TerminalIsLast DEF Started

\* So a call comes before the phase that waits for it starts.
LEMMA CallInTime ==
  ASSUME Control, NEW t \in Tasks, status[t] = "running", NEW c \in calls[t]
  PROVE  \E e \in Edges : /\ e.from = t[1] /\ c.to = e.to /\ c.port = e.port
                         /\ status[SuccessorTask(e)] = "committed"
<1>2. PICK e \in Edges : e.from = t[1] /\ c.to = e.to /\ c.port = e.port
  BY DEF Control, CallsAlongEdges
<1>3. ~Started(SuccessorTask(e))
  BY <1>2, ProducerIsDone
<1>4. SuccessorTask(e) \in Initial /\ SuccessorTask(e) \in Tasks
  BY EdgeOrder, InitialTasks
<1>5. status[SuccessorTask(e)] # "none" /\ status[SuccessorTask(e)] \in States
  BY <1>4 DEF Control, Ordered, PhasesOrdered, GraphOK
<1>6. status[SuccessorTask(e)] = "committed"
  BY <1>3, <1>5 DEF Started, States
<1> QED
  BY <1>2, <1>6

LEMMA ControlInTime ==
  ASSUME Control
  PROVE  CallsInTime
<1> SUFFICES ASSUME NEW t \in Running, NEW c \in calls[t]
             PROVE  IF c.to[1] = "process" /\ Inputs[c.to[2]][c.port].movement = "broadcast"
                      THEN status[EntryTask(c.to)] = "committed"
                      ELSE status[WaitingPhase(c.to)] = "committed"
  BY DEF CallsInTime
<1>1. t \in Tasks /\ status[t] = "running"
  BY DEF Running
<1>2. PICK e \in Edges : c.to = e.to /\ c.port = e.port /\ status[SuccessorTask(e)] = "committed"
  BY <1>1, CallInTime
<1> QED
  BY <1>2, SuccessorWaits

-----------------------------------------------------------------------------
(* Control is inductive.                                                   *)

LEMMA PredsAreInitial ==
  ASSUME NEW t \in Initial
  PROVE  PhasePreds(t[1])[t] \subseteq Initial /\ EdgePreds(t) \subseteq Initial
<1>1. t \in {EntryTask(t[1]), BarrierTask(t[1]), TerminalTask(t[1])} /\ t[1] \in LogicalTasks
  BY InitialForm
<1>2. PhasePreds(t[1])[t] \subseteq Initial
  BY <1>1, PhaseTasks DEF PhasePreds
<1>3. EdgePreds(t) \subseteq Initial
  BY LogicalOfEdge, PhaseTasks DEF EdgePreds
<1> QED
  BY <1>2, <1>3

LEMMA InitControl ==
  ASSUME Init
  PROVE  Control
<1>1. ShapeOK /\ GraphOK
  <2>1. status \in [Tasks -> States]
    BY DEF Init, States
  <2>2. preds \in [Tasks -> SUBSET Tasks]
    BY PredsAreInitial, InitialTasks DEF Init
  <2> QED
    BY <2>1, <2>2 DEF Init, ShapeOK, GraphOK
<1>2. PhasesOrdered
  BY InitialTasks DEF Init, PhasesOrdered, sched
<1>3. CommandsOrdered
  <2>1. \A u \in Tasks \ Initial : status[u] = "none"
    BY DEF Init
  <2>2. \A t \in Tasks : preds[t] \subseteq Initial
    BY PredsAreInitial DEF Init
  <2> QED
    BY <2>1, <2>2 DEF CommandsOrdered
<1>4. PredsDone
  BY DEF Init, PredsDone, Started
<1>5. CallsAlongEdges
  BY DEF Init, CallsAlongEdges
<1> QED
  BY <1>1, <1>2, <1>3, <1>4, <1>5 DEF Control, Ordered

\* New commands of one logical task are put between their phases, the later of
\* which has not started.
LEMMA SpawnControl ==
  ASSUME Ordered, NEW new, NEW before \in Initial, NEW after \in Initial, NEW ended,
         Spawn(new, before, after, ended),
         \A u \in new : u \notin Initial /\ PhaseBefore(u) = before /\ PhaseAfter(u) = after,
         status[after] = "committed", \A t \in ended : status[t] = "running"
  PROVE  Ordered'
<1>1. /\ new \subseteq Tasks
      /\ status' = [t \in Tasks |-> IF t \in new THEN "committed"
                                  ELSE IF t \in ended THEN "done" ELSE status[t]]
      /\ preds' = [t \in Tasks |-> IF t \in new THEN {before}
                                 ELSE IF t = after THEN preds[t] \cup new ELSE preds[t]]
  BY DEF Spawn
<1>2. before \in Tasks /\ after \in Tasks /\ after \notin new
  BY InitialTasks
<1>3. status' \in [Tasks -> States]
  BY <1>1 DEF Ordered, GraphOK, States
<1>4. preds' \in [Tasks -> SUBSET Tasks]
  BY <1>1, <1>2 DEF Ordered, GraphOK
<1>5. PhasesOrdered'
  <2>1. \A t \in Initial : t \notin new /\ t \in Tasks
    BY InitialTasks
  <2> QED
    BY <1>1, <2>1 DEF Ordered, PhasesOrdered
<1>6. CommandsOrdered'
  <2> SUFFICES ASSUME NEW u \in Tasks \ Initial
               PROVE  /\ status'[u] # "none" => PhaseBefore(u) \in preds'[u] /\ u \in preds'[PhaseAfter(u)]
                      /\ \A t \in Tasks : u \in preds'[t] => t = PhaseAfter(u)
    BY DEF CommandsOrdered
  <2>1. PhaseAfter(u) \in Initial /\ PhaseAfter(u) \in Tasks /\ PhaseAfter(u) \notin new
    BY CommandPhases, InitialTasks
  <2>2. CASE u \in new
    <3>1. PhaseBefore(u) \in preds'[u] /\ u \in preds'[PhaseAfter(u)]
      BY <1>1, <1>2, <2>2
    <3>2. ASSUME NEW t \in Tasks, u \in preds'[t]
          PROVE  t = PhaseAfter(u)
      BY <1>1, <2>2, <3>2 DEF Ordered, CommandsOrdered
    <3> QED
      BY <3>1, <3>2
  <2>3. CASE u \notin new
    <3>1. status'[u] # "none" => status[u] # "none"
      <4>1. u \in ended => status[u] # "none"
        OBVIOUS
      <4> QED
        BY <1>1, <2>3, <4>1
    <3>2. status[u] # "none" => PhaseBefore(u) \in preds[u] /\ u \in preds[PhaseAfter(u)]
      BY DEF Ordered, CommandsOrdered
    <3>3. preds[u] \subseteq preds'[u]
      BY <1>1, <2>3
    <3>4. preds[PhaseAfter(u)] \subseteq preds'[PhaseAfter(u)]
      BY <1>1, <2>1
    <3>5. ASSUME NEW t \in Tasks, u \in preds'[t]
          PROVE  t = PhaseAfter(u)
      <4>1. u \in preds[t]
        BY <1>1, <2>3, <3>5
      <4> QED
        BY <4>1 DEF Ordered, CommandsOrdered
    <3> QED
      BY <3>1, <3>2, <3>3, <3>4, <3>5
  <2> QED
    BY <2>2, <2>3
<1>7. PredsDone'
  <2> SUFFICES ASSUME NEW t \in Tasks, status'[t] \in {"running", "done"}, NEW u \in preds'[t]
               PROVE  status'[u] = "done"
    BY DEF PredsDone, Started
  <2>1. t \notin new /\ status[t] \in {"running", "done"}
    BY <1>1
  <2>2. t # after
    BY <2>1
  <2>3. u \in preds[t] /\ u \in Tasks
    BY <1>1, <2>1, <2>2 DEF Ordered, GraphOK
  <2>4. status[u] = "done"
    BY <2>1, <2>3 DEF Ordered, PredsDone, Started
  <2>5. u \notin new
    BY <1>1, <2>2, <2>3 DEF Ordered, CommandsOrdered
  <2> QED
    BY <1>1, <2>3, <2>4, <2>5
<1> QED
  BY <1>3, <1>4, <1>5, <1>6, <1>7 DEF Ordered, GraphOK

\* Tasks start after all they depend on, and complete.
LEMMA MoveControl ==
  ASSUME Ordered, NEW t \in Tasks, TG!Start(t) \/ TG!Complete(t)
  PROVE  Ordered'
<1>1. /\ preds' = preds /\ status[t] \in {"committed", "running"}
      /\ \A u \in Tasks : u # t => status'[u] = status[u]
      /\ \/ status'[t] = "running" /\ \A u \in preds[t] : status[u] = "done"
         \/ status'[t] = "done" /\ status[t] = "running"
  BY DEF Ordered, GraphOK, TG!Start, TG!Complete, TG!Move
<1>2. GraphOK'
  BY <1>1 DEF Ordered, GraphOK, TG!Start, TG!Complete, TG!Move, States
<1>3. PhasesOrdered'
  BY <1>1, InitialTasks DEF Ordered, PhasesOrdered
<1>4. CommandsOrdered'
  BY <1>1 DEF Ordered, CommandsOrdered
<1>5. PredsDone'
  <2> SUFFICES ASSUME NEW s \in Tasks, status'[s] \in {"running", "done"}, NEW u \in preds[s]
               PROVE  status'[u] = "done"
    BY <1>1 DEF PredsDone, Started
  <2>1. u \in Tasks
    BY DEF Ordered, GraphOK
  <2>2. status[u] = "done"
    BY <1>1 DEF Ordered, PredsDone, Started
  <2> QED
    BY <1>1, <2>1, <2>2
<1> QED
  BY <1>2, <1>3, <1>4, <1>5 DEF Ordered

LEMMA StutterControl ==
  ASSUME Ordered, UNCHANGED sched
  PROVE  Ordered'
<1>1. status' = status /\ preds' = preds
  BY DEF sched
<1> QED
  BY <1>1 DEF Ordered, GraphOK, PhasesOrdered, CommandsOrdered, PredsDone, Started

LEMMA SpawnCommandControl ==
  ASSUME Ordered, NEW l \in LogicalTasks, NEW k, NEW fragments, SpawnCommand(l, k, fragments),
         status[WaitingPhase(l)] = "committed"
  PROVE  Ordered'
<1>1. Spawn({Command(l, k)}, EntryTask(l), WaitingPhase(l), {})
  BY DEF SpawnCommand
<1>2. EntryTask(l) \in Initial /\ WaitingPhase(l) \in Initial
  BY PhaseTasks
<1>3. Command(l, k) \notin Initial
  BY CommandTasks
<1>4. PhaseBefore(Command(l, k)) = EntryTask(l) /\ PhaseAfter(Command(l, k)) = WaitingPhase(l)
  BY DEF PhaseBefore, PhaseAfter, Command
<1> QED
  BY <1>1, <1>2, <1>3, <1>4, SpawnControl

-----------------------------------------------------------------------------
(* The steps.                                                              *)

\* What a task commits goes along its edges.
LEMMA CommitAlongEdges ==
  ASSUME NEW l, NEW oport, NEW q, NEW fragment, NEW c \in CommitFragment(l, oport, q, fragment)
  PROVE  /\ \E e \in Edges : e.from = l /\ e.oport = oport /\ c.to = e.to /\ c.port = e.port
         /\ c.partition = q /\ c.fragment = fragment
BY DEF CommitFragment

LEMMA OwnAlongEdges ==
  ASSUME NEW t, NEW c \in OwnFragments(t)
  PROVE  \E e \in Edges : e.from = t[1] /\ c.to = e.to /\ c.port = e.port
<1>1. \/ c \in CommitFragment(t[1], 1, 0, Joined(inputs[t[1]]))
      \/ c \in CommitFragment(t[1], 1, t[3], PartitionOf(given[t][1], t[3]))
      \/ c \in CommitFragment(t[1], 1, t[3], given[t][1])
  BY DEF OwnFragments
<1> QED
  BY <1>1 DEF CommitFragment

LEMMA StartControl ==
  ASSUME Control, NEW t \in Tasks, Start(t)
  PROVE  Control'
<1>1. Ordered'
  BY MoveControl DEF Start, Control
<1>2. calls' = [calls EXCEPT ![t] = OwnFragments(t)] /\ UNCHANGED data
  BY DEF Start
<1>3. ShapeOK'
  BY <1>2 DEF Control, ShapeOK, data
<1>4. CallsAlongEdges'
  BY <1>2, OwnAlongEdges DEF Control, ShapeOK, CallsAlongEdges
<1> QED
  BY <1>1, <1>3, <1>4 DEF Control

LEMMA FlushControl ==
  ASSUME Control, NEW t \in Tasks, FlushBuffer(t)
  PROVE  Control'
<1>1. /\ \E o, f : calls' = [calls EXCEPT ![t] = CommitFragment(t[1], o, 0, f)]
      /\ UNCHANGED <<sched, data>>
  BY DEF FlushBuffer
<1>2. Ordered'
  BY <1>1, StutterControl DEF Control
<1>3. ShapeOK'
  BY <1>1 DEF Control, ShapeOK, data
<1>4. CallsAlongEdges'
  BY <1>1, CommitAlongEdges DEF Control, ShapeOK, CallsAlongEdges
<1> QED
  BY <1>2, <1>3, <1>4 DEF Control

\* The consumer's phase that waits for commands has not started when a call is
\* made that creates one.
LEMMA ConsumerWaits ==
  ASSUME Control, NEW t \in Tasks, status[t] = "running", NEW c \in calls[t]
  PROVE  /\ c.to \in LogicalTasks
         /\ ~(c.to[1] = "process" /\ Inputs[c.to[2]][c.port].movement = "broadcast")
            => status[WaitingPhase(c.to)] = "committed"
BY CallInTime, SuccessorWaits, LogicalOfEdge

\* What a call changes: it makes a command, or it does not touch the graph.
LEMMA ReceiveGraph ==
  ASSUME NEW l \in LogicalTasks, NEW port, NEW q, NEW fragment, ReceiveFragment(l, port, q, fragment)
  PROVE  \/ /\ ~(l[1] = "process" /\ Inputs[l[2]][port].movement = "broadcast")
            /\ \E k, fragments : SpawnCommand(l, k, fragments)
         \/ UNCHANGED sched /\ UNCHANGED given
<1>1. CASE l[1] = "gather"
  BY <1>1 DEF ReceiveFragment, GatherReceive
<1>2. CASE l[1] = "shuffle"
  BY <1>2 DEF ReceiveFragment, ShuffleReceive
<1>3. CASE l[1] = "value_sort"
  BY <1>3 DEF ReceiveFragment, ValueSortReceive
<1>4. CASE l[1] = "process"
  <2>1. l = Process(l[2])
    BY <1>4, LogicalKind
  <2>2. ProcessReceive(l[2], port, q, fragment)
    BY <1>4 DEF ReceiveFragment
  <2> QED
    BY <2>1, <2>2 DEF ProcessReceive, BroadcastReceive, OneToOneReceive, ScatterGatherReceive
<1> QED
  BY <1>1, <1>2, <1>3, <1>4, LogicalKind

LEMMA NestedExcept ==
  ASSUME NEW V, NEW Q, NEW f, DOMAIN f = V, \A v \in V : DOMAIN f[v] = Q,
         NEW v, NEW q, NEW x
  PROVE  /\ DOMAIN [f EXCEPT ![v][q] = x] = V
         /\ \A w \in V : DOMAIN [f EXCEPT ![v][q] = x][w] = Q
         /\ \A w \in V, r \in Q :
              [f EXCEPT ![v][q] = x][w][r] = IF w = v /\ r = q THEN x ELSE f[w][r]
OBVIOUS

LEMMA ReceiveShape ==
  ASSUME ShapeOK, NEW l \in LogicalTasks, NEW port, NEW q, NEW fragment,
         ReceiveFragment(l, port, q, fragment)
  PROVE  /\ DOMAIN inputs' = LogicalTasks
         /\ \A k \in LogicalTasks : DOMAIN inputs'[k] = 1 .. Len(inputs'[k]) /\ Len(inputs'[k]) \in Nat
         /\ DOMAIN pool' = Vertices /\ \A v \in Vertices : DOMAIN pool'[v] = Partitions
         /\ DOMAIN waiting' = Vertices /\ \A v \in Vertices : DOMAIN waiting'[v] = Partitions
         /\ DOMAIN broadcasts' = Vertices /\ DOMAIN given' = Tasks
<1>1. CASE l[1] = "gather"
  BY <1>1 DEF ShapeOK, ReceiveFragment, GatherReceive
<1>2. CASE l[1] = "shuffle"
  BY <1>2 DEF ShapeOK, ReceiveFragment, ShuffleReceive, SpawnCommand
<1>3. CASE l[1] = "value_sort"
  BY <1>3 DEF ShapeOK, ReceiveFragment, ValueSortReceive, SpawnCommand
<1>4. CASE l[1] = "process"
  <2>2. ProcessReceive(l[2], port, q, fragment)
    BY <1>4 DEF ReceiveFragment
  <2>3. CASE BroadcastReceive(l[2], port, fragment)
    BY <2>3 DEF ShapeOK, BroadcastReceive
  <2>4. CASE OneToOneReceive(l[2], port, fragment)
    BY <2>4 DEF ShapeOK, OneToOneReceive, SpawnCommand
  <2>5. CASE ScatterGatherReceive(l[2], port, q, fragment)
    BY <2>5 DEF ShapeOK, ScatterGatherReceive, SpawnCommand
  <2> QED
    BY <2>2, <2>3, <2>4, <2>5 DEF ProcessReceive
<1> QED
  BY <1>1, <1>2, <1>3, <1>4, LogicalKind

LEMMA DeliverControl ==
  ASSUME Control, NEW t \in Tasks, status[t] = "running", Deliver(t)
  PROVE  Control'
<1>1. PICK c \in calls[t] :
        calls' = [calls EXCEPT ![t] = @ \ {c}] /\ ReceiveFragment(c.to, c.port, c.partition, c.fragment)
  BY DEF Deliver
<1>2. /\ c.to \in LogicalTasks
      /\ ~(c.to[1] = "process" /\ Inputs[c.to[2]][c.port].movement = "broadcast")
         => status[WaitingPhase(c.to)] = "committed"
  BY ConsumerWaits
<1>3. Ordered'
  BY <1>1, <1>2, ReceiveGraph, SpawnCommandControl, StutterControl DEF Control
<1>4. ShapeOK'
  BY <1>1, <1>2, ReceiveShape DEF Control, ShapeOK
<1>5. CallsAlongEdges'
  BY <1>1 DEF Control, ShapeOK, CallsAlongEdges
<1> QED
  BY <1>3, <1>4, <1>5 DEF Control

\* A phase that has not ended holds the next one back.
LEMMA PhaseWaits ==
  ASSUME Control, NEW t \in Initial, NEW u \in Initial, u \in PhasePreds(t[1])[t], status[u] = "running"
  PROVE  status[t] = "committed"
<1>1. u \in preds[t] /\ status[t] # "none"
  BY DEF Control, Ordered, PhasesOrdered
<1>2. ~Started(t)
  BY <1>1, InitialTasks DEF Control, Ordered, PredsDone
<1>3. status[t] \in States
  BY InitialTasks DEF Control, Ordered, GraphOK
<1> QED
  BY <1>1, <1>2, <1>3 DEF Started, States

\* The roles of a task that is in a phase.
LEMMA RoleForm ==
  ASSUME NEW t \in Tasks
  PROVE  /\ t[2] = "entry" /\ t[1][1] \in {"process", "shuffle"} => t = EntryTask(t[1]) /\ t \in Initial
         /\ t[2] = "barrier" => t = BarrierTask(t[1]) /\ t \in Initial
         /\ t[2] = "terminal" => t = TerminalTask(t[1]) /\ t \in Initial
         /\ t[2] = "command" => t = Command(t[1], t[3]) /\ t[3] \in 1 .. MaxCommands
         /\ t[2] = "sort" => t = SortCommand(t[1], t[3]) /\ t[3] \in Partitions
         /\ t[1][1] = "gather" => t = EntryTask(t[1])
<1>1. CASE t \in Initial
  <2>1. /\ t[2] \in {"entry", "barrier", "terminal"} /\ t = <<t[1], t[2], 0>>
        /\ t \in {EntryTask(t[1]), BarrierTask(t[1]), TerminalTask(t[1])}
    BY <1>1, InitialForm
  <2>2. t[2] = "entry" => t = EntryTask(t[1])
    BY <2>1 DEF EntryTask
  <2>3. t[2] = "barrier" => t = BarrierTask(t[1])
    BY <2>1 DEF EntryTask, BarrierTask, TerminalTask
  <2>4. t[2] = "terminal" => t = TerminalTask(t[1])
    BY <2>1 DEF EntryTask, BarrierTask, TerminalTask
  <2>5. t[1][1] = "gather" => t = EntryTask(t[1])
    BY <2>1 DEF BarrierTask, TerminalTask
  <2> QED
    BY <1>1, <2>1, <2>2, <2>3, <2>4, <2>5
<1>2. CASE t \notin Initial
  BY <1>2, TaskForm
<1> QED
  BY <1>1, <1>2

LEMMA CreateSortTasksControl ==
  ASSUME Control, NEW t \in Tasks, status[t] = "running", CreateSortTasks(t)
  PROVE  Control'
<1> DEFINE l == t[1]
           new == {SortCommand(l, p) : p \in Partitions}
<1>1. /\ l[1] = "shuffle" /\ t[2] = "barrier" /\ calls' = calls
      /\ Spawn(new, t, TerminalTask(l), {t})
      /\ given' = [u \in Tasks |-> IF u \in new THEN <<inputs[l]>> ELSE given[u]]
      /\ inputs' = [inputs EXCEPT ![l] = <<>>]
      /\ UNCHANGED <<pool, waiting, broadcasts>>
  BY DEF CreateSortTasks, Ends
<1>2. t = BarrierTask(l) /\ t \in Initial /\ l \in LogicalTasks
  BY <1>1, RoleForm, TaskForm
<1>3. TerminalTask(l) \in Initial /\ TerminalTask(l)[1] = l
  BY <1>2, PhaseTasks
<1>4. TerminalTask(l) # EntryTask(l)
  BY <1>1 DEF TerminalTask, EntryTask
<1>5. t \in PhasePreds(l)[TerminalTask(l)]
  BY <1>2, <1>4, PhaseOrder
<1>6. status[TerminalTask(l)] = "committed"
  BY <1>2, <1>3, <1>5, PhaseWaits
<1>7. \A u \in new : u \notin Initial /\ PhaseBefore(u) = t /\ PhaseAfter(u) = TerminalTask(l)
  <2> SUFFICES ASSUME NEW p \in Partitions
               PROVE  /\ SortCommand(l, p) \notin Initial /\ PhaseBefore(SortCommand(l, p)) = t
                      /\ PhaseAfter(SortCommand(l, p)) = TerminalTask(l)
    OBVIOUS
  <2>1. SortCommand(l, p) \notin Initial
    BY <1>2, CommandTasks
  <2>2. SortCommand(l, p)[1] = l /\ SortCommand(l, p)[2] = "sort"
    BY DEF SortCommand
  <2> QED
    BY <1>2, <2>1, <2>2 DEF PhaseBefore, PhaseAfter
<1>8. Ordered'
  <2> HIDE DEF l, new
  <2> QED
    BY <1>1, <1>2, <1>3, <1>6, <1>7, SpawnControl DEF Control
<1>9. ShapeOK'
  BY <1>1 DEF Control, ShapeOK
<1>10. CallsAlongEdges'
  BY <1>1 DEF Control, CallsAlongEdges
<1> QED
  BY <1>8, <1>9, <1>10 DEF Control

LEMMA AfterGlobalInitializeControl ==
  ASSUME Control, NEW t \in Tasks, status[t] = "running", AfterGlobalInitialize(t)
  PROVE  Control'
<1> DEFINE l == t[1]
<1>1. PICK count : /\ l[1] = "process" /\ t[2] = "entry" /\ calls' = calls /\ UNCHANGED data
                   /\ Spawn({Command(l, k) : k \in 1 .. count}, t, BarrierTask(l), {t})
  BY DEF AfterGlobalInitialize, Ends
<1> DEFINE new == {Command(l, k) : k \in 1 .. count}
<1>2. t = EntryTask(l) /\ t \in Initial /\ l \in LogicalTasks
  BY <1>1, RoleForm, TaskForm
<1>3. BarrierTask(l) \in Initial /\ BarrierTask(l)[1] = l
  BY <1>2, PhaseTasks
<1>4. BarrierTask(l) # EntryTask(l)
  BY <1>1 DEF BarrierTask, EntryTask
<1>5. t \in PhasePreds(l)[BarrierTask(l)]
  BY <1>2, <1>4, PhaseOrder
<1>6. status[BarrierTask(l)] = "committed"
  BY <1>2, <1>3, <1>5, PhaseWaits
<1>7. \A u \in new : u \notin Initial /\ PhaseBefore(u) = t /\ PhaseAfter(u) = BarrierTask(l)
  <2> SUFFICES ASSUME NEW k
               PROVE  /\ Command(l, k) \notin Initial /\ PhaseBefore(Command(l, k)) = t
                      /\ PhaseAfter(Command(l, k)) = BarrierTask(l)
    OBVIOUS
  <2>1. Command(l, k) \notin Initial
    BY <1>2, CommandTasks
  <2>2. Command(l, k)[1] = l /\ Command(l, k)[2] = "command"
    BY DEF Command
  <2> QED
    BY <1>1, <1>2, <2>1, <2>2 DEF PhaseBefore, PhaseAfter, WaitingPhase
<1>8. Ordered'
  <2>1. Spawn(new, t, BarrierTask(l), {t})
    BY <1>1
  <2> HIDE DEF l, new
  <2> QED
    BY <2>1, <1>2, <1>3, <1>6, <1>7, SpawnControl DEF Control
<1>9. ShapeOK'
  BY <1>1 DEF Control, ShapeOK, data
<1>10. CallsAlongEdges'
  BY <1>1 DEF Control, CallsAlongEdges
<1> QED
  BY <1>8, <1>9, <1>10 DEF Control

\* The other bodies end by completing their task.
LEMMA CompleteControl ==
  ASSUME Control, NEW t \in Tasks,
         PartitionFragment(t) \/ RunGather(t) \/ GlobalFinalize(t) \/ Complete(t)
  PROVE  Control'
<1>1. TG!Complete(t) /\ calls' = calls
  BY DEF PartitionFragment, RunGather, GlobalFinalize, Complete, Ends
<1>2. Ordered'
  BY <1>1, MoveControl DEF Control
<1>3. ShapeOK'
  <2>1. CASE PartitionFragment(t)
    BY <1>1, <2>1 DEF Control, ShapeOK, PartitionFragment
  <2>2. CASE RunGather(t)
    BY <1>1, <2>2 DEF Control, ShapeOK, RunGather
  <2>3. CASE GlobalFinalize(t)
    BY <1>1, <2>3 DEF Control, ShapeOK, GlobalFinalize
  <2>4. CASE Complete(t)
    BY <1>1, <2>4 DEF Control, ShapeOK, Complete, data
  <2> QED
    BY <2>1, <2>2, <2>3, <2>4
<1>4. CallsAlongEdges'
  BY <1>1 DEF Control, CallsAlongEdges
<1> QED
  BY <1>2, <1>3, <1>4 DEF Control

LEMMA StepControl ==
  ASSUME Control, [Next]_vars
  PROVE  Control'
<1>1. CASE UNCHANGED vars
  <2>1. UNCHANGED sched /\ UNCHANGED data /\ calls' = calls
    BY <1>1 DEF vars
  <2>2. Ordered'
    BY <2>1, StutterControl DEF Control
  <2> QED
    BY <2>1, <2>2 DEF Control, ShapeOK, CallsAlongEdges, data
<1>2. ASSUME NEW t \in Tasks, Start(t)
      PROVE  Control'
  BY <1>2, StartControl
<1>3. ASSUME NEW t \in Running, Body(t)
      PROVE  Control'
  <2>1. t \in Tasks /\ status[t] = "running"
    BY DEF Running
  <2> QED
    BY <1>3, <2>1, DeliverControl, FlushControl, CreateSortTasksControl, AfterGlobalInitializeControl,
       CompleteControl DEF Body
<1> QED
  BY <1>1, <1>2, <1>3 DEF Next

\* Control holds in every state.
THEOREM ControlInvariant == Spec => []Control
<1>1. Init => Control
  BY InitControl
<1>2. Control /\ [Next]_vars => Control'
  BY StepControl
<1> QED
  BY <1>1, <1>2, PTL DEF Spec

\* Calls come before the phase that waits for them has started, whatever runs
\* concurrently and however the flow graph is connected.
THEOREM CallsAreInTime == Spec => []CallsInTime
<1>1. Control => CallsInTime
  BY ControlInTime
<1> QED
  BY <1>1, ControlInvariant, PTL


-----------------------------------------------------------------------------
(* Where the edges lead.                                                   *)

\* The logical task that feeds a scatter-gather port.
FeederOf(p) == IF Inputs[p[1]][p[2]].sorted THEN ValueSort(p) ELSE Shuffle(Sources(p))

\* An edge into a logical task comes from one of its sources.
LEMMA EdgeInto ==
  ASSUME NEW e \in Edges
  PROVE  /\ e.to[1] \in {"gather", "shuffle"} =>
              /\ e.port = 1 /\ e.from[1] = "process" /\ e.from = Process(e.from[2])
              /\ <<e.from[2], e.oport>> \in e.to[2]
         /\ e.to[1] = "value_sort" =>
              /\ e.port = 1 /\ e.oport = 1 /\ e.from = Shuffle(Sources(e.to[2]))
              /\ e.to[2] \in InPorts("scatter_gather") /\ Inputs[e.to[2][1]][e.to[2][2]].sorted
         /\ e.to[1] = "process" =>
              LET p == <<e.to[2], e.port>> IN
              /\ e.to = Process(e.to[2])
              /\ \/ /\ p \in InPorts("one_to_one") /\ e.from[1] = "process"
                    /\ e.from = Process(e.from[2]) /\ <<e.from[2], e.oport>> \in Sources(p)
                 \/ p \in InPorts("broadcast") /\ e.from = Gather(Sources(p)) /\ e.oport = 1
                 \/ p \in InPorts("scatter_gather") /\ e.from = FeederOf(p) /\ e.oport = 1
<1>1. \A m : \A p \in InPorts(m) : p = <<p[1], p[2]>> /\ \A s \in Sources(p) : s = <<s[1], s[2]>>
  BY PortForm, SourceForm
<1>2. CASE \E p \in InPorts("scatter_gather") : \E s \in Sources(p) :
             e = AddEdge(Process(s[1]), s[2], Shuffle(Sources(p)), 1, "barrier")
  BY <1>1, <1>2 DEF AddEdge, Process, Shuffle
<1>3. CASE \E p \in InPorts("broadcast") : \E s \in Sources(p) :
             e = AddEdge(Process(s[1]), s[2], Gather(Sources(p)), 1, "entry")
  BY <1>1, <1>3 DEF AddEdge, Process, Gather
<1>4. CASE \E p \in InPorts("one_to_one") : \E s \in Sources(p) :
             e = AddEdge(Process(s[1]), s[2], Process(p[1]), p[2], "barrier")
  BY <1>1, <1>4 DEF AddEdge, Process
<1>5. CASE \E p \in InPorts("broadcast") : e = AddEdge(Gather(Sources(p)), 1, Process(p[1]), p[2], "entry")
  BY <1>1, <1>5 DEF AddEdge, Process, Gather
<1>6. CASE \E p \in InPorts("scatter_gather") :
             /\ Inputs[p[1]][p[2]].sorted
             /\ \/ e = AddEdge(Shuffle(Sources(p)), 1, ValueSort(p), 1, "terminal")
                \/ e = AddEdge(ValueSort(p), 1, Process(p[1]), p[2], "barrier")
  BY <1>1, <1>6 DEF AddEdge, Process, Shuffle, ValueSort, FeederOf
<1>7. CASE \E p \in InPorts("scatter_gather") :
             /\ ~Inputs[p[1]][p[2]].sorted
             /\ e = AddEdge(Shuffle(Sources(p)), 1, Process(p[1]), p[2], "barrier")
  BY <1>1, <1>7 DEF AddEdge, Process, Shuffle, FeederOf
<1> QED
  BY <1>2, <1>3, <1>4, <1>5, <1>6, <1>7, EdgeForm DEF EdgeKinds

\* Every source of a gather, a shuffle and a one-to-one port has its edge.
LEMMA SourceEdge ==
  ASSUME NEW l \in LogicalTasks, l[1] \in {"gather", "shuffle"}, NEW s \in l[2]
  PROVE  /\ s = <<s[1], s[2]>> /\ s[1] \in Vertices
         /\ \E e \in Edges : /\ e.from = Process(s[1]) /\ e.oport = s[2] /\ e.to = l /\ e.port = 1
                             /\ SuccessorTask(e) = BarrierTask(l)
<1>1. CASE l[1] = "gather"
  <2>1. PICK p \in InPorts("broadcast") : l = Gather(Sources(p)) /\ l[2] = Sources(p)
    BY <1>1, LogicalKind
  <2> DEFINE e == AddEdge(Process(s[1]), s[2], Gather(Sources(p)), 1, "entry")
  <2>2. e \in Edges
    BY <2>1, EdgeForm DEF EdgeKinds
  <2>3. SuccessorTask(e) = BarrierTask(l)
    BY <1>1, <2>1 DEF SuccessorTask, AddEdge, BarrierTask
  <2> QED
    BY <2>1, <2>2, <2>3, SourceForm DEF AddEdge
<1>2. CASE l[1] = "shuffle"
  <2>1. PICK p \in InPorts("scatter_gather") : l = Shuffle(Sources(p)) /\ l[2] = Sources(p)
    BY <1>2, LogicalKind
  <2> DEFINE e == AddEdge(Process(s[1]), s[2], Shuffle(Sources(p)), 1, "barrier")
  <2>2. e \in Edges
    BY <2>1, EdgeForm DEF EdgeKinds
  <2>3. SuccessorTask(e) = BarrierTask(l)
    BY <1>2, <2>1 DEF SuccessorTask, AddEdge
  <2> QED
    BY <2>1, <2>2, <2>3, SourceForm DEF AddEdge
<1> QED
  BY <1>1, <1>2

LEMMA OneToOneEdge ==
  ASSUME NEW p \in InPorts("one_to_one"), NEW s \in Sources(p)
  PROVE  /\ s = <<s[1], s[2]>> /\ s[1] \in Vertices
         /\ \E e \in Edges : e.from = Process(s[1]) /\ e.oport = s[2] /\ e.to = Process(p[1]) /\ e.port = p[2]
<1>1. AddEdge(Process(s[1]), s[2], Process(p[1]), p[2], "barrier") \in Edges
  BY EdgeForm DEF EdgeKinds
<1> QED
  BY <1>1, SourceForm DEF AddEdge

\* The tasks between the sources and the other ports are there, with their edges.
LEMMA BroadcastEdge ==
  ASSUME NEW p \in InPorts("broadcast")
  PROVE  /\ Gather(Sources(p)) \in LogicalTasks
         /\ \E e \in Edges : /\ e.from = Gather(Sources(p)) /\ e.oport = 1
                             /\ e.to = Process(p[1]) /\ e.port = p[2]
                             /\ SuccessorTask(e) = EntryTask(Process(p[1]))
<1> DEFINE e == AddEdge(Gather(Sources(p)), 1, Process(p[1]), p[2], "entry")
<1>1. e \in Edges
  BY EdgeForm DEF EdgeKinds
<1>2. SuccessorTask(e) = EntryTask(Process(p[1]))
  BY DEF SuccessorTask, AddEdge
<1>3. e.from = Gather(Sources(p))
  BY DEF AddEdge
<1>4. Gather(Sources(p)) \in LogicalTasks
  BY <1>1, <1>3, LogicalOfEdge
<1> QED
  BY <1>1, <1>2, <1>4 DEF AddEdge

LEMMA ScatterGatherEdge ==
  ASSUME NEW p \in InPorts("scatter_gather")
  PROVE  /\ Shuffle(Sources(p)) \in LogicalTasks /\ FeederOf(p) \in LogicalTasks
         /\ \E e \in Edges : /\ e.from = FeederOf(p) /\ e.oport = 1
                             /\ e.to = Process(p[1]) /\ e.port = p[2]
                             /\ SuccessorTask(e) = BarrierTask(Process(p[1]))
         /\ Inputs[p[1]][p[2]].sorted =>
              /\ FeederOf(p) = ValueSort(p)
              /\ \E e \in Edges : /\ e.from = Shuffle(Sources(p)) /\ e.oport = 1
                                  /\ e.to = ValueSort(p) /\ e.port = 1
                                  /\ SuccessorTask(e) = TerminalTask(ValueSort(p))
         /\ ~Inputs[p[1]][p[2]].sorted => FeederOf(p) = Shuffle(Sources(p))
<1>1. CASE Inputs[p[1]][p[2]].sorted
  <2> DEFINE e == AddEdge(ValueSort(p), 1, Process(p[1]), p[2], "barrier")
             f == AddEdge(Shuffle(Sources(p)), 1, ValueSort(p), 1, "terminal")
  <2>1. e \in Edges /\ f \in Edges
    BY <1>1, EdgeForm DEF EdgeKinds
  <2>2. e.from = ValueSort(p) /\ f.from = Shuffle(Sources(p))
    BY DEF AddEdge
  <2>3. ValueSort(p) \in LogicalTasks /\ Shuffle(Sources(p)) \in LogicalTasks
    BY <2>1, <2>2, LogicalOfEdge
  <2>4. SuccessorTask(e) = BarrierTask(Process(p[1])) /\ SuccessorTask(f) = TerminalTask(ValueSort(p))
    BY DEF SuccessorTask, AddEdge
  <2> QED
    BY <1>1, <2>1, <2>3, <2>4 DEF FeederOf, AddEdge
<1>2. CASE ~Inputs[p[1]][p[2]].sorted
  <2> DEFINE e == AddEdge(Shuffle(Sources(p)), 1, Process(p[1]), p[2], "barrier")
  <2>1. e \in Edges
    BY <1>2, EdgeForm DEF EdgeKinds
  <2>2. e.from = Shuffle(Sources(p))
    BY DEF AddEdge
  <2>3. Shuffle(Sources(p)) \in LogicalTasks
    BY <2>1, <2>2, LogicalOfEdge
  <2>4. SuccessorTask(e) = BarrierTask(Process(p[1]))
    BY DEF SuccessorTask, AddEdge
  <2> QED
    BY <1>2, <2>1, <2>3, <2>4 DEF FeederOf, AddEdge
<1> QED
  BY <1>1, <1>2

-----------------------------------------------------------------------------
(* Fragments.                                                              *)

\* A flush is a task and an output port.
IsFlush(f) == f = <<f[1], f[2]>>

LEMMA FlushOfInjective ==
  ASSUME NEW f, NEW g, IsFlush(f), IsFlush(g), FlushOf(f) = FlushOf(g)
  PROVE  f = g
<1>1. 1 \in Partitions
  BY FlowParameters DEF Partitions
<1>2. FlushOf(f)[1] = [by |-> f[1], oport |-> f[2], partition |-> 1]
  BY <1>1 DEF FlushOf
<1>3. FlushOf(g)[1] = [by |-> g[1], oport |-> g[2], partition |-> 1]
  BY <1>1 DEF FlushOf
<1>4. f[1] = g[1] /\ f[2] = g[2]
  BY <1>2, <1>3
<1> QED
  BY <1>4 DEF IsFlush

\* What the places of flushes hold, when they are put in a row.
LEMMA JoinedPlaces ==
  ASSUME NEW F, \A f \in F : IsFlush(f), NEW s, Exactly(s, FlushesIn(F))
  PROVE  /\ \A at \in DOMAIN Joined(s) : \E f \in F :
              /\ at = <<at[1], at[2]>> /\ at[1] \in DOMAIN s /\ at[2] \in Partitions /\ s[at[1]] = FlushOf(f)
              /\ Joined(s)[at] = [by |-> f[1], oport |-> f[2], partition |-> at[2]]
         /\ \A f \in F, q \in Partitions : \E at \in DOMAIN Joined(s) :
              Joined(s)[at] = [by |-> f[1], oport |-> f[2], partition |-> q]
         /\ IsInjective(Joined(s))
<1>1. \A i \in DOMAIN s : \E f \in F : s[i] = FlushOf(f)
  BY DEF Exactly, Range, FlushesIn
<1>2. \A f \in F : \E i \in DOMAIN s : s[i] = FlushOf(f)
  BY DEF Exactly, Range, FlushesIn
<1>3. \A i, j \in DOMAIN s : s[i] = s[j] => i = j
  BY DEF Exactly, IsInjective
<1>4. \A f : DOMAIN FlushOf(f) = Partitions
  BY DEF FlushOf
<1>5. \A f : \A q \in Partitions : FlushOf(f)[q] = [by |-> f[1], oport |-> f[2], partition |-> q]
  BY DEF FlushOf
<1>6. DOMAIN Joined(s) = UNION {{<<i, q>> : q \in DOMAIN s[i]} : i \in DOMAIN s}
  BY DEF Joined
<1>7. \A at \in DOMAIN Joined(s) : Joined(s)[at] = s[at[1]][at[2]]
  BY DEF Joined
<1>8. ASSUME NEW at \in DOMAIN Joined(s)
      PROVE  \E f \in F :
              /\ at = <<at[1], at[2]>> /\ at[1] \in DOMAIN s /\ at[2] \in Partitions /\ s[at[1]] = FlushOf(f)
              /\ Joined(s)[at] = [by |-> f[1], oport |-> f[2], partition |-> at[2]]
  <2>1. PICK i \in DOMAIN s : \E q \in DOMAIN s[i] : at = <<i, q>>
    BY <1>6
  <2>2. PICK q \in DOMAIN s[i] : at = <<i, q>>
    BY <2>1
  <2>3. PICK f \in F : s[i] = FlushOf(f)
    BY <1>1
  <2>4. q \in Partitions
    BY <2>3, <1>4
  <2>5. at[1] = i /\ at[2] = q
    BY <2>2
  <2> QED
    BY <1>5, <1>7, <2>2, <2>3, <2>4, <2>5
<1>9. ASSUME NEW f \in F, NEW q \in Partitions
      PROVE  \E at \in DOMAIN Joined(s) : Joined(s)[at] = [by |-> f[1], oport |-> f[2], partition |-> q]
  <2>1. PICK i \in DOMAIN s : s[i] = FlushOf(f)
    BY <1>2
  <2>2. <<i, q>> \in DOMAIN Joined(s)
    BY <2>1, <1>4, <1>6
  <2>3. Joined(s)[<<i, q>>] = s[i][q]
    BY <2>2, <1>7
  <2> QED
    BY <2>1, <2>2, <2>3, <1>5
<1>10. ASSUME NEW a \in DOMAIN Joined(s), NEW b \in DOMAIN Joined(s), Joined(s)[a] = Joined(s)[b]
       PROVE  a = b
  <2>1. PICK f \in F : /\ a = <<a[1], a[2]>> /\ a[1] \in DOMAIN s /\ s[a[1]] = FlushOf(f)
                       /\ Joined(s)[a] = [by |-> f[1], oport |-> f[2], partition |-> a[2]]
    BY <1>8
  <2>2. PICK g \in F : /\ b = <<b[1], b[2]>> /\ b[1] \in DOMAIN s /\ s[b[1]] = FlushOf(g)
                       /\ Joined(s)[b] = [by |-> g[1], oport |-> g[2], partition |-> b[2]]
    BY <1>8
  <2>3. f[1] = g[1] /\ f[2] = g[2] /\ a[2] = b[2]
    <3>1. [by |-> f[1], oport |-> f[2], partition |-> a[2]] = [by |-> g[1], oport |-> g[2], partition |-> b[2]]
      BY <1>10, <2>1, <2>2
    <3> QED
      BY ONLY <3>1
  <2>4. f = g
    BY <2>3 DEF IsFlush
  <2>5. a[1] = b[1]
    BY <2>1, <2>2, <2>4, <1>3
  <2> QED
    BY <2>1, <2>2, <2>3, <2>5
<1> QED
  BY <1>8, <1>9, <1>10 DEF IsInjective

\* Put in a row, flushes are all their records, each once; and a partition of
\* them is all records of the partition.
LEMMA JoinedExact ==
  ASSUME NEW F, \A f \in F : IsFlush(f), NEW s, Exactly(s, FlushesIn(F))
  PROVE  Exactly(Joined(s), RecordsIn(F, Partitions))
<1>1. Range(Joined(s)) = RecordsIn(F, Partitions)
  BY JoinedPlaces DEF Range, RecordsIn
<1> QED
  BY <1>1, JoinedPlaces DEF Exactly

LEMMA PartitionExact ==
  ASSUME NEW F, \A f \in F : IsFlush(f), NEW s, Exactly(s, FlushesIn(F)), NEW q \in Partitions
  PROVE  Exactly(PartitionOf(s, q), RecordsIn(F, {q}))
<1> DEFINE all == Joined(s)
           at == {x \in DOMAIN all : all[x].partition = q}
           part == [x \in at |-> all[x]]
<1>1. PartitionOf(s, q) = part
  BY DEF PartitionOf, Restrict
<1>2. \A x \in DOMAIN all : \E f \in F : all[x] = [by |-> f[1], oport |-> f[2], partition |-> x[2]]
  BY JoinedPlaces
<1>3. \A f \in F : \E x \in DOMAIN all : all[x] = [by |-> f[1], oport |-> f[2], partition |-> q]
  BY JoinedPlaces
<1>4. \A x, y \in DOMAIN all : all[x] = all[y] => x = y
  BY JoinedPlaces DEF IsInjective
<1> HIDE DEF all
<1>5. Range(part) = RecordsIn(F, {q})
  <2>1. ASSUME NEW r \in Range(part)
        PROVE  r \in RecordsIn(F, {q})
    <3>1. PICK x \in at : r = all[x]
      BY DEF Range
    <3>2. PICK f \in F : all[x] = [by |-> f[1], oport |-> f[2], partition |-> x[2]]
      BY <1>2
    <3>3. x[2] = q
      BY <3>1, <3>2
    <3> QED
      BY <3>1, <3>2, <3>3 DEF RecordsIn
  <2>2. ASSUME NEW r \in RecordsIn(F, {q})
        PROVE  r \in Range(part)
    <3>1. PICK f \in F : r = [by |-> f[1], oport |-> f[2], partition |-> q]
      BY DEF RecordsIn
    <3>2. PICK x \in DOMAIN all : all[x] = [by |-> f[1], oport |-> f[2], partition |-> q]
      BY <1>3
    <3>3. x \in at /\ part[x] = r
      BY <3>1, <3>2
    <3> QED
      BY <3>3 DEF Range
  <2> QED
    BY <2>1, <2>2
<1>6. IsInjective(part)
  BY <1>4 DEF IsInjective
<1> QED
  BY <1>1, <1>5, <1>6 DEF Exactly

\* One more element.
LEMMA ExactlyAppend ==
  ASSUME NEW s, DOMAIN s = 1 .. Len(s), Len(s) \in Nat, NEW R, Exactly(s, R), NEW x, x \notin R
  PROVE  Exactly(Append(s, x), R \cup {x})
<1>1. /\ DOMAIN Append(s, x) = 1 .. Len(s) + 1
      /\ \A i \in 1 .. Len(s) : Append(s, x)[i] = s[i]
      /\ Append(s, x)[Len(s) + 1] = x
  OBVIOUS
<1> QED
  BY <1>1 DEF Exactly, IsInjective, Range

LEMMA ExactlyMore ==
  ASSUME NEW f, NEW R, Exactly(f, R), NEW g, NEW k, NEW x, x \notin R, k \notin DOMAIN f,
         DOMAIN g = DOMAIN f \cup {k}, \A i \in DOMAIN f : g[i] = f[i], g[k] = x
  PROVE  Exactly(g, R \cup {x})
BY DEF Exactly, IsInjective, Range

-----------------------------------------------------------------------------
(* Flushes, and what has been received of them.                            *)

LEMMA FlushForm ==
  ASSUME Flushes, NEW f \in flushed
  PROVE  /\ IsFlush(f) /\ f[1] \in Tasks /\ f[1][1][1] = "process" /\ Started(f[1])
         /\ f[1][1] = Process(f[1][1][2]) /\ f[1][1][2] \in Vertices /\ f[2] \in OPorts(f[1][1][2])
<1>1. PICK t \in Tasks : \E o \in OPorts(t[1][2]) : f = <<t, o>> /\ t[1][1] = "process" /\ Started(t)
  BY DEF Flushes
<1>2. PICK o \in OPorts(t[1][2]) : f = <<t, o>>
  BY <1>1
<1>3. f[1] = t /\ f[2] = o
  BY <1>2
<1>4. t[1] \in LogicalTasks
  BY TaskForm
<1> QED
  BY <1>1, <1>2, <1>3, <1>4, LogicalKind DEF IsFlush

\* No task writes to the output ports ps any more.
Closed(ps) ==
  \A t \in Tasks : t[1][1] = "process" /\ (\E o : <<t[1][2], o>> \in ps) => status[t] # "running"

LEMMA ReadyClosed ==
  ASSUME Control, NEW l \in LogicalTasks, l[1] \in {"gather", "shuffle"},
         \A u \in preds[BarrierTask(l)] : status[u] = "done"
  PROVE  Closed(l[2])
<1> SUFFICES ASSUME NEW t \in Tasks, t[1][1] = "process", NEW o, <<t[1][2], o>> \in l[2]
             PROVE  status[t] # "running"
  BY DEF Closed
<1>1. t[1] = Process(t[1][2])
  BY TaskForm, LogicalKind
<1>2. PICK e \in Edges : e.from = Process(t[1][2]) /\ SuccessorTask(e) = BarrierTask(l)
  <2>1. <<t[1][2], o>>[1] = t[1][2]
    OBVIOUS
  <2> QED
    BY <2>1, SourceEdge
<1>3. TerminalTask(e.from) \in preds[BarrierTask(l)]
  BY <1>2, EdgeOrder DEF Control, Ordered, PhasesOrdered
<1>4. status[TerminalTask(t[1])] = "done"
  BY <1>1, <1>2, <1>3
<1> QED
  BY <1>4, TerminalIsLast DEF Started

LEMMA StartedClosed ==
  ASSUME Control, NEW l \in LogicalTasks, l[1] \in {"gather", "shuffle"}, Started(BarrierTask(l))
  PROVE  Closed(l[2])
BY ReadyClosed, PhaseTasks, InitialTasks DEF Control, Ordered, PredsDone

LEMMA ClosedReceived ==
  ASSUME Callers, Flushes, NEW ps, Closed(ps), NEW l, NEW port
  PROVE  Received(ps, l, port) = FlushedTo(ps)
<1>1. ASSUME NEW f \in FlushedTo(ps)
      PROVE  calls[f[1]] = {}
  <2>1. f \in flushed /\ <<f[1][1][2], f[2]>> \in ps
    BY DEF FlushedTo
  <2>2. f[1] \in Tasks /\ f[1][1][1] = "process"
    BY <2>1, FlushForm
  <2>3. status[f[1]] # "running"
    BY <2>1, <2>2 DEF Closed
  <2> QED
    BY <2>2, <2>3 DEF Callers
<1> QED
  BY <1>1 DEF Received

LEMMA ClosedFlushed ==
  ASSUME NEW ps, Closed(ps), NEW t \in Tasks, t[1][1] = "process", status[t] = "running", NEW o,
         flushed' = flushed \cup {<<t, o>>}
  PROVE  FlushedTo(ps)' = FlushedTo(ps)
<1>1. <<t[1][2], o>> \notin ps
  BY DEF Closed
<1>2. <<<<t, o>>[1][1][2], <<t, o>>[2]>> = <<t[1][2], o>>
  OBVIOUS
<1> QED
  BY <1>1, <1>2 DEF FlushedTo

\* How the calls change what has been received.
LEMMA ReceivedSame ==
  ASSUME Flushes, flushed' = flushed,
         \A t \in Tasks : t[1][1] = "process" => calls'[t] = calls[t],
         NEW ps, NEW l, NEW port
  PROVE  Received(ps, l, port)' = Received(ps, l, port)
<1>1. \A f \in flushed : calls'[f[1]] = calls[f[1]]
  BY FlushForm
<1> QED
  BY <1>1 DEF Received, FlushedTo

LEMMA ReceivedOnDeliver ==
  ASSUME Control, Callers, Flushes, flushed' = flushed,
         NEW t \in Tasks, t[1][1] = "process", NEW c \in calls[t],
         \A u \in Tasks : calls'[u] = IF u = t THEN calls[t] \ {c} ELSE calls[u]
  PROVE  \E f \in flushed :
           /\ f[1] = t /\ c \in CommitFragment(t[1], f[2], 0, FlushOf(f))
           /\ \A ps, l, port :
                Received(ps, l, port)' =
                  IF l = c.to /\ port = c.port THEN Received(ps, l, port) \cup ({f} \cap FlushedTo(ps))
                  ELSE Received(ps, l, port)
           /\ \A ps : f \notin Received(ps, c.to, c.port)
<1>1. PICK f \in flushed : f[1] = t /\ c \in CommitFragment(t[1], f[2], 0, FlushOf(f))
  BY DEF Flushes
<1>2. c = [to |-> c.to, port |-> c.port, partition |-> 0, fragment |-> FlushOf(f)]
  BY <1>1 DEF CommitFragment
<1>3. \A g \in flushed : IsFlush(g) /\ g[1] \in Tasks
  BY FlushForm
<1>4. \A u \in Tasks : calls'[u] = IF u = t THEN calls[t] \ {c} ELSE calls[u]
  OBVIOUS
<1>5. ASSUME NEW ps, NEW l, NEW port
      PROVE  Received(ps, l, port)' =
               IF l = c.to /\ port = c.port THEN Received(ps, l, port) \cup ({f} \cap FlushedTo(ps))
               ELSE Received(ps, l, port)
  <2> DEFINE call(g) == [to |-> l, port |-> port, partition |-> 0, fragment |-> FlushOf(g)]
  <2>1. Received(ps, l, port) = {g \in FlushedTo(ps) : call(g) \notin calls[g[1]]}
    BY DEF Received
  <2>2. Received(ps, l, port)' = {g \in FlushedTo(ps) : call(g) \notin calls'[g[1]]}
    BY DEF Received, FlushedTo, FlushOf
  <2>3. \A g \in FlushedTo(ps) : g \in flushed
    BY DEF FlushedTo
  <2>4. ASSUME NEW g \in FlushedTo(ps)
        PROVE  call(g) = c => l = c.to /\ port = c.port /\ g = f
    <3>1. SUFFICES ASSUME call(g) = c
                   PROVE  l = c.to /\ port = c.port /\ FlushOf(g) = FlushOf(f)
      BY <1>3, <2>3, FlushOfInjective
    <3> QED
      BY <1>2, <3>1
  <2>5. l = c.to /\ port = c.port => call(f) = c
    BY <1>2
  <2> HIDE DEF call
  <2>6. ASSUME NEW g \in FlushedTo(ps)
        PROVE  call(g) \notin calls'[g[1]]
               <=> call(g) \notin calls[g[1]] \/ (l = c.to /\ port = c.port /\ g = f)
    BY <1>1, <1>3, <1>4, <2>3, <2>4, <2>5
  <2> QED
    BY <2>1, <2>2, <2>6
<1>6. ASSUME NEW ps
      PROVE  f \notin Received(ps, c.to, c.port)
  BY <1>1, <1>2 DEF Received
<1> QED
  BY <1>1, <1>5, <1>6

LEMMA ReceivedOnFlush ==
  ASSUME Control, Flushes, NEW t \in Tasks, calls[t] = {}, NEW o, <<t, o>> \notin flushed,
         flushed' = flushed \cup {<<t, o>>},
         \A u \in Tasks : calls'[u] = IF u = t THEN CommitFragment(t[1], o, 0, FlushOf(<<t, o>>)) ELSE calls[u],
         NEW ps, NEW l, NEW port,
         <<t[1][2], o>> \in ps =>
           \E e \in Edges : e.from = t[1] /\ e.oport = o /\ e.to = l /\ e.port = port
  PROVE  Received(ps, l, port)' = Received(ps, l, port)
<1> DEFINE new == <<t, o>>
           call(g) == [to |-> l, port |-> port, partition |-> 0, fragment |-> FlushOf(g)]
<1>1. \A g \in flushed : IsFlush(g) /\ g[1] \in Tasks
  BY FlushForm
<1>2. new[1] = t /\ new[2] = o /\ IsFlush(new)
  BY DEF IsFlush
<1>3. \A u \in Tasks : calls'[u] = IF u = t THEN CommitFragment(t[1], o, 0, FlushOf(new)) ELSE calls[u]
  OBVIOUS
<1>4. Received(ps, l, port) = {g \in flushed : <<g[1][1][2], g[2]>> \in ps /\ call(g) \notin calls[g[1]]}
  BY DEF Received, FlushedTo
<1>5. Received(ps, l, port)' = {g \in flushed' : <<g[1][1][2], g[2]>> \in ps /\ call(g) \notin calls'[g[1]]}
  BY DEF Received, FlushedTo, FlushOf
<1>6. ASSUME <<t[1][2], o>> \in ps
      PROVE  call(new) \in calls'[t]
  <2>1. PICK e \in Edges : e.from = t[1] /\ e.oport = o /\ e.to = l /\ e.port = port
    BY <1>6
  <2>2. call(new) = [to |-> e.to, port |-> e.port, partition |-> 0, fragment |-> FlushOf(new)]
    BY <2>1
  <2>3. call(new) \in CommitFragment(t[1], o, 0, FlushOf(new))
    BY <2>1, <2>2 DEF CommitFragment
  <2> QED
    BY <1>3, <2>3
<1>7. ASSUME NEW g \in flushed
      PROVE  call(g) \notin calls'[g[1]] <=> call(g) \notin calls[g[1]]
  <2>1. CASE g[1] # t
    BY <1>1, <1>3, <2>1
  <2>2. CASE g[1] = t
    <3>1. g # new
      OBVIOUS
    <3>2. FlushOf(g) # FlushOf(new)
      BY <1>1, <1>2, <3>1, FlushOfInjective
    <3>3. ASSUME call(g) \in calls'[t]
          PROVE  FALSE
      <4>1. call(g).fragment = FlushOf(new)
        BY <1>3, <3>3, CommitAlongEdges
      <4> QED
        BY <3>2, <4>1
    <3> QED
      BY <2>2, <3>3
  <2> QED
    BY <2>1, <2>2
<1> HIDE DEF call, new
<1>8. flushed' = flushed \cup {new}
  BY DEF new
<1>9. <<new[1][1][2], new[2]>> \in ps => call(new) \in calls'[new[1]]
  BY <1>2, <1>6
<1> QED
  BY <1>4, <1>5, <1>7, <1>8, <1>9

-----------------------------------------------------------------------------
(* What a step leaves alone.                                               *)

LEMMA FrameFlushes ==
  ASSUME Flushes, flushed' = flushed,
         \A t \in Tasks : t[1][1] = "process" => calls'[t] \subseteq calls[t],
         \A t \in Tasks : Started(t) => Started(t)'
  PROVE  Flushes'
<1>1. \A f \in flushed' :
        \E t \in Tasks : \E o \in OPorts(t[1][2]) :
          f = <<t, o>> /\ t[1][1] = "process" /\ Started(t)'
  BY DEF Flushes
<1>2. \A t \in Tasks : t[1][1] = "process" =>
        \A c \in calls'[t] :
          \E f \in flushed' : f[1] = t /\ c \in CommitFragment(t[1], f[2], 0, FlushOf(f))
  BY DEF Flushes
<1> QED
  BY <1>1, <1>2 DEF Flushes

LEMMA FrameGathers ==
  ASSUME Gathers,
         \A l \in OfClass("gather") :
           /\ inputs'[l] = inputs[l] /\ calls'[EntryTask(l)] \subseteq calls[EntryTask(l)]
           /\ status[EntryTask(l)] = "done" => status'[EntryTask(l)] = "done"
           /\ Received(l[2], l, 1)' = Received(l[2], l, 1)
           /\ calls[EntryTask(l)] # {} => RecordsOf(l[2], Partitions)' = RecordsOf(l[2], Partitions)
  PROVE  Gathers'
<1> SUFFICES ASSUME NEW l \in OfClass("gather")
             PROVE  /\ status'[EntryTask(l)] # "done" =>
                         Exactly(inputs'[l], FlushesIn(Received(l[2], l, 1)'))
                    /\ \A c \in calls'[EntryTask(l)] : Exactly(c.fragment, RecordsOf(l[2], Partitions)')
  BY DEF Gathers
<1> QED
  BY DEF Gathers

LEMMA FrameShuffleCommands ==
  ASSUME ShuffleCommands,
         \A l \in OfClass("shuffle") :
           /\ Numbers(l)' = Numbers(l)
           /\ \A k \in Numbers(l) : given'[Command(l, k)] = given[Command(l, k)]
           /\ Received(l[2], l, 1)' = Received(l[2], l, 1)
  PROVE  ShuffleCommands'
<1> SUFFICES ASSUME NEW l \in OfClass("shuffle")
             PROVE  /\ \E n \in 0 .. MaxCommands : Numbers(l)' = 1 .. n
                    /\ Exactly([k \in Numbers(l)' |-> given'[Command(l, k)][1]],
                               FlushesIn(Received(l[2], l, 1)'))
  BY DEF ShuffleCommands
<1>1. [k \in Numbers(l)' |-> given'[Command(l, k)][1]] = [k \in Numbers(l) |-> given[Command(l, k)][1]]
  OBVIOUS
<1> QED
  BY <1>1 DEF ShuffleCommands

LEMMA FrameShuffleInputs ==
  ASSUME ShuffleInputs,
         \A l \in OfClass("shuffle") : status'[BarrierTask(l)] # "done" =>
           /\ inputs'[l] = inputs[l]
           /\ {k \in Numbers(l)' : status'[Command(l, k)] = "done"}
              = {k \in Numbers(l) : status[Command(l, k)] = "done"}
           /\ \A k \in Numbers(l) : given'[Command(l, k)] = given[Command(l, k)]
           /\ status[BarrierTask(l)] # "done"
  PROVE  ShuffleInputs'
<1> SUFFICES ASSUME NEW l \in OfClass("shuffle"), status'[BarrierTask(l)] # "done"
             PROVE  Exactly(inputs'[l], {given'[Command(l, k)][1] :
                               k \in {i \in Numbers(l)' : status'[Command(l, i)] = "done"}})
  BY DEF ShuffleInputs
<1>1. {given'[Command(l, k)][1] : k \in {i \in Numbers(l)' : status'[Command(l, i)] = "done"}}
      = {given[Command(l, k)][1] : k \in {i \in Numbers(l) : status[Command(l, i)] = "done"}}
  OBVIOUS
<1> QED
  BY <1>1 DEF ShuffleInputs

LEMMA FrameSortCommands ==
  ASSUME SortCommands,
         \A l \in OfClass("shuffle") :
           /\ status'[BarrierTask(l)] = "done" <=> status[BarrierTask(l)] = "done"
           /\ status[BarrierTask(l)] = "done" => FlushedTo(l[2])' = FlushedTo(l[2])
           /\ \A q \in Partitions :
                /\ status'[SortCommand(l, q)] # "none" <=> status[SortCommand(l, q)] # "none"
                /\ given'[SortCommand(l, q)] = given[SortCommand(l, q)]
                /\ calls'[SortCommand(l, q)] \subseteq calls[SortCommand(l, q)]
                /\ calls'[SortCommand(l, q)] # {} => status[SortCommand(l, q)] # "none"
  PROVE  SortCommands'
<1> SUFFICES ASSUME NEW l \in OfClass("shuffle"), NEW q \in Partitions
             PROVE  LET t == SortCommand(l, q) IN
                    /\ status'[t] # "none" <=> status'[BarrierTask(l)] = "done"
                    /\ status'[t] # "none" => Exactly(given'[t][1], FlushesIn(FlushedTo(l[2])'))
                    /\ \A c \in calls'[t] : c.partition = q /\ Exactly(c.fragment, RecordsIn(FlushedTo(l[2])', {q}))
  BY DEF SortCommands, RecordsOf
<1> QED
  BY DEF SortCommands, RecordsOf

LEMMA FrameValueSorts ==
  ASSUME ValueSorts,
         \A p \in InPorts("scatter_gather") : Inputs[p[1]][p[2]].sorted =>
           LET l == ValueSort(p) IN
           /\ Numbers(l)' = Numbers(l)
           /\ \A q \in Partitions : Sent(SortCommand(Shuffle(Sources(p)), q), l, 1)'
                                   <=> Sent(SortCommand(Shuffle(Sources(p)), q), l, 1)
           /\ Numbers(l) # {} => FlushedTo(Sources(p))' = FlushedTo(Sources(p))
           /\ \A k \in 1 .. MaxCommands :
                /\ given'[Command(l, k)] = given[Command(l, k)]
                /\ calls'[Command(l, k)] \subseteq calls[Command(l, k)]
                /\ calls'[Command(l, k)] # {} => k \in Numbers(l)
  PROVE  ValueSorts'
<1> SUFFICES ASSUME NEW p \in InPorts("scatter_gather"), Inputs[p[1]][p[2]].sorted
             PROVE  LET l == ValueSort(p) IN
                    /\ Numbers(l)' = {q \in Partitions : Sent(SortCommand(Shuffle(Sources(p)), q), l, 1)'}
                    /\ \A k \in Numbers(l)' : Exactly(given'[Command(l, k)][1], RecordsIn(FlushedTo(Sources(p))', {k}))
                    /\ \A k \in 1 .. MaxCommands : \A c \in calls'[Command(l, k)] :
                         c.partition = k /\ Exactly(c.fragment, RecordsIn(FlushedTo(Sources(p))', {k}))
  BY DEF ValueSorts, RecordsOf
<1> DEFINE l == ValueSort(p)
<1>1. /\ Numbers(l)' = Numbers(l)
      /\ Numbers(l)' = {q \in Partitions : Sent(SortCommand(Shuffle(Sources(p)), q), l, 1)'}
  BY DEF ValueSorts
<1>2. Numbers(l) \subseteq 1 .. MaxCommands
  BY DEF Numbers
<1>3. Numbers(l) # {} => FlushedTo(Sources(p))' = FlushedTo(Sources(p))
  OBVIOUS
<1>4. /\ \A k \in Numbers(l) : Exactly(given[Command(l, k)][1], RecordsIn(FlushedTo(Sources(p)), {k}))
      /\ \A k \in 1 .. MaxCommands : \A c \in calls[Command(l, k)] :
           c.partition = k /\ Exactly(c.fragment, RecordsIn(FlushedTo(Sources(p)), {k}))
  BY DEF ValueSorts, RecordsOf
<1>5. \A k \in 1 .. MaxCommands :
        /\ given'[Command(l, k)] = given[Command(l, k)]
        /\ calls'[Command(l, k)] \subseteq calls[Command(l, k)]
        /\ calls'[Command(l, k)] # {} => k \in Numbers(l)
  OBVIOUS
<1>6. ASSUME NEW k \in Numbers(l)'
      PROVE  Exactly(given'[Command(l, k)][1], RecordsIn(FlushedTo(Sources(p))', {k}))
  <2>1. k \in Numbers(l) /\ k \in 1 .. MaxCommands
    BY <1>1, <1>2
  <2>2. FlushedTo(Sources(p))' = FlushedTo(Sources(p)) /\ given'[Command(l, k)] = given[Command(l, k)]
    BY <2>1, <1>3, <1>5
  <2> QED
    BY <2>1, <2>2, <1>4
<1>7. ASSUME NEW k \in 1 .. MaxCommands, NEW c \in calls'[Command(l, k)]
      PROVE  c.partition = k /\ Exactly(c.fragment, RecordsIn(FlushedTo(Sources(p))', {k}))
  <2>1. k \in Numbers(l) /\ c \in calls[Command(l, k)]
    BY <1>5
  <2>2. FlushedTo(Sources(p))' = FlushedTo(Sources(p))
    BY <2>1, <1>3
  <2> QED
    BY <2>1, <2>2, <1>4
<1> QED
  BY <1>1, <1>6, <1>7

LEMMA FramePools ==
  ASSUME Pools,
         \A v \in Vertices : \A q \in Partitions :
           /\ waiting'[v][q] = waiting[v][q] /\ pool'[v][q] = pool[v][q]
           /\ Arrived(v, q)' = Arrived(v, q)
           /\ \A j \in Arrived(v, q) : FlushedTo(Sources(<<v, j>>))' = FlushedTo(Sources(<<v, j>>))
  PROVE  Pools'
<1> SUFFICES ASSUME NEW v \in Vertices, NEW q \in Partitions
             PROVE  /\ waiting'[v][q] = Cardinality(ScatterGatherPorts(v) \ Arrived(v, q)')
                    /\ Arrived(v, q)' # ScatterGatherPorts(v) =>
                         /\ DOMAIN pool'[v][q] = Arrived(v, q)'
                         /\ \A j \in Arrived(v, q)' :
                              Exactly(pool'[v][q][j], RecordsIn(FlushedTo(Sources(<<v, j>>))', {q}))
  BY DEF Pools, RecordsOf
<1>1. /\ waiting[v][q] = Cardinality(ScatterGatherPorts(v) \ Arrived(v, q))
      /\ Arrived(v, q) # ScatterGatherPorts(v) =>
           /\ DOMAIN pool[v][q] = Arrived(v, q)
           /\ \A j \in Arrived(v, q) :
                Exactly(pool[v][q][j], RecordsIn(FlushedTo(Sources(<<v, j>>)), {q}))
  BY DEF Pools, RecordsOf
<1>2. /\ waiting'[v][q] = waiting[v][q] /\ pool'[v][q] = pool[v][q] /\ Arrived(v, q)' = Arrived(v, q)
      /\ \A j \in Arrived(v, q) : FlushedTo(Sources(<<v, j>>))' = FlushedTo(Sources(<<v, j>>))
  OBVIOUS
<1>3. ASSUME NEW j \in Arrived(v, q)', Arrived(v, q)' # ScatterGatherPorts(v)
      PROVE  Exactly(pool'[v][q][j], RecordsIn(FlushedTo(Sources(<<v, j>>))', {q}))
  BY <1>1, <1>2, <1>3
<1> QED
  BY <1>1, <1>2, <1>3

LEMMA FrameScatterGathers ==
  ASSUME ScatterGathers,
         \A v \in Vertices : CreateProcessTask(v) = "scatter_gather" =>
           /\ Numbers(Process(v))' = Numbers(Process(v))
           /\ \A q \in Numbers(Process(v)) :
                given'[Command(Process(v), q)] = given[Command(Process(v), q)]
           /\ \A q \in Partitions :
                /\ Arrived(v, q)' = Arrived(v, q)
                /\ \A j \in Arrived(v, q) : FlushedTo(Sources(<<v, j>>))' = FlushedTo(Sources(<<v, j>>))
  PROVE  ScatterGathers'
<1> SUFFICES ASSUME NEW v \in Vertices, CreateProcessTask(v) = "scatter_gather"
             PROVE  /\ Numbers(Process(v))' = {q \in Partitions : Arrived(v, q)' = ScatterGatherPorts(v)}
                    /\ \A q \in Numbers(Process(v))' : \A j \in ScatterGatherPorts(v) :
                         /\ j \in DOMAIN given'[Command(Process(v), q)]
                         /\ Exactly(given'[Command(Process(v), q)][j], RecordsIn(FlushedTo(Sources(<<v, j>>))', {q}))
  BY DEF ScatterGathers, RecordsOf
<1>1. /\ Numbers(Process(v)) = {q \in Partitions : Arrived(v, q) = ScatterGatherPorts(v)}
      /\ \A q \in Numbers(Process(v)) : \A j \in ScatterGatherPorts(v) :
           /\ j \in DOMAIN given[Command(Process(v), q)]
           /\ Exactly(given[Command(Process(v), q)][j], RecordsIn(FlushedTo(Sources(<<v, j>>)), {q}))
  BY DEF ScatterGathers, RecordsOf
<1>2. Numbers(Process(v))' = {q \in Partitions : Arrived(v, q)' = ScatterGatherPorts(v)}
  BY <1>1
<1>3. ASSUME NEW q \in Numbers(Process(v))', NEW j \in ScatterGatherPorts(v)
      PROVE  /\ j \in DOMAIN given'[Command(Process(v), q)]
             /\ Exactly(given'[Command(Process(v), q)][j], RecordsIn(FlushedTo(Sources(<<v, j>>))', {q}))
  <2>1. q \in Numbers(Process(v)) /\ q \in Partitions /\ Arrived(v, q) = ScatterGatherPorts(v)
    BY <1>1
  <2>2. FlushedTo(Sources(<<v, j>>))' = FlushedTo(Sources(<<v, j>>))
    BY <2>1
  <2>3. given'[Command(Process(v), q)] = given[Command(Process(v), q)]
    BY <2>1
  <2> QED
    BY <1>1, <2>1, <2>2, <2>3
<1> QED
  BY <1>2, <1>3

LEMMA FrameOneToOnes ==
  ASSUME OneToOnes,
         \A v \in Vertices : CreateProcessTask(v) = "one_to_one" =>
           /\ Numbers(Process(v))' = Numbers(Process(v))
           /\ \A k \in Numbers(Process(v)) :
                given'[Command(Process(v), k)] = given[Command(Process(v), k)]
           /\ \A j \in DOMAIN Inputs[v] : Inputs[v][j].movement = "one_to_one" =>
                Received(Sources(<<v, j>>), Process(v), j)' = Received(Sources(<<v, j>>), Process(v), j)
  PROVE  OneToOnes'
<1> SUFFICES ASSUME NEW v \in Vertices, CreateProcessTask(v) = "one_to_one"
             PROVE  /\ \E n \in 0 .. MaxCommands : Numbers(Process(v))' = 1 .. n
                    /\ \A j \in DOMAIN Inputs[v] : Inputs[v][j].movement = "one_to_one" =>
                         Exactly([k \in {i \in Numbers(Process(v))' : j \in DOMAIN given'[Command(Process(v), i)]} |->
                                    given'[Command(Process(v), k)][j]],
                                 FlushesIn(Received(Sources(<<v, j>>), Process(v), j)'))
  BY DEF OneToOnes
<1>1. ASSUME NEW j
      PROVE  [k \in {i \in Numbers(Process(v))' : j \in DOMAIN given'[Command(Process(v), i)]} |->
                given'[Command(Process(v), k)][j]]
             = [k \in {i \in Numbers(Process(v)) : j \in DOMAIN given[Command(Process(v), i)]} |->
                  given[Command(Process(v), k)][j]]
  OBVIOUS
<1> QED
  BY <1>1 DEF OneToOnes

LEMMA FrameBroadcasts ==
  ASSUME Broadcasts,
         \A p \in InPorts("broadcast") :
           LET g == EntryTask(Gather(Sources(p))) IN
           /\ Sent(g, Process(p[1]), p[2])' => Sent(g, Process(p[1]), p[2])
           /\ status[TerminalTask(Process(p[1]))] = "done" => status'[TerminalTask(Process(p[1]))] = "done"
           /\ status'[TerminalTask(Process(p[1]))] # "done" => broadcasts'[p[1]] = broadcasts[p[1]]
           /\ Started(g) => FlushedTo(Sources(p))' = FlushedTo(Sources(p))
  PROVE  Broadcasts'
<1> SUFFICES ASSUME NEW p \in InPorts("broadcast"),
                    Sent(EntryTask(Gather(Sources(p))), Process(p[1]), p[2])',
                    status'[TerminalTask(Process(p[1]))] # "done"
             PROVE  /\ p[2] \in DOMAIN broadcasts'[p[1]]
                    /\ Exactly(broadcasts'[p[1]][p[2]], RecordsIn(FlushedTo(Sources(p))', Partitions))
  BY DEF Broadcasts, RecordsOf
<1>1. Sent(EntryTask(Gather(Sources(p))), Process(p[1]), p[2])
  OBVIOUS
<1>2. /\ p[2] \in DOMAIN broadcasts[p[1]]
      /\ Exactly(broadcasts[p[1]][p[2]], RecordsIn(FlushedTo(Sources(p)), Partitions))
  BY <1>1 DEF Broadcasts, RecordsOf
<1>3. FlushedTo(Sources(p))' = FlushedTo(Sources(p))
  BY <1>1 DEF Sent
<1>4. broadcasts'[p[1]] = broadcasts[p[1]]
  OBVIOUS
<1> QED
  BY <1>2, <1>3, <1>4

-----------------------------------------------------------------------------
(* Which tasks feed which ports.                                           *)

LEMMA OfClassForm ==
  ASSUME NEW class, NEW l \in OfClass(class)
  PROVE  l \in LogicalTasks /\ l[1] = class
BY DEF OfClass

LEMMA FeederForm ==
  ASSUME NEW p \in InPorts("scatter_gather"), NEW q \in Partitions
  PROVE  /\ Feeder(p, q)[1] = FeederOf(p) /\ Feeder(p, q)[3] = q
         /\ Inputs[p[1]][p[2]].sorted =>
              /\ Feeder(p, q) = Command(ValueSort(p), q) /\ Feeder(p, q)[2] = "command"
              /\ FeederOf(p) = ValueSort(p) /\ FeederOf(p)[1] = "value_sort"
              /\ Feeder(p, q) \in Tasks => q \in 1 .. MaxCommands
         /\ ~Inputs[p[1]][p[2]].sorted =>
              /\ Feeder(p, q) = SortCommand(Shuffle(Sources(p)), q) /\ Feeder(p, q)[2] = "sort"
              /\ FeederOf(p) = Shuffle(Sources(p)) /\ FeederOf(p)[1] = "shuffle"
              /\ Feeder(p, q) \in Tasks
         /\ FeederOf(p) \in LogicalTasks /\ FeederOf(p)[1] # "process"
<1>1. FeederOf(p) \in LogicalTasks /\ Shuffle(Sources(p)) \in LogicalTasks
  BY ScatterGatherEdge
<1>2. CASE Inputs[p[1]][p[2]].sorted
  <2>1. Feeder(p, q) = Command(ValueSort(p), q) /\ FeederOf(p) = ValueSort(p)
    BY <1>2 DEF Feeder, FeederOf
  <2>2. Command(ValueSort(p), q) \in Tasks => q \in 1 .. MaxCommands
    BY <1>1, <2>1, CommandTasks
  <2> QED
    BY <1>1, <1>2, <2>1, <2>2 DEF Command, ValueSort
<1>3. CASE ~Inputs[p[1]][p[2]].sorted
  <2>1. Feeder(p, q) = SortCommand(Shuffle(Sources(p)), q) /\ FeederOf(p) = Shuffle(Sources(p))
    BY <1>3 DEF Feeder, FeederOf
  <2>2. Shuffle(Sources(p))[1] = "shuffle"
    BY DEF Shuffle
  <2>3. SortCommand(Shuffle(Sources(p)), q) \in Tasks
    BY <1>1, <2>2, CommandTasks
  <2> QED
    BY <1>1, <1>3, <2>1, <2>2, <2>3 DEF SortCommand
<1> QED
  BY <1>2, <1>3

LEMMA PortsOfClass ==
  ASSUME NEW v \in Vertices, NEW j \in ScatterGatherPorts(v)
  PROVE  <<v, j>> \in InPorts("scatter_gather")
BY PortOf DEF ScatterGatherPorts

\* A partition that has been made has all there is of its sources.
LEMMA SortedClosed ==
  ASSUME Control, SortCommands, NEW l \in OfClass("shuffle"), NEW q \in Partitions,
         status[SortCommand(l, q)] # "none"
  PROVE  Closed(l[2])
<1>1. l \in LogicalTasks /\ l[1] = "shuffle"
  BY OfClassForm
<1>2. status[BarrierTask(l)] = "done"
  BY DEF SortCommands
<1> QED
  BY <1>1, <1>2, StartedClosed DEF Started

LEMMA ValueSortClosed ==
  ASSUME Control, SortCommands, ValueSorts,
         NEW p \in InPorts("scatter_gather"), Inputs[p[1]][p[2]].sorted, Numbers(ValueSort(p)) # {}
  PROVE  Closed(Sources(p))
<1>1. PICK q \in Partitions : Sent(SortCommand(Shuffle(Sources(p)), q), ValueSort(p), 1)
  BY DEF ValueSorts
<1>2. Shuffle(Sources(p)) \in OfClass("shuffle") /\ Shuffle(Sources(p))[2] = Sources(p)
  BY ScatterGatherEdge DEF OfClass, Shuffle
<1>3. status[SortCommand(Shuffle(Sources(p)), q)] # "none"
  BY <1>1 DEF Sent, Started
<1> QED
  BY <1>2, <1>3, SortedClosed

LEMMA FeederClosed ==
  ASSUME Control, SortCommands, ValueSorts,
         NEW p \in InPorts("scatter_gather"), NEW q \in Partitions,
         Feeder(p, q) \in Tasks, status[Feeder(p, q)] # "none"
  PROVE  Closed(Sources(p))
<1>1. CASE Inputs[p[1]][p[2]].sorted
  <2>1. q \in Numbers(ValueSort(p))
    BY <1>1, FeederForm DEF Numbers
  <2> QED
    BY <1>1, <2>1, ValueSortClosed
<1>2. CASE ~Inputs[p[1]][p[2]].sorted
  <2>1. Feeder(p, q) = SortCommand(Shuffle(Sources(p)), q)
    BY <1>2, FeederForm
  <2>2. Shuffle(Sources(p)) \in OfClass("shuffle") /\ Shuffle(Sources(p))[2] = Sources(p)
    BY ScatterGatherEdge DEF OfClass, Shuffle
  <2> QED
    BY <2>1, <2>2, SortedClosed
<1> QED
  BY <1>1, <1>2

LEMMA ArrivedClosed ==
  ASSUME Control, SortCommands, ValueSorts,
         NEW v \in Vertices, NEW q \in Partitions, NEW j \in Arrived(v, q)
  PROVE  Closed(Sources(<<v, j>>))
<1>1. /\ <<v, j>> \in InPorts("scatter_gather") /\ Feeder(<<v, j>>, q) \in Tasks
      /\ status[Feeder(<<v, j>>, q)] # "none"
  BY PortsOfClass DEF Arrived, Sent, Started
<1> QED
  BY <1>1, FeederClosed

LEMMA BroadcastClosed ==
  ASSUME Control, NEW p \in InPorts("broadcast"), Started(EntryTask(Gather(Sources(p))))
  PROVE  Closed(Sources(p))
<1>1. Gather(Sources(p)) \in LogicalTasks
  BY BroadcastEdge
<1>2. /\ Gather(Sources(p))[1] = "gather" /\ Gather(Sources(p))[2] = Sources(p)
      /\ BarrierTask(Gather(Sources(p))) = EntryTask(Gather(Sources(p)))
  BY DEF Gather, BarrierTask
<1> QED
  BY <1>1, <1>2, StartedClosed

\* What has been sent depends on the senders.
LEMMA ArrivedSame ==
  ASSUME \A u \in Tasks : u[1][1] \in {"shuffle", "value_sort"} =>
           /\ Started(u)' <=> Started(u)
           /\ calls'[u] = calls[u],
         NEW v \in Vertices, NEW q \in Partitions
  PROVE  Arrived(v, q)' = Arrived(v, q)
<1>1. ASSUME NEW j \in ScatterGatherPorts(v), Feeder(<<v, j>>, q) \in Tasks
      PROVE  Sent(Feeder(<<v, j>>, q), Process(v), j)' <=> Sent(Feeder(<<v, j>>, q), Process(v), j)
  <2> DEFINE u == Feeder(<<v, j>>, q)
  <2>1. u[1][1] \in {"shuffle", "value_sort"}
    BY PortsOfClass, FeederForm
  <2>2. (Started(u)' <=> Started(u)) /\ calls'[u] = calls[u]
    BY <1>1, <2>1
  <2> QED
    BY <2>2 DEF Sent
<1> QED
  BY <1>1 DEF Arrived

-----------------------------------------------------------------------------
(* Steps that make no call and give no fragment to a new command.          *)

\* The commands of an input processor are given nothing.
InputCommand(u) == u[2] = "command" /\ u[1][1] = "process" /\ CreateProcessTask(u[1][2]) = "input"

Quiet ==
  /\ flushed' = flushed /\ calls' = calls
  /\ \A u \in Tasks :
       /\ Started(u)' <=> Started(u)
       /\ u[2] # "sort" => given'[u] = given[u]
       /\ ~InputCommand(u) /\ u[2] # "sort" => (status'[u] # "none" <=> status[u] # "none")
       /\ calls[u] # {} => status'[u] = status[u]

LEMMA QuietReceived ==
  ASSUME Content, Quiet, NEW ps
  PROVE  FlushedTo(ps)' = FlushedTo(ps) /\ \A l, port : Received(ps, l, port)' = Received(ps, l, port)
<1>1. FlushedTo(ps)' = FlushedTo(ps)
  BY DEF Quiet, FlushedTo
<1>2. ASSUME NEW l, NEW port
      PROVE  Received(ps, l, port)' = Received(ps, l, port)
  BY ReceivedSame DEF Content, Quiet
<1> QED
  BY <1>1, <1>2

LEMMA QuietNumbers ==
  ASSUME Quiet, NEW l \in LogicalTasks, l[1] # "gather",
         l[1] = "process" => CreateProcessTask(l[2]) # "input"
  PROVE  Numbers(l)' = Numbers(l)
<1>1. ASSUME NEW k \in 1 .. MaxCommands
      PROVE  status'[Command(l, k)] # "none" <=> status[Command(l, k)] # "none"
  <2>1. Command(l, k) \in Tasks
    BY CommandTasks
  <2>2. ~InputCommand(Command(l, k)) /\ Command(l, k)[2] # "sort"
    BY DEF InputCommand, Command
  <2> QED
    BY <2>1, <2>2 DEF Quiet
<1> QED
  BY <1>1 DEF Numbers

LEMMA QuietGiven ==
  ASSUME Quiet, NEW l \in LogicalTasks, l[1] # "gather", NEW k \in 1 .. MaxCommands
  PROVE  given'[Command(l, k)] = given[Command(l, k)]
<1>1. Command(l, k) \in Tasks /\ Command(l, k)[2] # "sort"
  BY CommandTasks DEF Command
<1> QED
  BY <1>1 DEF Quiet

LEMMA NumbersForm ==
  ASSUME NEW l, NEW k \in Numbers(l)
  PROVE  k \in 1 .. MaxCommands
BY DEF Numbers

LEMMA QuietSent ==
  ASSUME Quiet, NEW u \in Tasks, NEW l, NEW port
  PROVE  Sent(u, l, port)' <=> Sent(u, l, port)
BY DEF Quiet, Sent

LEMMA QuietArrived ==
  ASSUME Quiet, NEW v \in Vertices, NEW q \in Partitions
  PROVE  Arrived(v, q)' = Arrived(v, q)
BY ArrivedSame DEF Quiet

LEMMA QuietContent ==
  ASSUME Control, Content, Quiet
  PROVE  /\ Callers' /\ Flushes' /\ ShuffleCommands' /\ ValueSorts' /\ ScatterGathers' /\ OneToOnes'
         /\ waiting' = waiting /\ pool' = pool => Pools'
<1>1. Callers'
  BY DEF Content, Quiet, Callers
<1>2. Flushes'
  BY FrameFlushes DEF Content, Quiet
<1>3. ShuffleCommands'
  <2>1. \A l \in OfClass("shuffle") : Numbers(l)' = Numbers(l)
    BY OfClassForm, QuietNumbers
  <2>2. \A l \in OfClass("shuffle") : \A k \in Numbers(l) : given'[Command(l, k)] = given[Command(l, k)]
    BY OfClassForm, NumbersForm, QuietGiven
  <2>3. ShuffleCommands
    BY DEF Content
  <2> QED
    BY <2>1, <2>2, <2>3, QuietReceived, FrameShuffleCommands
<1>4. ValueSorts'
  <2> SUFFICES ASSUME NEW p \in InPorts("scatter_gather"), Inputs[p[1]][p[2]].sorted
               PROVE  LET l == ValueSort(p) IN
                      /\ Numbers(l)' = Numbers(l)
                      /\ \A q \in Partitions : Sent(SortCommand(Shuffle(Sources(p)), q), l, 1)'
                                              <=> Sent(SortCommand(Shuffle(Sources(p)), q), l, 1)
                      /\ Numbers(l) # {} => FlushedTo(Sources(p))' = FlushedTo(Sources(p))
                      /\ \A k \in 1 .. MaxCommands :
                           /\ given'[Command(l, k)] = given[Command(l, k)]
                           /\ calls'[Command(l, k)] \subseteq calls[Command(l, k)]
                           /\ calls'[Command(l, k)] # {} => k \in Numbers(l)
    BY FrameValueSorts DEF Content
  <2> DEFINE l == ValueSort(p)
  <2>1. l \in LogicalTasks /\ l[1] = "value_sort" /\ Shuffle(Sources(p)) \in LogicalTasks
        /\ Shuffle(Sources(p))[1] = "shuffle"
    BY ScatterGatherEdge DEF FeederOf, ValueSort, Shuffle
  <2>2. Numbers(l)' = Numbers(l)
    BY <2>1, QuietNumbers
  <2>3. \A q \in Partitions : SortCommand(Shuffle(Sources(p)), q) \in Tasks
    BY <2>1, CommandTasks
  <2>4. \A q \in Partitions : Sent(SortCommand(Shuffle(Sources(p)), q), l, 1)'
                            <=> Sent(SortCommand(Shuffle(Sources(p)), q), l, 1)
    BY <2>3, QuietSent
  <2>5. FlushedTo(Sources(p))' = FlushedTo(Sources(p))
    BY QuietReceived
  <2>6. ASSUME NEW k \in 1 .. MaxCommands, calls[Command(l, k)] # {}
        PROVE  k \in Numbers(l)
    <3>1. Command(l, k) \in Tasks
      BY <2>1, CommandTasks
    <3> QED
      BY <2>6, <3>1 DEF Content, Callers, Numbers
  <2>7. \A k \in 1 .. MaxCommands : given'[Command(l, k)] = given[Command(l, k)]
    BY <2>1, QuietGiven
  <2> QED
    BY <2>2, <2>4, <2>5, <2>6, <2>7 DEF Quiet
<1>5. ScatterGathers'
  <2> SUFFICES ASSUME NEW v \in Vertices, CreateProcessTask(v) = "scatter_gather"
               PROVE  /\ Numbers(Process(v))' = Numbers(Process(v))
                      /\ \A q \in Numbers(Process(v)) :
                           given'[Command(Process(v), q)] = given[Command(Process(v), q)]
                      /\ \A q \in Partitions :
                           /\ Arrived(v, q)' = Arrived(v, q)
                           /\ \A j \in Arrived(v, q) : FlushedTo(Sources(<<v, j>>))' = FlushedTo(Sources(<<v, j>>))
    BY FrameScatterGathers DEF Content
  <2>1. Process(v) \in LogicalTasks /\ Process(v)[1] = "process" /\ Process(v)[2] = v
    BY ProcessLogical DEF Process
  <2>2. Numbers(Process(v))' = Numbers(Process(v))
    BY <2>1, QuietNumbers
  <2>3. \A q \in Numbers(Process(v)) : given'[Command(Process(v), q)] = given[Command(Process(v), q)]
    BY <2>1, NumbersForm, QuietGiven
  <2> QED
    BY <2>2, <2>3, QuietArrived, QuietReceived
<1>6. OneToOnes'
  <2> SUFFICES ASSUME NEW v \in Vertices, CreateProcessTask(v) = "one_to_one"
               PROVE  /\ Numbers(Process(v))' = Numbers(Process(v))
                      /\ \A k \in Numbers(Process(v)) :
                           given'[Command(Process(v), k)] = given[Command(Process(v), k)]
                      /\ \A j \in DOMAIN Inputs[v] : Inputs[v][j].movement = "one_to_one" =>
                           Received(Sources(<<v, j>>), Process(v), j)' = Received(Sources(<<v, j>>), Process(v), j)
    BY FrameOneToOnes DEF Content
  <2>1. Process(v) \in LogicalTasks /\ Process(v)[1] = "process" /\ Process(v)[2] = v
    BY ProcessLogical DEF Process
  <2>2. Numbers(Process(v))' = Numbers(Process(v))
    BY <2>1, QuietNumbers
  <2>3. \A k \in Numbers(Process(v)) : given'[Command(Process(v), k)] = given[Command(Process(v), k)]
    BY <2>1, NumbersForm, QuietGiven
  <2> QED
    BY <2>2, <2>3, QuietReceived
<1>7. ASSUME waiting' = waiting, pool' = pool
      PROVE  Pools'
  BY <1>7, QuietArrived, QuietReceived, FramePools DEF Content
<1> QED
  BY <1>1, <1>2, <1>3, <1>4, <1>5, <1>6, <1>7

LEMMA QuietGathers ==
  ASSUME Content, Quiet, \A l \in OfClass("gather") : inputs'[l] = inputs[l],
         \A u \in Tasks : status[u] = "done" => status'[u] = "done"
  PROVE  Gathers'
<1>1. \A l \in OfClass("gather") : EntryTask(l) \in Tasks
  BY OfClassForm, PhaseTasks, InitialTasks
<1>2. \A l \in OfClass("gather") : RecordsOf(l[2], Partitions)' = RecordsOf(l[2], Partitions)
  BY QuietReceived DEF RecordsOf
<1> QED
  BY <1>1, <1>2, QuietReceived, FrameGathers DEF Content, Quiet

LEMMA QuietShuffleInputs ==
  ASSUME Content, Quiet,
         \A l \in OfClass("shuffle") : status'[BarrierTask(l)] # "done" => inputs'[l] = inputs[l],
         \A u \in Tasks : status[u] = "done" => status'[u] = "done",
         \A u \in Tasks : u[1][1] = "shuffle" /\ u[2] = "command" /\ status'[u] = "done" => status[u] = "done"
  PROVE  ShuffleInputs'
<1> SUFFICES ASSUME NEW l \in OfClass("shuffle"), status'[BarrierTask(l)] # "done"
             PROVE  /\ {k \in Numbers(l)' : status'[Command(l, k)] = "done"}
                       = {k \in Numbers(l) : status[Command(l, k)] = "done"}
                    /\ \A k \in Numbers(l) : given'[Command(l, k)] = given[Command(l, k)]
                    /\ status[BarrierTask(l)] # "done"
  BY FrameShuffleInputs DEF Content
<1>1. l \in LogicalTasks /\ l[1] = "shuffle"
  BY OfClassForm
<1>2. Numbers(l)' = Numbers(l)
  BY <1>1, QuietNumbers
<1>3. \A k \in Numbers(l) : status'[Command(l, k)] = "done" <=> status[Command(l, k)] = "done"
  <2> SUFFICES ASSUME NEW k \in Numbers(l)
               PROVE  status'[Command(l, k)] = "done" <=> status[Command(l, k)] = "done"
    OBVIOUS
  <2>1. Command(l, k) \in Tasks
    BY <1>1, NumbersForm, CommandTasks
  <2>2. Command(l, k)[1][1] = "shuffle" /\ Command(l, k)[2] = "command"
    BY <1>1 DEF Command
  <2> QED
    BY <2>1, <2>2
<1>4. BarrierTask(l) \in Tasks
  BY <1>1, PhaseTasks, InitialTasks
<1>5. \A k \in Numbers(l) : given'[Command(l, k)] = given[Command(l, k)]
  BY <1>1, NumbersForm, QuietGiven
<1> QED
  BY <1>2, <1>3, <1>4, <1>5

LEMMA QuietSortCommands ==
  ASSUME Content, Quiet,
         \A l \in OfClass("shuffle") : status'[BarrierTask(l)] = "done" <=> status[BarrierTask(l)] = "done",
         \A u \in Tasks : u[2] = "sort" =>
           given'[u] = given[u] /\ (status'[u] # "none" <=> status[u] # "none")
  PROVE  SortCommands'
<1> SUFFICES ASSUME NEW l \in OfClass("shuffle"), NEW q \in Partitions
             PROVE  /\ status'[SortCommand(l, q)] # "none" <=> status[SortCommand(l, q)] # "none"
                    /\ given'[SortCommand(l, q)] = given[SortCommand(l, q)]
                    /\ calls[SortCommand(l, q)] # {} => status[SortCommand(l, q)] # "none"
  BY QuietReceived, FrameSortCommands DEF Content, Quiet
<1>1. SortCommand(l, q) \in Tasks
  BY OfClassForm, CommandTasks
<1>2. SortCommand(l, q)[2] = "sort"
  BY DEF SortCommand
<1> QED
  BY <1>1, <1>2 DEF Content, Callers

LEMMA QuietBroadcasts ==
  ASSUME Content, Quiet,
         \A u \in Tasks : status[u] = "done" => status'[u] = "done",
         \A v \in Vertices : status'[TerminalTask(Process(v))] # "done" => broadcasts'[v] = broadcasts[v]
  PROVE  Broadcasts'
<1>1. ASSUME NEW p \in InPorts("broadcast")
      PROVE  /\ EntryTask(Gather(Sources(p))) \in Tasks
             /\ TerminalTask(Process(p[1])) \in Tasks /\ p[1] \in Vertices
  <2>1. Gather(Sources(p)) \in LogicalTasks /\ p[1] \in Vertices
    BY BroadcastEdge, PortForm
  <2> QED
    BY <2>1, ProcessLogical, PhaseTasks, InitialTasks
<1> QED
  BY <1>1, QuietSent, QuietReceived, FrameBroadcasts DEF Content

\* A task that ends and makes no other.
LEMMA CompleteQuiet ==
  ASSUME Control, Content, NEW t \in Tasks, TG!Complete(t), Ends(t), given' = given
  PROVE  /\ Quiet /\ status[t] = "running" /\ status'[t] = "done"
         /\ \A u \in Tasks : u # t => status'[u] = status[u]
         /\ \A u \in Tasks : status[u] = "done" => status'[u] = "done"
         /\ \A u \in Tasks : u[2] = "sort" =>
              given'[u] = given[u] /\ (status'[u] # "none" <=> status[u] # "none")
<1>1. /\ status[t] = "running" /\ status'[t] = "done" /\ \A u \in Tasks : u # t => status'[u] = status[u]
      /\ calls[t] = {} /\ calls' = calls /\ flushed' = flushed
  BY DEF TG!Complete, TG!Move, Ends, Control, Ordered, GraphOK
<1>2. Quiet
  BY <1>1 DEF Quiet, Started
<1> QED
  BY <1>1, <1>2

LEMMA CompleteContent ==
  ASSUME Control, Content, NEW t \in Tasks, Complete(t)
  PROVE  Content'
<1>1. /\ TG!Complete(t) /\ Ends(t) /\ UNCHANGED data
      /\ t[1][1] = "process" => t[2] \in {"command", "barrier"}
      /\ t[1][1] = "shuffle" => t[2] \in {"entry", "sort", "terminal"}
      /\ t[1][1] \in {"process", "shuffle", "value_sort"}
  BY DEF Complete
<1>2. inputs' = inputs /\ pool' = pool /\ waiting' = waiting /\ broadcasts' = broadcasts /\ given' = given
  BY <1>1 DEF data
<1>3. /\ Quiet /\ \A u \in Tasks : u # t => status'[u] = status[u]
      /\ \A u \in Tasks : status[u] = "done" => status'[u] = "done"
      /\ \A u \in Tasks : u[2] = "sort" =>
           given'[u] = given[u] /\ (status'[u] # "none" <=> status[u] # "none")
  BY <1>1, <1>2, CompleteQuiet
<1>4. ShuffleInputs'
  BY <1>1, <1>2, <1>3, QuietShuffleInputs
<1>5. SortCommands'
  <2>1. \A l \in OfClass("shuffle") : BarrierTask(l) \in Tasks /\ BarrierTask(l) # t
    <3> SUFFICES ASSUME NEW l \in OfClass("shuffle")
                 PROVE  BarrierTask(l) \in Tasks /\ BarrierTask(l) # t
      OBVIOUS
    <3>1. l[1] = "shuffle" /\ BarrierTask(l) \in Tasks
      BY OfClassForm, PhaseTasks, InitialTasks
    <3>2. BarrierTask(l)[2] = "barrier" /\ BarrierTask(l)[1] = l
      BY <3>1 DEF BarrierTask
    <3> QED
      BY <1>1, <3>1, <3>2
  <2> QED
    BY <1>3, <2>1, QuietSortCommands
<1> QED
  BY <1>2, <1>3, <1>4, <1>5, QuietContent, QuietGathers, QuietBroadcasts DEF Content

LEMMA GlobalFinalizeContent ==
  ASSUME Control, Content, NEW t \in Tasks, GlobalFinalize(t)
  PROVE  Content'
<1>1. /\ TG!Complete(t) /\ Ends(t) /\ t[1][1] = "process" /\ t[2] = "terminal"
      /\ inputs' = inputs /\ pool' = pool /\ waiting' = waiting /\ given' = given
      /\ broadcasts' = [broadcasts EXCEPT ![t[1][2]] = <<>>]
  BY DEF GlobalFinalize
<1>2. /\ Quiet /\ status'[t] = "done" /\ \A u \in Tasks : u # t => status'[u] = status[u]
      /\ \A u \in Tasks : status[u] = "done" => status'[u] = "done"
      /\ \A u \in Tasks : u[2] = "sort" =>
           given'[u] = given[u] /\ (status'[u] # "none" <=> status[u] # "none")
  BY <1>1, CompleteQuiet
<1>3. ShuffleInputs'
  BY <1>1, <1>2, QuietShuffleInputs
<1>4. SortCommands'
  <2>1. \A l \in OfClass("shuffle") : BarrierTask(l) \in Tasks /\ BarrierTask(l) # t
    <3> SUFFICES ASSUME NEW l \in OfClass("shuffle")
                 PROVE  BarrierTask(l) \in Tasks /\ BarrierTask(l) # t
      OBVIOUS
    <3>1. l[1] = "shuffle" /\ BarrierTask(l) \in Tasks /\ BarrierTask(l)[1] = l
      BY OfClassForm, PhaseTasks, InitialTasks
    <3> QED
      BY <1>1, <3>1
  <2> QED
    BY <1>2, <2>1, QuietSortCommands
<1>5. Broadcasts'
  <2>1. t = TerminalTask(Process(t[1][2]))
    BY <1>1, RoleForm, TaskForm, LogicalKind
  <2>2. \A v \in Vertices : v # t[1][2] => broadcasts'[v] = broadcasts[v]
    BY <1>1 DEF Control, ShapeOK
  <2> QED
    BY <1>2, <2>1, <2>2, QuietBroadcasts
<1> QED
  BY <1>1, <1>2, <1>3, <1>4, <1>5, QuietContent, QuietGathers DEF Content

LEMMA RunGatherContent ==
  ASSUME Control, Content, NEW t \in Tasks, RunGather(t)
  PROVE  Content'
<1> DEFINE g == t[1]
<1>1. /\ TG!Complete(t) /\ Ends(t) /\ g[1] = "gather"
      /\ pool' = pool /\ waiting' = waiting /\ given' = given /\ broadcasts' = broadcasts
      /\ inputs' = [inputs EXCEPT ![g] = <<>>]
  BY DEF RunGather
<1>2. /\ Quiet /\ status'[t] = "done" /\ \A u \in Tasks : u # t => status'[u] = status[u]
      /\ \A u \in Tasks : status[u] = "done" => status'[u] = "done"
      /\ \A u \in Tasks : u[2] = "sort" =>
           given'[u] = given[u] /\ (status'[u] # "none" <=> status[u] # "none")
  BY <1>1, CompleteQuiet
<1>3. t = EntryTask(g) /\ g \in LogicalTasks
  BY <1>1, RoleForm, TaskForm
<1>4. \A l \in LogicalTasks : l # g => inputs'[l] = inputs[l]
  BY <1>1 DEF Control, ShapeOK
<1>5. ShuffleInputs'
  BY <1>1, <1>2, <1>4, OfClassForm, QuietShuffleInputs
<1>6. SortCommands'
  <2>1. \A l \in OfClass("shuffle") : BarrierTask(l) \in Tasks /\ BarrierTask(l) # t
    <3> SUFFICES ASSUME NEW l \in OfClass("shuffle")
                 PROVE  BarrierTask(l) \in Tasks /\ BarrierTask(l) # t
      OBVIOUS
    <3>1. l[1] = "shuffle" /\ BarrierTask(l) \in Tasks /\ BarrierTask(l)[1] = l
      BY OfClassForm, PhaseTasks, InitialTasks
    <3> QED
      BY <1>1, <3>1
  <2> QED
    BY <1>2, <2>1, QuietSortCommands
<1>7. Gathers'
  <2> SUFFICES ASSUME NEW l \in OfClass("gather")
               PROVE  /\ status'[EntryTask(l)] # "done" =>
                           Exactly(inputs'[l], FlushesIn(Received(l[2], l, 1)'))
                      /\ \A c \in calls'[EntryTask(l)] : Exactly(c.fragment, RecordsIn(FlushedTo(l[2])', Partitions))
    BY DEF Gathers, RecordsOf
  <2>1. l \in LogicalTasks /\ EntryTask(l) \in Tasks
    BY OfClassForm, PhaseTasks, InitialTasks
  <2>2. status'[EntryTask(l)] # "done" => l # g /\ status[EntryTask(l)] # "done"
    BY <1>2, <1>3, <2>1
  <2>3. /\ status[EntryTask(l)] # "done" => Exactly(inputs[l], FlushesIn(Received(l[2], l, 1)))
        /\ \A c \in calls[EntryTask(l)] : Exactly(c.fragment, RecordsIn(FlushedTo(l[2]), Partitions))
    BY DEF Content, Gathers, RecordsOf
  <2>4. calls' = calls /\ FlushedTo(l[2])' = FlushedTo(l[2]) /\ Received(l[2], l, 1)' = Received(l[2], l, 1)
    BY <1>2, QuietReceived DEF Quiet
  <2> QED
    BY <1>4, <2>1, <2>2, <2>3, <2>4
<1> QED
  BY <1>1, <1>2, <1>5, <1>6, <1>7, QuietContent, QuietBroadcasts DEF Content

LEMMA PartitionFragmentContent ==
  ASSUME Control, Content, NEW t \in Tasks, PartitionFragment(t)
  PROVE  Content'
<1> DEFINE l == t[1]
<1>1. /\ TG!Complete(t) /\ Ends(t) /\ l[1] = "shuffle" /\ t[2] = "command"
      /\ pool' = pool /\ waiting' = waiting /\ given' = given /\ broadcasts' = broadcasts
      /\ inputs' = [inputs EXCEPT ![l] = Append(inputs[l], given[t][1])]
  BY DEF PartitionFragment
<1>2. /\ Quiet /\ status[t] = "running" /\ status'[t] = "done"
      /\ \A u \in Tasks : u # t => status'[u] = status[u]
      /\ \A u \in Tasks : status[u] = "done" => status'[u] = "done"
      /\ \A u \in Tasks : u[2] = "sort" =>
           given'[u] = given[u] /\ (status'[u] # "none" <=> status[u] # "none")
  BY <1>1, CompleteQuiet
<1>3. t = Command(l, t[3]) /\ t[3] \in 1 .. MaxCommands /\ l \in LogicalTasks
  BY <1>1, RoleForm, TaskForm
<1>4. \A m \in LogicalTasks : inputs'[m] = IF m = l THEN Append(inputs[l], given[t][1]) ELSE inputs[m]
  BY <1>1 DEF Control, ShapeOK
<1>5. Gathers'
  <2>1. \A m \in OfClass("gather") : inputs'[m] = inputs[m]
    BY <1>1, <1>4, OfClassForm
  <2> QED
    BY <1>2, <2>1, QuietGathers
<1>6. SortCommands'
  <2>1. \A m \in OfClass("shuffle") : BarrierTask(m) \in Tasks /\ BarrierTask(m) # t
    <3> SUFFICES ASSUME NEW m \in OfClass("shuffle")
                 PROVE  BarrierTask(m) \in Tasks /\ BarrierTask(m) # t
      OBVIOUS
    <3>1. BarrierTask(m) \in Initial /\ BarrierTask(m) \in Tasks
      BY OfClassForm, PhaseTasks, InitialTasks
    <3> QED
      BY <1>3, <3>1, CommandTasks
  <2> QED
    BY <1>2, <2>1, QuietSortCommands
<1>7. ShuffleInputs'
  <2> SUFFICES ASSUME NEW m \in OfClass("shuffle"), status'[BarrierTask(m)] # "done"
               PROVE  Exactly(inputs'[m], {given'[Command(m, k)][1] :
                                 k \in {i \in Numbers(m)' : status'[Command(m, i)] = "done"}})
    BY DEF ShuffleInputs
  <2>1. m \in LogicalTasks /\ m[1] = "shuffle"
    BY OfClassForm
  <2>2. Numbers(m)' = Numbers(m) /\ \A k \in Numbers(m) : k \in 1 .. MaxCommands
    BY <1>2, <2>1, QuietNumbers, NumbersForm
  <2>3. \A k \in Numbers(m) : Command(m, k) \in Tasks
    BY <2>1, <2>2, CommandTasks
  <2>4. BarrierTask(m) \in Tasks
    BY <2>1, PhaseTasks, InitialTasks
  <2>5. status[BarrierTask(m)] # "done"
    BY <1>2, <2>4
  <2> DEFINE ended == {i \in Numbers(m) : status[Command(m, i)] = "done"}
  <2>6. Exactly(inputs[m], {given[Command(m, k)][1] : k \in ended})
    BY <2>5 DEF Content, ShuffleInputs
  <2>7. CASE m # l
    <3>1. \A k \in Numbers(m) : Command(m, k) # t
      BY <1>3, <2>7 DEF Command
    <3>2. {i \in Numbers(m)' : status'[Command(m, i)] = "done"} = ended
      BY <1>2, <2>2, <2>3, <3>1
    <3>3. inputs'[m] = inputs[m]
      BY <1>4, <2>1, <2>7
    <3> QED
      BY <1>1, <2>6, <3>2, <3>3
  <2>8. CASE m = l
    <3> DEFINE n == t[3]
    <3>1. t = Command(m, n) /\ n \in Numbers(m) /\ n \notin ended
      BY <1>2, <1>3, <2>8 DEF Numbers
    <3>2. \A k \in Numbers(m) : k # n => Command(m, k) # t
      BY <3>1 DEF Command
    <3>3. {i \in Numbers(m)' : status'[Command(m, i)] = "done"} = ended \cup {n}
      BY <1>2, <2>2, <2>3, <3>1, <3>2
    <3>4. given[t][1] \notin {given[Command(m, k)][1] : k \in ended}
      <4>1. IsInjective([k \in Numbers(m) |-> given[Command(m, k)][1]])
        BY DEF Content, ShuffleCommands, Exactly
      <4>2. \A i, k \in Numbers(m) : given[Command(m, i)][1] = given[Command(m, k)][1] => i = k
        BY <4>1 DEF IsInjective
      <4> QED
        BY <3>1, <4>2
    <3>5. DOMAIN inputs[m] = 1 .. Len(inputs[m]) /\ Len(inputs[m]) \in Nat
      BY <2>1 DEF Control, ShapeOK
    <3>6. Exactly(Append(inputs[m], given[t][1]), {given[Command(m, k)][1] : k \in ended} \cup {given[t][1]})
      BY <2>6, <3>4, <3>5, ExactlyAppend
    <3>7. {given[Command(m, k)][1] : k \in ended} \cup {given[t][1]}
          = {given'[Command(m, k)][1] : k \in ended \cup {n}}
      BY <1>1, <3>1
    <3>8. inputs'[m] = Append(inputs[m], given[t][1])
      BY <1>4, <2>1, <2>8
    <3> QED
      BY <3>3, <3>6, <3>7, <3>8
  <2> QED
    BY <2>7, <2>8
<1> QED
  BY <1>1, <1>2, <1>5, <1>6, <1>7, QuietContent, QuietBroadcasts DEF Content

LEMMA ExactlyNothing ==
  ASSUME NEW s, DOMAIN s = {}
  PROVE  Exactly(s, FlushesIn({})) /\ Exactly(s, {})
BY DEF Exactly, IsInjective, Range, FlushesIn

LEMMA InitContent ==
  ASSUME Init
  PROVE  Content
<1>1. /\ \A t \in Tasks : status[t] = IF t \in Initial THEN "committed" ELSE "none"
      /\ \A t \in Tasks : calls[t] = {}
      /\ \A l \in LogicalTasks : inputs[l] = <<>>
  BY DEF Init
<1>2. \A t \in Tasks : ~Started(t)
  BY <1>1 DEF Started
<1>5. flushed = {}
  BY DEF Init
<1>3. \A ps, l, port : FlushedTo(ps) = {} /\ Received(ps, l, port) = {}
  BY <1>5 DEF FlushedTo, Received
<1>4. \A l \in LogicalTasks : l[1] # "gather" => Numbers(l) = {}
  BY <1>1, CommandTasks DEF Numbers
<1>6. Callers /\ Flushes
  BY <1>1, <1>5 DEF Callers, Flushes
<1>7. Gathers
  <2> SUFFICES ASSUME NEW l \in OfClass("gather")
               PROVE  /\ Exactly(inputs[l], FlushesIn(Received(l[2], l, 1)))
                      /\ calls[EntryTask(l)] = {}
    BY DEF Gathers
  <2>1. EntryTask(l) \in Tasks /\ l \in LogicalTasks
    BY OfClassForm, PhaseTasks, InitialTasks
  <2>2. DOMAIN inputs[l] = {}
    BY <1>1, <2>1
  <2> QED
    BY <1>1, <1>3, <2>1, <2>2, ExactlyNothing
<1>8. ShuffleCommands /\ ShuffleInputs /\ SortCommands
  <2>1. ASSUME NEW l \in OfClass("shuffle")
        PROVE  /\ l \in LogicalTasks /\ l[1] = "shuffle" /\ Numbers(l) = {} /\ DOMAIN inputs[l] = {}
               /\ status[BarrierTask(l)] = "committed"
               /\ \A q \in Partitions : SortCommand(l, q) \in Tasks /\ status[SortCommand(l, q)] = "none"
    <3>1. l \in LogicalTasks /\ l[1] = "shuffle"
      BY OfClassForm
    <3>2. Numbers(l) = {} /\ DOMAIN inputs[l] = {}
      BY <1>1, <1>4, <3>1
    <3>3. BarrierTask(l) \in Initial /\ BarrierTask(l) \in Tasks
      BY <3>1, PhaseTasks, InitialTasks
    <3>4. \A q \in Partitions : SortCommand(l, q) \in Tasks /\ SortCommand(l, q) \notin Initial
      BY <3>1, CommandTasks
    <3> QED
      BY <1>1, <3>1, <3>2, <3>3, <3>4
  <2>2. ShuffleCommands
    <3> SUFFICES ASSUME NEW l \in OfClass("shuffle")
                 PROVE  /\ \E n \in 0 .. MaxCommands : Numbers(l) = 1 .. n
                        /\ Exactly([k \in Numbers(l) |-> given[Command(l, k)][1]],
                                   FlushesIn(Received(l[2], l, 1)))
      BY DEF ShuffleCommands
    <3>1. 0 \in 0 .. MaxCommands /\ Numbers(l) = 1 .. 0
      BY <2>1, FlowParameters
    <3>2. DOMAIN [k \in Numbers(l) |-> given[Command(l, k)][1]] = {}
      BY <2>1
    <3> QED
      BY <1>3, <3>1, <3>2, ExactlyNothing
  <2>3. ShuffleInputs
    <3> SUFFICES ASSUME NEW l \in OfClass("shuffle")
                 PROVE  Exactly(inputs[l], {given[Command(l, k)][1] :
                                  k \in {i \in Numbers(l) : status[Command(l, i)] = "done"}})
      BY DEF ShuffleInputs
    <3>1. {given[Command(l, k)][1] : k \in {i \in Numbers(l) : status[Command(l, i)] = "done"}} = {}
      BY <2>1
    <3> QED
      BY <2>1, <3>1, ExactlyNothing
  <2>4. SortCommands
    BY <1>1, <2>1 DEF SortCommands
  <2> QED
    BY <2>2, <2>3, <2>4
<1>9. ValueSorts
  <2> SUFFICES ASSUME NEW p \in InPorts("scatter_gather"), Inputs[p[1]][p[2]].sorted
               PROVE  LET l == ValueSort(p) IN
                      /\ Numbers(l) = {}
                      /\ \A q \in Partitions : ~Sent(SortCommand(Shuffle(Sources(p)), q), l, 1)
                      /\ \A k \in 1 .. MaxCommands : calls[Command(l, k)] = {}
    BY DEF ValueSorts
  <2>1. /\ ValueSort(p) \in LogicalTasks /\ ValueSort(p)[1] = "value_sort"
        /\ Shuffle(Sources(p)) \in LogicalTasks /\ Shuffle(Sources(p))[1] = "shuffle"
    BY ScatterGatherEdge DEF ValueSort, Shuffle
  <2>2. \A q \in Partitions : SortCommand(Shuffle(Sources(p)), q) \in Tasks
    BY <2>1, CommandTasks
  <2>3. \A k \in 1 .. MaxCommands : Command(ValueSort(p), k) \in Tasks
    BY <2>1, CommandTasks
  <2> QED
    BY <1>1, <1>2, <1>4, <2>1, <2>2, <2>3 DEF Sent
<1>10. \A v \in Vertices, q \in Partitions : Arrived(v, q) = {}
  BY <1>2 DEF Arrived, Sent
<1>11. Pools
  <2> SUFFICES ASSUME NEW v \in Vertices, NEW q \in Partitions
               PROVE  waiting[v][q] = Cardinality(ScatterGatherPorts(v)) /\ DOMAIN pool[v][q] = {}
    BY <1>10 DEF Pools
  <2> QED
    BY DEF Init, ScatterGatherCount
<1>12. \A v \in Vertices : Process(v) \in LogicalTasks /\ Process(v)[1] # "gather"
  BY ProcessLogical DEF Process
<1>13. ScatterGathers
  <2> SUFFICES ASSUME NEW v \in Vertices, CreateProcessTask(v) = "scatter_gather"
               PROVE  ScatterGatherPorts(v) # {}
    BY <1>4, <1>10, <1>12 DEF ScatterGathers
  <2> QED
    BY DEF CreateProcessTask, Movements, ScatterGatherPorts
<1>14. OneToOnes
  <2> SUFFICES ASSUME NEW v \in Vertices, NEW j
               PROVE  /\ \E n \in 0 .. MaxCommands : Numbers(Process(v)) = 1 .. n
                      /\ Exactly([k \in {i \in Numbers(Process(v)) : j \in DOMAIN given[Command(Process(v), i)]} |->
                                    given[Command(Process(v), k)][j]],
                                 FlushesIn(Received(Sources(<<v, j>>), Process(v), j)))
    BY DEF OneToOnes
  <2>1. Numbers(Process(v)) = {}
    BY <1>4, <1>12
  <2>2. 0 \in 0 .. MaxCommands /\ Numbers(Process(v)) = 1 .. 0
    BY <2>1, FlowParameters
  <2>3. DOMAIN [k \in {i \in Numbers(Process(v)) : j \in DOMAIN given[Command(Process(v), i)]} |->
                  given[Command(Process(v), k)][j]] = {}
    BY <2>1
  <2> QED
    BY <1>3, <2>2, <2>3, ExactlyNothing
<1>15. Broadcasts
  <2> SUFFICES ASSUME NEW p \in InPorts("broadcast")
               PROVE  ~Started(EntryTask(Gather(Sources(p))))
    BY DEF Broadcasts, Sent
  <2>1. EntryTask(Gather(Sources(p))) \in Tasks
    BY BroadcastEdge, PhaseTasks, InitialTasks
  <2> QED
    BY <1>2, <2>1
<1> QED
  BY <1>6, <1>7, <1>8, <1>9, <1>11, <1>13, <1>14, <1>15 DEF Content

LEMMA CreateSortTasksContent ==
  ASSUME Control, Content, NEW t \in Tasks, status[t] = "running", CreateSortTasks(t)
  PROVE  Content'
<1> DEFINE l == t[1]
           new == {SortCommand(l, q) : q \in Partitions}
<1>1. /\ l[1] = "shuffle" /\ t[2] = "barrier" /\ calls[t] = {} /\ calls' = calls /\ flushed' = flushed
      /\ status' = [u \in Tasks |-> IF u \in new THEN "committed"
                                  ELSE IF u \in {t} THEN "done" ELSE status[u]]
      /\ given' = [u \in Tasks |-> IF u \in new THEN <<inputs[l]>> ELSE given[u]]
      /\ inputs' = [inputs EXCEPT ![l] = <<>>]
      /\ pool' = pool /\ waiting' = waiting /\ broadcasts' = broadcasts
  BY DEF CreateSortTasks, Ends, Spawn
<1>2. t = BarrierTask(l) /\ l \in LogicalTasks /\ l \in OfClass("shuffle") /\ t \notin new
  <2>1. t = BarrierTask(l) /\ t \in Initial /\ l \in LogicalTasks
    BY <1>1, RoleForm, TaskForm
  <2>2. t \notin new
    BY <2>1, CommandTasks
  <2> QED
    BY <1>1, <2>1, <2>2 DEF OfClass
<1>3. \A u \in new : u \in Tasks /\ u[2] = "sort" /\ u[1] = l /\ status[u] = "none" /\ calls[u] = {}
  <2> SUFFICES ASSUME NEW q \in Partitions
               PROVE  LET u == SortCommand(l, q) IN
                      u \in Tasks /\ u[2] = "sort" /\ u[1] = l /\ status[u] = "none" /\ calls[u] = {}
    OBVIOUS
  <2> DEFINE u == SortCommand(l, q)
  <2>1. u \in Tasks
    BY <1>1, <1>2, CommandTasks
  <2>2. u[2] = "sort" /\ u[1] = l
    BY DEF SortCommand
  <2>3. status[u] = "none"
    BY <1>2 DEF Content, SortCommands
  <2> QED
    BY <2>1, <2>2, <2>3 DEF Content, Callers
<1> HIDE DEF new
<1>4. /\ status'[t] = "done" /\ \A u \in Tasks : u # t /\ u \notin new => status'[u] = status[u]
      /\ \A u \in new : status'[u] = "committed" /\ given'[u] = <<inputs[l]>>
      /\ \A u \in Tasks : u \notin new => given'[u] = given[u]
  BY <1>1, <1>2, <1>3
<1>5. Quiet
  BY <1>1, <1>3, <1>4 DEF Quiet, Started
<1>6. \A u \in Tasks : status[u] = "done" => status'[u] = "done"
  BY <1>3, <1>4
<1>7. \A m \in LogicalTasks : m # l => inputs'[m] = inputs[m]
  BY <1>1 DEF Control, ShapeOK
<1>8. Gathers'
  BY <1>1, <1>5, <1>6, <1>7, OfClassForm, QuietGathers
<1>9. ShuffleInputs'
  <2>1. \A m \in OfClass("shuffle") : status'[BarrierTask(m)] # "done" => inputs'[m] = inputs[m]
    BY <1>2, <1>4, <1>7, OfClassForm
  <2>2. \A u \in Tasks : u[1][1] = "shuffle" /\ u[2] = "command" /\ status'[u] = "done" => status[u] = "done"
    BY <1>1, <1>3, <1>4
  <2> QED
    BY <1>5, <1>6, <2>1, <2>2, QuietShuffleInputs
<1>10. Exactly(inputs[l], FlushesIn(FlushedTo(l[2])))
  <2>1. Received(l[2], l, 1) = FlushedTo(l[2])
    BY <1>1, <1>2, StartedClosed, ClosedReceived DEF Content, Started
  <2>2. \A k \in Numbers(l) : status[Command(l, k)] = "done"
    <3> SUFFICES ASSUME NEW k \in Numbers(l)
                 PROVE  status[Command(l, k)] = "done"
      OBVIOUS
    <3>1. Command(l, k) \in Tasks /\ Command(l, k) \notin Initial
      BY <1>1, <1>2, NumbersForm, CommandTasks
    <3>2. PhaseAfter(Command(l, k)) = t
      BY <1>1, <1>2 DEF PhaseAfter, WaitingPhase, Command
    <3>3. Command(l, k) \in preds[t]
      BY <3>1, <3>2 DEF Control, Ordered, CommandsOrdered, Numbers
    <3> QED
      BY <3>3 DEF Control, Ordered, PredsDone, Started
  <2>3. Exactly(inputs[l], {given[Command(l, k)][1] : k \in {i \in Numbers(l) : status[Command(l, i)] = "done"}})
    BY <1>2 DEF Content, ShuffleInputs
  <2>4. {i \in Numbers(l) : status[Command(l, i)] = "done"} = Numbers(l)
    BY <2>2
  <2>5. Range([k \in Numbers(l) |-> given[Command(l, k)][1]]) = FlushesIn(FlushedTo(l[2]))
    BY <1>2, <2>1 DEF Content, ShuffleCommands, Exactly
  <2>6. Range([k \in Numbers(l) |-> given[Command(l, k)][1]]) = {given[Command(l, k)][1] : k \in Numbers(l)}
    BY DEF Range
  <2> QED
    BY <2>3, <2>4, <2>5, <2>6
<1>11. SortCommands'
  <2> SUFFICES ASSUME NEW m \in OfClass("shuffle"), NEW q \in Partitions
               PROVE  LET s == SortCommand(m, q) IN
                      /\ status'[s] # "none" <=> status'[BarrierTask(m)] = "done"
                      /\ status'[s] # "none" => Exactly(given'[s][1], FlushesIn(FlushedTo(m[2])'))
                      /\ \A c \in calls'[s] : c.partition = q /\ Exactly(c.fragment, RecordsIn(FlushedTo(m[2])', {q}))
    BY DEF SortCommands, RecordsOf
  <2> DEFINE s == SortCommand(m, q)
  <2>1. FlushedTo(m[2])' = FlushedTo(m[2])
    BY <1>5, QuietReceived
  <2>2. /\ status[s] # "none" <=> status[BarrierTask(m)] = "done"
        /\ status[s] # "none" => Exactly(given[s][1], FlushesIn(FlushedTo(m[2])))
        /\ \A c \in calls[s] : c.partition = q /\ Exactly(c.fragment, RecordsIn(FlushedTo(m[2]), {q}))
    BY DEF Content, SortCommands, RecordsOf
  <2>3. m \in LogicalTasks /\ m[1] = "shuffle" /\ s \in Tasks /\ s[1] = m /\ s \notin Initial
    BY OfClassForm, CommandTasks DEF SortCommand
  <2>4. BarrierTask(m) \in Initial /\ BarrierTask(m) \in Tasks /\ BarrierTask(m)[1] = m
    BY <2>3, PhaseTasks, InitialTasks
  <2>5. CASE m = l
    <3>1. s \in new
      BY <2>5 DEF new
    <3>2. calls'[s] = {} /\ status'[s] = "committed" /\ given'[s][1] = inputs[l]
      BY <1>1, <1>3, <1>4, <3>1
    <3>3. status'[BarrierTask(m)] = "done"
      BY <1>2, <1>4, <2>5
    <3> QED
      BY <1>10, <2>1, <2>5, <3>2, <3>3
  <2>6. CASE m # l
    <3>1. s # t /\ s \notin new /\ BarrierTask(m) # t /\ BarrierTask(m) \notin new
      BY <1>3, <2>3, <2>4, <2>6
    <3>2. status'[s] = status[s] /\ given'[s] = given[s] /\ status'[BarrierTask(m)] = status[BarrierTask(m)]
      BY <1>4, <2>3, <2>4, <3>1
    <3> QED
      BY <1>1, <2>1, <2>2, <3>2
  <2> QED
    BY <2>5, <2>6
<1>12. Broadcasts'
  BY <1>1, <1>5, <1>6, QuietBroadcasts
<1> QED
  BY <1>1, <1>5, <1>8, <1>9, <1>11, <1>12, QuietContent DEF Content

LEMMA AfterGlobalInitializeContent ==
  ASSUME Control, Content, NEW t \in Tasks, status[t] = "running", AfterGlobalInitialize(t)
  PROVE  Content'
<1> DEFINE l == t[1]
           count == IF CreateProcessTask(l[2]) = "input" THEN TaskCount[l[2]] ELSE 0
           new == {Command(l, k) : k \in 1 .. count}
<1>1. /\ l[1] = "process" /\ t[2] = "entry" /\ calls[t] = {} /\ calls' = calls /\ flushed' = flushed
      /\ new \subseteq Tasks
      /\ status' = [u \in Tasks |-> IF u \in new THEN "committed"
                                  ELSE IF u \in {t} THEN "done" ELSE status[u]]
      /\ given' = given /\ inputs' = inputs
      /\ pool' = pool /\ waiting' = waiting /\ broadcasts' = broadcasts
  BY DEF AfterGlobalInitialize, Ends, Spawn, data
<1>2. t = EntryTask(l) /\ l \in LogicalTasks /\ t \notin new
  <2>1. t = EntryTask(l) /\ t \in Initial /\ l \in LogicalTasks
    BY <1>1, RoleForm, TaskForm
  <2>2. t \notin new
    BY <2>1, CommandTasks
  <2> QED
    BY <1>1, <2>1, <2>2
<1>3. \A u \in new : /\ u \in Tasks /\ u[2] = "command" /\ u[1] = l /\ InputCommand(u)
                     /\ ~Started(u) /\ calls[u] = {}
  <2> SUFFICES ASSUME NEW k \in 1 .. count
               PROVE  LET u == Command(l, k) IN
                      u \in Tasks /\ u[2] = "command" /\ u[1] = l /\ InputCommand(u) /\ ~Started(u) /\ calls[u] = {}
    OBVIOUS
  <2> DEFINE u == Command(l, k)
  <2>1. u \in Tasks /\ u \notin Initial
    BY <1>1, <1>2, CommandTasks
  <2>2. u[2] = "command" /\ u[1] = l
    BY DEF Command
  <2>3. CreateProcessTask(l[2]) = "input"
    <3>1. CASE CreateProcessTask(l[2]) # "input"
      BY <3>1
    <3> QED
      BY <3>1
  <2>4. InputCommand(u)
    BY <1>1, <2>2, <2>3 DEF InputCommand
  <2>5. ~Started(u)
    <3>1. PhaseBefore(u) = t
      BY <1>2, <2>2 DEF PhaseBefore
    <3>2. status[u] # "none" => t \in preds[u]
      BY <2>1, <3>1 DEF Control, Ordered, CommandsOrdered
    <3> QED
      BY <2>1, <3>2 DEF Control, Ordered, PredsDone, Started
  <2> QED
    BY <2>1, <2>2, <2>4, <2>5 DEF Content, Callers, Started
<1> HIDE DEF new
<1>4. /\ status'[t] = "done" /\ \A u \in Tasks : u # t /\ u \notin new => status'[u] = status[u]
      /\ \A u \in new : status'[u] = "committed"
  BY <1>1, <1>2, <1>3
<1>5. Quiet
  <2> SUFFICES ASSUME NEW u \in Tasks
               PROVE  /\ Started(u)' <=> Started(u)
                      /\ ~InputCommand(u) /\ u[2] # "sort" => (status'[u] # "none" <=> status[u] # "none")
                      /\ calls[u] # {} => status'[u] = status[u]
    BY <1>1 DEF Quiet
  <2> QED
    BY <1>1, <1>3, <1>4 DEF Started
<1>6. \A u \in Tasks : status[u] = "done" => status'[u] = "done"
  BY <1>3, <1>4 DEF Started
<1>7. ShuffleInputs'
  <2>1. \A u \in Tasks : u[1][1] = "shuffle" /\ u[2] = "command" /\ status'[u] = "done" => status[u] = "done"
    BY <1>1, <1>3, <1>4
  <2> QED
    BY <1>1, <1>5, <1>6, <2>1, QuietShuffleInputs
<1>8. SortCommands'
  <2>1. ASSUME NEW m \in OfClass("shuffle")
        PROVE  status'[BarrierTask(m)] = "done" <=> status[BarrierTask(m)] = "done"
    <3>1. m[1] = "shuffle" /\ BarrierTask(m) \in Tasks /\ BarrierTask(m)[1] = m
      BY OfClassForm, PhaseTasks, InitialTasks
    <3> QED
      BY <1>1, <1>3, <1>4, <3>1
  <2>2. \A u \in Tasks : u[2] = "sort" => given'[u] = given[u] /\ (status'[u] # "none" <=> status[u] # "none")
    BY <1>1, <1>3, <1>4
  <2> QED
    BY <1>5, <2>1, <2>2, QuietSortCommands
<1> QED
  BY <1>1, <1>5, <1>6, <1>7, <1>8, QuietContent, QuietGathers, QuietBroadcasts DEF Content

\* A call of a port that is made leaves no other call of it.
LEMMA CommitUnique ==
  ASSUME NEW l, NEW o, NEW q, NEW fragment,
         NEW c \in CommitFragment(l, o, q, fragment), NEW d \in CommitFragment(l, o, q, fragment),
         c.to = d.to, c.port = d.port
  PROVE  c = d
BY DEF CommitFragment

Leads(t, o, ps, l, port) ==
  <<t[1][2], o>> \in ps => \E e \in Edges : e.from = t[1] /\ e.oport = o /\ e.to = l /\ e.port = port

LEMMA FlushContent ==
  ASSUME Control, Content, NEW t \in Tasks, status[t] = "running", FlushBuffer(t)
  PROVE  Content'
<1>1. PICK o \in OPorts(t[1][2]) :
        /\ <<t, o>> \notin flushed
        /\ flushed' = flushed \cup {<<t, o>>}
        /\ calls' = [calls EXCEPT ![t] = CommitFragment(t[1], o, 0, FlushOf(<<t, o>>))]
  BY DEF FlushBuffer, FlushOf
<1>2. /\ calls[t] = {} /\ t[1][1] = "process" /\ status' = status
      /\ inputs' = inputs /\ pool' = pool /\ waiting' = waiting /\ broadcasts' = broadcasts /\ given' = given
  BY DEF FlushBuffer, sched, data
<1>3. \A u \in Tasks : calls'[u] = IF u = t THEN CommitFragment(t[1], o, 0, FlushOf(<<t, o>>)) ELSE calls[u]
  BY <1>1 DEF Control, ShapeOK
<1>4. t[1] = Process(t[1][2]) /\ t[1][2] \in Vertices
  BY <1>2, TaskForm, LogicalKind
<1>5. ASSUME NEW ps, Closed(ps)
      PROVE  FlushedTo(ps)' = FlushedTo(ps)
  BY <1>1, <1>2, <1>5, ClosedFlushed
<1>6. \A u \in Tasks : /\ Started(u)' <=> Started(u)
                       /\ u[1][1] # "process" => calls'[u] = calls[u]
  BY <1>2, <1>3 DEF Started
<1>7. \A l : Numbers(l)' = Numbers(l)
  BY <1>2 DEF Numbers
<1>8. \A v \in Vertices, q \in Partitions : Arrived(v, q)' = Arrived(v, q)
  BY <1>6, ArrivedSame
<1>21. Flushes
  BY DEF Content
<1>22. ASSUME NEW ps, NEW l, NEW port, Leads(t, o, ps, l, port)
       PROVE  Received(ps, l, port)' = Received(ps, l, port)
  BY <1>1, <1>2, <1>3, <1>21, <1>22, ReceivedOnFlush DEF Leads
<1>9. \A l \in LogicalTasks : l[1] \in {"gather", "shuffle"} => Received(l[2], l, 1)' = Received(l[2], l, 1)
  <2> SUFFICES ASSUME NEW l \in LogicalTasks, l[1] \in {"gather", "shuffle"}
               PROVE  Received(l[2], l, 1)' = Received(l[2], l, 1)
    OBVIOUS
  <2>1. ASSUME <<t[1][2], o>> \in l[2]
        PROVE  \E e \in Edges : e.from = t[1] /\ e.oport = o /\ e.to = l /\ e.port = 1
    <3>1. <<t[1][2], o>>[1] = t[1][2] /\ <<t[1][2], o>>[2] = o
      OBVIOUS
    <3> QED
      BY <1>4, <2>1, <3>1, SourceEdge
  <2> QED
    BY <1>22, <2>1 DEF Leads
<1>10. Callers'
  <2> SUFFICES ASSUME NEW u \in Tasks
               PROVE  /\ calls'[u] # {} =>
                           /\ status[u] = "running"
                           /\ u[1][1] = "shuffle" => u[2] = "sort"
                           /\ u[1][1] = "value_sort" => u[2] = "command"
                      /\ \A c, d \in calls'[u] : c.to = d.to /\ c.port = d.port => c = d
    BY <1>2 DEF Callers
  <2>1. CASE u = t
    BY <1>2, <1>3, <2>1, CommitUnique
  <2>2. CASE u # t
    BY <1>3, <2>2 DEF Content, Callers
  <2> QED
    BY <2>1, <2>2
<1>11. Flushes'
  <2> DEFINE new == <<t, o>>
  <2>1. ASSUME NEW f \in flushed'
        PROVE  \E u \in Tasks : \E p \in OPorts(u[1][2]) : f = <<u, p>> /\ u[1][1] = "process" /\ Started(u)'
    <3>1. CASE f = new
      BY <1>2, <3>1 DEF Started
    <3>2. CASE f \in flushed
      BY <1>6, <3>2 DEF Content, Flushes
    <3> QED
      BY <1>1, <3>1, <3>2
  <2>2. ASSUME NEW u \in Tasks, u[1][1] = "process", NEW c \in calls'[u]
        PROVE  \E f \in flushed' : f[1] = u /\ c \in CommitFragment(u[1], f[2], 0, FlushOf(f))
    <3>1. CASE u = t
      <4>1. new \in flushed' /\ new[1] = t /\ new[2] = o
        BY <1>1
      <4>2. c \in CommitFragment(t[1], o, 0, FlushOf(new))
        BY <1>3, <2>2, <3>1
      <4> QED
        BY <3>1, <4>1, <4>2
    <3>2. CASE u # t
      <4>1. PICK f \in flushed : f[1] = u /\ c \in CommitFragment(u[1], f[2], 0, FlushOf(f))
        BY <1>3, <2>2, <3>2 DEF Content, Flushes
      <4>2. f \in flushed'
        BY <1>1
      <4> QED
        BY <4>1, <4>2
    <3> QED
      BY <3>1, <3>2
  <2>3. \A u \in Tasks : u[1][1] = "process" =>
          \A c \in calls'[u] : \E f \in flushed' : f[1] = u /\ c \in CommitFragment(u[1], f[2], 0, FlushOf(f))
    BY <2>2
  <2>4. \A f \in flushed' : \E u \in Tasks : \E p \in OPorts(u[1][2]) : f = <<u, p>> /\ u[1][1] = "process" /\ Started(u)'
    BY <2>1
  <2> HIDE DEF new
  <2> QED
    BY <2>3, <2>4 DEF Flushes, CommitFragment, FlushOf
<1>12. Gathers'
  <2> SUFFICES ASSUME NEW l \in OfClass("gather")
               PROVE  /\ inputs'[l] = inputs[l] /\ calls'[EntryTask(l)] \subseteq calls[EntryTask(l)]
                      /\ status[EntryTask(l)] = "done" => status'[EntryTask(l)] = "done"
                      /\ Received(l[2], l, 1)' = Received(l[2], l, 1)
                      /\ calls[EntryTask(l)] # {} => RecordsOf(l[2], Partitions)' = RecordsOf(l[2], Partitions)
    BY FrameGathers DEF Content
  <2>1. l \in LogicalTasks /\ l[1] = "gather" /\ EntryTask(l) \in Tasks /\ EntryTask(l)[1] = l
    BY OfClassForm, PhaseTasks, InitialTasks
  <2>2. BarrierTask(l) = EntryTask(l)
    BY <2>1 DEF BarrierTask
  <2>3. ASSUME calls[EntryTask(l)] # {}
        PROVE  FlushedTo(l[2])' = FlushedTo(l[2])
    <3>1. Started(BarrierTask(l))
      BY <2>1, <2>2, <2>3 DEF Content, Callers, Started
    <3> QED
      BY <1>5, <2>1, <3>1, StartedClosed
  <2>4. calls[EntryTask(l)] # {} => RecordsOf(l[2], Partitions)' = RecordsOf(l[2], Partitions)
    BY <2>3 DEF RecordsOf
  <2> QED
    BY <1>2, <1>6, <1>9, <2>1, <2>4
<1>13. ShuffleCommands'
  BY <1>2, <1>7, <1>9, OfClassForm, FrameShuffleCommands DEF Content
<1>14. ShuffleInputs'
  BY <1>2, <1>7, FrameShuffleInputs DEF Content
<1>15. SortCommands'
  <2> SUFFICES ASSUME NEW l \in OfClass("shuffle")
               PROVE  /\ status[BarrierTask(l)] = "done" => FlushedTo(l[2])' = FlushedTo(l[2])
                      /\ \A q \in Partitions :
                           /\ calls'[SortCommand(l, q)] = calls[SortCommand(l, q)]
                           /\ calls[SortCommand(l, q)] # {} => status[SortCommand(l, q)] # "none"
    BY <1>2, FrameSortCommands DEF Content
  <2>1. l \in LogicalTasks /\ l[1] = "shuffle"
    BY OfClassForm
  <2>2. status[BarrierTask(l)] = "done" => FlushedTo(l[2])' = FlushedTo(l[2])
    BY <1>5, <2>1, StartedClosed DEF Started
  <2>3. \A q \in Partitions : SortCommand(l, q) \in Tasks /\ SortCommand(l, q)[1] = l
    BY <2>1, CommandTasks DEF SortCommand
  <2> QED
    BY <1>6, <2>1, <2>2, <2>3 DEF Content, Callers
<1>16. ValueSorts'
  <2> SUFFICES ASSUME NEW p \in InPorts("scatter_gather"), Inputs[p[1]][p[2]].sorted
               PROVE  LET l == ValueSort(p) IN
                      /\ Numbers(l)' = Numbers(l)
                      /\ \A q \in Partitions : Sent(SortCommand(Shuffle(Sources(p)), q), l, 1)'
                                              <=> Sent(SortCommand(Shuffle(Sources(p)), q), l, 1)
                      /\ Numbers(l) # {} => FlushedTo(Sources(p))' = FlushedTo(Sources(p))
                      /\ \A k \in 1 .. MaxCommands :
                           /\ given'[Command(l, k)] = given[Command(l, k)]
                           /\ calls'[Command(l, k)] \subseteq calls[Command(l, k)]
                           /\ calls'[Command(l, k)] # {} => k \in Numbers(l)
    BY FrameValueSorts DEF Content
  <2> DEFINE l == ValueSort(p)
             sh == Shuffle(Sources(p))
  <2>1. l \in LogicalTasks /\ l[1] = "value_sort" /\ sh \in LogicalTasks /\ sh[1] = "shuffle"
    BY ScatterGatherEdge DEF FeederOf, ValueSort, Shuffle
  <2>2. \A q \in Partitions : Sent(SortCommand(sh, q), l, 1)' <=> Sent(SortCommand(sh, q), l, 1)
    <3> SUFFICES ASSUME NEW q \in Partitions
                 PROVE  Sent(SortCommand(sh, q), l, 1)' <=> Sent(SortCommand(sh, q), l, 1)
      OBVIOUS
    <3>1. SortCommand(sh, q) \in Tasks /\ SortCommand(sh, q)[1][1] = "shuffle"
      BY <2>1, CommandTasks DEF SortCommand
    <3>2. calls'[SortCommand(sh, q)] = calls[SortCommand(sh, q)]
          /\ (Started(SortCommand(sh, q))' <=> Started(SortCommand(sh, q)))
      BY <1>6, <3>1
    <3> QED
      BY <3>2 DEF Sent
  <2>3. Numbers(l) # {} => FlushedTo(Sources(p))' = FlushedTo(Sources(p))
    BY <1>5, ValueSortClosed DEF Content
  <2>4. \A k \in 1 .. MaxCommands : Command(l, k) \in Tasks /\ Command(l, k)[1] = l
    BY <2>1, CommandTasks DEF Command
  <2>5. \A k \in 1 .. MaxCommands : /\ calls'[Command(l, k)] = calls[Command(l, k)]
                                    /\ calls[Command(l, k)] # {} => k \in Numbers(l)
    BY <1>6, <2>1, <2>4 DEF Content, Callers, Numbers
  <2> QED
    BY <1>2, <1>7, <2>2, <2>3, <2>5
<1>17. \A v \in Vertices, q \in Partitions : \A j \in Arrived(v, q) :
         FlushedTo(Sources(<<v, j>>))' = FlushedTo(Sources(<<v, j>>))
  BY <1>5, ArrivedClosed DEF Content
<1>18. Pools' /\ ScatterGathers'
  <2>1. Pools'
    BY <1>2, <1>8, <1>17, FramePools DEF Content
  <2>2. ScatterGathers'
    BY <1>2, <1>7, <1>8, <1>17, FrameScatterGathers DEF Content
  <2> QED
    BY <2>1, <2>2
<1>19. OneToOnes'
  <2> SUFFICES ASSUME NEW v \in Vertices, CreateProcessTask(v) = "one_to_one",
                      NEW j \in DOMAIN Inputs[v], Inputs[v][j].movement = "one_to_one"
               PROVE  Received(Sources(<<v, j>>), Process(v), j)' = Received(Sources(<<v, j>>), Process(v), j)
    BY <1>2, <1>7, FrameOneToOnes DEF Content
  <2> DEFINE p == <<v, j>>
  <2>1. p \in InPorts("one_to_one") /\ p[1] = v /\ p[2] = j
    BY PortOf
  <2>2. ASSUME <<t[1][2], o>> \in Sources(p)
        PROVE  \E e \in Edges : e.from = t[1] /\ e.oport = o /\ e.to = Process(v) /\ e.port = j
    <3>1. <<t[1][2], o>>[1] = t[1][2] /\ <<t[1][2], o>>[2] = o
      OBVIOUS
    <3> HIDE DEF p
    <3> QED
      BY <1>4, <2>1, <2>2, <3>1, OneToOneEdge
  <2> QED
    BY <1>22, <2>2 DEF Leads
<1>20. Broadcasts'
  <2> SUFFICES ASSUME NEW p \in InPorts("broadcast")
               PROVE  LET g == EntryTask(Gather(Sources(p))) IN
                      /\ Sent(g, Process(p[1]), p[2])' => Sent(g, Process(p[1]), p[2])
                      /\ Started(g) => FlushedTo(Sources(p))' = FlushedTo(Sources(p))
    BY <1>2, FrameBroadcasts DEF Content
  <2> DEFINE g == EntryTask(Gather(Sources(p)))
  <2>1. g \in Tasks /\ g[1][1] = "gather"
    BY BroadcastEdge, PhaseTasks, InitialTasks DEF EntryTask, Gather
  <2>2. calls'[g] = calls[g] /\ (Started(g)' <=> Started(g))
    BY <1>6, <2>1
  <2>3. Started(g) => FlushedTo(Sources(p))' = FlushedTo(Sources(p))
    BY <1>5, BroadcastClosed
  <2> QED
    BY <2>2, <2>3 DEF Sent
<1> QED
  BY <1>10, <1>11, <1>12, <1>13, <1>14, <1>15, <1>16, <1>18, <1>19, <1>20 DEF Content

\* A task that starts calls every port it commits to.
LEMMA StartSent ==
  ASSUME NEW t \in Tasks, ~Started(t), NEW q, NEW fragment,
         calls'[t] = CommitFragment(t[1], 1, q, fragment),
         NEW l, NEW port, \E e \in Edges : e.from = t[1] /\ e.oport = 1 /\ e.to = l /\ e.port = port
  PROVE  ~Sent(t, l, port)' /\ ~Sent(t, l, port)
<1>1. PICK e \in Edges : e.from = t[1] /\ e.oport = 1 /\ e.to = l /\ e.port = port
  OBVIOUS
<1>2. [to |-> e.to, port |-> e.port, partition |-> q, fragment |-> fragment] \in calls'[t]
  BY <1>1 DEF CommitFragment
<1> QED
  BY <1>1, <1>2 DEF Sent

\* What a task that starts calls with.
LEMMA OwnFragmentsForm ==
  ASSUME NEW t \in Tasks
  PROVE  /\ t[1][1] = "process" => OwnFragments(t) = {}
         /\ t[1][1] = "gather" => OwnFragments(t) = CommitFragment(t[1], 1, 0, Joined(inputs[t[1]]))
         /\ t[2] = "sort" => /\ t[1][1] = "shuffle"
                             /\ OwnFragments(t) = CommitFragment(t[1], 1, t[3], PartitionOf(given[t][1], t[3]))
         /\ t[1][1] = "shuffle" /\ t[2] # "sort" => OwnFragments(t) = {}
         /\ t[1][1] = "value_sort" /\ t[2] = "command" =>
              OwnFragments(t) = CommitFragment(t[1], 1, t[3], given[t][1])
         /\ t[1][1] = "value_sort" /\ t[2] # "command" => OwnFragments(t) = {}
         /\ \A c, d \in OwnFragments(t) : c.to = d.to /\ c.port = d.port => c = d
<1>1. t[2] = "sort" => t[1][1] = "shuffle"
  BY TaskForm
<1>2. t[1][1] \in {"process", "gather", "shuffle", "value_sort"}
  BY TaskForm, LogicalKind
<1>3. t[1][1] = "gather" => OwnFragments(t) = CommitFragment(t[1], 1, 0, Joined(inputs[t[1]]))
  BY DEF OwnFragments
<1>4. t[2] = "sort" => OwnFragments(t) = CommitFragment(t[1], 1, t[3], PartitionOf(given[t][1], t[3]))
  BY <1>1 DEF OwnFragments
<1>5. t[1][1] = "value_sort" /\ t[2] = "command" =>
        OwnFragments(t) = CommitFragment(t[1], 1, t[3], given[t][1])
  BY DEF OwnFragments
<1>6. t[1][1] # "gather" /\ t[2] # "sort" /\ ~(t[1][1] = "value_sort" /\ t[2] = "command") => OwnFragments(t) = {}
  BY DEF OwnFragments
<1>7. \A c, d \in OwnFragments(t) : c.to = d.to /\ c.port = d.port => c = d
  BY <1>2, <1>3, <1>4, <1>5, <1>6, CommitUnique
<1> QED
  BY <1>1, <1>2, <1>3, <1>4, <1>5, <1>6, <1>7

LEMMA StartContent ==
  ASSUME Control, Content, NEW t \in Tasks, Start(t)
  PROVE  Content'
<1>1. /\ status[t] = "committed" /\ status'[t] = "running" /\ \A u \in Tasks : u # t => status'[u] = status[u]
      /\ \A u \in preds[t] : status[u] = "done"
  BY DEF Start, TG!Start, TG!Move, Control, Ordered, GraphOK
<1>2. /\ calls' = [calls EXCEPT ![t] = OwnFragments(t)] /\ flushed' = flushed
      /\ inputs' = inputs /\ pool' = pool /\ waiting' = waiting /\ broadcasts' = broadcasts /\ given' = given
  BY DEF Start, data
<1>3. \A u \in Tasks : calls'[u] = IF u = t THEN OwnFragments(t) ELSE calls[u]
  BY <1>2 DEF Control, ShapeOK
<1>4. calls[t] = {} /\ ~Started(t)
  BY <1>1 DEF Content, Callers, Started
<1>5. /\ \A u \in Tasks : (status'[u] # "none" <=> status[u] # "none") /\ (status'[u] = "done" <=> status[u] = "done")
      /\ \A u \in Tasks : u # t => (Started(u)' <=> Started(u))
  BY <1>1 DEF Started
<1>6. \A ps : FlushedTo(ps)' = FlushedTo(ps)
  BY <1>2 DEF FlushedTo
<1>7. \A u \in Tasks : u[1][1] = "process" => calls'[u] = calls[u]
  BY <1>3, <1>4, OwnFragmentsForm
<1>8. \A ps, l, port : Received(ps, l, port)' = Received(ps, l, port)
  <2>1. Flushes
    BY DEF Content
  <2> QED
    BY <1>2, <1>7, <2>1, ReceivedSame
<1>9. \A l \in LogicalTasks : l[1] # "gather" => Numbers(l)' = Numbers(l)
  BY <1>5, CommandTasks DEF Numbers
<1>10. ASSUME NEW u \in Tasks, u[1][1] = "gather" \/ u[2] = "sort" \/ (u[1][1] = "value_sort" /\ u[2] = "command"),
              NEW l, NEW port, \E e \in Edges : e.from = u[1] /\ e.oport = 1 /\ e.to = l /\ e.port = port
       PROVE  Sent(u, l, port)' <=> Sent(u, l, port)
  <2>1. CASE u = t
    <3>1. PICK q, fragment : calls'[u] = CommitFragment(u[1], 1, q, fragment)
      BY <1>3, <1>10, <2>1, OwnFragmentsForm
    <3> QED
      BY <1>4, <1>10, <2>1, <3>1, StartSent
  <2>2. CASE u # t
    BY <1>3, <1>5, <2>2 DEF Sent
  <2> QED
    BY <2>1, <2>2
<1>11. Callers'
  <2> SUFFICES ASSUME NEW u \in Tasks
               PROVE  /\ calls'[u] # {} =>
                           /\ status'[u] = "running"
                           /\ u[1][1] = "shuffle" => u[2] = "sort"
                           /\ u[1][1] = "value_sort" => u[2] = "command"
                      /\ \A c, d \in calls'[u] : c.to = d.to /\ c.port = d.port => c = d
    BY DEF Callers
  <2>1. CASE u = t
    BY <1>1, <1>3, <2>1, OwnFragmentsForm
  <2>2. CASE u # t
    BY <1>1, <1>3, <2>2 DEF Content, Callers
  <2> QED
    BY <2>1, <2>2
<1>12. Flushes'
  <2>1. \A u \in Tasks : Started(u) => Started(u)'
    BY <1>1 DEF Started
  <2> QED
    BY <1>2, <1>7, <2>1, FrameFlushes DEF Content
<1>13. Gathers'
  <2> SUFFICES ASSUME NEW l \in OfClass("gather")
               PROVE  /\ status'[EntryTask(l)] # "done" =>
                           Exactly(inputs'[l], FlushesIn(Received(l[2], l, 1)'))
                      /\ \A c \in calls'[EntryTask(l)] : Exactly(c.fragment, RecordsIn(FlushedTo(l[2])', Partitions))
    BY DEF Gathers, RecordsOf
  <2>1. l \in LogicalTasks /\ l[1] = "gather" /\ EntryTask(l) \in Tasks /\ EntryTask(l)[1] = l
    BY OfClassForm, PhaseTasks, InitialTasks
  <2>2. /\ status[EntryTask(l)] # "done" => Exactly(inputs[l], FlushesIn(Received(l[2], l, 1)))
        /\ \A c \in calls[EntryTask(l)] : Exactly(c.fragment, RecordsIn(FlushedTo(l[2]), Partitions))
    BY DEF Content, Gathers, RecordsOf
  <2>3. CASE EntryTask(l) = t
    <3>1. BarrierTask(l) = t
      BY <2>1, <2>3 DEF BarrierTask
    <3>2. Closed(l[2])
      BY <1>1, <2>1, <3>1, ReadyClosed
    <3>3. Received(l[2], l, 1) = FlushedTo(l[2])
      BY <3>2, ClosedReceived DEF Content
    <3>4. Exactly(inputs[l], FlushesIn(FlushedTo(l[2])))
      BY <1>1, <2>2, <2>3, <3>3
    <3>5. \A f \in FlushedTo(l[2]) : IsFlush(f)
      BY FlushForm DEF FlushedTo, Content
    <3>6. Exactly(Joined(inputs[l]), RecordsIn(FlushedTo(l[2]), Partitions))
      BY <3>4, <3>5, JoinedExact
    <3>7. calls'[t] = CommitFragment(l, 1, 0, Joined(inputs[l]))
      BY <1>3, <2>1, <2>3, OwnFragmentsForm
    <3>8. \A c \in calls'[t] : c.fragment = Joined(inputs[l])
      BY <3>7, CommitAlongEdges
    <3>9. \A c \in calls'[t] : Exactly(c.fragment, RecordsIn(FlushedTo(l[2]), Partitions))
      BY <3>6, <3>8
    <3> QED
      BY <1>1, <1>2, <1>6, <1>8, <2>2, <2>3, <3>9
  <2>4. CASE EntryTask(l) # t
    BY <1>2, <1>3, <1>5, <1>6, <1>8, <2>1, <2>2, <2>4
  <2> QED
    BY <2>3, <2>4
<1>14. ShuffleCommands'
  BY <1>2, <1>8, <1>9, OfClassForm, FrameShuffleCommands DEF Content
<1>15. ShuffleInputs'
  <2> SUFFICES ASSUME NEW l \in OfClass("shuffle")
               PROVE  /\ {k \in Numbers(l)' : status'[Command(l, k)] = "done"}
                         = {k \in Numbers(l) : status[Command(l, k)] = "done"}
                      /\ status'[BarrierTask(l)] = "done" <=> status[BarrierTask(l)] = "done"
    BY <1>2, FrameShuffleInputs DEF Content
  <2>1. l \in LogicalTasks /\ l[1] = "shuffle" /\ BarrierTask(l) \in Tasks
    BY OfClassForm, PhaseTasks, InitialTasks
  <2>2. \A k \in Numbers(l) : Command(l, k) \in Tasks
    BY <2>1, NumbersForm, CommandTasks
  <2> QED
    BY <1>5, <1>9, <2>1, <2>2
<1>16. SortCommands'
  <2> SUFFICES ASSUME NEW l \in OfClass("shuffle"), NEW q \in Partitions
               PROVE  LET s == SortCommand(l, q) IN
                      /\ status'[s] # "none" <=> status'[BarrierTask(l)] = "done"
                      /\ status'[s] # "none" => Exactly(given'[s][1], FlushesIn(FlushedTo(l[2])'))
                      /\ \A c \in calls'[s] : c.partition = q /\ Exactly(c.fragment, RecordsIn(FlushedTo(l[2])', {q}))
    BY DEF SortCommands, RecordsOf
  <2> DEFINE s == SortCommand(l, q)
  <2>1. /\ l \in LogicalTasks /\ l[1] = "shuffle" /\ BarrierTask(l) \in Tasks
        /\ s \in Tasks /\ s[1] = l /\ s[2] = "sort" /\ s[3] = q
    BY OfClassForm, PhaseTasks, InitialTasks, CommandTasks DEF SortCommand
  <2>2. /\ status[s] # "none" <=> status[BarrierTask(l)] = "done"
        /\ status[s] # "none" => Exactly(given[s][1], FlushesIn(FlushedTo(l[2])))
        /\ \A c \in calls[s] : c.partition = q /\ Exactly(c.fragment, RecordsIn(FlushedTo(l[2]), {q}))
    BY DEF Content, SortCommands, RecordsOf
  <2> HIDE DEF s
  <2>3. \A c \in calls'[s] : c.partition = q /\ Exactly(c.fragment, RecordsIn(FlushedTo(l[2]), {q}))
    <3>1. CASE s = t
      <4>1. \A f \in FlushedTo(l[2]) : IsFlush(f)
        BY FlushForm DEF FlushedTo, Content
      <4>2. Exactly(given[s][1], FlushesIn(FlushedTo(l[2])))
        BY <1>1, <2>2, <3>1
      <4>3. Exactly(PartitionOf(given[s][1], q), RecordsIn(FlushedTo(l[2]), {q}))
        BY <4>1, <4>2, PartitionExact
      <4>4. calls'[s] = CommitFragment(l, 1, q, PartitionOf(given[s][1], q))
        BY <1>3, <2>1, <3>1, OwnFragmentsForm
      <4>5. \A c \in calls'[s] : c.partition = q /\ c.fragment = PartitionOf(given[s][1], q)
        BY <4>4, CommitAlongEdges
      <4> QED
        BY <4>3, <4>5
    <3>2. CASE s # t
      BY <1>3, <2>1, <2>2, <3>2
    <3> QED
      BY <3>1, <3>2
  <2>4. status'[s] # "none" <=> status'[BarrierTask(l)] = "done"
    BY <1>5, <2>1, <2>2
  <2>5. status'[s] # "none" => Exactly(given'[s][1], FlushesIn(FlushedTo(l[2])'))
    BY <1>2, <1>5, <1>6, <2>1, <2>2
  <2> QED
    BY <1>6, <2>3, <2>4, <2>5 DEF s
<1>17. ValueSorts'
  <2> SUFFICES ASSUME NEW p \in InPorts("scatter_gather"), Inputs[p[1]][p[2]].sorted
               PROVE  LET l == ValueSort(p) IN
                      /\ Numbers(l)' = {q \in Partitions : Sent(SortCommand(Shuffle(Sources(p)), q), l, 1)'}
                      /\ \A k \in Numbers(l)' : Exactly(given'[Command(l, k)][1], RecordsIn(FlushedTo(Sources(p))', {k}))
                      /\ \A k \in 1 .. MaxCommands : \A c \in calls'[Command(l, k)] :
                           c.partition = k /\ Exactly(c.fragment, RecordsIn(FlushedTo(Sources(p))', {k}))
    BY DEF ValueSorts, RecordsOf
  <2> DEFINE l == ValueSort(p)
             sh == Shuffle(Sources(p))
  <2>1. l \in LogicalTasks /\ l[1] = "value_sort" /\ sh \in LogicalTasks /\ sh[1] = "shuffle"
    BY ScatterGatherEdge DEF FeederOf, ValueSort, Shuffle
  <2>2. /\ Numbers(l) = {q \in Partitions : Sent(SortCommand(sh, q), l, 1)}
        /\ \A k \in Numbers(l) : Exactly(given[Command(l, k)][1], RecordsIn(FlushedTo(Sources(p)), {k}))
        /\ \A k \in 1 .. MaxCommands : \A c \in calls[Command(l, k)] :
             c.partition = k /\ Exactly(c.fragment, RecordsIn(FlushedTo(Sources(p)), {k}))
    BY DEF Content, ValueSorts, RecordsOf
  <2>3. \A q \in Partitions : Sent(SortCommand(sh, q), l, 1)' <=> Sent(SortCommand(sh, q), l, 1)
    <3> SUFFICES ASSUME NEW q \in Partitions
                 PROVE  Sent(SortCommand(sh, q), l, 1)' <=> Sent(SortCommand(sh, q), l, 1)
      OBVIOUS
    <3>1. SortCommand(sh, q) \in Tasks /\ SortCommand(sh, q)[1] = sh /\ SortCommand(sh, q)[2] = "sort"
      BY <2>1, CommandTasks DEF SortCommand
    <3>2. \E e \in Edges : e.from = sh /\ e.oport = 1 /\ e.to = l /\ e.port = 1
      BY ScatterGatherEdge
    <3> HIDE DEF l, sh
    <3> QED
      BY <1>10, <3>1, <3>2
  <2>4. Numbers(l)' = Numbers(l)
    BY <1>9, <2>1
  <2>5. ASSUME NEW k \in 1 .. MaxCommands
        PROVE  \A c \in calls'[Command(l, k)] : c.partition = k /\ Exactly(c.fragment, RecordsIn(FlushedTo(Sources(p)), {k}))
    <3> DEFINE u == Command(l, k)
    <3>1. u \in Tasks /\ u[1] = l /\ u[2] = "command" /\ u[3] = k
      BY <2>1, CommandTasks DEF Command
    <3>2. CASE u = t
      <4>1. calls'[u] = CommitFragment(l, 1, k, given[u][1])
        BY <1>3, <2>1, <3>1, <3>2, OwnFragmentsForm
      <4>2. k \in Numbers(l)
        BY <1>1, <3>2 DEF Numbers
      <4>3. Exactly(given[u][1], RecordsIn(FlushedTo(Sources(p)), {k}))
        BY <2>2, <4>2
      <4>4. \A c \in calls'[u] : c.partition = k /\ c.fragment = given[u][1]
        BY <4>1, CommitAlongEdges
      <4> QED
        BY <4>3, <4>4
    <3>3. CASE u # t
      <4>1. calls'[u] = calls[u]
        BY <1>3, <3>1, <3>3
      <4> QED
        BY <2>2, <4>1
    <3> QED
      BY <3>2, <3>3
  <2>6. \A k \in Numbers(l)' : Exactly(given'[Command(l, k)][1], RecordsIn(FlushedTo(Sources(p))', {k}))
    BY <1>2, <1>6, <2>2, <2>4
  <2>7. Numbers(l)' = {q \in Partitions : Sent(SortCommand(sh, q), l, 1)'}
    BY <2>2, <2>3, <2>4
  <2>8. \A k \in 1 .. MaxCommands : \A c \in calls'[Command(l, k)] :
           c.partition = k /\ Exactly(c.fragment, RecordsIn(FlushedTo(Sources(p))', {k}))
    BY <1>6, <2>5
  <2> QED
    BY <2>6, <2>7, <2>8
<1>18. \A v \in Vertices, q \in Partitions : Arrived(v, q)' = Arrived(v, q)
  <2> SUFFICES ASSUME NEW v \in Vertices, NEW q \in Partitions, NEW j \in ScatterGatherPorts(v),
                      Feeder(<<v, j>>, q) \in Tasks
               PROVE  Sent(Feeder(<<v, j>>, q), Process(v), j)' <=> Sent(Feeder(<<v, j>>, q), Process(v), j)
    BY DEF Arrived
  <2> DEFINE p == <<v, j>>
             u == Feeder(p, q)
  <2>1. p \in InPorts("scatter_gather") /\ p[1] = v /\ p[2] = j
    BY PortsOfClass
  <2> HIDE DEF p
  <2>2. u[1] = FeederOf(p) /\ (u[2] = "sort" \/ (u[1][1] = "value_sort" /\ u[2] = "command"))
    BY <2>1, FeederForm
  <2>3. \E e \in Edges : e.from = u[1] /\ e.oport = 1 /\ e.to = Process(v) /\ e.port = j
    BY <2>1, <2>2, ScatterGatherEdge
  <2>4. u \in Tasks
    BY DEF p
  <2> HIDE DEF u
  <2>5. Sent(u, Process(v), j)' <=> Sent(u, Process(v), j)
    BY <1>10, <2>2, <2>3, <2>4
  <2> QED
    BY <2>5 DEF u, p
<1>19. Pools' /\ ScatterGathers'
  <2>1. Pools'
    BY <1>2, <1>6, <1>18, FramePools DEF Content
  <2>2. \A v \in Vertices : Process(v) \in LogicalTasks /\ Process(v)[1] # "gather"
    BY ProcessLogical DEF Process
  <2>3. ScatterGathers'
    BY <1>2, <1>6, <1>9, <1>18, <2>2, FrameScatterGathers DEF Content
  <2> QED
    BY <2>1, <2>3
<1>20. OneToOnes'
  <2>1. \A v \in Vertices : Process(v) \in LogicalTasks /\ Process(v)[1] # "gather"
    BY ProcessLogical DEF Process
  <2> QED
    BY <1>2, <1>8, <1>9, <2>1, FrameOneToOnes DEF Content
<1>21. Broadcasts'
  <2> SUFFICES ASSUME NEW p \in InPorts("broadcast")
               PROVE  LET g == EntryTask(Gather(Sources(p))) IN
                      /\ Sent(g, Process(p[1]), p[2])' => Sent(g, Process(p[1]), p[2])
                      /\ status[TerminalTask(Process(p[1]))] = "done" => status'[TerminalTask(Process(p[1]))] = "done"
    BY <1>2, <1>6, FrameBroadcasts DEF Content
  <2> DEFINE g == EntryTask(Gather(Sources(p)))
  <2>1. g \in Tasks /\ g[1] = Gather(Sources(p)) /\ g[1][1] = "gather"
    BY BroadcastEdge, PhaseTasks, InitialTasks DEF EntryTask, Gather
  <2>2. \E e \in Edges : e.from = g[1] /\ e.oport = 1 /\ e.to = Process(p[1]) /\ e.port = p[2]
    BY <2>1, BroadcastEdge
  <2>3. p[1] \in Vertices
    BY PortForm
  <2>4. TerminalTask(Process(p[1])) \in Tasks
    BY <2>3, ProcessLogical, PhaseTasks, InitialTasks
  <2> HIDE DEF g
  <2>5. Sent(g, Process(p[1]), p[2])' <=> Sent(g, Process(p[1]), p[2])
    BY <1>10, <2>1, <2>2
  <2> QED
    BY <1>5, <2>4, <2>5 DEF g
<1> QED
  BY <1>11, <1>12, <1>13, <1>14, <1>15, <1>16, <1>17, <1>19, <1>20, <1>21 DEF Content

-----------------------------------------------------------------------------
(* Calls.                                                                  *)

LEMMA ClassForm ==
  ASSUME NEW v \in Vertices
  PROVE  /\ CreateProcessTask(v) = "one_to_one" <=>
              \E j \in DOMAIN Inputs[v] : Inputs[v][j].movement = "one_to_one"
         /\ CreateProcessTask(v) = "scatter_gather" <=>
              \E j \in DOMAIN Inputs[v] : Inputs[v][j].movement = "scatter_gather"
<1>1. ~("one_to_one" \in Movements(v) /\ "scatter_gather" \in Movements(v))
  BY FlowParameters
<1>2. CASE "one_to_one" \in Movements(v)
  <2>1. CreateProcessTask(v) = "one_to_one"
    BY <1>1, <1>2 DEF CreateProcessTask
  <2> QED
    BY <1>1, <1>2, <2>1 DEF Movements
<1>3. CASE "scatter_gather" \in Movements(v)
  <2>1. CreateProcessTask(v) = "scatter_gather"
    BY <1>1, <1>3 DEF CreateProcessTask
  <2> QED
    BY <1>1, <1>3, <2>1 DEF Movements
<1>4. CASE "one_to_one" \notin Movements(v) /\ "scatter_gather" \notin Movements(v)
  <2>1. CreateProcessTask(v) = "input"
    BY <1>4 DEF CreateProcessTask
  <2> QED
    BY <1>4, <2>1 DEF Movements
<1> QED
  BY <1>2, <1>3, <1>4

\* The call goes to an input port of a processor.
ToPort(c, movement) ==
  c.to[1] = "process" /\ <<c.to[2], c.port>> \in InPorts(movement)

\* A call of t is made, and may make a command of the task that is called.
Delivered(t, c) ==
  /\ flushed' = flushed
  /\ \A u \in Tasks : calls'[u] = IF u = t THEN calls[t] \ {c} ELSE calls[u]
  /\ \A u \in Tasks :
       \/ status'[u] = status[u] /\ given'[u] = given[u]
       \/ /\ u[1] = c.to /\ u[2] = "command" /\ ~ToPort(c, "broadcast")
          /\ status[u] = "none" /\ status'[u] = "committed"

\* What a call brings from a flush.
LEMMA FlushArrives ==
  ASSUME Control, Content, NEW t \in Tasks, t[1][1] = "process", NEW c \in calls[t], Delivered(t, c)
  PROVE  \E f \in flushed :
           /\ IsFlush(f) /\ c.fragment = FlushOf(f)
           /\ \E e \in Edges : e.from = t[1] /\ e.oport = f[2] /\ e.to = c.to /\ e.port = c.port
           /\ \A ps : <<t[1][2], f[2]>> \in ps =>
                /\ Received(ps, c.to, c.port)' = Received(ps, c.to, c.port) \cup {f}
                /\ FlushesIn(Received(ps, c.to, c.port)') = FlushesIn(Received(ps, c.to, c.port)) \cup {c.fragment}
                /\ c.fragment \notin FlushesIn(Received(ps, c.to, c.port))
           /\ \A ps, l, port : l # c.to \/ port # c.port => Received(ps, l, port)' = Received(ps, l, port)
<1>1. /\ Callers /\ Flushes /\ flushed' = flushed
      /\ \A u \in Tasks : calls'[u] = IF u = t THEN calls[t] \ {c} ELSE calls[u]
  BY DEF Content, Delivered
<1>2. PICK f \in flushed :
        /\ f[1] = t /\ c \in CommitFragment(t[1], f[2], 0, FlushOf(f))
        /\ \A ps, l, port :
             Received(ps, l, port)' =
               IF l = c.to /\ port = c.port THEN Received(ps, l, port) \cup ({f} \cap FlushedTo(ps))
               ELSE Received(ps, l, port)
        /\ \A ps : f \notin Received(ps, c.to, c.port)
  BY <1>1, ReceivedOnDeliver
<1>3. IsFlush(f)
  BY <1>1, FlushForm
<1>4. c.fragment = FlushOf(f) /\ \E e \in Edges : e.from = t[1] /\ e.oport = f[2] /\ e.to = c.to /\ e.port = c.port
  BY <1>2, CommitAlongEdges
<1>5. ASSUME NEW ps, <<t[1][2], f[2]>> \in ps
      PROVE  /\ Received(ps, c.to, c.port)' = Received(ps, c.to, c.port) \cup {f}
             /\ FlushesIn(Received(ps, c.to, c.port)') = FlushesIn(Received(ps, c.to, c.port)) \cup {c.fragment}
             /\ c.fragment \notin FlushesIn(Received(ps, c.to, c.port))
  <2> DEFINE R == Received(ps, c.to, c.port)
  <2>1. f \in FlushedTo(ps)
    BY <1>2, <1>5 DEF FlushedTo
  <2>2. Received(ps, c.to, c.port)' = R \cup {f}
    BY <1>2, <2>1
  <2>3. f \notin R /\ \A g \in R : IsFlush(g)
    BY <1>1, <1>2, FlushForm DEF Received, FlushedTo
  <2> HIDE DEF R
  <2>4. FlushesIn(R \cup {f}) = FlushesIn(R) \cup {FlushOf(f)}
    BY DEF FlushesIn
  <2>5. FlushOf(f) \notin FlushesIn(R)
    BY <1>3, <2>3, FlushOfInjective DEF FlushesIn
  <2> QED
    BY <1>4, <2>2, <2>4, <2>5 DEF R
<1>6. \A ps, l, port : l # c.to \/ port # c.port => Received(ps, l, port)' = Received(ps, l, port)
  BY <1>2
<1> QED
  BY <1>3, <1>4, <1>5, <1>6

\* What a call leaves alone.
LEMMA DeliveredSame ==
  ASSUME Control, Content, NEW t \in Tasks, status[t] = "running", NEW c \in calls[t], Delivered(t, c)
  PROVE  /\ \A u \in Tasks : (Started(u)' <=> Started(u)) /\ (status'[u] = "done" <=> status[u] = "done")
         /\ \A u \in Tasks : u[2] # "command" => status'[u] = status[u] /\ given'[u] = given[u]
         /\ \A u \in Tasks : status[u] # "none" => status'[u] = status[u] /\ given'[u] = given[u]
         /\ \A u \in Tasks : calls'[u] \subseteq calls[u]
         /\ \A ps : FlushedTo(ps)' = FlushedTo(ps)
         /\ \A ps, l, port : l # c.to \/ port # c.port => Received(ps, l, port)' = Received(ps, l, port)
         /\ \A l \in LogicalTasks : l[1] # "gather" =>
              /\ \A k \in Numbers(l) : k \in Numbers(l)' /\ given'[Command(l, k)] = given[Command(l, k)]
              /\ l # c.to \/ ToPort(c, "broadcast") =>
                   /\ Numbers(l)' = Numbers(l)
                   /\ \A k \in 1 .. MaxCommands : given'[Command(l, k)] = given[Command(l, k)]
         /\ \A u \in Tasks : \A l, port : u # t \/ l # c.to \/ port # c.port =>
              (Sent(u, l, port)' <=> Sent(u, l, port))
         /\ Sent(t, c.to, c.port)' /\ ~Sent(t, c.to, c.port)
         /\ Callers' /\ Flushes'
<1>1. /\ flushed' = flushed
      /\ \A u \in Tasks : calls'[u] = IF u = t THEN calls[t] \ {c} ELSE calls[u]
      /\ \A u \in Tasks :
           \/ status'[u] = status[u] /\ given'[u] = given[u]
           \/ /\ u[1] = c.to /\ u[2] = "command" /\ ~ToPort(c, "broadcast")
              /\ status[u] = "none" /\ status'[u] = "committed"
  BY DEF Delivered
<1>2. \A u \in Tasks : (Started(u)' <=> Started(u)) /\ (status'[u] = "done" <=> status[u] = "done")
  BY <1>1 DEF Started
<1>3. \A u \in Tasks : status[u] # "none" \/ u[2] # "command" \/ u[1] # c.to \/ ToPort(c, "broadcast") =>
        status'[u] = status[u] /\ given'[u] = given[u]
  BY <1>1
<1>4. \A u \in Tasks : calls'[u] \subseteq calls[u]
  BY <1>1
<1>5. \A ps : FlushedTo(ps)' = FlushedTo(ps)
  BY <1>1 DEF FlushedTo
<1>6. \A ps, l, port : l # c.to \/ port # c.port => Received(ps, l, port)' = Received(ps, l, port)
  <2>1. CASE t[1][1] = "process"
    BY <2>1, FlushArrives
  <2>2. CASE t[1][1] # "process"
    <3>1. \A u \in Tasks : u[1][1] = "process" => calls'[u] = calls[u]
      BY <1>1, <2>2
    <3>2. Flushes
      BY DEF Content
    <3> QED
      BY <1>1, <3>1, <3>2, ReceivedSame
  <2> QED
    BY <2>1, <2>2
<1>7. ASSUME NEW l \in LogicalTasks, l[1] # "gather"
      PROVE  /\ \A k \in Numbers(l) : k \in Numbers(l)' /\ given'[Command(l, k)] = given[Command(l, k)]
             /\ l # c.to \/ ToPort(c, "broadcast") =>
                  /\ Numbers(l)' = Numbers(l)
                  /\ \A k \in 1 .. MaxCommands : given'[Command(l, k)] = given[Command(l, k)]
  <2>1. \A k \in 1 .. MaxCommands : Command(l, k) \in Tasks /\ Command(l, k)[1] = l
    BY <1>7, CommandTasks DEF Command
  <2>2. ASSUME NEW k \in Numbers(l)
        PROVE  k \in Numbers(l)' /\ given'[Command(l, k)] = given[Command(l, k)]
    BY <1>3, <2>1 DEF Numbers
  <2>3. ASSUME l # c.to \/ ToPort(c, "broadcast")
        PROVE  /\ Numbers(l)' = Numbers(l)
               /\ \A k \in 1 .. MaxCommands : given'[Command(l, k)] = given[Command(l, k)]
    <3>1. \A k \in 1 .. MaxCommands : status'[Command(l, k)] = status[Command(l, k)]
                                      /\ given'[Command(l, k)] = given[Command(l, k)]
      BY <1>3, <2>1, <2>3
    <3> QED
      BY <3>1 DEF Numbers
  <2> QED
    BY <2>2, <2>3
<1>8. ASSUME NEW u \in Tasks, NEW l, NEW port, u # t \/ l # c.to \/ port # c.port
      PROVE  Sent(u, l, port)' <=> Sent(u, l, port)
  <2>1. \A d \in calls[u] : d.to = l /\ d.port = port => d \in calls'[u]
    BY <1>1, <1>8
  <2> QED
    BY <1>2, <1>4, <2>1 DEF Sent
<1>9. Sent(t, c.to, c.port)' /\ ~Sent(t, c.to, c.port)
  <2>1. \A d \in calls[t] : d.to = c.to /\ d.port = c.port => d = c
    BY DEF Content, Callers
  <2>2. Started(t)'
    BY <1>2 DEF Started
  <2>3. calls'[t] = calls[t] \ {c}
    BY <1>1
  <2> QED
    BY <2>1, <2>2, <2>3 DEF Sent
<1>10. Callers'
  <2> SUFFICES ASSUME NEW u \in Tasks
               PROVE  /\ calls'[u] # {} =>
                           /\ status'[u] = "running"
                           /\ u[1][1] = "shuffle" => u[2] = "sort"
                           /\ u[1][1] = "value_sort" => u[2] = "command"
                      /\ \A x, y \in calls'[u] : x.to = y.to /\ x.port = y.port => x = y
    BY DEF Callers
  <2>1. /\ calls[u] # {} =>
             /\ status[u] = "running"
             /\ u[1][1] = "shuffle" => u[2] = "sort"
             /\ u[1][1] = "value_sort" => u[2] = "command"
        /\ \A x, y \in calls[u] : x.to = y.to /\ x.port = y.port => x = y
    BY DEF Content, Callers
  <2> QED
    BY <1>3, <1>4, <2>1
<1>11. Flushes'
  BY <1>1, <1>2, <1>4, FrameFlushes DEF Content
<1> QED
  BY <1>2, <1>3, <1>4, <1>5, <1>6, <1>7, <1>8, <1>9, <1>10, <1>11

LEMMA CallForm ==
  ASSUME Control, NEW t \in Tasks, NEW c \in calls[t]
  PROVE  /\ c.to \in LogicalTasks /\ c.to[1] \in {"gather", "shuffle", "value_sort", "process"}
         /\ c.to[1] = "process" =>
              /\ c.to = Process(c.to[2]) /\ c.to[2] \in Vertices /\ c.port \in DOMAIN Inputs[c.to[2]]
              /\ ToPort(c, Inputs[c.to[2]][c.port].movement)
              /\ Inputs[c.to[2]][c.port].movement \in {"one_to_one", "scatter_gather", "broadcast"}
         /\ \A m : ToPort(c, m) => Inputs[c.to[2]][c.port].movement = m /\ c.to[1] = "process"
<1>1. PICK e \in Edges : e.from = t[1] /\ c.to = e.to /\ c.port = e.port
  BY DEF Control, CallsAlongEdges
<1>2. c.to \in LogicalTasks
  BY <1>1, LogicalOfEdge
<1>3. \A m : \A p \in InPorts(m) : p[1] \in Vertices /\ p[2] \in DOMAIN Inputs[p[1]] /\ Inputs[p[1]][p[2]].movement = m
  BY PortForm
<1>4. <<c.to[2], c.port>>[1] = c.to[2] /\ <<c.to[2], c.port>>[2] = c.port
  OBVIOUS
<1>5. c.to[1] = "process" =>
        /\ c.to = Process(c.to[2])
        /\ \E m \in {"one_to_one", "scatter_gather", "broadcast"} : <<c.to[2], c.port>> \in InPorts(m)
  BY <1>1, EdgeInto
<1> QED
  BY <1>2, <1>3, <1>4, <1>5, LogicalKind DEF ToPort

LEMMA DeliveredArrived ==
  ASSUME Control, Content, NEW t \in Tasks, status[t] = "running", NEW c \in calls[t], Delivered(t, c),
         NEW v \in Vertices, NEW q \in Partitions,
         ToPort(c, "scatter_gather") /\ c.to = Process(v) => t # Feeder(<<v, c.port>>, q)
  PROVE  Arrived(v, q)' = Arrived(v, q)
<1> SUFFICES ASSUME NEW j \in ScatterGatherPorts(v), Feeder(<<v, j>>, q) \in Tasks
             PROVE  Sent(Feeder(<<v, j>>, q), Process(v), j)' <=> Sent(Feeder(<<v, j>>, q), Process(v), j)
  BY DEF Arrived
<1> DEFINE u == Feeder(<<v, j>>, q)
<1>1. <<v, j>> \in InPorts("scatter_gather")
  BY PortsOfClass
<1>2. u # t \/ Process(v) # c.to \/ j # c.port
  <2>1. SUFFICES ASSUME Process(v) = c.to, j = c.port
                 PROVE  u # t
    OBVIOUS
  <2>2. c.to[1] = "process" /\ c.to[2] = v
    BY <2>1 DEF Process
  <2>3. ToPort(c, "scatter_gather")
    BY <1>1, <2>1, <2>2 DEF ToPort
  <2> QED
    BY <2>1, <2>3
<1> HIDE DEF u
<1>3. u \in Tasks
  BY DEF u
<1>4. Sent(u, Process(v), j)' <=> Sent(u, Process(v), j)
  BY <1>2, <1>3, DeliveredSame
<1> QED
  BY <1>4 DEF u

LEMMA DeliveredFrame ==
  ASSUME Control, Content, NEW t \in Tasks, status[t] = "running", NEW c \in calls[t], Delivered(t, c)
  PROVE  /\ Callers' /\ Flushes' /\ SortCommands'
         /\ c.to[1] # "gather" /\ inputs' = inputs => Gathers'
         /\ c.to[1] # "shuffle" => ShuffleCommands'
         /\ (\A l \in OfClass("shuffle") : inputs'[l] = inputs[l]) => ShuffleInputs'
         /\ c.to[1] # "value_sort" => ValueSorts'
         /\ ~ToPort(c, "scatter_gather") => /\ waiting' = waiting /\ pool' = pool => Pools'
                                            /\ ScatterGathers'
         /\ ~ToPort(c, "one_to_one") => OneToOnes'
         /\ ~ToPort(c, "broadcast") /\ broadcasts' = broadcasts => Broadcasts'
<1>1. /\ \A u \in Tasks : (Started(u)' <=> Started(u)) /\ (status'[u] = "done" <=> status[u] = "done")
      /\ \A u \in Tasks : u[2] # "command" => status'[u] = status[u] /\ given'[u] = given[u]
      /\ \A u \in Tasks : calls'[u] \subseteq calls[u]
  BY DeliveredSame
<1>2. \A ps : FlushedTo(ps)' = FlushedTo(ps)
  BY DeliveredSame
<1>3. \A ps, l, port : l # c.to \/ port # c.port => Received(ps, l, port)' = Received(ps, l, port)
  BY DeliveredSame
<1>4. \A l \in LogicalTasks : l[1] # "gather" =>
        /\ \A k \in Numbers(l) : k \in Numbers(l)' /\ given'[Command(l, k)] = given[Command(l, k)]
        /\ l # c.to \/ ToPort(c, "broadcast") =>
             /\ Numbers(l)' = Numbers(l)
             /\ \A k \in 1 .. MaxCommands : given'[Command(l, k)] = given[Command(l, k)]
  BY DeliveredSame
<1>5. \A u \in Tasks : \A l, port : u # t \/ l # c.to \/ port # c.port =>
        (Sent(u, l, port)' <=> Sent(u, l, port))
  BY DeliveredSame
<1>6. Callers' /\ Flushes'
  BY DeliveredSame
<1>7. SortCommands'
  <2> SUFFICES ASSUME NEW l \in OfClass("shuffle")
               PROVE  /\ status'[BarrierTask(l)] = "done" <=> status[BarrierTask(l)] = "done"
                      /\ \A q \in Partitions :
                           /\ status'[SortCommand(l, q)] = status[SortCommand(l, q)]
                           /\ given'[SortCommand(l, q)] = given[SortCommand(l, q)]
                           /\ calls'[SortCommand(l, q)] \subseteq calls[SortCommand(l, q)]
                           /\ calls[SortCommand(l, q)] # {} => status[SortCommand(l, q)] # "none"
    BY <1>2, FrameSortCommands DEF Content
  <2>1. l \in LogicalTasks /\ l[1] = "shuffle" /\ BarrierTask(l) \in Tasks
    BY OfClassForm, PhaseTasks, InitialTasks
  <2>2. \A q \in Partitions : SortCommand(l, q) \in Tasks /\ SortCommand(l, q)[2] = "sort"
    BY <2>1, CommandTasks DEF SortCommand
  <2> QED
    BY <1>1, <2>1, <2>2 DEF Content, Callers
<1>8. ASSUME c.to[1] # "gather", inputs' = inputs
      PROVE  Gathers'
  <2> SUFFICES ASSUME NEW l \in OfClass("gather")
               PROVE  /\ calls'[EntryTask(l)] \subseteq calls[EntryTask(l)]
                      /\ status[EntryTask(l)] = "done" => status'[EntryTask(l)] = "done"
                      /\ Received(l[2], l, 1)' = Received(l[2], l, 1)
    BY <1>2, <1>8, FrameGathers DEF Content, RecordsOf
  <2>1. l \in LogicalTasks /\ l[1] = "gather" /\ EntryTask(l) \in Tasks
    BY OfClassForm, PhaseTasks, InitialTasks
  <2> QED
    BY <1>1, <1>3, <1>8, <2>1
<1>9. ASSUME c.to[1] # "shuffle"
      PROVE  ShuffleCommands'
  <2> SUFFICES ASSUME NEW l \in OfClass("shuffle")
               PROVE  /\ Numbers(l)' = Numbers(l)
                      /\ \A k \in Numbers(l) : given'[Command(l, k)] = given[Command(l, k)]
                      /\ Received(l[2], l, 1)' = Received(l[2], l, 1)
    BY FrameShuffleCommands DEF Content
  <2>1. l \in LogicalTasks /\ l[1] = "shuffle" /\ l # c.to
    BY <1>9, OfClassForm
  <2> QED
    BY <1>3, <1>4, <2>1
<1>10. ASSUME \A l \in OfClass("shuffle") : inputs'[l] = inputs[l]
       PROVE  ShuffleInputs'
  <2> SUFFICES ASSUME NEW l \in OfClass("shuffle")
               PROVE  /\ {k \in Numbers(l)' : status'[Command(l, k)] = "done"}
                         = {k \in Numbers(l) : status[Command(l, k)] = "done"}
                      /\ \A k \in Numbers(l) : given'[Command(l, k)] = given[Command(l, k)]
                      /\ status'[BarrierTask(l)] = "done" <=> status[BarrierTask(l)] = "done"
    BY <1>10, FrameShuffleInputs DEF Content
  <2>1. l \in LogicalTasks /\ l[1] = "shuffle" /\ BarrierTask(l) \in Tasks
    BY OfClassForm, PhaseTasks, InitialTasks
  <2>2. \A k \in 1 .. MaxCommands : Command(l, k) \in Tasks
    BY <2>1, CommandTasks
  <2>3. \A k \in Numbers(l) : k \in Numbers(l)' /\ given'[Command(l, k)] = given[Command(l, k)]
    BY <1>4, <2>1
  <2>4. {k \in Numbers(l)' : status'[Command(l, k)] = "done"}
        = {k \in Numbers(l) : status[Command(l, k)] = "done"}
    BY <1>1, <2>2, <2>3 DEF Numbers
  <2> QED
    BY <1>1, <2>1, <2>3, <2>4
<1>11. ASSUME c.to[1] # "value_sort"
       PROVE  ValueSorts'
  <2> SUFFICES ASSUME NEW p \in InPorts("scatter_gather"), Inputs[p[1]][p[2]].sorted
               PROVE  LET l == ValueSort(p) IN
                      /\ Numbers(l)' = Numbers(l)
                      /\ \A q \in Partitions : Sent(SortCommand(Shuffle(Sources(p)), q), l, 1)'
                                              <=> Sent(SortCommand(Shuffle(Sources(p)), q), l, 1)
                      /\ \A k \in 1 .. MaxCommands :
                           /\ given'[Command(l, k)] = given[Command(l, k)]
                           /\ calls'[Command(l, k)] \subseteq calls[Command(l, k)]
                           /\ calls'[Command(l, k)] # {} => k \in Numbers(l)
    BY <1>2, FrameValueSorts DEF Content
  <2> DEFINE l == ValueSort(p)
             sh == Shuffle(Sources(p))
  <2>1. l \in LogicalTasks /\ l[1] = "value_sort" /\ sh \in LogicalTasks /\ sh[1] = "shuffle" /\ l # c.to
    BY <1>11, ScatterGatherEdge DEF FeederOf, ValueSort, Shuffle
  <2>2. \A q \in Partitions : SortCommand(sh, q) \in Tasks
    BY <2>1, CommandTasks
  <2>3. \A k \in 1 .. MaxCommands : Command(l, k) \in Tasks
    BY <2>1, CommandTasks
  <2>4. \A k \in 1 .. MaxCommands : /\ calls'[Command(l, k)] \subseteq calls[Command(l, k)]
                                    /\ calls[Command(l, k)] # {} => k \in Numbers(l)
    BY <1>1, <2>3 DEF Content, Callers, Numbers
  <2>5. /\ Numbers(l)' = Numbers(l)
        /\ \A k \in 1 .. MaxCommands : given'[Command(l, k)] = given[Command(l, k)]
    BY <1>4, <2>1
  <2> HIDE DEF l, sh
  <2>6. \A q \in Partitions : Sent(SortCommand(sh, q), l, 1)' <=> Sent(SortCommand(sh, q), l, 1)
    BY <1>5, <2>1, <2>2
  <2> QED
    BY <2>4, <2>5, <2>6 DEF l, sh
<1>12. ASSUME ~ToPort(c, "scatter_gather")
       PROVE  /\ waiting' = waiting /\ pool' = pool => Pools'
              /\ ScatterGathers'
  <2>1. \A v \in Vertices, q \in Partitions : Arrived(v, q)' = Arrived(v, q)
    BY <1>12, DeliveredArrived
  <2>2. waiting' = waiting /\ pool' = pool => Pools'
    BY <1>2, <2>1, FramePools DEF Content
  <2>3. ScatterGathers'
    <3> SUFFICES ASSUME NEW v \in Vertices, CreateProcessTask(v) = "scatter_gather"
                 PROVE  /\ Numbers(Process(v))' = Numbers(Process(v))
                        /\ \A q \in Numbers(Process(v)) :
                             given'[Command(Process(v), q)] = given[Command(Process(v), q)]
      BY <1>2, <2>1, FrameScatterGathers DEF Content
    <3>1. Process(v) \in LogicalTasks /\ Process(v)[1] = "process" /\ Process(v)[2] = v
      BY ProcessLogical DEF Process
    <3>2. Process(v) # c.to \/ ToPort(c, "broadcast")
      BY <1>12, <3>1, CallForm, ClassForm
    <3> QED
      BY <1>4, <3>1, <3>2
  <2> QED
    BY <2>2, <2>3
<1>13. ASSUME ~ToPort(c, "one_to_one")
       PROVE  OneToOnes'
  <2> SUFFICES ASSUME NEW v \in Vertices, CreateProcessTask(v) = "one_to_one"
               PROVE  /\ Numbers(Process(v))' = Numbers(Process(v))
                      /\ \A k \in Numbers(Process(v)) :
                           given'[Command(Process(v), k)] = given[Command(Process(v), k)]
                      /\ \A j \in DOMAIN Inputs[v] : Inputs[v][j].movement = "one_to_one" =>
                           Received(Sources(<<v, j>>), Process(v), j)' = Received(Sources(<<v, j>>), Process(v), j)
    BY FrameOneToOnes DEF Content
  <2>1. Process(v) \in LogicalTasks /\ Process(v)[1] = "process" /\ Process(v)[2] = v
    BY ProcessLogical DEF Process
  <2>2. Process(v) # c.to \/ ToPort(c, "broadcast")
    BY <1>13, <2>1, CallForm, ClassForm
  <2>3. \A j \in DOMAIN Inputs[v] : Inputs[v][j].movement = "one_to_one" => Process(v) # c.to \/ j # c.port
    BY <1>13, <2>1, CallForm, PortOf DEF ToPort
  <2> QED
    BY <1>3, <1>4, <2>1, <2>2, <2>3
<1>14. ASSUME ~ToPort(c, "broadcast"), broadcasts' = broadcasts
       PROVE  Broadcasts'
  <2> SUFFICES ASSUME NEW p \in InPorts("broadcast")
               PROVE  LET g == EntryTask(Gather(Sources(p))) IN
                      /\ Sent(g, Process(p[1]), p[2])' => Sent(g, Process(p[1]), p[2])
                      /\ status[TerminalTask(Process(p[1]))] = "done" => status'[TerminalTask(Process(p[1]))] = "done"
    BY <1>2, <1>14, FrameBroadcasts DEF Content
  <2> DEFINE g == EntryTask(Gather(Sources(p)))
  <2>1. g \in Tasks /\ p[1] \in Vertices /\ p = <<p[1], p[2]>>
    BY BroadcastEdge, PhaseTasks, InitialTasks, PortForm
  <2>2. TerminalTask(Process(p[1])) \in Tasks
    BY <2>1, ProcessLogical, PhaseTasks, InitialTasks
  <2>3. Process(p[1]) # c.to \/ p[2] # c.port
    BY <1>14, <2>1 DEF ToPort, Process
  <2> HIDE DEF g
  <2>4. Sent(g, Process(p[1]), p[2])' <=> Sent(g, Process(p[1]), p[2])
    BY <1>5, <2>1, <2>3
  <2> QED
    BY <1>1, <2>2, <2>4 DEF g
<1> QED
  BY <1>6, <1>7, <1>8, <1>9, <1>10, <1>11, <1>12, <1>13, <1>14

\* The commands are numbered as they are made.
LEMMA NextForm ==
  ASSUME NEW l, NEW n \in 0 .. MaxCommands, Numbers(l) = 1 .. n
  PROVE  NextCommand(l) = n + 1 /\ NextCommand(l) \notin Numbers(l) /\ Numbers(l) \cup {n + 1} = 1 .. n + 1
<1>1. n \in Nat /\ MaxCommands \in Nat
  BY FlowParameters
<1>2. Cardinality(1 .. n) = n
  <2>1. IF 1 > n THEN Cardinality(1 .. n) = 0 ELSE Cardinality(1 .. n) = n - 1 + 1
    BY <1>1, FS_Interval
  <2> QED
    BY <1>1, <2>1
<1>3. NextCommand(l) = 1 + Cardinality(Numbers(l))
  BY DEF NextCommand, Numbers
<1> QED
  BY <1>1, <1>2, <1>3

\* A command with a new number.
LEMMA Spawned ==
  ASSUME Control, NEW l \in LogicalTasks, NEW k, NEW fragments, SpawnCommand(l, k, fragments), k \notin Numbers(l)
  PROVE  /\ k \in 1 .. MaxCommands
         /\ status[Command(l, k)] = "none" /\ status'[Command(l, k)] = "committed"
         /\ given'[Command(l, k)] = fragments
         /\ \A u \in Tasks : u # Command(l, k) => status'[u] = status[u] /\ given'[u] = given[u]
         /\ Numbers(l)' = Numbers(l) \cup {k}
<1> DEFINE n == Command(l, k)
<1>1. /\ n \in Tasks /\ given' = [given EXCEPT ![n] = fragments]
      /\ status' = [u \in Tasks |-> IF u \in {n} THEN "committed" ELSE IF u \in {} THEN "done" ELSE status[u]]
  BY DEF SpawnCommand, Spawn
<1>2. k \in 1 .. MaxCommands
  BY <1>1, CommandTasks
<1>3. status[n] = "none"
  BY <1>2 DEF Numbers
<1>4. given'[n] = fragments /\ \A u \in Tasks : u # n => given'[u] = given[u]
  BY <1>1 DEF Control, ShapeOK
<1>5. status'[n] = "committed" /\ \A u \in Tasks : u # n => status'[u] = status[u]
  BY <1>1
<1>6. l[1] # "gather"
  BY <1>1, TaskForm, CommandTasks DEF Command
<1>7. \A i \in 1 .. MaxCommands : Command(l, i) \in Tasks /\ (Command(l, i) = n => i = k)
  BY <1>6, CommandTasks DEF Command
<1>8. Numbers(l)' = Numbers(l) \cup {k}
  BY <1>2, <1>5, <1>7 DEF Numbers
<1> QED
  BY <1>2, <1>3, <1>4, <1>5, <1>8

LEMMA SpawnedDelivered ==
  ASSUME Control, NEW t \in Tasks, NEW c \in calls[t], flushed' = flushed,
         calls' = [calls EXCEPT ![t] = calls[t] \ {c}], ~ToPort(c, "broadcast"),
         NEW k, NEW fragments, SpawnCommand(c.to, k, fragments), k \notin Numbers(c.to)
  PROVE  Delivered(t, c)
<1>1. c.to \in LogicalTasks
  BY CallForm
<1>2. Command(c.to, k)[1] = c.to /\ Command(c.to, k)[2] = "command"
  BY DEF Command
<1>3. /\ status[Command(c.to, k)] = "none" /\ status'[Command(c.to, k)] = "committed"
      /\ \A u \in Tasks : u # Command(c.to, k) => status'[u] = status[u] /\ given'[u] = given[u]
  BY <1>1, Spawned
<1>4. \A u \in Tasks : calls'[u] = IF u = t THEN calls[t] \ {c} ELSE calls[u]
  BY DEF Control, ShapeOK
<1> QED
  BY <1>2, <1>3, <1>4 DEF Delivered

LEMMA GatherReceiveContent ==
  ASSUME Control, Content, NEW t \in Tasks, status[t] = "running", NEW c \in calls[t],
         calls' = [calls EXCEPT ![t] = calls[t] \ {c}], flushed' = flushed,
         c.to[1] = "gather", GatherReceive(c.to, c.fragment)
  PROVE  Content'
<1> DEFINE l == c.to
<1>1. /\ inputs' = [inputs EXCEPT ![l] = Append(inputs[l], c.fragment)]
      /\ status' = status /\ pool' = pool /\ waiting' = waiting /\ broadcasts' = broadcasts /\ given' = given
  BY DEF GatherReceive, sched
<1>2. Delivered(t, c)
  BY <1>1 DEF Delivered, Control, ShapeOK
<1>3. l \in LogicalTasks /\ \A m : ~ToPort(c, m)
  BY CallForm DEF ToPort
<1>4. \A m \in LogicalTasks : inputs'[m] = IF m = l THEN Append(inputs[l], c.fragment) ELSE inputs[m]
  BY <1>1 DEF Control, ShapeOK
<1>5. /\ Callers' /\ Flushes' /\ SortCommands' /\ ShuffleCommands' /\ ValueSorts'
      /\ Pools' /\ ScatterGathers' /\ OneToOnes' /\ Broadcasts'
  BY <1>1, <1>2, <1>3, DeliveredFrame
<1>6. ShuffleInputs'
  <2>1. \A m \in OfClass("shuffle") : inputs'[m] = inputs[m]
    BY <1>4, OfClassForm
  <2> QED
    BY <1>2, <2>1, DeliveredFrame
<1>7. PICK e \in Edges : e.from = t[1] /\ l = e.to /\ c.port = e.port /\ status[SuccessorTask(e)] = "committed"
  BY CallInTime
<1>8. t[1][1] = "process" /\ c.port = 1
  BY <1>7, EdgeInto
<1>9. PICK f \in flushed :
        /\ IsFlush(f) /\ c.fragment = FlushOf(f)
        /\ \E x \in Edges : x.from = t[1] /\ x.oport = f[2] /\ x.to = c.to /\ x.port = c.port
        /\ \A ps : <<t[1][2], f[2]>> \in ps =>
             /\ Received(ps, c.to, c.port)' = Received(ps, c.to, c.port) \cup {f}
             /\ FlushesIn(Received(ps, c.to, c.port)') = FlushesIn(Received(ps, c.to, c.port)) \cup {c.fragment}
             /\ c.fragment \notin FlushesIn(Received(ps, c.to, c.port))
  BY <1>2, <1>8, FlushArrives
<1>10. <<t[1][2], f[2]>> \in l[2]
  BY <1>9, EdgeInto
<1>11. Gathers'
  <2> SUFFICES ASSUME NEW m \in OfClass("gather")
               PROVE  /\ status'[EntryTask(m)] # "done" =>
                           Exactly(inputs'[m], FlushesIn(Received(m[2], m, 1)'))
                      /\ \A d \in calls'[EntryTask(m)] : Exactly(d.fragment, RecordsIn(FlushedTo(m[2])', Partitions))
    BY DEF Gathers, RecordsOf
  <2>1. m \in LogicalTasks /\ EntryTask(m) \in Tasks
    BY OfClassForm, PhaseTasks, InitialTasks
  <2>2. /\ status[EntryTask(m)] # "done" => Exactly(inputs[m], FlushesIn(Received(m[2], m, 1)))
        /\ \A d \in calls[EntryTask(m)] : Exactly(d.fragment, RecordsIn(FlushedTo(m[2]), Partitions))
    BY DEF Content, Gathers, RecordsOf
  <2>3. FlushedTo(m[2])' = FlushedTo(m[2]) /\ calls'[EntryTask(m)] \subseteq calls[EntryTask(m)]
    BY <1>2, <2>1, DeliveredSame
  <2>4. CASE m = l
    <3>1. DOMAIN inputs[l] = 1 .. Len(inputs[l]) /\ Len(inputs[l]) \in Nat
      BY <1>3 DEF Control, ShapeOK
    <3>2. FlushesIn(Received(l[2], l, 1)') = FlushesIn(Received(l[2], l, 1)) \cup {c.fragment}
          /\ c.fragment \notin FlushesIn(Received(l[2], l, 1))
      BY <1>8, <1>9, <1>10
    <3>3. status[EntryTask(m)] # "done" => Exactly(Append(inputs[l], c.fragment), FlushesIn(Received(l[2], l, 1)'))
      BY <2>2, <2>4, <3>1, <3>2, ExactlyAppend
    <3> QED
      BY <1>1, <1>4, <2>1, <2>2, <2>3, <2>4, <3>3
  <2>5. CASE m # l
    <3>1. Received(m[2], m, 1)' = Received(m[2], m, 1)
      BY <1>2, <2>5, DeliveredSame
    <3> QED
      BY <1>1, <1>4, <2>1, <2>2, <2>3, <2>5, <3>1
  <2> QED
    BY <2>4, <2>5
<1> QED
  BY <1>5, <1>6, <1>11 DEF Content

LEMMA ShuffleReceiveContent ==
  ASSUME Control, Content, NEW t \in Tasks, status[t] = "running", NEW c \in calls[t],
         calls' = [calls EXCEPT ![t] = calls[t] \ {c}], flushed' = flushed,
         c.to[1] = "shuffle", ShuffleReceive(c.to, c.fragment)
  PROVE  Content'
<1> DEFINE l == c.to
<1>1. /\ SpawnCommand(l, NextCommand(l), <<c.fragment>>)
      /\ inputs' = inputs /\ pool' = pool /\ waiting' = waiting /\ broadcasts' = broadcasts
  BY DEF ShuffleReceive
<1>2. l \in LogicalTasks /\ l \in OfClass("shuffle") /\ \A m : ~ToPort(c, m)
  BY CallForm DEF ToPort, OfClass
<1>3. PICK n \in 0 .. MaxCommands : Numbers(l) = 1 .. n
  BY <1>2 DEF Content, ShuffleCommands
<1>4. NextCommand(l) = n + 1 /\ n + 1 \notin Numbers(l) /\ Numbers(l) \cup {n + 1} = 1 .. n + 1
  BY <1>3, NextForm
<1>5. /\ n + 1 \in 1 .. MaxCommands /\ given'[Command(l, n + 1)] = <<c.fragment>>
      /\ Numbers(l)' = Numbers(l) \cup {n + 1}
  BY <1>1, <1>2, <1>4, Spawned
<1>6. Delivered(t, c)
  BY <1>1, <1>2, <1>4, SpawnedDelivered
<1>7. /\ Callers' /\ Flushes' /\ SortCommands' /\ Gathers' /\ ShuffleInputs' /\ ValueSorts'
      /\ Pools' /\ ScatterGathers' /\ OneToOnes' /\ Broadcasts'
  BY <1>1, <1>2, <1>6, DeliveredFrame
<1>8. PICK e \in Edges : e.from = t[1] /\ l = e.to /\ c.port = e.port /\ status[SuccessorTask(e)] = "committed"
  BY CallInTime
<1>9. t[1][1] = "process" /\ c.port = 1
  <2>1. e.to[1] \in {"gather", "shuffle"}
    BY <1>8
  <2>2. e.port = 1 /\ e.from[1] = "process"
    BY <2>1, EdgeInto
  <2> QED
    BY <1>8, <2>2
<1>10. PICK f \in flushed :
        /\ IsFlush(f) /\ c.fragment = FlushOf(f)
        /\ \E x \in Edges : x.from = t[1] /\ x.oport = f[2] /\ x.to = c.to /\ x.port = c.port
        /\ \A ps : <<t[1][2], f[2]>> \in ps =>
             /\ Received(ps, c.to, c.port)' = Received(ps, c.to, c.port) \cup {f}
             /\ FlushesIn(Received(ps, c.to, c.port)') = FlushesIn(Received(ps, c.to, c.port)) \cup {c.fragment}
             /\ c.fragment \notin FlushesIn(Received(ps, c.to, c.port))
  BY <1>6, <1>9, FlushArrives
<1>11. <<t[1][2], f[2]>> \in l[2]
  BY <1>10, EdgeInto
<1>12. ShuffleCommands'
  <2> SUFFICES ASSUME NEW m \in OfClass("shuffle")
               PROVE  /\ \E i \in 0 .. MaxCommands : Numbers(m)' = 1 .. i
                      /\ Exactly([k \in Numbers(m)' |-> given'[Command(m, k)][1]],
                                 FlushesIn(Received(m[2], m, 1)'))
    BY DEF ShuffleCommands
  <2> DEFINE old == [k \in Numbers(m) |-> given[Command(m, k)][1]]
             new == [k \in Numbers(m)' |-> given'[Command(m, k)][1]]
  <2>1. m \in LogicalTasks /\ m[1] # "gather"
    BY OfClassForm
  <2>2. Exactly(old, FlushesIn(Received(m[2], m, 1)))
    BY DEF Content, ShuffleCommands
  <2>3. \A k \in Numbers(m) : k \in Numbers(m)' /\ given'[Command(m, k)] = given[Command(m, k)]
    BY <1>6, <2>1, DeliveredSame
  <2>4. CASE m = l
    <3>1. n + 1 \in 0 .. MaxCommands /\ Numbers(m)' = 1 .. n + 1
      <4>1. n + 1 \in 0 .. MaxCommands
        BY <1>5, FlowParameters
      <4> QED
        BY <1>4, <1>5, <2>4, <4>1
    <3>2. /\ FlushesIn(Received(m[2], m, 1)') = FlushesIn(Received(m[2], m, 1)) \cup {c.fragment}
          /\ c.fragment \notin FlushesIn(Received(m[2], m, 1))
      BY <1>9, <1>10, <1>11, <2>4
    <3>3. /\ n + 1 \notin DOMAIN old /\ DOMAIN new = DOMAIN old \cup {n + 1}
          /\ \A i \in DOMAIN old : new[i] = old[i]
          /\ new[n + 1] = c.fragment
      BY <1>4, <1>5, <2>3, <2>4
    <3>4. Exactly(new, FlushesIn(Received(m[2], m, 1)) \cup {c.fragment})
      <4> HIDE DEF old, new
      <4> QED
        BY <2>2, <3>2, <3>3, ExactlyMore
    <3> QED
      BY <3>1, <3>2, <3>4
  <2>5. CASE m # l
    <3>1. Numbers(m)' = Numbers(m) /\ Received(m[2], m, 1)' = Received(m[2], m, 1)
      BY <1>6, <2>1, <2>5, DeliveredSame
    <3>2. \E i \in 0 .. MaxCommands : Numbers(m) = 1 .. i
      BY DEF Content, ShuffleCommands
    <3>3. new = old
      BY <2>3, <3>1
    <3> QED
      BY <2>2, <3>1, <3>2, <3>3
  <2> QED
    BY <2>4, <2>5
<1> QED
  BY <1>7, <1>12 DEF Content

LEMMA OneToOneReceiveContent ==
  ASSUME Control, Content, NEW t \in Tasks, status[t] = "running", NEW c \in calls[t],
         calls' = [calls EXCEPT ![t] = calls[t] \ {c}], flushed' = flushed,
         ToPort(c, "one_to_one"), OneToOneReceive(c.to[2], c.port, c.fragment)
  PROVE  Content'
<1> DEFINE l == c.to
           v == c.to[2]
           port == c.port
<1>1. /\ SpawnCommand(Process(v), NextCommand(Process(v)), [j \in {port} |-> c.fragment])
      /\ inputs' = inputs /\ pool' = pool /\ waiting' = waiting /\ broadcasts' = broadcasts
  BY DEF OneToOneReceive
<1>2. /\ l \in LogicalTasks /\ l[1] = "process" /\ l = Process(v) /\ v \in Vertices /\ port \in DOMAIN Inputs[v]
      /\ Inputs[v][port].movement = "one_to_one"
      /\ ~ToPort(c, "broadcast") /\ ~ToPort(c, "scatter_gather")
  BY CallForm
<1>3. CreateProcessTask(v) = "one_to_one"
  BY <1>2, ClassForm
<1>4. PICK n \in 0 .. MaxCommands : Numbers(l) = 1 .. n
  BY <1>2, <1>3 DEF Content, OneToOnes
<1>5. NextCommand(l) = n + 1 /\ n + 1 \notin Numbers(l) /\ Numbers(l) \cup {n + 1} = 1 .. n + 1
  BY <1>4, NextForm
<1>6. /\ n + 1 \in 1 .. MaxCommands /\ given'[Command(l, n + 1)] = [j \in {port} |-> c.fragment]
      /\ Numbers(l)' = Numbers(l) \cup {n + 1}
  BY <1>1, <1>2, <1>5, Spawned
<1>7. Delivered(t, c)
  BY <1>1, <1>2, <1>5, SpawnedDelivered
<1>8. /\ Callers' /\ Flushes' /\ SortCommands' /\ Gathers' /\ ShuffleCommands' /\ ShuffleInputs' /\ ValueSorts'
      /\ Pools' /\ ScatterGathers' /\ Broadcasts'
  BY <1>1, <1>2, <1>7, DeliveredFrame
<1>9. PICK e \in Edges : e.from = t[1] /\ l = e.to /\ port = e.port
  BY CallInTime
<1>10. t[1][1] = "process"
  <2>1. e.to[1] = "process" /\ e.to[2] = v /\ e.port = port
    BY <1>2, <1>9
  <2>2. ~(<<v, port>> \in InPorts("broadcast")) /\ ~(<<v, port>> \in InPorts("scatter_gather"))
    BY <1>2 DEF ToPort
  <2>3. <<v, port>> \in InPorts("one_to_one") /\ e.from[1] = "process"
    BY <2>1, <2>2, EdgeInto
  <2> QED
    BY <1>9, <2>3
<1>11. PICK f \in flushed :
        /\ IsFlush(f) /\ c.fragment = FlushOf(f)
        /\ \E x \in Edges : x.from = t[1] /\ x.oport = f[2] /\ x.to = c.to /\ x.port = c.port
        /\ \A ps : <<t[1][2], f[2]>> \in ps =>
             /\ Received(ps, c.to, c.port)' = Received(ps, c.to, c.port) \cup {f}
             /\ FlushesIn(Received(ps, c.to, c.port)') = FlushesIn(Received(ps, c.to, c.port)) \cup {c.fragment}
             /\ c.fragment \notin FlushesIn(Received(ps, c.to, c.port))
  BY <1>7, <1>10, FlushArrives
<1>12. <<t[1][2], f[2]>> \in Sources(<<v, port>>)
  <2>1. PICK x \in Edges : x.from = t[1] /\ x.oport = f[2] /\ x.to = l /\ x.port = port
    BY <1>11
  <2>2. ~(<<v, port>> \in InPorts("broadcast")) /\ ~(<<v, port>> \in InPorts("scatter_gather"))
    BY <1>2 DEF ToPort
  <2> QED
    BY <1>2, <2>1, <2>2, EdgeInto
<1> HIDE DEF l, v, port
<1>13. OneToOnes'
  <2> SUFFICES ASSUME NEW w \in Vertices, CreateProcessTask(w) = "one_to_one"
               PROVE  /\ \E i \in 0 .. MaxCommands : Numbers(Process(w))' = 1 .. i
                      /\ \A j \in DOMAIN Inputs[w] : Inputs[w][j].movement = "one_to_one" =>
                           Exactly([k \in {i \in Numbers(Process(w))' : j \in DOMAIN given'[Command(Process(w), i)]} |->
                                      given'[Command(Process(w), k)][j]],
                                   FlushesIn(Received(Sources(<<w, j>>), Process(w), j)'))
    BY DEF OneToOnes
  <2>1. Process(w) \in LogicalTasks /\ Process(w)[1] = "process" /\ Process(w)[2] = w
    BY ProcessLogical DEF Process
  <2>2. \A k \in Numbers(Process(w)) :
          k \in Numbers(Process(w))' /\ given'[Command(Process(w), k)] = given[Command(Process(w), k)]
    BY <1>7, <2>1, DeliveredSame
  <2>3. \A j : Process(w) # l \/ j # port =>
          Received(Sources(<<w, j>>), Process(w), j)' = Received(Sources(<<w, j>>), Process(w), j)
    BY <1>7, DeliveredSame DEF l, port
  <2>4. \E i \in 0 .. MaxCommands : Numbers(Process(w))' = 1 .. i
    <3>1. CASE w = v
      <4>1. n + 1 \in 0 .. MaxCommands
        BY <1>6, FlowParameters
      <4> QED
        BY <1>2, <1>5, <1>6, <3>1, <4>1
    <3>2. CASE w # v
      <4>1. Process(w) # c.to
        BY <1>2, <2>1, <3>2 DEF l, v
      <4>2. Numbers(Process(w))' = Numbers(Process(w))
        BY <1>7, <2>1, <4>1, DeliveredSame
      <4> QED
        BY <4>2 DEF Content, OneToOnes
    <3> QED
      BY <3>1, <3>2
  <2>5. ASSUME NEW j \in DOMAIN Inputs[w], Inputs[w][j].movement = "one_to_one"
        PROVE  Exactly([k \in {i \in Numbers(Process(w))' : j \in DOMAIN given'[Command(Process(w), i)]} |->
                          given'[Command(Process(w), k)][j]],
                       FlushesIn(Received(Sources(<<w, j>>), Process(w), j)'))
    <3> DEFINE to == {i \in Numbers(Process(w)) : j \in DOMAIN given[Command(Process(w), i)]}
               after == {i \in Numbers(Process(w))' : j \in DOMAIN given'[Command(Process(w), i)]}
               old == [k \in to |-> given[Command(Process(w), k)][j]]
               new == [k \in after |-> given'[Command(Process(w), k)][j]]
    <3>1. Exactly(old, FlushesIn(Received(Sources(<<w, j>>), Process(w), j)))
      BY <2>5 DEF Content, OneToOnes
    <3>2. CASE w = v /\ j = port
      <4>1. /\ FlushesIn(Received(Sources(<<w, j>>), Process(w), j)')
               = FlushesIn(Received(Sources(<<w, j>>), Process(w), j)) \cup {c.fragment}
            /\ c.fragment \notin FlushesIn(Received(Sources(<<w, j>>), Process(w), j))
        BY <1>2, <1>11, <1>12, <3>2 DEF l, port
      <4>2. after = to \cup {n + 1} /\ n + 1 \notin to
        BY <1>2, <1>5, <1>6, <2>2, <3>2
      <4>3. \A i \in to : new[i] = old[i]
        BY <2>2, <4>2
      <4>4. new[n + 1] = c.fragment
        BY <1>2, <1>6, <3>2, <4>2
      <4>5. DOMAIN old = to /\ DOMAIN new = after
        OBVIOUS
      <4>6. Exactly(new, FlushesIn(Received(Sources(<<w, j>>), Process(w), j)) \cup {c.fragment})
        <5> HIDE DEF old, new, to, after
        <5> QED
          BY <3>1, <4>1, <4>2, <4>3, <4>4, <4>5, ExactlyMore
      <4> QED
        BY <4>1, <4>6
    <3>3. CASE w # v \/ j # port
      <4>1. Process(w) # l \/ j # port
        BY <1>2, <2>1, <3>3 DEF l, v
      <4>2. after = to
        <5>1. CASE w = v
          BY <1>2, <1>6, <2>2, <3>3, <5>1
        <5>2. CASE w # v
          <6>1. Process(w) # c.to
            BY <1>2, <2>1, <5>2 DEF l, v
          <6>2. Numbers(Process(w))' = Numbers(Process(w))
            BY <1>7, <2>1, <6>1, DeliveredSame
          <6> QED
            BY <2>2, <6>2
        <5> QED
          BY <5>1, <5>2
      <4>3. new = old
        BY <2>2, <4>2
      <4> QED
        BY <2>3, <3>1, <4>1, <4>3
    <3> QED
      BY <3>2, <3>3
  <2> QED
    BY <2>4, <2>5
<1> QED
  BY <1>8, <1>13 DEF Content

\* A sort command sends its partition.
LEMMA SortSends ==
  ASSUME Control, Content, NEW l \in OfClass("shuffle"), NEW t \in Tasks, t[1] = l, NEW c \in calls[t]
  PROVE  /\ t = SortCommand(l, t[3]) /\ t[3] \in Partitions /\ c.partition = t[3]
         /\ Exactly(c.fragment, RecordsOf(l[2], {t[3]}))
<1>1. t[2] = "sort"
  BY OfClassForm DEF Content, Callers
<1>2. t = SortCommand(l, t[3]) /\ t[3] \in Partitions
  BY <1>1, RoleForm
<1> QED
  BY <1>2 DEF Content, SortCommands

LEMMA ValueSortReceiveContent ==
  ASSUME Control, Content, NEW t \in Tasks, status[t] = "running", NEW c \in calls[t],
         calls' = [calls EXCEPT ![t] = calls[t] \ {c}], flushed' = flushed,
         c.to[1] = "value_sort", ValueSortReceive(c.to, c.partition, c.fragment)
  PROVE  Content'
<1> DEFINE l == c.to
           p == l[2]
           sh == Shuffle(Sources(p))
           q == c.partition
<1>1. /\ SpawnCommand(l, q, <<c.fragment>>)
      /\ inputs' = inputs /\ pool' = pool /\ waiting' = waiting /\ broadcasts' = broadcasts
  BY DEF ValueSortReceive
<1>2. l \in LogicalTasks /\ \A m : ~ToPort(c, m)
  BY CallForm DEF ToPort
<1>3. l = ValueSort(p) /\ p \in InPorts("scatter_gather") /\ Inputs[p[1]][p[2]].sorted
  BY <1>2, LogicalKind
<1>4. PICK e \in Edges : e.from = t[1] /\ l = e.to /\ c.port = e.port
  BY CallInTime
<1>5. t[1] = sh /\ c.port = 1
  BY <1>4, EdgeInto
<1>6. sh \in OfClass("shuffle") /\ sh[2] = Sources(p)
  BY <1>3, ScatterGatherEdge DEF OfClass, Shuffle
<1>7. t = SortCommand(sh, q) /\ q \in Partitions /\ Exactly(c.fragment, RecordsOf(Sources(p), {q}))
  BY <1>5, <1>6, SortSends
<1>8. /\ Numbers(l) = {i \in Partitions : Sent(SortCommand(sh, i), l, 1)}
      /\ \A k \in Numbers(l) : Exactly(given[Command(l, k)][1], RecordsOf(Sources(p), {k}))
      /\ \A k \in 1 .. MaxCommands : \A d \in calls[Command(l, k)] :
           d.partition = k /\ Exactly(d.fragment, RecordsOf(Sources(p), {k}))
  <2> HIDE DEF l, p
  <2>1. /\ Numbers(ValueSort(p)) = {i \in Partitions : Sent(SortCommand(sh, i), ValueSort(p), 1)}
        /\ \A k \in Numbers(ValueSort(p)) :
             Exactly(given[Command(ValueSort(p), k)][1], RecordsOf(Sources(p), {k}))
        /\ \A k \in 1 .. MaxCommands : \A d \in calls[Command(ValueSort(p), k)] :
             d.partition = k /\ Exactly(d.fragment, RecordsOf(Sources(p), {k}))
    BY <1>3 DEF Content, ValueSorts
  <2>2. l = ValueSort(p)
    BY <1>3
  <2> QED
    BY <2>1, <2>2
<1>9. q \notin Numbers(l)
  BY <1>5, <1>7, <1>8 DEF Sent
<1>10. /\ q \in 1 .. MaxCommands /\ given'[Command(l, q)] = <<c.fragment>>
       /\ Numbers(l)' = Numbers(l) \cup {q}
  BY <1>1, <1>2, <1>9, Spawned
<1>11. Delivered(t, c)
  BY <1>1, <1>2, <1>9, SpawnedDelivered
<1>12. /\ Callers' /\ Flushes' /\ SortCommands' /\ Gathers' /\ ShuffleCommands' /\ ShuffleInputs'
       /\ Pools' /\ ScatterGathers' /\ OneToOnes' /\ Broadcasts'
  BY <1>1, <1>2, <1>11, DeliveredFrame
<1>13. \A ps : FlushedTo(ps)' = FlushedTo(ps)
  BY <1>11, DeliveredSame
<1>14. \A u \in Tasks : calls'[u] \subseteq calls[u]
  BY <1>11, DeliveredSame
<1> HIDE DEF l, p, sh, q
<1>15. ValueSorts'
  <2> SUFFICES ASSUME NEW r \in InPorts("scatter_gather"), Inputs[r[1]][r[2]].sorted
               PROVE  LET m == ValueSort(r) IN
                      /\ Numbers(m)' = {i \in Partitions : Sent(SortCommand(Shuffle(Sources(r)), i), m, 1)'}
                      /\ \A k \in Numbers(m)' : Exactly(given'[Command(m, k)][1], RecordsIn(FlushedTo(Sources(r))', {k}))
                      /\ \A k \in 1 .. MaxCommands : \A d \in calls'[Command(m, k)] :
                           d.partition = k /\ Exactly(d.fragment, RecordsIn(FlushedTo(Sources(r))', {k}))
    BY DEF ValueSorts, RecordsOf
  <2> DEFINE m == ValueSort(r)
             s == Shuffle(Sources(r))
  <2>1. m \in LogicalTasks /\ m[1] = "value_sort" /\ m[2] = r /\ s \in LogicalTasks /\ s[1] = "shuffle"
    BY ScatterGatherEdge DEF FeederOf, ValueSort, Shuffle
  <2>2. /\ Numbers(m) = {i \in Partitions : Sent(SortCommand(s, i), m, 1)}
        /\ \A k \in Numbers(m) : Exactly(given[Command(m, k)][1], RecordsIn(FlushedTo(Sources(r)), {k}))
        /\ \A k \in 1 .. MaxCommands : \A d \in calls[Command(m, k)] :
             d.partition = k /\ Exactly(d.fragment, RecordsIn(FlushedTo(Sources(r)), {k}))
    BY DEF Content, ValueSorts, RecordsOf
  <2>3. \A i \in Partitions : SortCommand(s, i) \in Tasks
    BY <2>1, CommandTasks
  <2>4. \A k \in 1 .. MaxCommands : Command(m, k) \in Tasks
    BY <2>1, CommandTasks
  <2>5. \A k \in Numbers(m) : given'[Command(m, k)] = given[Command(m, k)]
    BY <1>11, <2>1, DeliveredSame
  <2> HIDE DEF s, m
  <2>6. \A k \in 1 .. MaxCommands : \A d \in calls'[Command(m, k)] :
           d.partition = k /\ Exactly(d.fragment, RecordsIn(FlushedTo(Sources(r))', {k}))
    BY <1>13, <1>14, <2>2, <2>4
  <2>7. CASE r = p
    <3>1. m = l /\ s = sh
      BY <1>3, <2>7 DEF m, s, l, sh
    <3>2. \A i \in Partitions : Sent(SortCommand(s, i), m, 1)' <=> (Sent(SortCommand(s, i), m, 1) \/ i = q)
      <4> SUFFICES ASSUME NEW i \in Partitions
                   PROVE  Sent(SortCommand(s, i), m, 1)' <=> (Sent(SortCommand(s, i), m, 1) \/ i = q)
        OBVIOUS
      <4>1. CASE i = q
        <5>1. SortCommand(s, i) = t /\ m = c.to /\ c.port = 1
          BY <1>5, <1>7, <3>1, <4>1 DEF l
        <5>2. Sent(t, c.to, c.port)'
          BY <1>11, DeliveredSame
        <5> QED
          BY <4>1, <5>1, <5>2
      <4>2. CASE i # q
        <5>1. SortCommand(s, i) # t
          BY <1>7, <3>1, <4>2 DEF SortCommand
        <5>2. Sent(SortCommand(s, i), m, 1)' <=> Sent(SortCommand(s, i), m, 1)
          BY <1>11, <2>3, <5>1, DeliveredSame
        <5> QED
          BY <4>2, <5>2
      <4> QED
        BY <4>1, <4>2
    <3>3. Numbers(m)' = {i \in Partitions : Sent(SortCommand(s, i), m, 1)'}
      BY <1>7, <1>10, <2>2, <3>1, <3>2
    <3>4. \A k \in Numbers(m)' : Exactly(given'[Command(m, k)][1], RecordsIn(FlushedTo(Sources(r))', {k}))
      <4> SUFFICES ASSUME NEW k \in Numbers(m)'
                   PROVE  Exactly(given'[Command(m, k)][1], RecordsIn(FlushedTo(Sources(r))', {k}))
        OBVIOUS
      <4>1. CASE k = q
        <5>1. given'[Command(m, k)][1] = c.fragment
          BY <1>10, <3>1, <4>1
        <5>2. Exactly(c.fragment, RecordsIn(FlushedTo(Sources(r)), {k}))
          BY <1>7, <2>7, <4>1 DEF RecordsOf
        <5> QED
          BY <1>13, <5>1, <5>2
      <4>2. CASE k # q
        <5>1. k \in Numbers(m)
          BY <1>10, <3>1, <4>2
        <5> QED
          BY <1>13, <2>2, <2>5, <5>1
      <4> QED
        BY <4>1, <4>2
    <3> QED
      BY <2>6, <3>3, <3>4 DEF m, s
  <2>8. CASE r # p
    <3>1. m # c.to
      BY <2>1, <2>8 DEF p, l
    <3>2. Numbers(m)' = Numbers(m)
      BY <1>11, <2>1, <3>1, DeliveredSame
    <3>3. \A i \in Partitions : Sent(SortCommand(s, i), m, 1)' <=> Sent(SortCommand(s, i), m, 1)
      BY <1>11, <2>3, <3>1, DeliveredSame
    <3>4. Numbers(m)' = {i \in Partitions : Sent(SortCommand(s, i), m, 1)'}
      BY <2>2, <3>2, <3>3
    <3>5. \A k \in Numbers(m)' : Exactly(given'[Command(m, k)][1], RecordsIn(FlushedTo(Sources(r))', {k}))
      BY <1>13, <2>2, <2>5, <3>2
    <3> QED
      BY <2>6, <3>4, <3>5 DEF m, s
  <2> QED
    BY <2>7, <2>8
<1> QED
  BY <1>12, <1>15 DEF Content

LEMMA BroadcastReceiveContent ==
  ASSUME Control, Content, NEW t \in Tasks, status[t] = "running", NEW c \in calls[t],
         calls' = [calls EXCEPT ![t] = calls[t] \ {c}], flushed' = flushed,
         ToPort(c, "broadcast"), BroadcastReceive(c.to[2], c.port, c.fragment)
  PROVE  Content'
<1> DEFINE v == c.to[2]
           port == c.port
           p == <<v, port>>
           g == Gather(Sources(p))
<1>1. /\ broadcasts' = [broadcasts EXCEPT ![v] = Put(broadcasts[v], port, c.fragment)]
      /\ status' = status /\ inputs' = inputs /\ pool' = pool /\ waiting' = waiting /\ given' = given
  BY DEF BroadcastReceive, sched
<1>2. /\ c.to \in LogicalTasks /\ c.to[1] = "process" /\ c.to = Process(v) /\ v \in Vertices
      /\ ~ToPort(c, "one_to_one") /\ ~ToPort(c, "scatter_gather") /\ p \in InPorts("broadcast")
  BY CallForm DEF ToPort
<1>3. Delivered(t, c)
  BY <1>1 DEF Delivered, Control, ShapeOK
<1>4. /\ Callers' /\ Flushes' /\ SortCommands' /\ Gathers' /\ ShuffleCommands' /\ ShuffleInputs' /\ ValueSorts'
      /\ Pools' /\ ScatterGathers' /\ OneToOnes'
  BY <1>1, <1>2, <1>3, DeliveredFrame
<1>5. \A w \in Vertices : broadcasts'[w] = IF w = v THEN Put(broadcasts[v], port, c.fragment) ELSE broadcasts[w]
  BY <1>1 DEF Control, ShapeOK
<1>6. PICK e \in Edges : e.from = t[1] /\ c.to = e.to /\ c.port = e.port
  BY CallInTime
<1>7. t[1] = g
  <2>1. ~(p \in InPorts("one_to_one")) /\ ~(p \in InPorts("scatter_gather"))
    BY <1>2 DEF ToPort
  <2> QED
    BY <1>2, <1>6, <2>1, EdgeInto
<1>8. g \in OfClass("gather") /\ g[2] = Sources(p) /\ g[1] = "gather"
  BY <1>2, BroadcastEdge DEF OfClass, Gather
<1>9. t = EntryTask(g)
  BY <1>7, <1>8, RoleForm
<1>10. Exactly(c.fragment, RecordsOf(Sources(p), Partitions))
  BY <1>8, <1>9 DEF Content, Gathers
<1> HIDE DEF g, p, v, port
<1>11. \A ps : FlushedTo(ps)' = FlushedTo(ps)
  BY <1>3, DeliveredSame
<1>12. Broadcasts'
  <2> SUFFICES ASSUME NEW r \in InPorts("broadcast"),
                      Sent(EntryTask(Gather(Sources(r))), Process(r[1]), r[2])',
                      status'[TerminalTask(Process(r[1]))] # "done"
               PROVE  /\ r[2] \in DOMAIN broadcasts'[r[1]]
                      /\ Exactly(broadcasts'[r[1]][r[2]], RecordsIn(FlushedTo(Sources(r)), Partitions))
    BY <1>11 DEF Broadcasts, RecordsOf
  <2>1. r = <<r[1], r[2]>> /\ r[1] \in Vertices
    BY PortForm
  <2>2. CASE r = p
    <3>1. r[1] = v /\ r[2] = port
      BY <2>2 DEF p
    <3>2. broadcasts'[r[1]] = Put(broadcasts[v], port, c.fragment)
      BY <1>2, <1>5, <3>1
    <3>3. port \in DOMAIN Put(broadcasts[v], port, c.fragment)
          /\ Put(broadcasts[v], port, c.fragment)[port] = c.fragment
      BY DEF Put
    <3>4. Exactly(c.fragment, RecordsIn(FlushedTo(Sources(r)), Partitions))
      BY <1>10, <2>2 DEF RecordsOf
    <3> QED
      BY <3>1, <3>2, <3>3, <3>4
  <2>3. CASE r # p
    <3> DEFINE u == EntryTask(Gather(Sources(r)))
    <3>1. u \in Tasks
      BY BroadcastEdge, PhaseTasks, InitialTasks
    <3>2. Process(r[1]) # c.to \/ r[2] # c.port
      BY <1>2, <2>1, <2>3 DEF p, v, port, Process
    <3> HIDE DEF u
    <3>3. Sent(u, Process(r[1]), r[2])' <=> Sent(u, Process(r[1]), r[2])
      BY <1>3, <3>1, <3>2, DeliveredSame
    <3>4. Sent(u, Process(r[1]), r[2])
      BY <3>3 DEF u
    <3>5. /\ r[2] \in DOMAIN broadcasts[r[1]]
          /\ Exactly(broadcasts[r[1]][r[2]], RecordsIn(FlushedTo(Sources(r)), Partitions))
      BY <1>1, <3>4 DEF Content, Broadcasts, RecordsOf, u
    <3>6. r[2] \in DOMAIN broadcasts'[r[1]] /\ broadcasts'[r[1]][r[2]] = broadcasts[r[1]][r[2]]
      <4>1. CASE r[1] = v
        <5>1. r[2] # port
          BY <2>1, <2>3, <4>1 DEF p
        <5> QED
          BY <1>2, <1>5, <3>5, <4>1, <5>1 DEF Put
      <4>2. CASE r[1] # v
        BY <1>5, <2>1, <3>5, <4>2
      <4> QED
        BY <4>1, <4>2
    <3> QED
      BY <3>5, <3>6
  <2> QED
    BY <2>2, <2>3
<1> QED
  BY <1>4, <1>12 DEF Content

LEMMA PortsFinite ==
  ASSUME NEW v \in Vertices
  PROVE  IsFiniteSet(ScatterGatherPorts(v))
<1>1. Inputs[v] \in Seq(Port)
  BY FlowParameters
<1>2. DOMAIN Inputs[v] = 1 .. Len(Inputs[v]) /\ Len(Inputs[v]) \in Nat
  BY <1>1
<1>3. IsFiniteSet(1 .. Len(Inputs[v]))
  <2>1. \A n \in Nat : IsFiniteSet(1 .. n)
    <3> SUFFICES ASSUME NEW n \in Nat
                 PROVE  IsFiniteSet(1 .. n)
      OBVIOUS
    <3>1. 1 \in Int /\ n \in Int
      OBVIOUS
    <3> QED
      BY <3>1, FS_Interval, Zenon
  <2> QED
    BY <1>2, <2>1, Zenon
<1> QED
  BY <1>2, <1>3, FS_Subset DEF ScatterGatherPorts

\* What a scatter-gather port is sent.
LEMMA FeederSends ==
  ASSUME Control, Content, NEW t \in Tasks, NEW c \in calls[t], ToPort(c, "scatter_gather")
  PROVE  LET p == <<c.to[2], c.port>> IN
         /\ t = Feeder(p, c.partition) /\ c.partition \in Partitions
         /\ Exactly(c.fragment, RecordsOf(Sources(p), {c.partition}))
<1> DEFINE p == <<c.to[2], c.port>>
           sh == Shuffle(Sources(p))
<1>1. p \in InPorts("scatter_gather") /\ ~(p \in InPorts("one_to_one")) /\ ~(p \in InPorts("broadcast"))
  BY CallForm DEF ToPort
<1>2. PICK e \in Edges : e.from = t[1] /\ c.to = e.to /\ c.port = e.port
  BY DEF Control, CallsAlongEdges
<1>3. t[1] = FeederOf(p)
  BY <1>1, <1>2, EdgeInto DEF ToPort
<1>4. CASE Inputs[p[1]][p[2]].sorted
  <2>1. t[1] = ValueSort(p) /\ t[1][1] = "value_sort"
    BY <1>3, <1>4 DEF FeederOf, ValueSort
  <2>2. t[2] = "command" /\ status[t] = "running"
    BY <2>1 DEF Content, Callers
  <2>3. t = Command(ValueSort(p), t[3]) /\ t[3] \in 1 .. MaxCommands
    BY <2>1, <2>2, RoleForm
  <2>4. t[3] \in Numbers(ValueSort(p))
    BY <2>2, <2>3 DEF Numbers
  <2> HIDE DEF p
  <2>5. t[3] \in Partitions
    BY <1>1, <1>4, <2>4 DEF Content, ValueSorts
  <2>6. c.partition = t[3] /\ Exactly(c.fragment, RecordsOf(Sources(p), {t[3]}))
    BY <1>1, <1>4, <2>3 DEF Content, ValueSorts
  <2>7. Feeder(p, t[3]) = t
    BY <1>4, <2>3 DEF Feeder
  <2> QED
    BY <2>5, <2>6, <2>7 DEF p
<1>5. CASE ~Inputs[p[1]][p[2]].sorted
  <2>1. t[1] = sh
    BY <1>3, <1>5 DEF FeederOf
  <2>2. sh \in OfClass("shuffle") /\ sh[2] = Sources(p)
    BY <1>1, ScatterGatherEdge DEF OfClass, Shuffle
  <2> HIDE DEF p
  <2>3. /\ t = SortCommand(sh, t[3]) /\ t[3] \in Partitions /\ c.partition = t[3]
        /\ Exactly(c.fragment, RecordsOf(Sources(p), {t[3]}))
    BY <2>1, <2>2, SortSends
  <2>4. Feeder(p, t[3]) = t
    BY <1>5, <2>3 DEF Feeder
  <2> QED
    BY <2>3, <2>4 DEF p
<1> QED
  BY <1>4, <1>5

LEMMA ScatterGatherReceiveContent ==
  ASSUME Control, Content, NEW t \in Tasks, status[t] = "running", NEW c \in calls[t],
         calls' = [calls EXCEPT ![t] = calls[t] \ {c}], flushed' = flushed,
         ToPort(c, "scatter_gather"), ScatterGatherReceive(c.to[2], c.port, c.partition, c.fragment)
  PROVE  Content'
<1> DEFINE v == c.to[2]
           port == c.port
           q == c.partition
           l == Process(v)
           ports == ScatterGatherPorts(v)
           here == Arrived(v, q)
           all == Put(pool[v][q], port, c.fragment)
<1>1. /\ waiting' = [waiting EXCEPT ![v][q] = waiting[v][q] - 1]
      /\ \/ /\ waiting[v][q] = 1
            /\ SpawnCommand(l, q, all)
            /\ pool' = [pool EXCEPT ![v][q] = <<>>]
         \/ /\ waiting[v][q] # 1
            /\ pool' = [pool EXCEPT ![v][q] = all]
            /\ status' = status /\ given' = given
      /\ inputs' = inputs /\ broadcasts' = broadcasts
  BY DEF ScatterGatherReceive, sched
<1>2. /\ c.to \in LogicalTasks /\ c.to = l /\ v \in Vertices /\ port \in ports /\ l[1] = "process" /\ l[2] = v
      /\ ~ToPort(c, "one_to_one") /\ ~ToPort(c, "broadcast")
  BY CallForm DEF ScatterGatherPorts
<1>3. CreateProcessTask(v) = "scatter_gather"
  BY <1>2, ClassForm DEF ScatterGatherPorts
<1>4. /\ t = Feeder(<<v, port>>, q) /\ q \in Partitions
      /\ Exactly(c.fragment, RecordsOf(Sources(<<v, port>>), {q}))
  BY FeederSends
<1>5. Numbers(l) = {i \in Partitions : Arrived(v, i) = ports}
  BY <1>2, <1>3 DEF Content, ScatterGathers
<1>6. port \notin here /\ here \subseteq ports
  BY <1>2, <1>4 DEF Arrived, Sent
<1>7. q \notin Numbers(l)
  BY <1>2, <1>5, <1>6
<1>8. /\ waiting[v][q] = Cardinality(ports \ here)
      /\ DOMAIN pool[v][q] = here
      /\ \A j \in here : Exactly(pool[v][q][j], RecordsOf(Sources(<<v, j>>), {q}))
  BY <1>2, <1>4, <1>6 DEF Content, Pools
<1>9. Delivered(t, c)
  <2>1. CASE SpawnCommand(l, q, all)
    BY <1>2, <1>7, <2>1, SpawnedDelivered
  <2>2. CASE status' = status /\ given' = given
    BY <2>2 DEF Delivered, Control, ShapeOK
  <2> QED
    BY <1>1, <2>1, <2>2
<1>10. /\ Callers' /\ Flushes' /\ SortCommands' /\ Gathers' /\ ShuffleCommands' /\ ShuffleInputs' /\ ValueSorts'
       /\ OneToOnes' /\ Broadcasts'
  BY <1>1, <1>2, <1>9, DeliveredFrame
<1>11. \A ps : FlushedTo(ps)' = FlushedTo(ps)
  BY <1>9, DeliveredSame
<1>12. /\ DOMAIN waiting = Vertices /\ \A w \in Vertices : DOMAIN waiting[w] = Partitions
       /\ DOMAIN pool = Vertices /\ \A w \in Vertices : DOMAIN pool[w] = Partitions
  BY DEF Control, ShapeOK
<1>13. \A w \in Vertices, i \in Partitions :
         waiting'[w][i] = IF w = v /\ i = q THEN waiting[v][q] - 1 ELSE waiting[w][i]
  BY <1>1, <1>12, NestedExcept
<1>14. \A w \in Vertices, i \in Partitions :
         pool'[w][i] = IF w = v /\ i = q THEN IF waiting[v][q] = 1 THEN <<>> ELSE all ELSE pool[w][i]
  <2>1. CASE pool' = [pool EXCEPT ![v][q] = <<>>] /\ waiting[v][q] = 1
    BY <1>12, <2>1, NestedExcept
  <2>2. CASE pool' = [pool EXCEPT ![v][q] = all] /\ waiting[v][q] # 1
    BY <1>12, <2>2, NestedExcept
  <2> QED
    BY <1>1, <2>1, <2>2
<1>15. /\ DOMAIN all = here \cup {port}
       /\ \A j \in here \cup {port} : Exactly(all[j], RecordsOf(Sources(<<v, j>>), {q}))
  BY <1>4, <1>6, <1>8 DEF Put
<1>16. Arrived(v, q)' = here \cup {port}
  <2>1. \A j \in ports : j # port /\ Feeder(<<v, j>>, q) \in Tasks =>
          (Sent(Feeder(<<v, j>>, q), l, j)' <=> Sent(Feeder(<<v, j>>, q), l, j))
    BY <1>9, DeliveredSame
  <2>2. Sent(Feeder(<<v, port>>, q), l, port)' /\ Feeder(<<v, port>>, q) \in Tasks
    <3>1. Sent(t, c.to, c.port)'
      BY <1>9, DeliveredSame
    <3> QED
      BY <1>2, <1>4, <3>1
  <2> QED
    BY <1>2, <2>1, <2>2 DEF Arrived
<1>17. ASSUME NEW w \in Vertices, NEW i \in Partitions, w # v \/ i # q
       PROVE  Arrived(w, i)' = Arrived(w, i)
  <2>1. ASSUME c.to = Process(w)
        PROVE  t # Feeder(<<w, c.port>>, i)
    <3>1. w = v /\ i # q
      BY <1>2, <1>17, <2>1 DEF Process
    <3>2. <<v, port>> \in InPorts("scatter_gather")
      BY <1>2, PortsOfClass
    <3>3. Feeder(<<v, port>>, q)[3] = q /\ Feeder(<<v, port>>, i)[3] = i
      BY <1>4, <3>2, FeederForm
    <3> QED
      BY <1>4, <3>1, <3>3
  <2> QED
    BY <1>9, <2>1, DeliveredArrived
<1>18. IsFiniteSet(ports)
  BY <1>2, PortsFinite
<1> HIDE DEF all, here, ports, l, v, port, q
<1>19. IsFiniteSet(ports \ here) /\ port \in ports \ here
  BY <1>2, <1>6, <1>18, FS_Difference
<1>20. /\ Cardinality(ports \ here) \in Nat
       /\ Cardinality((ports \ here) \ {port}) = Cardinality(ports \ here) - 1
       /\ IsFiniteSet((ports \ here) \ {port}) /\ Cardinality((ports \ here) \ {port}) \in Nat
  BY <1>19, FS_RemoveElement, FS_CardinalityType
<1>21. (ports \ here) \ {port} = ports \ (here \cup {port})
  OBVIOUS
<1>22. waiting[v][q] = 1 <=> here \cup {port} = ports
  <2>1. Cardinality((ports \ here) \ {port}) = 0 <=> (ports \ here) \ {port} = {}
    BY <1>20, FS_EmptySet
  <2>2. (ports \ here) \ {port} = {} <=> here \cup {port} = ports
    BY <1>2, <1>6
  <2> QED
    BY <1>8, <1>20, <2>1, <2>2
<1>23. Pools'
  <2> SUFFICES ASSUME NEW w \in Vertices, NEW i \in Partitions
               PROVE  /\ waiting'[w][i] = Cardinality(ScatterGatherPorts(w) \ Arrived(w, i)')
                      /\ Arrived(w, i)' # ScatterGatherPorts(w) =>
                           /\ DOMAIN pool'[w][i] = Arrived(w, i)'
                           /\ \A j \in Arrived(w, i)' :
                                Exactly(pool'[w][i][j], RecordsIn(FlushedTo(Sources(<<w, j>>)), {i}))
    BY <1>11 DEF Pools, RecordsOf
  <2>1. CASE w = v /\ i = q
    <3>1. waiting'[w][i] = Cardinality(ports \ (here \cup {port}))
      BY <1>8, <1>13, <1>20, <1>21, <2>1
    <3>2. here \cup {port} # ports => pool'[w][i] = all
      BY <1>14, <1>22, <2>1
    <3>3. \A j \in here \cup {port} : Exactly(all[j], RecordsIn(FlushedTo(Sources(<<v, j>>)), {q}))
      BY <1>15 DEF RecordsOf
    <3>4. Arrived(w, i)' = here \cup {port} /\ ScatterGatherPorts(w) = ports
      BY <1>16, <2>1 DEF ports
    <3> QED
      BY <1>15, <2>1, <3>1, <3>2, <3>3, <3>4
  <2>2. CASE w # v \/ i # q
    <3>1. waiting'[w][i] = waiting[w][i] /\ pool'[w][i] = pool[w][i] /\ Arrived(w, i)' = Arrived(w, i)
      BY <1>13, <1>14, <1>17, <2>2
    <3> QED
      BY <3>1 DEF Content, Pools, RecordsOf
  <2> QED
    BY <2>1, <2>2
<1>24. ScatterGathers'
  <2> SUFFICES ASSUME NEW w \in Vertices, CreateProcessTask(w) = "scatter_gather"
               PROVE  /\ Numbers(Process(w))' = {i \in Partitions : Arrived(w, i)' = ScatterGatherPorts(w)}
                      /\ \A i \in Numbers(Process(w))' : \A j \in ScatterGatherPorts(w) :
                           /\ j \in DOMAIN given'[Command(Process(w), i)]
                           /\ Exactly(given'[Command(Process(w), i)][j], RecordsIn(FlushedTo(Sources(<<w, j>>)), {i}))
    BY <1>11 DEF ScatterGathers, RecordsOf
  <2>1. Process(w) \in LogicalTasks /\ Process(w)[1] # "gather" /\ Process(w)[2] = w
    BY ProcessLogical DEF Process
  <2>2. /\ Numbers(Process(w)) = {i \in Partitions : Arrived(w, i) = ScatterGatherPorts(w)}
        /\ \A i \in Numbers(Process(w)) : \A j \in ScatterGatherPorts(w) :
             /\ j \in DOMAIN given[Command(Process(w), i)]
             /\ Exactly(given[Command(Process(w), i)][j], RecordsIn(FlushedTo(Sources(<<w, j>>)), {i}))
    BY DEF Content, ScatterGathers, RecordsOf
  <2>3. \A i \in Numbers(Process(w)) : given'[Command(Process(w), i)] = given[Command(Process(w), i)]
    BY <1>9, <2>1, DeliveredSame
  <2>4. CASE w # v
    <3>1. Process(w) # c.to
      BY <1>2, <2>1, <2>4
    <3>2. Numbers(Process(w))' = Numbers(Process(w))
      BY <1>9, <2>1, <3>1, DeliveredSame
    <3> QED
      BY <1>17, <2>2, <2>3, <2>4, <3>2
  <2>5. CASE w = v /\ waiting[v][q] = 1
    <3>1. SpawnCommand(l, q, all)
      BY <1>1, <2>5
    <3>2. Numbers(l)' = Numbers(l) \cup {q} /\ given'[Command(l, q)] = all
      BY <1>2, <1>7, <3>1, Spawned
    <3>3. Process(w) = l /\ ScatterGatherPorts(w) = ports
      BY <2>5 DEF l, ports
    <3>4. Arrived(w, q)' = ports
      BY <1>16, <1>22, <2>5
    <3>5. Numbers(Process(w))' = {i \in Partitions : Arrived(w, i)' = ScatterGatherPorts(w)}
      BY <1>4, <1>17, <2>2, <2>5, <3>2, <3>3, <3>4
    <3>6. \A j \in ports : /\ j \in DOMAIN given'[Command(l, q)]
                           /\ Exactly(given'[Command(l, q)][j], RecordsIn(FlushedTo(Sources(<<w, j>>)), {q}))
      BY <1>15, <1>22, <2>5, <3>2 DEF RecordsOf
    <3>7. ASSUME NEW i \in Numbers(Process(w))', NEW j \in ScatterGatherPorts(w)
          PROVE  /\ j \in DOMAIN given'[Command(Process(w), i)]
                 /\ Exactly(given'[Command(Process(w), i)][j], RecordsIn(FlushedTo(Sources(<<w, j>>)), {i}))
      <4>1. CASE i = q
        BY <3>3, <3>6, <4>1
      <4>2. CASE i # q
        <5>1. i \in Numbers(Process(w))
          BY <3>2, <3>3, <4>2
        <5> QED
          BY <2>2, <2>3, <5>1
      <4> QED
        BY <4>1, <4>2
    <3> QED
      BY <3>5, <3>7
  <2>6. CASE w = v /\ waiting[v][q] # 1
    <3>1. status' = status /\ given' = given
      BY <1>1, <2>6
    <3>2. Numbers(Process(w))' = Numbers(Process(w))
      BY <3>1 DEF Numbers
    <3>3. Process(w) = l /\ ScatterGatherPorts(w) = ports
      BY <2>6 DEF l, ports
    <3>4. Arrived(w, q)' # ports
      BY <1>16, <1>22, <2>6
    <3>5. q \notin Numbers(Process(w))
      BY <1>7, <3>3
    <3>6. Numbers(Process(w))' = {i \in Partitions : Arrived(w, i)' = ScatterGatherPorts(w)}
      BY <1>17, <2>2, <2>6, <3>2, <3>3, <3>4, <3>5
    <3> QED
      BY <2>2, <3>1, <3>2, <3>6
  <2> QED
    BY <2>4, <2>5, <2>6
<1> QED
  BY <1>10, <1>23, <1>24 DEF Content

LEMMA DeliverContent ==
  ASSUME Control, Content, NEW t \in Tasks, status[t] = "running", Deliver(t)
  PROVE  Content'
<1>1. PICK c \in calls[t] :
        /\ calls' = [calls EXCEPT ![t] = calls[t] \ {c}] /\ flushed' = flushed
        /\ ReceiveFragment(c.to, c.port, c.partition, c.fragment)
  BY DEF Deliver
<1>2. CASE c.to[1] = "gather" /\ GatherReceive(c.to, c.fragment)
  BY <1>1, <1>2, GatherReceiveContent
<1>3. CASE c.to[1] = "shuffle" /\ ShuffleReceive(c.to, c.fragment)
  BY <1>1, <1>3, ShuffleReceiveContent
<1>4. CASE c.to[1] = "value_sort" /\ ValueSortReceive(c.to, c.partition, c.fragment)
  BY <1>1, <1>4, ValueSortReceiveContent
<1>5. CASE c.to[1] = "process" /\ ProcessReceive(c.to[2], c.port, c.partition, c.fragment)
  <2>1. ToPort(c, Inputs[c.to[2]][c.port].movement)
    BY <1>5, CallForm
  <2>2. CASE Inputs[c.to[2]][c.port].movement = "broadcast" /\ BroadcastReceive(c.to[2], c.port, c.fragment)
    <3>1. ToPort(c, "broadcast")
      BY <2>1, <2>2
    <3> QED
      BY <1>1, <2>2, <3>1, BroadcastReceiveContent
  <2>3. CASE Inputs[c.to[2]][c.port].movement = "one_to_one" /\ OneToOneReceive(c.to[2], c.port, c.fragment)
    <3>1. ToPort(c, "one_to_one")
      BY <2>1, <2>3
    <3> QED
      BY <1>1, <2>3, <3>1, OneToOneReceiveContent
  <2>4. CASE /\ Inputs[c.to[2]][c.port].movement = "scatter_gather"
             /\ ScatterGatherReceive(c.to[2], c.port, c.partition, c.fragment)
    <3>1. ToPort(c, "scatter_gather")
      BY <2>1, <2>4
    <3> QED
      BY <1>1, <2>4, <3>1, ScatterGatherReceiveContent
  <2> QED
    BY <1>5, <2>2, <2>3, <2>4 DEF ProcessReceive
<1> QED
  BY <1>1, <1>2, <1>3, <1>4, <1>5 DEF ReceiveFragment

LEMMA StutterContent ==
  ASSUME Control, Content, UNCHANGED vars
  PROVE  Content'
<1>1. /\ status' = status /\ given' = given /\ inputs' = inputs /\ pool' = pool /\ waiting' = waiting
      /\ broadcasts' = broadcasts /\ calls' = calls /\ flushed' = flushed
  BY DEF vars, sched, data
<1>2. Quiet
  BY <1>1 DEF Quiet, Started
<1>3. /\ Callers' /\ Flushes' /\ ShuffleCommands' /\ ValueSorts' /\ Pools' /\ ScatterGathers' /\ OneToOnes'
  BY <1>1, <1>2, QuietContent
<1>4. Gathers'
  BY <1>1, <1>2, QuietGathers
<1>5. ShuffleInputs'
  BY <1>1, <1>2, QuietShuffleInputs
<1>6. SortCommands'
  BY <1>1, <1>2, QuietSortCommands
<1>7. Broadcasts'
  BY <1>1, <1>2, QuietBroadcasts
<1> QED
  BY <1>3, <1>4, <1>5, <1>6, <1>7 DEF Content

LEMMA StepContent ==
  ASSUME Control, Content, [Next]_vars
  PROVE  Content'
<1>1. CASE UNCHANGED vars
  BY <1>1, StutterContent
<1>2. ASSUME NEW t \in Tasks, Start(t)
      PROVE  Content'
  BY <1>2, StartContent
<1>3. ASSUME NEW t \in Running, Body(t)
      PROVE  Content'
  <2>1. t \in Tasks /\ status[t] = "running"
    BY DEF Running
  <2> QED
    BY <1>3, <2>1, DeliverContent, FlushContent, PartitionFragmentContent, CreateSortTasksContent,
       RunGatherContent, AfterGlobalInitializeContent, GlobalFinalizeContent, CompleteContent DEF Body
<1> QED
  BY <1>1, <1>2, <1>3 DEF Next

\* Wherever a fragment is between its flush and the command that is given it, it
\* is accounted for; and the tasks wait for one another as the phases say.
THEOREM FlowInvariant == Spec => []IInv
<1>1. Init => IInv
  BY InitControl, InitContent DEF IInv
<1>2. IInv /\ [Next]_vars => IInv'
  BY StepControl, StepContent DEF IInv
<1> QED
  BY <1>1, <1>2, PTL DEF Spec

-----------------------------------------------------------------------------
(* Inputs are complete when a command runs.                                *)

LEMMA RecordsOfPort ==
  ASSUME NEW p
  PROVE  /\ AllRecords(p) = RecordsOf(Sources(p), Partitions)
         /\ \A q \in Partitions : {r \in AllRecords(p) : r.partition = q} = RecordsOf(Sources(p), {q})
<1>1. AllRecords(p) = RecordsOf(Sources(p), Partitions)
  BY DEF AllRecords, RecordsOf, RecordsIn, FlushedTo
<1>2. ASSUME NEW q \in Partitions
      PROVE  {r \in RecordsOf(Sources(p), Partitions) : r.partition = q} = RecordsOf(Sources(p), {q})
  BY DEF RecordsOf, RecordsIn
<1> QED
  BY <1>1, <1>2

\* A task that has ended has made all its calls.
LEMMA DoneSent ==
  ASSUME Content, NEW t \in Tasks, status[t] = "done", NEW l, NEW port
  PROVE  Sent(t, l, port)
BY DEF Content, Callers, Sent, Started

LEMMA BroadcastComplete ==
  ASSUME Control, Content, NEW t \in Tasks, status[t] = "running", t[1][1] = "process", t[2] = "command",
         NEW p \in InPorts("broadcast"), p[1] = t[1][2]
  PROVE  p[2] \in DOMAIN broadcasts[p[1]] /\ Exactly(broadcasts[p[1]][p[2]], AllRecords(p))
<1> DEFINE l == t[1]
           g == Gather(Sources(p))
<1>1. l = Process(p[1]) /\ l \in LogicalTasks /\ t \notin Initial
  BY TaskForm, LogicalKind
<1>2. status[EntryTask(l)] = "done"
  <2>1. PhaseBefore(t) = EntryTask(l)
    BY DEF PhaseBefore
  <2>2. EntryTask(l) \in preds[t]
    BY <1>1, <2>1 DEF Control, Ordered, CommandsOrdered
  <2> QED
    BY <2>2 DEF Control, Ordered, PredsDone, Started
<1>3. status[EntryTask(g)] = "done" /\ EntryTask(g) \in Tasks
  <2>1. PICK e \in Edges : e.from = g /\ SuccessorTask(e) = EntryTask(Process(p[1]))
    BY BroadcastEdge
  <2>2. TerminalTask(g) = EntryTask(g)
    BY DEF Gather, TerminalTask
  <2>3. g \in LogicalTasks
    BY BroadcastEdge
  <2>4. EntryTask(g) \in preds[EntryTask(l)] /\ EntryTask(l) \in Tasks /\ EntryTask(g) \in Tasks
    BY <1>1, <2>1, <2>2, <2>3, EdgeOrder, PhaseTasks, InitialTasks DEF Control, Ordered, PhasesOrdered
  <2> QED
    BY <1>2, <2>4 DEF Control, Ordered, PredsDone, Started
<1>4. Sent(EntryTask(g), Process(p[1]), p[2])
  BY <1>3, DoneSent
<1>5. status[TerminalTask(l)] # "done"
  <2>1. t # TerminalTask(l)
    BY <1>1, PhaseTasks
  <2> QED
    BY <2>1, TerminalIsLast DEF Started
<1> QED
  BY <1>1, <1>4, <1>5, RecordsOfPort DEF Content, Broadcasts

LEMMA ScatterGatherComplete ==
  ASSUME Control, Content, NEW t \in Tasks, status[t] # "none", t[1][1] = "process", t[2] = "command",
         NEW p \in InPorts("scatter_gather"), p[1] = t[1][2]
  PROVE  /\ p[2] \in DOMAIN given[t]
         /\ Exactly(given[t][p[2]], {r \in AllRecords(p) : r.partition = t[3]})
<1> DEFINE v == p[1]
           q == t[3]
<1>1. t = Command(Process(v), q) /\ q \in 1 .. MaxCommands
  BY TaskForm, LogicalKind, RoleForm
<1>2. v \in Vertices /\ p[2] \in ScatterGatherPorts(v) /\ p = <<v, p[2]>>
  BY PortForm DEF ScatterGatherPorts
<1>3. CreateProcessTask(v) = "scatter_gather"
  BY <1>2, ClassForm DEF ScatterGatherPorts
<1>4. q \in Numbers(Process(v))
  BY <1>1 DEF Numbers
<1>5. /\ q \in Partitions /\ p[2] \in DOMAIN given[Command(Process(v), q)]
      /\ Exactly(given[Command(Process(v), q)][p[2]], RecordsOf(Sources(p), {q}))
  BY <1>2, <1>3, <1>4 DEF Content, ScatterGathers
<1> QED
  BY <1>1, <1>5, RecordsOfPort

LEMMA ContentComplete ==
  ASSUME Control, Content
  PROVE  InputsComplete
<1> SUFFICES ASSUME NEW t \in Running, t[1][1] = "process", t[2] = "command"
             PROVE  /\ \A p \in InPorts("broadcast") : p[1] = t[1][2] =>
                         p[2] \in DOMAIN broadcasts[t[1][2]] /\ Exactly(broadcasts[t[1][2]][p[2]], AllRecords(p))
                    /\ \A p \in InPorts("scatter_gather") : p[1] = t[1][2] =>
                         /\ p[2] \in DOMAIN given[t]
                         /\ Exactly(given[t][p[2]], {r \in AllRecords(p) : r.partition = t[3]})
  BY DEF InputsComplete
<1>1. t \in Tasks /\ status[t] = "running"
  BY DEF Running
<1> QED
  BY <1>1, BroadcastComplete, ScatterGatherComplete

\* When a command runs, what was broadcast to its processor and what it was
\* given for its partition are complete.
THEOREM InputsAreComplete == Spec => []InputsComplete
<1>1. IInv => InputsComplete
  BY ContentComplete DEF IInv
<1> QED
  BY <1>1, FlowInvariant, PTL

-----------------------------------------------------------------------------
(* At the end.                                                             *)

LEMMA CommandsNumbered ==
  ASSUME NEW l, NEW k, NEW i, Command(l, k) = Command(l, i)
  PROVE  k = i
BY DEF Command

\* The same fragments, by command.
LEMMA ExactlyReindexed ==
  ASSUME NEW l, NEW s, NEW R, Exactly(s, R), NEW g,
         DOMAIN g = {Command(l, k) : k \in DOMAIN s},
         \A k \in DOMAIN s : g[Command(l, k)] = s[k]
  PROVE  Exactly(g, R)
<1>1. Range(g) = Range(s)
  BY DEF Range
<1>2. IsInjective(g)
  BY DEF Exactly, IsInjective
<1> QED
  BY <1>1, <1>2 DEF Exactly

\* The partitions, each in a command of its own, are all records.
LEMMA PartitionsExact ==
  ASSUME NEW l, NEW F, NEW g, DOMAIN g = {Command(l, q) : q \in Partitions},
         \A q \in Partitions : Exactly(g[Command(l, q)], RecordsIn(F, {q}))
  PROVE  Exactly(Joined(g), RecordsIn(F, Partitions))
<1>1. DOMAIN Joined(g) = UNION {{<<i, j>> : j \in DOMAIN g[i]} : i \in DOMAIN g}
  BY DEF Joined
<1>2. \A at \in DOMAIN Joined(g) : Joined(g)[at] = g[at[1]][at[2]]
  BY DEF Joined
<1>3. ASSUME NEW at \in DOMAIN Joined(g)
      PROVE  \E q \in Partitions : /\ at = <<Command(l, q), at[2]>> /\ at[2] \in DOMAIN g[Command(l, q)]
                                   /\ Joined(g)[at] = g[Command(l, q)][at[2]]
                                   /\ Joined(g)[at] \in RecordsIn(F, {q})
  <2>1. PICK i \in DOMAIN g : \E j \in DOMAIN g[i] : at = <<i, j>>
    BY <1>1
  <2>2. PICK j \in DOMAIN g[i] : at = <<i, j>>
    BY <2>1
  <2>3. PICK q \in Partitions : i = Command(l, q)
    BY <2>1
  <2>4. at[1] = i /\ at[2] = j
    BY <2>2
  <2>5. Joined(g)[at] = g[Command(l, q)][j]
    BY <1>2, <2>3, <2>4
  <2>6. g[Command(l, q)][j] \in RecordsIn(F, {q})
    BY <2>2, <2>3 DEF Exactly, Range
  <2> QED
    BY <2>2, <2>3, <2>4, <2>5, <2>6
<1>4. \A q : \A r \in RecordsIn(F, {q}) : r.partition = q
  BY DEF RecordsIn
<1>5. RecordsIn(F, Partitions) = UNION {RecordsIn(F, {q}) : q \in Partitions}
  BY DEF RecordsIn
<1>6. Range(Joined(g)) = RecordsIn(F, Partitions)
  <2>1. ASSUME NEW r \in Range(Joined(g))
        PROVE  r \in RecordsIn(F, Partitions)
    <3>1. PICK at \in DOMAIN Joined(g) : r = Joined(g)[at]
      BY DEF Range
    <3> QED
      BY <1>3, <1>5, <3>1
  <2>2. ASSUME NEW r \in RecordsIn(F, Partitions)
        PROVE  r \in Range(Joined(g))
    <3>1. PICK q \in Partitions : r \in RecordsIn(F, {q})
      BY <1>5
    <3>2. PICK j \in DOMAIN g[Command(l, q)] : r = g[Command(l, q)][j]
      BY <3>1 DEF Exactly, Range
    <3>3. <<Command(l, q), j>> \in DOMAIN Joined(g)
      BY <1>1, <3>2
    <3>4. Joined(g)[<<Command(l, q), j>>] = r
      BY <1>2, <3>2, <3>3
    <3> QED
      BY <3>3, <3>4 DEF Range
  <2> QED
    BY <2>1, <2>2
<1>7. IsInjective(Joined(g))
  <2> SUFFICES ASSUME NEW a \in DOMAIN Joined(g), NEW b \in DOMAIN Joined(g), Joined(g)[a] = Joined(g)[b]
               PROVE  a = b
    BY DEF IsInjective
  <2>1. PICK q \in Partitions : /\ a = <<Command(l, q), a[2]>> /\ a[2] \in DOMAIN g[Command(l, q)]
                                /\ Joined(g)[a] = g[Command(l, q)][a[2]]
                                /\ Joined(g)[a] \in RecordsIn(F, {q})
    BY <1>3
  <2>2. PICK i \in Partitions : /\ b = <<Command(l, i), b[2]>> /\ b[2] \in DOMAIN g[Command(l, i)]
                                /\ Joined(g)[b] = g[Command(l, i)][b[2]]
                                /\ Joined(g)[b] \in RecordsIn(F, {i})
    BY <1>3
  <2>3. q = i
    BY <1>4, <2>1, <2>2
  <2>4. a[2] = b[2]
    BY <2>1, <2>2, <2>3 DEF Exactly, IsInjective
  <2> QED
    BY <2>1, <2>2, <2>3, <2>4
<1> QED
  BY <1>6, <1>7 DEF Exactly

\* At the end every task that was made has made all its calls.
LEMMA FinishedSent ==
  ASSUME Control, Content, Finished
  PROVE  /\ \A t \in Tasks : calls[t] = {}
         /\ \A t \in Tasks : status[t] # "none" => status[t] = "done" /\ \A l, port : Sent(t, l, port)
         /\ \A t \in Initial : status[t] = "done"
<1>1. \A t \in Tasks : status[t] # "none" => status[t] = "done"
  BY DEF Finished
<1>2. \A t \in Tasks : calls[t] = {}
  BY DEF Finished, Content, Callers
<1>3. \A t \in Initial : status[t] = "done"
  BY <1>1, InitialTasks DEF Control, Ordered, PhasesOrdered
<1> QED
  BY <1>1, <1>2, <1>3, DoneSent

LEMMA FinishedReceived ==
  ASSUME Control, Content, Finished, NEW ps, NEW l, NEW port
  PROVE  Received(ps, l, port) = FlushedTo(ps)
<1>1. \A t \in Tasks : calls[t] = {}
  BY FinishedSent
<1>2. \A f \in flushed : f[1] \in Tasks
  BY FlushForm DEF Content
<1> QED
  BY <1>1, <1>2 DEF Received, FlushedTo

LEMMA FlushedForm ==
  ASSUME Content, NEW ps
  PROVE  \A f \in FlushedTo(ps) : IsFlush(f)
BY FlushForm DEF Content, FlushedTo

LEMMA CommandsAreNumbers ==
  ASSUME NEW v
  PROVE  CommandsOf(v) = {Command(Process(v), k) : k \in Numbers(Process(v))}
BY DEF CommandsOf, Numbers

LEMMA OneToOneDelivered ==
  ASSUME Control, Content, Finished, NEW p \in InPorts("one_to_one")
  PROVE  Exactly(Joined([t \in GivenTo(p) |-> given[t][p[2]]]), AllRecords(p))
<1> DEFINE v == p[1]
           j == p[2]
           l == Process(v)
           K == {i \in Numbers(l) : j \in DOMAIN given[Command(l, i)]}
           s == [k \in K |-> given[Command(l, k)][j]]
           g == [t \in GivenTo(p) |-> given[t][p[2]]]
           F == FlushedTo(Sources(p))
<1>1. p = <<v, j>> /\ v \in Vertices /\ j \in DOMAIN Inputs[v] /\ Inputs[v][j].movement = "one_to_one"
  BY PortForm
<1>2. CreateProcessTask(v) = "one_to_one"
  BY <1>1, ClassForm
<1>3. Exactly(s, FlushesIn(Received(Sources(p), l, j)))
  BY <1>1, <1>2 DEF Content, OneToOnes
<1>4. Received(Sources(p), l, j) = F
  BY FinishedReceived
<1>5. GivenTo(p) = {Command(l, k) : k \in K}
  BY CommandsAreNumbers DEF GivenTo
<1>6. DOMAIN g = {Command(l, k) : k \in DOMAIN s} /\ \A k \in DOMAIN s : g[Command(l, k)] = s[k]
  BY <1>5
<1>7. Exactly(s, FlushesIn(F))
  BY <1>3, <1>4
<1>8. \A f \in F : IsFlush(f)
  BY FlushedForm
<1>9. AllRecords(p) = RecordsIn(F, Partitions)
  BY RecordsOfPort DEF RecordsOf
<1> HIDE DEF s, F, l, g
<1>10. Exactly(g, FlushesIn(F))
  BY <1>6, <1>7, ExactlyReindexed
<1>11. Exactly(Joined(g), RecordsIn(F, Partitions))
  BY <1>8, <1>10, JoinedExact
<1> QED
  BY <1>9, <1>11 DEF g

\* At the end every partition has reached every scatter-gather port.
LEMMA FinishedSorts ==
  ASSUME Control, Content, Finished, NEW p \in InPorts("scatter_gather"), NEW q \in Partitions
  PROVE  LET t == SortCommand(Shuffle(Sources(p)), q) IN t \in Tasks /\ status[t] # "none"
<1> DEFINE l == Shuffle(Sources(p))
<1>1. l \in LogicalTasks /\ l[1] = "shuffle" /\ l \in OfClass("shuffle")
  BY ScatterGatherEdge DEF Shuffle, OfClass
<1>2. BarrierTask(l) \in Initial
  BY <1>1, PhaseTasks
<1>3. status[BarrierTask(l)] = "done"
  BY <1>2, FinishedSent
<1>4. status[SortCommand(l, q)] # "none"
  BY <1>1, <1>3 DEF Content, SortCommands
<1>5. SortCommand(l, q) \in Tasks
  BY <1>1, CommandTasks
<1> QED
  BY <1>4, <1>5

LEMMA FinishedFeeders ==
  ASSUME Control, Content, Finished, NEW p \in InPorts("scatter_gather"), NEW q \in Partitions
  PROVE  Feeder(p, q) \in Tasks /\ status[Feeder(p, q)] # "none"
<1> DEFINE t == SortCommand(Shuffle(Sources(p)), q)
<1>1. t \in Tasks /\ status[t] # "none"
  BY FinishedSorts
<1>2. CASE Inputs[p[1]][p[2]].sorted
  <2>1. Sent(t, ValueSort(p), 1)
    BY <1>1, FinishedSent
  <2>2. q \in Numbers(ValueSort(p))
    BY <1>2, <2>1 DEF Content, ValueSorts
  <2>3. Feeder(p, q) = Command(ValueSort(p), q) /\ ValueSort(p) \in LogicalTasks /\ ValueSort(p)[1] # "gather"
    BY <1>2, FeederForm DEF ValueSort
  <2>4. q \in 1 .. MaxCommands /\ status[Command(ValueSort(p), q)] # "none"
    BY <2>2 DEF Numbers
  <2> QED
    BY <2>3, <2>4, CommandTasks
<1>3. CASE ~Inputs[p[1]][p[2]].sorted
  BY <1>1, <1>3, FeederForm
<1> QED
  BY <1>2, <1>3

LEMMA FinishedNumbers ==
  ASSUME Control, Content, Finished, NEW v \in Vertices, CreateProcessTask(v) = "scatter_gather"
  PROVE  Numbers(Process(v)) = Partitions
<1>1. ASSUME NEW q \in Partitions
      PROVE  Arrived(v, q) = ScatterGatherPorts(v)
  <2>1. ASSUME NEW j \in ScatterGatherPorts(v)
        PROVE  j \in Arrived(v, q)
    <3>1. <<v, j>> \in InPorts("scatter_gather")
      BY PortsOfClass
    <3>2. Feeder(<<v, j>>, q) \in Tasks /\ status[Feeder(<<v, j>>, q)] # "none"
      BY <3>1, FinishedFeeders
    <3>3. Sent(Feeder(<<v, j>>, q), Process(v), j)
      BY <3>2, FinishedSent
    <3> QED
      BY <3>2, <3>3 DEF Arrived
  <2> QED
    BY <2>1 DEF Arrived
<1> QED
  BY <1>1 DEF Content, ScatterGathers

LEMMA ScatterGatherDelivered ==
  ASSUME Control, Content, Finished, NEW p \in InPorts("scatter_gather")
  PROVE  Exactly(Joined([t \in GivenTo(p) |-> given[t][p[2]]]), AllRecords(p))
<1> DEFINE v == p[1]
           j == p[2]
           l == Process(v)
           g == [t \in GivenTo(p) |-> given[t][p[2]]]
           F == FlushedTo(Sources(p))
<1>1. p = <<v, j>> /\ v \in Vertices /\ j \in ScatterGatherPorts(v)
  BY PortForm DEF ScatterGatherPorts
<1>2. CreateProcessTask(v) = "scatter_gather"
  BY <1>1, ClassForm DEF ScatterGatherPorts
<1>3. Numbers(l) = Partitions
  BY <1>1, <1>2, FinishedNumbers
<1>4. \A q \in Partitions : /\ j \in DOMAIN given[Command(l, q)]
                            /\ Exactly(given[Command(l, q)][j], RecordsIn(F, {q}))
  BY <1>1, <1>2, <1>3 DEF Content, ScatterGathers, RecordsOf
<1>5. CommandsOf(v) = {Command(l, q) : q \in Partitions}
  BY <1>3, CommandsAreNumbers
<1>6. GivenTo(p) = {Command(l, q) : q \in Partitions}
  BY <1>4, <1>5 DEF GivenTo
<1>7. DOMAIN g = {Command(l, q) : q \in Partitions}
      /\ \A q \in Partitions : Exactly(g[Command(l, q)], RecordsIn(F, {q}))
  BY <1>4, <1>6
<1>8. AllRecords(p) = RecordsIn(F, Partitions)
  BY RecordsOfPort DEF RecordsOf
<1> HIDE DEF F, l, g
<1>9. Exactly(Joined(g), RecordsIn(F, Partitions))
  BY <1>7, PartitionsExact
<1> QED
  BY <1>8, <1>9 DEF g

LEMMA CommandsCounted ==
  ASSUME Control, Content, Finished, NEW v \in Vertices, CreateProcessTask(v) = "scatter_gather"
  PROVE  Cardinality(CommandsOf(v)) = PartitionCount
<1> DEFINE l == Process(v)
           b == [q \in Partitions |-> Command(l, q)]
<1>1. CommandsOf(v) = {Command(l, q) : q \in Partitions}
  BY FinishedNumbers, CommandsAreNumbers
<1>2. b \in [Partitions -> CommandsOf(v)]
  BY <1>1
<1>3. IsInjective(b)
  BY CommandsNumbered DEF IsInjective
<1>4. \A t \in CommandsOf(v) : \E q \in Partitions : b[q] = t
  BY <1>1
<1>5. b \in Bijection(Partitions, CommandsOf(v))
  BY <1>2, <1>3, <1>4 DEF Bijection, Injection, Surjection
<1>6. ExistsBijection(1 .. PartitionCount, CommandsOf(v)) /\ PartitionCount \in Nat
  BY <1>5, FlowParameters DEF ExistsBijection, Partitions
<1> QED
  BY <1>6, FS_CountingElements

LEMMA ContentDelivered ==
  ASSUME Control, Content
  PROVE  DeliveredOnce
BY OneToOneDelivered, ScatterGatherDelivered, CommandsCounted DEF DeliveredOnce

\* When all tasks have ended, every record that was written to a source of a
\* port has been given to one command of its processor, once.
THEOREM RecordsAreDeliveredOnce == Spec => []DeliveredOnce
<1>1. IInv => DeliveredOnce
  BY ContentDelivered DEF IInv
<1> QED
  BY <1>1, FlowInvariant, PTL
=============================================================================
