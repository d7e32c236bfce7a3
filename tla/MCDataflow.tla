----------------------------- MODULE MCDataflow -----------------------------
(* A flow graph for TLC.                                                   *)
EXTENDS Dataflow

InPort(movement, sorted, sources) ==
  [movement |-> movement, sorted |-> sorted, sources |-> sources]

\* An input A, and a processor B that reads it one to one, feed a processor C
\* with two scatter-gather ports, one sorted and one plain, that share a
\* shuffle; what B writes is broadcast to C as well.
JoinVertices  == {"A", "B", "C"}
JoinInputs    ==
  [v \in JoinVertices |->
     CASE v = "A" -> <<>>
       [] v = "B" -> <<InPort("one_to_one", FALSE, {<<"A", 1>>})>>
       [] v = "C" -> <<InPort("scatter_gather", TRUE, {<<"A", 1>>, <<"B", 1>>}),
                       InPort("scatter_gather", FALSE, {<<"A", 1>>, <<"B", 1>>}),
                       InPort("broadcast", FALSE, {<<"B", 1>>})>>]
JoinTaskCount == [v \in JoinVertices |-> 1]
JoinWriting   == [v \in JoinVertices |-> IF v = "B" THEN {"command", "terminal"} ELSE {"command"}]
=============================================================================
