----------------------------- MODULE MCFlowGraph -----------------------------
(* An instance of FlowGraph for TLC.                                       *)
EXTENDS FlowGraph

Processor(inputs, outputs) == [inputs |-> inputs, outputs |-> outputs]

\* An input processor with a keyed and a plain output, a grouping one, one that
\* takes its input one to one and by broadcast, and one that mixes both kinds.
SomeProcessors ==
  {Processor(<<>>, <<FALSE, TRUE>>),
   Processor(<<"scatter_gather">>, <<TRUE>>),
   Processor(<<"one_to_one", "broadcast">>, <<FALSE>>),
   Processor(<<"one_to_one", "scatter_gather">>, <<FALSE>>)}
=============================================================================
