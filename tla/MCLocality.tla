------------------------------ MODULE MCLocality ------------------------------
(* An instance of Locality for TLC.                                        *)
EXTENDS Locality

Machine(numa, parent, usable) == [numa |-> numa, parent |-> parent, usable |-> usable]

\* Three units without nodes; two nodes of two units; three uneven nodes of
\* which the process may use parts; a node whose units it may not use at all;
\* and a unit above all nodes.
SomeMachines ==
  {Machine(FALSE, <<NoNode, NoNode, NoNode>>, {1, 2, 3}),
   Machine(TRUE, <<0, 0, 1, 1>>, {1, 2, 3, 4}),
   Machine(TRUE, <<0, 0, 1, 2, 2, 2>>, {1, 3, 4, 5, 6}),
   Machine(TRUE, <<0, 1, 1, 2>>, {2, 3, 4}),
   Machine(TRUE, <<0, 1, NoNode>>, {1, 2, 3})}
UpToSix == 1 .. 6
Few     == {0, 1, 4}
=============================================================================
