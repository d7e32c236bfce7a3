---------------------------- MODULE MCProcessTask ----------------------------
(* Instances of ProcessTask for TLC.                                       *)
EXTENDS ProcessTask

Shape(needs, broadcasts) == [needs |-> [r \in Runs |-> needs], broadcasts |-> broadcasts]

NoPorts   == {}
TwoPorts  == {1, 2}
Broadcast == {9}
OneLimit  == {1}
BothLimits == {1, 2}

\* An input processor, a one-to-one processor with one port, both with a
\* broadcast port, and a scatter-gather processor with two ports.
AllShapes  == {Shape({}, {9}), Shape({1}, {9}), Shape({1, 2}, {})}
InputShape == {Shape({}, {})}
=============================================================================
