------------------------------- MODULE MCLoop -------------------------------
(* Specs for TLC: the versions of a loop's spec in the runs of LoopSystem. *)
EXTENDS LoopSystem

\* A patch that lets the loop go on longer.
LongerDims == [v \in Version |-> Dimension]
LongerIterations == [v \in Version |-> IF v < MaxVersion THEN 1 ELSE MaxIteration]

\* A patch that drops the first dimension.
SameIterations == [v \in Version |-> MaxIteration]
FewerDims == [v \in Version |-> IF v = 1 THEN Dimension ELSE Dimension \ {1}]
=============================================================================
