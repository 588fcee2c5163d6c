---------------------------- MODULE LoopProgress ----------------------------
(***************************************************************************)
(* What a loop promises about its journal, whoever stops, crashes or       *)
(* patches it: iterations are closed one by one; in each, what is planned  *)
(* is implemented, and what is implemented is judged once per dimension    *)
(* and never implemented or planned again before the iteration is closed.  *)
(***************************************************************************)
EXTENDS Naturals

CONSTANT Dimension

VARIABLES
  closed,  \* iterations closed
  stage,   \* what the open iteration waits for
  judged   \* dimensions with a verdict in the open iteration

Init == closed = 0 /\ stage = "plan" /\ judged = {}

\* A plan to implement, or the planner's decision to end the loop.
Plan ==
  /\ stage \in {"plan", "implement"} /\ stage' \in {"implement", "over"}
  /\ UNCHANGED <<closed, judged>>

\* The work is done, or it is back to the planner.
Implement ==
  /\ stage = "implement" /\ stage' \in {"evaluate", "plan"}
  /\ UNCHANGED <<closed, judged>>

\* One verdict, of a dimension that had none.
Judge ==
  /\ stage = "evaluate"
  /\ \E d \in Dimension \ judged : judged' = judged \cup {d}
  /\ UNCHANGED <<closed, stage>>

Close ==
  /\ stage = "evaluate" /\ judged # {}
  /\ closed' = closed + 1 /\ stage' = "plan" /\ judged' = {}

Next == Plan \/ Implement \/ Judge \/ Close

Spec == Init /\ [][Next]_<<closed, stage, judged>>
=============================================================================
