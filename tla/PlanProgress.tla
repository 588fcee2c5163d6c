---------------------------- MODULE PlanProgress ----------------------------
(***************************************************************************)
(* What a job promises about its plan, with everything but the progress    *)
(* left out: the tasks are worked on one at a time, in the order written;  *)
(* a task is done once and is not worked on again; work that is cut short  *)
(* is taken up by the same task.  The only way back is a stop that races   *)
(* with the end of a task and takes back that one task.                    *)
(***************************************************************************)
EXTENDS Naturals

CONSTANT NTasks

VARIABLES
  done,  \* number of tasks recorded as done
  busy   \* the task being worked on, 0 when there is none

Init == done = 0 /\ busy = 0

\* Work starts on the first task that is not done.
Begin ==
  /\ busy = 0 /\ done < NTasks
  /\ busy' = done + 1 /\ UNCHANGED done

\* The task being worked on is done.
Complete ==
  /\ busy = done + 1
  /\ done' = busy /\ busy' = 0

\* Work ends without a result: it failed, hit a limit, was stopped or crashed.
CutShort ==
  /\ busy # 0
  /\ busy' = 0 /\ UNCHANGED done

\* A stop takes back the task that was done last.
TakeBack ==
  /\ busy = 0 /\ done > 0
  /\ done' = done - 1 /\ UNCHANGED busy

Next == Begin \/ Complete \/ CutShort \/ TakeBack

Spec == Init /\ [][Next]_<<done, busy>>
=============================================================================
