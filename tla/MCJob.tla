-------------------------------- MODULE MCJob --------------------------------
(* Plans for TLC: the hooks of the runs of JobSystem.                      *)
EXTENDS JobSystem, TLC

\* A task checked before it starts and reviewed after each attempt.
ReviewedHooks == [p \in Phase |-> CASE p = "post_task" -> <<"retry">>
                                    [] p = "pre_task"  -> <<"fail">>
                                    [] OTHER           -> <<>>]

\* A gate before the plan, and a review that does not block its task.
GateHooks == [p \in Phase |-> CASE p = "post_task" -> <<"skip">>
                                [] p = "pre_plan"  -> <<"fail">>
                                [] OTHER           -> <<>>]


\* Engines differ in nothing but their pids.
EngineSymmetry == Permutations(Engine)
=============================================================================
