---------------------------- MODULE MCExecutions ----------------------------
(***************************************************************************)
(* Small instances of Executions.  In all of them executions 1, 2 and 4    *)
(* are of deployment "d1", and 0, 3 and 6 are manager-wide.                *)
(***************************************************************************)
EXTENDS Executions, TLC

MCDeploymentOf ==
  [e \in Execution |-> IF e \in {1, 2, 4} THEN "d1" ELSE None]

\* Ordinary workflows only; 0 and 3 are blocking system workflows.
MCPlain == [e \in Execution |-> "workflow"]

\* Maintenance mode is in MCManager.
MCEndpoints == [e \in Execution |-> "executions"]

\* The environment of "d1" is created by 1, 3 takes a snapshot, 6 updates a plugin.
MCKinds ==
  [e \in Execution |-> CASE e = 1 -> "create_deployment_environment"
                         [] e = 3 -> "create_snapshot"
                         [] e = 6 -> "update_plugin"
                         [] OTHER -> "workflow"]

\* Groups are in MCManager.
MCGroups == [e \in Execution |-> {}]
MCConcurrency == [g \in Group |-> 1]

Symmetry == Permutations(Handler) \cup Permutations(Worker)
=============================================================================
