------------------------------ MODULE MCManager ------------------------------
(***************************************************************************)
(* Small instances of Manager.  Executions 4, 5 and 6 are of deployments   *)
(* of their own; 4 and 5 form a group, 0 is a system workflow.             *)
(***************************************************************************)
EXTENDS Manager

MCDeploymentOf ==
  [e \in Execution |-> CASE e = 0 -> None [] e = 4 -> "d4"
                         [] e = 5 -> "d5" [] e = 6 -> "d6"]
MCPlain == [e \in Execution |-> "workflow"]
MCPosted == [e \in Execution |-> "executions"]
MCGroups == [e \in Execution |-> IF e \in {4, 5} THEN Group ELSE {}]
MCConcurrency == [g \in Group |-> 1]
MCBoth == [g \in Group |-> 2]

\* For maintenance mode: 0 is a snapshot.  (A group comes from an endpoint that is
\* refused only when the mode is active.)
MCKinds == [e \in Execution |-> IF e = 0 THEN "create_snapshot" ELSE "workflow"]
MCEndpoints == [e \in Execution |-> IF e = 0 THEN "snapshots" ELSE "executions"]
=============================================================================
