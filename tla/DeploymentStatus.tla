-------------------------- MODULE DeploymentStatus --------------------------
(***************************************************************************)
(* How the status of a deployment, and what its row says of the            *)
(* deployments below it, are worked out from the rows of its children.     *)
(***************************************************************************)
EXTENDS Naturals, FiniteSets, Functions

DeploymentState == {"good", "in_progress", "requires_attention"}
NoStatus == "none"

Importance(s) ==
  CASE s = "good" -> 1 [] s = "in_progress" -> 2 [] s = "requires_attention" -> 3
    [] OTHER -> 0

\* compare_statuses: the worst of them.
compare_statuses(S) ==
  IF S = {} THEN NoStatus
  ELSE CHOOSE s \in S : \A t \in S : Importance(t) <= Importance(s)

\* decide_deployment_status, where own is what the latest execution and the
\* installation status amount to.
decide_deployment_status(own, srvStatus, envStatus) ==
  compare_statuses({own, srvStatus, envStatus})

\* What a row of the table deployments says of a deployment and what is below.
Row == [status : DeploymentState, services : Nat, environments : Nat,
        srvStatus : DeploymentState \cup {NoStatus},
        envStatus : DeploymentState \cup {NoStatus}]

Leaf(own) == [status |-> own, services |-> 0, environments |-> 0,
              srvStatus |-> NoStatus, envStatus |-> NoStatus]

\* get_children_summary and what recalc_ancestors makes of it: the row of a
\* deployment with these environments and services as children.
Summary(own, envs, srvs, rows) ==
  LET kids == envs \cup srvs
      srv == compare_statuses({rows[k].srvStatus : k \in kids}
                                \cup {rows[k].status : k \in srvs})
      env == compare_statuses({rows[k].envStatus : k \in kids}
                                \cup {rows[k].status : k \in envs})
  IN [status |-> decide_deployment_status(own, srv, env),
      services |-> Cardinality(srvs) + SumFunction([k \in kids |-> rows[k].services]),
      environments |-> Cardinality(envs) + SumFunction([k \in kids |-> rows[k].environments]),
      srvStatus |-> srv, envStatus |-> env]
=============================================================================
