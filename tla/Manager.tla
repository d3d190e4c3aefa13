------------------------------ MODULE Manager ------------------------------
(***************************************************************************)
(* The manager: executions, execution groups and maintenance mode over the *)
(* same database, handlers and mgmtworkers.                                *)
(***************************************************************************)
EXTENDS ExecutionGroups, Maintenance

ManagerNext ==
  \/ Next
  \/ \E h \in Handler : \/ GroupRequest(h)
                        \/ GroupHandlerStep(h)
                        \/ MaintenanceStep(h)
  \/ MaintenanceActivated
  \/ \E t \in run : RunRefused(t)

ManagerSpec == Init /\ [][ManagerNext]_vars

\* Once maintenance mode is active, nothing runs and nothing waits to but what
\* the manager lets through: snapshots, and executions on which requests bypass
\* the mode.  (With one handler, whatever order requests and reports come in.)
QuietWhenActivated == maintenance = "activated" => Active \cup Queued \subseteq LetThrough

\* When a group's executions are started, those of them that are pending then
\* are no more than its concurrency, however they became pending before.
StartWithinConcurrency ==
  [][\A h \in Handler, g \in Group :
       /\ handler[h].pc = "group"
       /\ \E e \in Members(g, Starting(h)) : token'[e] # token[e]
       => Cardinality({e \in Members(g, Execution) : status'[e] = "pending"})
            <= concurrency[g]]_vars
=============================================================================
