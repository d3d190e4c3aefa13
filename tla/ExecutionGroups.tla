--------------------------- MODULE ExecutionGroups ---------------------------
(***************************************************************************)
(* Execution groups: one execution for each deployment of a deployment     *)
(* group, run up to `concurrency' at a time                                *)
(* (rest/resources_v3_1/executions.py, ExecutionGroup.start_executions).   *)
(***************************************************************************)
EXTENDS Executions

CONSTANT Concurrencies  \* bound: the concurrency limits that users set

ASSUME GroupAssumption ==
  /\ Concurrencies \subseteq Nat
  /\ \A e \in Execution : e \in System => GroupsOf[e] = {}

\* (mutant) the executions over the limit are not queued
SlicesUnlimited(g, S) == {S}

\* executions[:concurrency], in whatever order the relationship lists them.
Slices(g, S) ==
  {C \in SUBSET S :
     Cardinality(C) = IF Cardinality(S) < concurrency[g]
                      THEN Cardinality(S) ELSE concurrency[g]}

\* start_executions of the pending executions S: those in the slice go through
\* prepare_executions, which keeps an error as a failed execution; the others
\* are queued.
GroupPlans(g, S, force) ==
  UNION {{[e \in Execution |->
             IF e \in broken THEN "failed"
             ELSE IF e \in C THEN GateDecision(e, force, TRUE)
             ELSE IF e \in S THEN "queued" ELSE "absent"] : broken \in SUBSET C} :
         C \in Slices(g, S)}

\* A handler that is going to write this plan, for pending executions P too.
GroupWriting(plan, P) ==
  LET starts == {e \in Execution : plan[e] = "pending"} IN
  [Idle EXCEPT !.pc = "group", !.plan = plan, !.seen = P,
               !.flagged = GateClosed(starts)]

\* POST /execution-groups.  The deployment's environment is not looked at.
GroupPost(h, g, force) ==
  LET S == Members(g, Execution) IN
  /\ handler[h] = Idle
  /\ Admitted(Members(g, Execution))
  /\ S # {} /\ Creatable(S)
  /\ \E plan \in GroupPlans(g, S, force) :
       handler' = [handler EXCEPT ![h] = GroupWriting(plan, {})]
  /\ UNCHANGED <<status, token, concurrency, maintenance, mq, run, kills,
                 requests, crashes, bypassed, overtaken, lost>>

\* _resume_group: failed and cancelled members are made pending, and all the
\* pending members, those whose message is on its way too, are started again.
GroupResume(h, g) ==
  LET P == Members(g, InState({"pending"}))
      R == Members(g, InState({"failed", "cancelled"}))
  IN
  /\ handler[h] = Idle
  /\ Admitted(Members(g, Execution))
  /\ requests < MaxRequests /\ Work < MaxWork
  /\ P \cup R # {}
  /\ requests' = requests + 1
  /\ \E plan \in GroupPlans(g, P \cup R, FALSE) :
       handler' = [handler EXCEPT ![h] = GroupWriting(plan, P)]
  /\ UNCHANGED <<status, token, concurrency, maintenance, mq, run, kills,
                 crashes, bypassed, overtaken, lost>>

\* What the plan changes is written (a pending execution that stays pending is
\* not).  After an error the others are committed, and never published.
GroupCommit(h) ==
  LET s == handler[h]
      S == Starting(h)
      written == {e \in Execution :
                    s.plan[e] # "absent" /\ ~(s.plan[e] = "pending" /\ e \in s.seen)}
      errors == \E e \in Execution : s.plan[e] = "failed"
  IN
  /\ s.pc = "group"
  /\ (written \cup S) \cap Locked = {}
  /\ status' = [e \in Execution |-> IF e \in written THEN s.plan[e] ELSE status[e]]
  /\ Activate(h, S, IF h \in overtaken THEN Execution ELSE s.flagged)
  /\ lost' = IF errors THEN lost \cup S ELSE lost \ S
  /\ handler' = [handler EXCEPT ![h] =
                   IF errors THEN Idle ELSE Publishing(Rendered(S))]
  /\ UNCHANGED <<concurrency, maintenance, mq, run, kills, requests, crashes>>

\* _cancel_group: the queued members are cancelled at once; what has not ended
\* is handed to cancel_execution.
GroupCancel(h, g, mode) ==
  LET S == Members(g, {e \in Execution :
                         status[e] \notin END_STATES \cup {"absent", "rejected"}})
  IN
  /\ handler[h] = Idle
  /\ Admitted(Members(g, Execution))
  /\ requests < MaxRequests /\ Work < MaxWork
  /\ S # {}
  /\ requests' = requests + 1
  /\ handler' = [handler EXCEPT ![h] =
                   [Idle EXCEPT !.pc = "groupcancel", !.arg = mode, !.targets = S,
                                !.flagged = S \ Queued]]
  /\ UNCHANGED <<status, token, concurrency, maintenance, mq, run, kills,
                 crashes, bypassed, overtaken, lost>>

\* With nothing left to cancel, cancel_execution finds no executions and fails.
GroupCancelCommit(h) ==
  LET s == handler[h]
      waiting == s.targets \ s.flagged
  IN
  /\ s.pc = "groupcancel"
  /\ waiting \cap Locked = {}
  /\ status' = [e \in Execution |-> IF e \in waiting THEN "cancelled" ELSE status[e]]
  /\ handler' = [handler EXCEPT ![h] =
                   IF s.flagged = {} THEN Idle
                   ELSE [Idle EXCEPT !.pc = "groupvalidate", !.arg = s.arg,
                                     !.targets = s.flagged]]
  /\ UNCHANGED <<token, concurrency, maintenance, mq, run, kills, requests,
                 crashes, bypassed, overtaken, lost>>

\* cancel_execution's first transaction, for several executions: one that may
\* not be cancelled refuses them all.
GroupCancelValidate(h) ==
  LET s == handler[h] IN
  /\ s.pc = "groupvalidate"
  /\ handler' = [handler EXCEPT ![h] =
       IF \A e \in s.targets : CancelAllowed(s.arg, status[e])
       THEN [s EXCEPT !.pc = "cancel",
                      !.flagged = {e \in s.targets : KillFlag(s.arg, status[e])}]
       ELSE Idle]
  /\ UNCHANGED <<status, token, concurrency, maintenance, mq, run, kills,
                 requests, crashes, bypassed, overtaken, lost>>

\* PATCH /execution-groups/<id>: a group that was paused is woken up.
SetConcurrency(h, g, n) ==
  /\ handler[h] = Idle
  /\ Admitted(Members(g, Execution))
  /\ requests < MaxRequests /\ Work < MaxWork
  /\ n # concurrency[g]
  /\ requests' = requests + 1
  /\ concurrency' = [concurrency EXCEPT ![g] = n]
  /\ handler' = [handler EXCEPT ![h] =
                   IF concurrency[g] = 0 THEN [Idle EXCEPT !.pc = "list"] ELSE Idle]
  /\ UNCHANGED <<status, token, maintenance, mq, run, kills, crashes,
                 bypassed, overtaken, lost>>

GroupRequest(h) ==
  \E g \in Group :
    \/ \E force \in ForceFlags : GroupPost(h, g, force)
    \/ GroupResume(h, g)
    \/ \E mode \in CancelModes : GroupCancel(h, g, mode)
    \/ \E n \in Concurrencies : SetConcurrency(h, g, n)

GroupHandlerStep(h) ==
  GroupCommit(h) \/ GroupCancelCommit(h) \/ GroupCancelValidate(h)

\* "This will only actually run executions up to the concurrency limit, and
\* queue the rest": an execution that was started is on its way to run.
StartedIsSent == \A e \in Active : Carried(e)
=============================================================================
