----------------------------- MODULE Executions -----------------------------
(***************************************************************************)
(* The life of workflow executions in the manager: the REST handlers that  *)
(* create, queue, dequeue, cancel, resume and update executions            *)
(* (resource_manager.py, rest/resources_v1/executions.py), the AMQP queues *)
(* that carry workflows and kill orders to the mgmtworkers, and the        *)
(* mgmtworkers that run them (mgmtworker/worker.py).                       *)
(*                                                                         *)
(* A REST handler is a process that runs one request at a time.  Its       *)
(* database transactions are READ COMMITTED and mostly unlocked, so what   *)
(* it read may be stale when it writes: one action models what a request   *)
(* reads, another one what it commits, and a third one what it publishes   *)
(* once it has committed.  A step that holds a row lock from its read to   *)
(* its commit is a single action.                                          *)
(***************************************************************************)
EXTENDS Naturals, FiniteSets, ExecutionStates

CONSTANTS
  Execution,    \* executions; their order is that of created_at and _storage_id
  Deployment,   \* deployments
  None,         \* the deployment of an execution that has none
  NoTask,       \* the client of a request that no running workflow waits for
  DeploymentOf, \* the deployment of each execution, or None
  WorkflowOf,   \* the kind of workflow each execution runs
  EndpointOf,   \* the endpoint whose request creates each execution
  Bypassing,    \* executions on which requests carry X-BYPASS-MAINTENANCE, sent by
                \* users who may set the maintenance mode
  System,       \* executions with is_system_workflow set
  Group,        \* execution groups
  GroupsOf,     \* the groups each execution belongs to
  GroupConcurrency, \* the concurrency each group is created with
  Handler,      \* request handlers of the REST services of the cluster
  Worker,       \* mgmtworkers
  max_concurrent_workflows,
  DequeueLimit,   \* rows fetched by one dequeue (5 in the code)
  DequeueRetries, \* attempts of one start_queued_executions (5 in the code)
  ForceFlags,     \* the values of the force flag that users pass
  MaxRequests,    \* bound: cancel and resume requests
  MaxWork,        \* bound: those and the executions, together
  MaxCrashes      \* bound: crashes of REST handlers and of mgmtworkers

Workflows ==
  {"workflow", "create_deployment_environment", "create_snapshot", "update_plugin"}

\* Where an execution comes from, as far as maintenance mode tells it apart: POST
\* executions (or deployments/<id>), PUT snapshots/<id> (or its restore), or
\* another one, such as log-bundles.
Endpoints == {"executions", "snapshots", "other"}

ASSUME ExecutionAssumption ==
  /\ Execution \subseteq Nat
  /\ None \notin Deployment
  /\ DeploymentOf \in [Execution -> Deployment \cup {None}]
  /\ WorkflowOf \in [Execution -> Workflows]
  /\ EndpointOf \in [Execution -> Endpoints]
  /\ Bypassing \subseteq Execution
  /\ GroupsOf \in [Execution -> SUBSET Group]
  /\ GroupConcurrency \in [Group -> Nat]

\* Every system workflow the manager creates is manager-wide.
ASSUME SystemAssumption ==
  /\ System \subseteq Execution
  /\ \A e \in Execution :
       /\ e \in System => DeploymentOf[e] = None
       /\ WorkflowOf[e] \in {"create_snapshot", "update_plugin"} => e \in System
       /\ WorkflowOf[e] = "create_deployment_environment" => DeploymentOf[e] # None

ASSUME BoundAssumption ==
  /\ max_concurrent_workflows \in Nat
  /\ DequeueLimit \in Nat
  /\ DequeueRetries \in Nat
  /\ MaxRequests \in Nat /\ MaxWork \in Nat
  /\ MaxCrashes \in Nat
  /\ ForceFlags \subseteq BOOLEAN
  /\ Worker # {}

VARIABLES
  status,      \* executions.status of each execution
  token,       \* number of the execution token last issued for it
  concurrency, \* execution_groups.concurrency
  maintenance, \* the maintenance mode of the manager
  handler,     \* what each REST handler is doing
  mq,          \* messages in the mgmtworkers' workflow queue
  run,         \* workflows being run by a mgmtworker, their message unacked
  kills,       \* cancel-workflow service tasks not handled yet
  requests,    \* cancel and resume requests so far (bounded)
  crashes,     \* crashes so far (bounded)
  bypassed,    \* history: executions activated in spite of a closed gate
  overtaken,   \* history: handlers whose decision to start something is stale
  lost         \* history: active executions nobody carries any more

vars == <<status, token, concurrency, maintenance, handler, mq, run, kills,
          requests, crashes, bypassed, overtaken, lost>>

\* A message carries the token it was rendered with.
Message == [exec : Execution, token : Nat]
Task    == [exec : Execution, token : Nat, worker : Worker]

ASSUME TaskAssumption == NoTask \notin Task

MaintenanceStates == {"off", "activating", "activated"}

--------------------------------------------------------------------------
(***************************************************************************)
(* Handlers.  `exec' is the execution a status report or a resume request  *)
(* is about, `arg' the status or the kind of cancel it asks for, `client'  *)
(* the running workflow that sent it.  `plan' is what a creation or a      *)
(* dequeue is going to write, `targets' what a cancel is going to; those   *)
(* in `flagged' are started although their gate was closed, or cancelled   *)
(* with the kill flag.  `seen' are the active executions _report_running   *)
(* counted, `locked' the queued executions held FOR UPDATE, `retry' the    *)
(* attempts made, `out' and `orders' what is to be published.              *)
(***************************************************************************)
Pcs == {"idle", "post", "update", "list", "dequeue", "start", "publish",
        "cancel", "broadcast", "resume",
        "group", "groupcancel", "groupvalidate", "maintain"}
Args == END_STATES \cup {"started"} \cup CancelModes \cup {""}
Plan == [Execution -> {"absent", "rejected", "queued", "pending", "failed", "cancelled"}]

HandlerState ==
  [pc : Pcs, exec : Execution \cup {None}, arg : Args,
   client : Task \cup {NoTask}, plan : Plan,
   targets : SUBSET Execution, flagged : SUBSET Execution,
   seen : SUBSET Execution, locked : SUBSET Execution, retry : Nat,
   out : SUBSET Message, orders : SUBSET Message]

\* What a handler has put down by the time it gets to each step.
Coherent(s) ==
  /\ s.pc \in {"update", "resume"} => s.exec \in Execution
  /\ s.pc = "update" => s.arg \in END_STATES \cup {"started"}
  /\ s.pc = "cancel" => s.arg \in CancelModes
  /\ s.client # NoTask => s.client.exec = s.exec
  /\ s.pc = "cancel" => s.flagged \subseteq s.targets
  /\ s.out # {} => s.pc \in {"list", "dequeue", "start", "publish"}
  /\ s.orders # {} => s.pc = "broadcast"

\* "absent" in a plan: this execution is left alone.
NoPlan == [e \in Execution |-> "absent"]

Idle == [pc |-> "idle", exec |-> None, arg |-> "", client |-> NoTask,
         plan |-> NoPlan, targets |-> {}, flagged |-> {}, seen |-> {},
         locked |-> {}, retry |-> 0, out |-> {}, orders |-> {}]

\* A handler with nothing to publish answers its client and is idle again.
Publishing(out) ==
  IF out = {} THEN Idle ELSE [Idle EXCEPT !.pc = "publish", !.out = out]

--------------------------------------------------------------------------
(***************************************************************************)
(* What the queries see.                                                   *)
(***************************************************************************)
InState(S) == {e \in Execution : status[e] \in S}
Active == InState(ACTIVE_STATES)
Queued == InState({"queued"})

\* (mutant) what is queued is not waited for
NoneActive == Active

\* get_running_executions
RunningExecutions ==
  {e \in Execution : status[e] \notin END_STATES \cup {"absent", "rejected"}}

(***************************************************************************)
(* maintenance_mode_handler, before every request.  A request that finds   *)
(* the mode activating and nothing running activates it first (this is     *)
(* MaintenanceActivated in Maintenance), so it is treated as activated.    *)
(***************************************************************************)
Maintained ==
  \/ maintenance = "activated"
  \/ maintenance = "activating" /\ RunningExecutions = {}

\* Requests on the executions of S,
Admitted(S) == ~Maintained \/ S \subseteq Bypassing

\* and the one that creates e: while the mode is being activated POST executions
\* and PUT snapshots/<id> are refused, and then everything but the snapshots.
PostAdmitted(e) ==
  \/ maintenance = "off" \/ e \in Bypassing
  \/ IF Maintained THEN EndpointOf[e] = "snapshots" ELSE EndpointOf[e] = "other"

\* Executions that may be created or reported about all the same: the messages
\* of snapshots and of bypassing requests carry bypass_maintenance, unless they
\* come from a dequeue or a resume.
LetThrough == Bypassing \cup {e \in Execution : EndpointOf[e] = "snapshots"}

\* An execution whose row a dequeuing handler holds a lock on.
Locked == UNION {handler[h].locked : h \in Handler}

SameDeployment(e, f) ==
  DeploymentOf[e] # None /\ DeploymentOf[e] = DeploymentOf[f]

\* Executions that are required to run separately.
Conflict(e, f) ==
  e # f /\ (e \in System \/ f \in System \/ SameDeployment(e, f))

\* (mutant) only other system executions are looked for
AnySystemActive(e) == (Active \cap System) \ {e} # {}

\* _any_active_executions_filter
AnyActive(e) == Active \ {e} # {}

\* _active_system_wide_execution_filter
SystemBusy == (Active \cup Queued) \cap System # {}

\* (mutant) an execution that is being cancelled does not count
DeploymentBusyRunning(e) ==
  \E f \in Execution \ {e} :
    /\ SameDeployment(e, f)
    /\ f \in InState(Running) \/ (f \in Queued /\ f < e)

\* (mutant) executions queued later count too
DeploymentBusyAnyQueued(e) ==
  \E f \in Execution \ {e} : SameDeployment(e, f) /\ f \in Active \cup Queued

\* _check_for_active_executions
DeploymentBusy(e) ==
  \E f \in Execution \ {e} :
    /\ SameDeployment(e, f)
    /\ f \in Active \/ (f \in Queued /\ f < e)

\* The queueing decision of prepare_executions for a blocking, unforced request.
MustQueue(e) ==
  IF e \in System THEN AnyActive(e) ELSE SystemBusy \/ DeploymentBusy(e)

\* Executions of S whose gate is closed at this very moment.
GateClosed(S) == {e \in S : MustQueue(e) \/ \E f \in S : Conflict(e, f)}

\* verify_deployment_environment_created_successfully
EnvironmentReady(e) ==
  \A c \in Execution \ {e} :
    /\ SameDeployment(c, e)
    /\ WorkflowOf[c] = "create_deployment_environment"
    => status[c] = "terminated"

\* Executions whose environment creation is known to have failed.  (The one
\* exemption, delete_deployment_environment, is not among the workflows here.)
EnvironmentFailed(e) ==
  \E c \in Execution \ {e} :
    /\ SameDeployment(c, e)
    /\ WorkflowOf[c] = "create_deployment_environment"
    /\ status[c] = "failed"

\* user_handler._get_user_from_execution_token: whose token is accepted, or
\* refused.  That of a cancelled execution depends on its operations.
Authorized(t) == t.token = token[t.exec] /\ t.exec \in Active \cup InState({"cancelled"})
Denied(t) == t.token # token[t.exec] \/ t.exec \notin Active

--------------------------------------------------------------------------
(***************************************************************************)
(* POST /executions.  Post reads what is running and decides; PostCommit   *)
(* inserts the row.  The new row is invisible to everyone in between, and  *)
(* nothing the decision rests on is locked.                                *)
(***************************************************************************)

\* prepare_executions' decision for a new execution.  is_blocking_execution
\* is false for create_snapshot alone; update_plugin allows overlapping.  A
\* running system execution queues the others whether they asked for it or not.
GateDecision(e, force, queue) ==
  LET free == \/ WorkflowOf[e] = "update_plugin"
              \/ WorkflowOf[e] = "create_snapshot" /\ ~queue
      blocked == IF e \in System THEN AnyActive(e)
                 ELSE SystemBusy \/ (~force /\ DeploymentBusy(e))
  IN IF free \/ ~blocked THEN "pending"
     ELSE IF queue \/ (e \notin System /\ SystemBusy) THEN "queued"
     ELSE "rejected"

\* An error in the checks or in the rendering is kept as a failed execution.  A
\* create_snapshot with the legacy parameter is blocking after all.
PostDecisions(e, force, queue) ==
  IF ~EnvironmentReady(e) THEN {"rejected"}
  ELSE {GateDecision(e, force, queue), "failed"} \cup
         (IF WorkflowOf[e] = "create_snapshot" /\ ~queue /\ AnyActive(e)
          THEN {"rejected"} ELSE {})

\* Executions about to be created by some handler.
Posting == {e \in Execution :
              \E h \in Handler : handler[h].pc = "post" /\ handler[h].plan[e] # "absent"}

\* What clients have asked for.
Work == requests + Cardinality(Posting \cup {e \in Execution : status[e] # "absent"})

\* Executions are created in their order.
Creatable(S) ==
  /\ Work + Cardinality(S) <= MaxWork
  /\ \A e \in S : status[e] = "absent" /\ e \notin Posting
  /\ \A e \in S, f \in Execution \ S :
       f < e => status[f] # "absent" \/ f \in Posting

\* The executions of a group are created with it (ExecutionGroups).
Post(h, e, force, queue) ==
  /\ handler[h] = Idle
  /\ PostAdmitted(e)
  /\ GroupsOf[e] = {}
  /\ Creatable({e})
  /\ \E decision \in PostDecisions(e, force, queue) :
       handler' = [handler EXCEPT ![h] =
                     [Idle EXCEPT !.pc = "post", !.plan[e] = decision,
                                  !.flagged = GateClosed({e})]]
  /\ UNCHANGED <<status, token, concurrency, maintenance, mq, run, kills,
                 requests, crashes, bypassed, overtaken, lost>>

\* (mutant) the message is rendered before the token is replaced
RenderedOldToken(S) == {[exec |-> e, token |-> token[e]] : e \in S}

\* Messages that start the executions of S, each with a token of its own.
Rendered(S) == {[exec |-> e, token |-> token[e] + 1] : e \in S}
NewTokens(S) == [e \in Execution |-> IF e \in S THEN token[e] + 1 ELSE token[e]]

\* Handlers that have decided what to start and have not committed it yet.
Deciding == {h \in Handler : handler[h].pc \in {"post", "start", "group"}}

\* Handler h makes the executions of S active, those of `ungated' with their
\* gate closed.  Whoever is about to commit another decision is overtaken.
Activate(h, S, ungated) ==
  /\ token' = NewTokens(S)
  /\ bypassed' = (bypassed \ S) \cup (S \cap ungated)
  /\ overtaken' = (IF S = {} THEN overtaken ELSE overtaken \cup Deciding) \ {h}

\* The executions handler h has decided to start.
Starting(h) == {e \in Execution : handler[h].plan[e] = "pending"}

\* Handler h writes what it has planned.
WritePlan(h) ==
  LET plan == handler[h].plan IN
  /\ status' = [e \in Execution |->
                  IF plan[e] = "absent" THEN status[e] ELSE plan[e]]
  /\ Activate(h, Starting(h),
              IF h \in overtaken THEN Execution ELSE handler[h].flagged)
  /\ lost' = lost \ Starting(h)

PostCommit(h) ==
  /\ handler[h].pc = "post"
  /\ WritePlan(h)
  /\ handler' = [handler EXCEPT ![h] = Publishing(Rendered(Starting(h)))]
  /\ UNCHANGED <<concurrency, maintenance, mq, run, kills, requests, crashes>>

\* workflow_executor.execute_workflow, one message at a time.
Publish(h) ==
  /\ handler[h].pc = "publish"
  /\ \E m \in handler[h].out :
       /\ mq' = mq \cup {m}
       /\ handler' = [handler EXCEPT ![h] = Publishing(handler[h].out \ {m})]
  /\ UNCHANGED <<status, token, concurrency, maintenance, run, kills,
                 requests, crashes, bypassed, overtaken, lost>>

--------------------------------------------------------------------------
(***************************************************************************)
(* PATCH /executions/<id>: update_execution_status.  The execution token   *)
(* is checked when the request arrives; the status is validated and        *)
(* written under a row lock later on.                                      *)
(***************************************************************************)

\* _update_finished_execution_dependencies may turn any ending into a failure.
Reported(e, st) ==
  IF st \in END_STATES /\ DeploymentOf[e] # None THEN {st, "failed"} ELSE {st}

\* Handler h accepts the report of `st' for execution e from a client.
Receive(h, e, st, client) ==
  /\ handler[h] = Idle
  /\ ~Maintained \/ e \in LetThrough
  /\ \E final \in Reported(e, st) :
       handler' = [handler EXCEPT ![h] =
                     [Idle EXCEPT !.pc = "update", !.exec = e, !.arg = final,
                                  !.client = client]]

\* A running workflow makes one REST call at a time.
Waiting(t) == \E h \in Handler : handler[h].client = t

Report(h, t, st) ==
  /\ t \in run /\ ~Waiting(t) /\ Authorized(t)
  /\ Receive(h, t.exec, st, t)
  /\ UNCHANGED <<status, token, concurrency, maintenance, mq, run, kills,
                 requests, crashes, bypassed, overtaken, lost>>

ReportStarted(h, t) == status[t.exec] = "pending" /\ Report(h, t, "started")
ReportDone(h, t) == \E st \in {"terminated", "failed"} : Report(h, t, st)
ReportCancelled(h, t) ==
  status[t.exec] \in Cancelling /\ Report(h, t, "cancelled")

\* The ended workflow's process is done and its message acked; then the
\* handler dequeues, unless the manager is in maintenance.
UpdateCommit(h) ==
  LET e == handler[h].exec
      st == handler[h].arg
      valid == ValidUpdate(WorkflowOf[e] = "create_snapshot", status[e], st)
      revived == valid /\ st \in ACTIVE_STATES /\ e \notin Active
  IN
  /\ handler[h].pc = "update"
  /\ e \notin Locked
  /\ status' = IF valid THEN [status EXCEPT ![e] = st] ELSE status
  /\ IF valid /\ st \in END_STATES
     THEN /\ run' = run \ {handler[h].client}
          /\ lost' = lost \ {e}
          /\ handler' = [handler EXCEPT ![h] =
                           IF maintenance = "off"
                           THEN [Idle EXCEPT !.pc = "list"] ELSE Idle]
     ELSE /\ handler' = [handler EXCEPT ![h] = Idle]
          /\ lost' = IF revived THEN lost \cup {e} ELSE lost
          /\ UNCHANGED run
  /\ bypassed' = IF revived THEN bypassed \cup {e} ELSE bypassed
  /\ UNCHANGED <<token, concurrency, maintenance, mq, kills, requests, crashes,
                 overtaken>>

--------------------------------------------------------------------------
(***************************************************************************)
(* start_queued_executions.  DequeueList reads, without locking them, the  *)
(* active executions (_report_running), or else takes and locks the oldest *)
(* queued system execution.  DequeueCommit selects, re-checks and starts.  *)
(***************************************************************************)
Oldest(S) == {e \in S : \A f \in S : e <= f}

DequeueList(h) ==
  /\ handler[h].pc = "list"
  /\ Queued \cap System \cap Locked = {}
  /\ handler' = [handler EXCEPT ![h].pc = "dequeue",
                                ![h].seen = Active,
                                ![h].locked = Queued \cap System]
  /\ UNCHANGED <<status, token, concurrency, maintenance, mq, run, kills,
                 requests, crashes, bypassed, overtaken, lost>>

\* Members of S that belong to group g.
Members(g, S) == {e \in S : g \in GroupsOf[e]}

\* The rows _report_running counts: one for each active execution and group.
RunningRows(seen) ==
  Cardinality({e \in seen : GroupsOf[e] = {}}) +
  Cardinality({eg \in seen \X Group : eg[2] \in GroupsOf[eg[1]]})

GroupFull(g, seen) ==
  Members(g, seen) # {} /\ Cardinality(Members(g, seen)) >= concurrency[g]

\* The WHERE clause of _queued_executions_query.
Eligible(seen) ==
  {e \in Queued \ System :
     /\ \/ WorkflowOf[e] = "create_deployment_environment"
        \/ ~\E f \in Execution :
             /\ SameDeployment(e, f)
             /\ \/ f \in Active
                \/ f \in Queued /\ WorkflowOf[f] = "create_deployment_environment"
     /\ \A g \in GroupsOf[e] : ~GroupFull(g, seen)}

\* ORDER BY _storage_id LIMIT n
FirstOf(n, S) == {e \in S : Cardinality({f \in S : f < e}) < n}

\* (mutant) the limits are compared with what runs already, not counting
\* what this dequeue emits
EmitsUncounted(seen, rows, picked) ==
  \A e \in rows :
    e \in picked <=>
      LET earlier == {f \in picked : f < e} IN
      /\ RunningRows(seen) < max_concurrent_workflows
      /\ \A g \in GroupsOf[e] : Cardinality(Members(g, seen)) < concurrency[g]
      /\ \A f \in earlier : DeploymentOf[f] # DeploymentOf[e]

\* The loop of _get_queued_executions, going through `rows' in order: an
\* execution is emitted when, with those emitted before it, neither the total
\* nor its groups are full and none of them is of its deployment.
Emits(seen, rows, picked) ==
  \A e \in rows :
    e \in picked <=>
      LET earlier == {f \in picked : f < e} IN
      /\ RunningRows(seen) + Cardinality(earlier) < max_concurrent_workflows
      /\ \A g \in GroupsOf[e] :
           Cardinality(Members(g, seen)) + Cardinality(Members(g, earlier))
             < concurrency[g]
      /\ \A f \in earlier : DeploymentOf[f] # DeploymentOf[e]

\* _refresh_execution of the picked executions: `broken' fail, the others start
\* unless the gate is closed, in which case they stay queued.
Refreshed(picked, broken) ==
  [e \in Execution |-> IF e \in broken THEN "failed"
                      ELSE IF e \in picked /\ ~MustQueue(e) THEN "pending"
                      ELSE "absent"]

\* _get_queued_executions emits the oldest system execution, or goes through
\* the rows it selects and locks.
DequeueSelect(h) ==
  LET s == handler[h]
      rows == IF s.locked # {} THEN s.locked
              ELSE FirstOf(DequeueLimit, Eligible(s.seen))
  IN
  /\ s.pc = "dequeue"
  /\ s.locked = {} => rows \cap Locked = {}
  /\ \E picked \in SUBSET rows : \E broken \in SUBSET picked :
       /\ IF s.locked # {} THEN picked = Oldest(rows)
                           ELSE Emits(s.seen, rows, picked)
       /\ {e \in picked : EnvironmentFailed(e)} \subseteq broken
       /\ handler' = [handler EXCEPT ![h] =
                        [s EXCEPT !.pc = "start", !.seen = {}, !.locked = rows,
                                  !.plan = Refreshed(picked, broken)]]
  /\ UNCHANGED <<status, token, concurrency, maintenance, mq, run, kills,
                 requests, crashes, bypassed, overtaken, lost>>

\* If something failed there is another attempt, else what started is sent.
DequeueCommit(h) ==
  LET s == handler[h]
      out == s.out \cup Rendered(Starting(h))
      allStarted == \A e \in Execution : s.plan[e] # "failed"
  IN
  /\ s.pc = "start"
  /\ WritePlan(h)
  /\ handler' = [handler EXCEPT ![h] =
       IF allStarted \/ s.retry + 1 >= DequeueRetries THEN Publishing(out)
       ELSE [Idle EXCEPT !.pc = "list", !.out = out, !.retry = s.retry + 1]]
  /\ UNCHANGED <<concurrency, maintenance, mq, run, kills, requests, crashes>>

--------------------------------------------------------------------------
(***************************************************************************)
(* POST /executions/<id> {cancel, force-cancel, kill}: cancel_execution    *)
(* validates in one transaction and writes, without looking at the status  *)
(* again, in another one.                                                  *)
(***************************************************************************)
CancelRead(h, S, mode) ==
  /\ handler[h] = Idle
  /\ Admitted(S)
  /\ requests < MaxRequests /\ Work < MaxWork
  /\ S # {}
  /\ \A e \in S : /\ status[e] \notin {"absent", "rejected"}
                  /\ CancelAllowed(mode, status[e])
  /\ requests' = requests + 1
  /\ handler' = [handler EXCEPT ![h] =
                   [Idle EXCEPT !.pc = "cancel", !.arg = mode, !.targets = S,
                                !.flagged = {e \in S : KillFlag(mode, status[e])}]]
  /\ UNCHANGED <<status, token, concurrency, maintenance, mq, run, kills,
                 crashes, bypassed, overtaken, lost>>

\* With the kill flag a new token is issued, so that the running process can
\* no longer use its own, and the mgmtworkers are ordered to kill it.
CancelCommit(h) ==
  LET S == handler[h].targets
      K == handler[h].flagged
  IN
  /\ handler[h].pc = "cancel"
  /\ S \cap Locked = {}
  /\ status' = [e \in Execution |->
                  IF e \in S THEN CancelStatus(handler[h].arg) ELSE status[e]]
  /\ token' = NewTokens(K)
  /\ bypassed' = bypassed \cup (S \ Active)
  /\ lost' = (lost \cup (S \ Active)) \ K
  /\ handler' = [handler EXCEPT ![h] =
                   [Idle EXCEPT !.pc = "broadcast", !.orders = Rendered(K)]]
  /\ UNCHANGED <<concurrency, maintenance, mq, run, kills, requests, crashes,
                 overtaken>>

\* workflow_executor.cancel_execution: a fanout to every mgmtworker.
Broadcast(h) ==
  /\ handler[h].pc = "broadcast"
  /\ kills' = kills \cup {[exec |-> o.exec, token |-> o.token, worker |-> w] :
                            o \in handler[h].orders, w \in Worker}
  /\ handler' = [handler EXCEPT ![h] = Idle]
  /\ UNCHANGED <<status, token, concurrency, maintenance, mq, run, requests,
                 crashes, bypassed, overtaken, lost>>

(***************************************************************************)
(* POST /executions/<id> {resume, force-resume}: resume_execution checks   *)
(* an unlocked read of the status, and nothing else.                       *)
(***************************************************************************)
ResumeRead(h, e, force) ==
  /\ handler[h] = Idle
  /\ Admitted({e})
  /\ requests < MaxRequests /\ Work < MaxWork
  /\ ResumeAllowed(force, status[e])
  /\ requests' = requests + 1
  /\ handler' = [handler EXCEPT ![h] = [Idle EXCEPT !.pc = "resume", !.exec = e]]
  /\ UNCHANGED <<status, token, concurrency, maintenance, mq, run, kills,
                 crashes, bypassed, overtaken, lost>>

ResumeCommit(h) ==
  LET e == handler[h].exec IN
  /\ handler[h].pc = "resume"
  /\ e \notin Locked
  /\ status' = [status EXCEPT ![e] = "pending"]
  /\ Activate(h, {e}, GateClosed({e}))
  /\ lost' = lost \ {e}
  /\ handler' = [handler EXCEPT ![h] = Publishing(Rendered({e}))]
  /\ UNCHANGED <<concurrency, maintenance, mq, run, kills, requests, crashes>>

--------------------------------------------------------------------------
(***************************************************************************)
(* The mgmtworkers.  A workflow's message is acked when its process is     *)
(* done (late_ack): a mgmtworker that dies leaves it to be redelivered.    *)
(***************************************************************************)
Consume(w, m) ==
  /\ m \in mq
  /\ mq' = mq \ {m}
  /\ run' = run \cup {[exec |-> m.exec, token |-> m.token, worker |-> w]}
  /\ UNCHANGED <<status, token, concurrency, maintenance, handler, kills,
                 requests, crashes, bypassed, overtaken, lost>>

\* A process whose token is refused fails; there is nothing it can report.
RunDenied(t) ==
  /\ t \in run /\ ~Waiting(t) /\ Denied(t)
  /\ run' = run \ {t}
  /\ UNCHANGED <<status, token, concurrency, maintenance, handler, mq, kills,
                 requests, crashes, bypassed, overtaken, lost>>

\* cancel_workflow_task kills whatever process of the execution this
\* mgmtworker runs, then reports `cancelled' with the token of the order.
Killed(k) == {t \in run : t.exec = k.exec /\ t.worker = k.worker}

\* The killed processes are no longer there to get an answer.
Unclient(dead, hs) ==
  [h \in Handler |->
     IF hs[h].client \in dead THEN [hs[h] EXCEPT !.client = NoTask] ELSE hs[h]]

KillTask(h, k) ==
  /\ k \in kills /\ Authorized(k)
  /\ handler[h] = Idle
  /\ kills' = kills \ {k}
  /\ run' = run \ Killed(k)
  /\ \E final \in Reported(k.exec, "cancelled") :
       handler' = Unclient(Killed(k),
                    [handler EXCEPT ![h] =
                       [Idle EXCEPT !.pc = "update", !.exec = k.exec,
                                    !.arg = final]])
  /\ UNCHANGED <<status, token, concurrency, maintenance, mq, requests,
                 crashes, bypassed, overtaken, lost>>

\* The order's token is refused: the process is killed all the same.
KillTaskDenied(k) ==
  /\ k \in kills /\ Denied(k)
  /\ kills' = kills \ {k}
  /\ run' = run \ Killed(k)
  /\ handler' = Unclient(Killed(k), handler)
  /\ lost' = lost \cup {t.exec : t \in {u \in Killed(k) : ~Denied(u)}}
  /\ UNCHANGED <<status, token, concurrency, maintenance, mq, requests,
                 crashes, bypassed, overtaken>>

\* (mutant) messages are acked when they are consumed, none is redelivered
WorkerCrashEarlyAck(w) ==
  LET dead == {t \in run : t.worker = w} IN
  /\ crashes < MaxCrashes /\ dead # {}
  /\ crashes' = crashes + 1
  /\ run' = run \ dead
  /\ handler' = Unclient(dead, handler)
  /\ UNCHANGED <<status, token, concurrency, maintenance, mq, kills, requests,
                 bypassed, overtaken, lost>>

WorkerCrash(w) ==
  LET dead == {t \in run : t.worker = w} IN
  /\ crashes < MaxCrashes /\ dead # {}
  /\ crashes' = crashes + 1
  /\ run' = run \ dead
  /\ mq' = mq \cup {[exec |-> t.exec, token |-> t.token] : t \in dead}
  /\ handler' = Unclient(dead, handler)
  /\ UNCHANGED <<status, token, concurrency, maintenance, kills, requests,
                 bypassed, overtaken, lost>>

\* A REST service dies in a request: what it has not committed is rolled back,
\* what it has committed and not published is lost.
HandlerCrash(h) ==
  LET s == handler[h] IN
  /\ crashes < MaxCrashes /\ s # Idle
  /\ crashes' = crashes + 1
  /\ handler' = [handler EXCEPT ![h] = Idle]
  /\ status' = [e \in Execution |->
                  IF status[e] = "absent" /\ s.plan[e] # "absent"
                  THEN "rejected" ELSE status[e]]
  /\ lost' = lost \cup {m.exec : m \in s.out \cup s.orders} \cup
               (IF s.pc = "update" /\ s.client = NoTask THEN {s.exec} ELSE {})
  /\ overtaken' = overtaken \ {h}
  /\ UNCHANGED <<token, concurrency, maintenance, mq, run, kills, requests,
                 bypassed>>

--------------------------------------------------------------------------
Init ==
  /\ status = [e \in Execution |-> "absent"]
  /\ token = [e \in Execution |-> 0]
  /\ concurrency = GroupConcurrency
  /\ maintenance = "off"
  /\ handler = [h \in Handler |-> Idle]
  /\ mq = {} /\ run = {} /\ kills = {}
  /\ requests = 0 /\ crashes = 0
  /\ bypassed = {} /\ overtaken = {} /\ lost = {}

HandlerStep(h) ==
  \/ PostCommit(h) \/ Publish(h)
  \/ UpdateCommit(h) \/ DequeueList(h) \/ DequeueSelect(h) \/ DequeueCommit(h)
  \/ CancelCommit(h) \/ Broadcast(h) \/ ResumeCommit(h)

UserRequest(h) ==
  \E e \in Execution :
    \/ \E force \in ForceFlags, queue \in BOOLEAN : Post(h, e, force, queue)
    \/ \E mode \in CancelModes : CancelRead(h, {e}, mode)
    \/ \E force \in BOOLEAN : ResumeRead(h, e, force)

WorkerStep ==
  \/ \E w \in Worker, m \in mq : Consume(w, m)
  \/ \E t \in run : RunDenied(t)
  \/ \E k \in kills : KillTaskDenied(k)
  \/ \E h \in Handler : \/ \E t \in run : ReportStarted(h, t)
                        \/ \E t \in run : ReportDone(h, t)
                        \/ \E t \in run : ReportCancelled(h, t)
                        \/ \E k \in kills : KillTask(h, k)

Crash ==
  \/ \E w \in Worker : WorkerCrash(w)
  \/ \E h \in Handler : HandlerCrash(h)

Next ==
  \/ \E h \in Handler : HandlerStep(h) \/ UserRequest(h)
  \/ WorkerStep
  \/ Crash

Spec == Init /\ [][Next]_vars

\* Tasks of execution e that mgmtworker w has in S.
TasksOf(e, w, S) == {t \in S : t.exec = e /\ t.worker = w}

(***************************************************************************)
(* Handlers finish the requests they accept; mgmtworkers consume their     *)
(* queues; a workflow ends some day, and one that is being cancelled some  *)
(* day reports so or is killed, however often its handler is busy with     *)
(* others.  Nobody has to send a request, and nothing has to crash.        *)
(***************************************************************************)
Fairness ==
  /\ \A h \in Handler : WF_vars(HandlerStep(h))
  /\ \A e \in Execution :
       WF_vars(\E w \in Worker, m \in mq : m.exec = e /\ Consume(w, m))
  /\ \A e \in Execution, w \in Worker :
       /\ WF_vars(\E t \in TasksOf(e, w, run) : RunDenied(t))
       /\ WF_vars(\E k \in TasksOf(e, w, kills) : KillTaskDenied(k))
       /\ SF_vars(\E h \in Handler, t \in TasksOf(e, w, run) : ReportDone(h, t))
       /\ SF_vars(\E h \in Handler :
                    \/ \E t \in TasksOf(e, w, run) : ReportCancelled(h, t)
                    \/ \E k \in TasksOf(e, w, kills) : KillTask(h, k))

FairSpec == Spec /\ Fairness

--------------------------------------------------------------------------
(***************************************************************************)
(* Properties.                                                             *)
(***************************************************************************)

\* The variables have their types, and every handler has what its next step
\* needs (what it read is of the kind the step is about to write).
TypeOK ==
  /\ status \in [Execution -> Statuses]
  /\ token \in [Execution -> Nat]
  /\ concurrency \in [Group -> Nat]
  /\ maintenance \in MaintenanceStates
  /\ handler \in [Handler -> HandlerState]
  /\ \A h \in Handler : Coherent(handler[h])
  /\ mq \subseteq Message
  /\ run \subseteq Task /\ kills \subseteq Task
  /\ requests \in Nat /\ crashes \in Nat
  /\ bypassed \subseteq Execution /\ overtaken \subseteq Handler
  /\ lost \subseteq Execution

\* Executions that must run separately (of one deployment, or one of them
\* manager-wide) are never active together, unless one of them was forced,
\* does not block, was resumed or cancelled while the gate was closed for it,
\* or was started on a decision that another handler's start had overtaken.
Exclusive ==
  \A e, f \in Active : Conflict(e, f) => e \in bypassed \/ f \in bypassed

\* What a decision to start something rests on still holds until another
\* handler starts something: nothing active is in conflict with it.
DecisionHolds(h) ==
  \A e \in Starting(h) \ handler[h].flagged :
    /\ \A f \in Active : Conflict(e, f) => f \in bypassed
    /\ \A f \in Starting(h) : ~Conflict(e, f)
DecisionsHold == \A h \in Deciding \ overtaken : DecisionHolds(h)

\* c carries execution e with its current token.
Holds(c, e) == c.exec = e /\ c.token = token[e]

\* The report of a kill order for e is being handled, its process being gone.
KillReported(h, e) ==
  /\ handler[h].pc = "update" /\ handler[h].exec = e
  /\ handler[h].client = NoTask /\ handler[h].arg \in {"cancelled", "failed"}

\* Somebody who holds the execution's current token, or a kill order's report
\* on its way, will move execution e on.
Carried(e) ==
  \/ \E c \in mq \cup run \cup kills : Holds(c, e)
  \/ \E h \in Handler : \/ \E c \in handler[h].out \cup handler[h].orders : Holds(c, e)
                        \/ KillReported(h, e)

\* An active execution is carried by a message, a process or a kill order
\* that the manager will accept, unless it is one of the lost ones.
ActiveIsCarried == \A e \in Active : Carried(e) \/ e \in lost

\* What start_queued_executions starts fits in max_concurrent_workflows and in
\* the concurrency of its groups.
DequeueWithinLimits ==
  [][LET started == {e \in Queued : status'[e] = "pending"} IN
     started # {} =>
       /\ Cardinality(Active') <= max_concurrent_workflows
       /\ \A g \in Group :
            Members(g, started) # {} =>
              Cardinality(Members(g, Active')) <= concurrency[g]]_vars

\* "end states - can't either cancel or force-cancel": only a kill, or a resume
\* that is allowed for it, makes an ended execution active again.
EndedStaysEnded ==
  [][\A e \in Execution :
       status[e] \in END_STATES /\ WorkflowOf[e] # "create_snapshot" =>
         \/ status'[e] \in END_STATES \cup {"kill_cancelling"}
         \/ status[e] # "terminated" /\ status'[e] = "pending"]_vars

\* The last attempt of handler h to dequeue something: what it has picked fails
\* again, and it will not look for more.
OutOfAttempts(h) ==
  /\ handler[h].pc = "start" /\ handler[h].retry + 1 >= DequeueRetries
  /\ \E e \in Execution : handler[h].plan[e] = "failed"

\* An execution that stays queued for ever was left behind by a dequeue that ran
\* out of attempts: then it waits for another execution to end, and there may be
\* none.  Else it is started, cancelled or failed some day.
QueuedMovesOn ==
  \A e \in Execution :
    <>[](status[e] = "queued")
      => <>(status[e] = "queued" /\ \E h \in Handler : OutOfAttempts(h))
=============================================================================
