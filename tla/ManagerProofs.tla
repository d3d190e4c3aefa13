--------------------------- MODULE ManagerProofs ---------------------------
(***************************************************************************)
(* Proofs about Manager: the types and the carrying of executions with     *)
(* groups and maintenance mode, for any number of handlers, and what holds *)
(* when requests are handled one at a time: maintenance mode is quiet, and *)
(* dequeues and groups keep to their limits.                               *)
(***************************************************************************)
EXTENDS Manager, ExecutionsProofs, FiniteSetTheorems

USE ExecutionAssumption, SystemAssumption, BoundAssumption, TaskAssumption, GroupAssumption

-----------------------------------------------------------------------------
(* Types. *)

\* The plan that starts slice C of the executions S of a group.
GroupPlan(S, C, broken, force) ==
  [e \in Execution |-> IF e \in broken THEN "failed"
                       ELSE IF e \in C THEN GateDecision(e, force, TRUE)
                       ELSE IF e \in S THEN "queued" ELSE "absent"]

LEMMA GroupPlanForm ==
  ASSUME NEW g, NEW S, NEW force, NEW plan \in GroupPlans(g, S, force)
  PROVE  \E C \in Slices(g, S) : \E broken \in SUBSET C : plan = GroupPlan(S, C, broken, force)
<1>1. GroupPlans(g, S, force) =
        UNION {{GroupPlan(S, C, broken, force) : broken \in SUBSET C} : C \in Slices(g, S)}
  BY DEF GroupPlans, GroupPlan
<1>2. PICK X \in {{GroupPlan(S, C, broken, force) : broken \in SUBSET C} : C \in Slices(g, S)} :
        plan \in X
  BY <1>1
<1> QED BY <1>2

LEMMA GateDecisionType ==
  ASSUME NEW e, NEW force, NEW queue
  PROVE  GateDecision(e, force, queue) \in {"pending", "queued", "rejected"}
  BY DEF GateDecision

LEMMA GroupPlanType ==
  ASSUME NEW g, NEW S, NEW force, NEW plan \in GroupPlans(g, S, force)
  PROVE  plan \in Plan
<1>1. PICK C \in Slices(g, S) : \E broken \in SUBSET C : plan = GroupPlan(S, C, broken, force)
  BY GroupPlanForm
<1>2. PICK broken : plan = GroupPlan(S, C, broken, force)
  BY <1>1
<1> QED BY <1>2, GateDecisionType DEF GroupPlan, Plan

\* The states a handler enters for a group, and for maintenance mode.
LEMMA GroupWritingOK ==
  ASSUME NEW plan \in Plan, NEW P \in SUBSET Execution
  PROVE  GroupWriting(plan, P) \in HandlerState /\ Coherent(GroupWriting(plan, P))
<1>1. GateClosed({e \in Execution : plan[e] = "pending"}) \in SUBSET Execution
  BY DEF GateClosed
<1> QED BY <1>1, IdleOK DEF GroupWriting, Idle, HandlerState, Coherent, Pcs

LEMMA GroupCancellingOK ==
  ASSUME NEW S \in SUBSET Execution, NEW F \in SUBSET S, NEW mode \in CancelModes
  PROVE  /\ [Idle EXCEPT !.pc = "groupcancel", !.arg = mode, !.targets = S, !.flagged = F]
              \in HandlerState
         /\ Coherent([Idle EXCEPT !.pc = "groupcancel", !.arg = mode, !.targets = S,
                                  !.flagged = F])
  BY IdleOK DEF Idle, HandlerState, Coherent, Pcs, Args

LEMMA GroupValidatingOK ==
  ASSUME NEW S \in SUBSET Execution, NEW mode \in Args
  PROVE  /\ [Idle EXCEPT !.pc = "groupvalidate", !.arg = mode, !.targets = S] \in HandlerState
         /\ Coherent([Idle EXCEPT !.pc = "groupvalidate", !.arg = mode, !.targets = S])
  BY IdleOK DEF Idle, HandlerState, Coherent, Pcs

LEMMA MaintainingOK ==
  ASSUME NEW S \in SUBSET Execution
  PROVE  /\ [Idle EXCEPT !.pc = "maintain", !.seen = S] \in HandlerState
         /\ Coherent([Idle EXCEPT !.pc = "maintain", !.seen = S])
  BY IdleOK DEF Idle, HandlerState, Coherent, Pcs

LEMMA DequeueListingOK ==
  [Idle EXCEPT !.pc = "list"] \in HandlerState /\ Coherent([Idle EXCEPT !.pc = "list"])
  BY IdleOK DEF Idle, HandlerState, Coherent, Pcs

LEMMA HandlerPcs ==
  /\ Idle.pc = "idle" /\ [Idle EXCEPT !.pc = "list"].pc = "list"
  /\ \A S : [Idle EXCEPT !.pc = "maintain", !.seen = S].pc = "maintain"
  /\ \A out : Publishing(out).pc \in {"idle", "publish"}
  BY DEF Idle, Publishing

\* A cancel of a group asks for a kind of cancel all along.
GroupCancelling ==
  \A h \in Handler : handler[h].pc \in {"groupcancel", "groupvalidate"} =>
    handler[h].arg \in CancelModes /\ handler[h].flagged \subseteq handler[h].targets

Typed == TypeOK /\ GroupCancelling

\* A handler that enters a well formed state keeps all of them well formed.
LEMMA TypedUpdate ==
  ASSUME Typed, NEW h \in Handler, NEW s \in HandlerState, Coherent(s),
         s.pc \in {"groupcancel", "groupvalidate"} => s.arg \in CancelModes /\ s.flagged \subseteq s.targets,
         handler' = [handler EXCEPT ![h] = s]
  PROVE  /\ handler' \in [Handler -> HandlerState]
         /\ \A g \in Handler : Coherent(handler'[g])
         /\ GroupCancelling'
<1>1. handler'[h] = s /\ \A g \in Handler \ {h} : handler'[g] = handler[g]
  BY OtherHandlers DEF Typed
<1>2. GroupCancelling'
  BY <1>1 DEF Typed, GroupCancelling
<1> QED BY <1>2, HandlerUpdate DEF Typed

\* A request that only reads.
LEMMA ReadTypes ==
  ASSUME Typed, NEW h \in Handler, NEW s \in HandlerState, Coherent(s),
         s.pc \in {"groupcancel", "groupvalidate"} => s.arg \in CancelModes /\ s.flagged \subseteq s.targets,
         handler' = [handler EXCEPT ![h] = s], requests' \in Nat,
         maintenance' \in MaintenanceStates, concurrency' \in [Group -> Nat],
         UNCHANGED <<status, token, mq, run, kills, crashes, bypassed, overtaken, lost>>
  PROVE  Typed'
<1>1. /\ handler' \in [Handler -> HandlerState]
      /\ \A g \in Handler : Coherent(handler'[g])
      /\ GroupCancelling'
  BY TypedUpdate
<1> QED BY <1>1 DEF Typed, TypeOK

LEMMA GroupRequestTypes ==
  ASSUME Typed, NEW h \in Handler, GroupRequest(h)
  PROVE  Typed'
<1>1. PICK g \in Group :
        \/ \E force \in ForceFlags : GroupPost(h, g, force)
        \/ GroupResume(h, g)
        \/ \E mode \in CancelModes : GroupCancel(h, g, mode)
        \/ \E n \in Concurrencies : SetConcurrency(h, g, n)
  BY DEF GroupRequest
<1>2. /\ requests \in Nat /\ maintenance \in MaintenanceStates /\ concurrency \in [Group -> Nat]
      /\ requests + 1 \in Nat
  BY DEF Typed, TypeOK
<1>3. ASSUME NEW plan \in Plan, NEW P \in SUBSET Execution
      PROVE  GroupWriting(plan, P).pc = "group"
  BY DEF GroupWriting, Idle
<1>4. CASE \E force \in ForceFlags : GroupPost(h, g, force)
  <2>1. PICK force \in ForceFlags : GroupPost(h, g, force)
    BY <1>4
  <2>2. PICK plan \in Plan : handler' = [handler EXCEPT ![h] = GroupWriting(plan, {})]
    BY <2>1, GroupPlanType DEF GroupPost
  <2>3. GroupWriting(plan, {}) \in HandlerState /\ Coherent(GroupWriting(plan, {}))
        /\ GroupWriting(plan, {}).pc = "group"
    BY <1>3, GroupWritingOK
  <2> QED BY <1>2, <2>1, <2>2, <2>3, ReadTypes DEF GroupPost
<1>5. CASE GroupResume(h, g)
  <2>1. PICK P \in SUBSET Execution : \E plan \in Plan :
          handler' = [handler EXCEPT ![h] = GroupWriting(plan, P)]
    <3>1. Members(g, InState({"pending"})) \in SUBSET Execution
      BY DEF Members, InState
    <3> QED BY <1>5, <3>1, GroupPlanType DEF GroupResume
  <2>2. PICK plan \in Plan : handler' = [handler EXCEPT ![h] = GroupWriting(plan, P)]
    BY <2>1
  <2>3. GroupWriting(plan, P) \in HandlerState /\ Coherent(GroupWriting(plan, P))
        /\ GroupWriting(plan, P).pc = "group"
    BY <1>3, GroupWritingOK
  <2>4. requests' = requests + 1 /\ UNCHANGED <<status, token, concurrency, maintenance, mq, run,
                 kills, crashes, bypassed, overtaken, lost>>
    BY <1>5 DEF GroupResume
  <2> QED BY <1>2, <2>2, <2>3, <2>4, ReadTypes
<1>6. CASE \E mode \in CancelModes : GroupCancel(h, g, mode)
  <2>1. PICK mode \in CancelModes : GroupCancel(h, g, mode)
    BY <1>6
  <2>2. PICK S \in SUBSET Execution :
          handler' = [handler EXCEPT ![h] =
                        [Idle EXCEPT !.pc = "groupcancel", !.arg = mode, !.targets = S,
                                     !.flagged = S \ Queued]]
    BY <2>1 DEF GroupCancel, Members
  <2> DEFINE s == [Idle EXCEPT !.pc = "groupcancel", !.arg = mode, !.targets = S,
                               !.flagged = S \ Queued]
  <2>3. s \in HandlerState /\ Coherent(s)
    BY GroupCancellingOK
  <2>4. s.arg \in CancelModes /\ s.flagged \subseteq s.targets
    BY DEF Idle
  <2>5. requests' = requests + 1 /\ UNCHANGED <<status, token, concurrency, maintenance, mq, run,
                 kills, crashes, bypassed, overtaken, lost>>
    BY <2>1 DEF GroupCancel
  <2> HIDE DEF s
  <2>6. handler' = [handler EXCEPT ![h] = s]
    BY <2>2 DEF s
  <2> QED BY <1>2, <2>3, <2>4, <2>5, <2>6, ReadTypes
<1>7. CASE \E n \in Concurrencies : SetConcurrency(h, g, n)
  <2>1. PICK n \in Concurrencies : SetConcurrency(h, g, n)
    BY <1>7
  <2>2. concurrency' \in [Group -> Nat] /\ requests' = requests + 1
    BY <1>2, <2>1 DEF SetConcurrency
  <2>3. PICK s \in {Idle, [Idle EXCEPT !.pc = "list"]} : handler' = [handler EXCEPT ![h] = s]
    BY <2>1 DEF SetConcurrency
  <2>4. s \in HandlerState /\ Coherent(s) /\ s.pc \in {"idle", "list"}
    BY <2>3, IdleOK, DequeueListingOK, HandlerPcs
  <2>5. UNCHANGED <<status, token, maintenance, mq, run, kills, crashes, bypassed, overtaken, lost>>
    BY <2>1 DEF SetConcurrency
  <2> QED BY <1>2, <2>2, <2>3, <2>4, <2>5, ReadTypes
<1> QED BY <1>1, <1>4, <1>5, <1>6, <1>7

LEMMA GroupCommitTypes ==
  ASSUME Typed, NEW h \in Handler, GroupCommit(h)
  PROVE  Typed'
<1>1. PICK S : S = Starting(h)
  OBVIOUS
<1>2. S \in SUBSET Execution
  BY <1>1 DEF Starting
<1>3. handler[h].plan \in Plan
  BY DEF Typed, TypeOK, HandlerState
<1>4. status' \in [Execution -> Statuses]
  BY <1>3 DEF GroupCommit, Typed, TypeOK, Plan, Statuses, ACTIVE_STATES, END_STATES, Running
<1>5. PICK ungated : Activate(h, S, ungated)
  BY <1>1 DEF GroupCommit
<1>6. /\ token' \in [Execution -> Nat]
      /\ bypassed' \subseteq Execution /\ overtaken' \subseteq Handler
  BY <1>2, <1>5, ActivateType DEF Typed
<1>7. lost' \subseteq Execution
  BY <1>1, <1>2 DEF GroupCommit, Typed, TypeOK
<1>8. PICK s \in {Idle, Publishing(Rendered(S))} : handler' = [handler EXCEPT ![h] = s]
  BY <1>1 DEF GroupCommit
<1>9. s \in HandlerState /\ Coherent(s) /\ s.pc \in {"idle", "publish"}
  <2>1. Rendered(S) \in SUBSET Message
    BY <1>2, RenderedType DEF Typed
  <2> QED BY <1>8, <2>1, IdleOK, PublishingOK, HandlerPcs
<1>10. /\ handler' \in [Handler -> HandlerState]
       /\ \A g \in Handler : Coherent(handler'[g])
       /\ GroupCancelling'
  BY <1>8, <1>9, TypedUpdate
<1>11. UNCHANGED <<concurrency, maintenance, mq, run, kills, requests, crashes>>
  BY DEF GroupCommit
<1> QED BY <1>4, <1>6, <1>7, <1>10, <1>11 DEF Typed, TypeOK

LEMMA GroupCancelCommitTypes ==
  ASSUME Typed, NEW h \in Handler, GroupCancelCommit(h)
  PROVE  Typed'
<1>1. handler[h].flagged \in SUBSET Execution /\ handler[h].arg \in CancelModes
  BY DEF GroupCancelCommit, Typed, GroupCancelling, TypeOK, HandlerState
<1> DEFINE s == [Idle EXCEPT !.pc = "groupvalidate", !.arg = handler[h].arg,
                             !.targets = handler[h].flagged]
<1>2. s \in HandlerState /\ Coherent(s)
  BY <1>1, GroupValidatingOK DEF Args
<1>3. s.arg \in CancelModes /\ s.flagged \subseteq s.targets
  BY <1>1 DEF Idle
<1>4. handler' = [handler EXCEPT ![h] = Idle] \/ handler' = [handler EXCEPT ![h] = s]
  BY DEF GroupCancelCommit
<1> HIDE DEF s
<1>5. /\ handler' \in [Handler -> HandlerState]
      /\ \A g \in Handler : Coherent(handler'[g])
      /\ GroupCancelling'
  <2>1. Idle \in HandlerState /\ Coherent(Idle) /\ Idle.pc = "idle"
    BY IdleOK DEF Idle
  <2> QED BY <1>2, <1>3, <1>4, <2>1, TypedUpdate
<1>6. status' \in [Execution -> Statuses]
  BY DEF GroupCancelCommit, Typed, TypeOK, Statuses, END_STATES
<1>7. UNCHANGED <<token, concurrency, maintenance, mq, run, kills, requests, crashes, bypassed,
                  overtaken, lost>>
  BY DEF GroupCancelCommit
<1> QED BY <1>5, <1>6, <1>7 DEF Typed, TypeOK

LEMMA GroupCancelValidateTypes ==
  ASSUME Typed, NEW h \in Handler, GroupCancelValidate(h)
  PROVE  Typed'
<1>1. PICK F : F = {e \in handler[h].targets : KillFlag(handler[h].arg, status[e])}
  OBVIOUS
<1> DEFINE s == [handler[h] EXCEPT !.pc = "cancel", !.flagged = F]
<1>2. /\ handler[h] \in HandlerState /\ Coherent(handler[h]) /\ handler[h].pc = "groupvalidate"
      /\ handler[h].arg \in CancelModes
  BY DEF GroupCancelValidate, Typed, GroupCancelling, TypeOK
<1>3. F \in SUBSET handler[h].targets /\ F \in SUBSET Execution
  BY <1>1, <1>2 DEF HandlerState
<1>4. s \in HandlerState /\ Coherent(s) /\ s.pc = "cancel"
  BY <1>2, <1>3 DEF HandlerState, Coherent, Pcs
<1>5. handler' = [handler EXCEPT ![h] = Idle] \/ handler' = [handler EXCEPT ![h] = s]
  BY <1>1 DEF GroupCancelValidate
<1> HIDE DEF s
<1>6. Idle \in HandlerState /\ Coherent(Idle) /\ Idle.pc = "idle"
  BY IdleOK DEF Idle
<1>7. /\ UNCHANGED <<status, token, mq, run, kills, crashes, bypassed, overtaken, lost>>
      /\ requests' \in Nat /\ maintenance' \in MaintenanceStates /\ concurrency' \in [Group -> Nat]
  BY DEF GroupCancelValidate, Typed, TypeOK
<1> QED BY <1>4, <1>5, <1>6, <1>7, ReadTypes

LEMMA MaintenanceTypes ==
  ASSUME Typed, NEW h \in Handler, MaintenanceStep(h)
  PROVE  Typed'
<1>1. PICK s \in {Idle, [Idle EXCEPT !.pc = "list"],
                  [Idle EXCEPT !.pc = "maintain", !.seen = RunningExecutions]} :
        handler' = [handler EXCEPT ![h] = s]
  BY DEF MaintenanceStep, MaintenanceRead, MaintenanceStore, MaintenanceDeactivate
<1>2. RunningExecutions \in SUBSET Execution
  BY DEF RunningExecutions
<1>3. s \in HandlerState /\ Coherent(s) /\ s.pc \in {"idle", "list", "maintain"}
  BY <1>1, <1>2, IdleOK, DequeueListingOK, MaintainingOK, HandlerPcs
<1>4. /\ UNCHANGED <<status, token, mq, run, kills, crashes, bypassed, overtaken, lost>>
      /\ requests' \in Nat /\ maintenance' \in MaintenanceStates /\ concurrency' \in [Group -> Nat]
  BY DEF MaintenanceStep, MaintenanceRead, MaintenanceStore, MaintenanceDeactivate, Typed, TypeOK,
         MaintenanceStates
<1> QED BY <1>1, <1>3, <1>4, ReadTypes

\* The steps of a handler on its own: of them, none enters the states of groups and
\* of maintenance mode.
LEMMA NextHandler ==
  ASSUME TypeOK, Next
  PROVE  \/ Background
         \/ \E h \in Handler : /\ \A g \in Handler \ {h} : Steady(g)
                               /\ handler'[h].pc \notin {"group", "groupcancel", "groupvalidate", "maintain"}
<1>0. handler \in [Handler -> HandlerState]
  BY DEF TypeOK
<1>1. ASSUME NEW h \in Handler, NEW s, handler' = [handler EXCEPT ![h] = s],
             s.pc \notin {"group", "groupcancel", "groupvalidate", "maintain"}
      PROVE  /\ \A g \in Handler \ {h} : Steady(g)
             /\ handler'[h].pc \notin {"group", "groupcancel", "groupvalidate", "maintain"}
  BY <1>0, <1>1 DEF Steady
<1>2. ASSUME NEW h \in Handler, UserRequest(h)
      PROVE  \E s : /\ handler' = [handler EXCEPT ![h] = s]
                    /\ s.pc \notin {"group", "groupcancel", "groupvalidate", "maintain"}
  <2>1. PICK e \in Execution :
          \/ \E force \in ForceFlags, queue \in BOOLEAN : Post(h, e, force, queue)
          \/ \E mode \in CancelModes : CancelRead(h, {e}, mode)
          \/ \E force \in BOOLEAN : ResumeRead(h, e, force)
    BY <1>2 DEF UserRequest
  <2>2. CASE \E force \in ForceFlags, queue \in BOOLEAN : Post(h, e, force, queue)
    <3>1. PICK d : handler' = [handler EXCEPT ![h] =
                                [Idle EXCEPT !.pc = "post", !.plan[e] = d,
                                             !.flagged = GateClosed({e})]]
      BY <2>2 DEF Post
    <3>2. [Idle EXCEPT !.pc = "post", !.plan[e] = d, !.flagged = GateClosed({e})].pc = "post"
      BY DEF Idle
    <3> QED BY <3>1, <3>2
  <2>3. CASE \E mode \in CancelModes : CancelRead(h, {e}, mode)
    <3>1. PICK mode, F : handler' = [handler EXCEPT ![h] =
                   [Idle EXCEPT !.pc = "cancel", !.arg = mode, !.targets = {e}, !.flagged = F]]
      BY <2>3 DEF CancelRead
    <3>2. [Idle EXCEPT !.pc = "cancel", !.arg = mode, !.targets = {e}, !.flagged = F].pc = "cancel"
      BY DEF Idle
    <3> QED BY <3>1, <3>2
  <2>4. CASE \E force \in BOOLEAN : ResumeRead(h, e, force)
    <3>1. handler' = [handler EXCEPT ![h] = [Idle EXCEPT !.pc = "resume", !.exec = e]]
      BY <2>4 DEF ResumeRead
    <3>2. [Idle EXCEPT !.pc = "resume", !.exec = e].pc = "resume"
      BY DEF Idle
    <3> QED BY <3>1, <3>2
  <2> QED BY <2>1, <2>2, <2>3, <2>4
<1>3. ASSUME NEW h \in Handler, HandlerStep(h) \/ HandlerCrash(h)
      PROVE  \E s : /\ handler' = [handler EXCEPT ![h] = s]
                    /\ s.pc \notin {"group", "groupcancel", "groupvalidate", "maintain"}
  <2>1. CASE PostCommit(h) \/ Publish(h) \/ ResumeCommit(h)
    <3>1. \E out : handler' = [handler EXCEPT ![h] = Publishing(out)]
      BY <2>1 DEF PostCommit, Publish, ResumeCommit
    <3> QED BY <3>1, HandlerPcs
  <2>2. CASE UpdateCommit(h) \/ Broadcast(h) \/ HandlerCrash(h)
    <3>1. \E s \in {Idle, [Idle EXCEPT !.pc = "list"]} : handler' = [handler EXCEPT ![h] = s]
      BY <2>2 DEF UpdateCommit, Broadcast, HandlerCrash
    <3> QED BY <3>1, HandlerPcs
  <2>3. CASE DequeueList(h)
    <3> DEFINE s == [handler[h] EXCEPT !.pc = "dequeue", !.seen = Active,
                                       !.locked = Queued \cap System]
    <3>1. handler' = [handler EXCEPT ![h] = s]
      BY <1>0, <2>3 DEF DequeueList
    <3>2. s.pc = "dequeue"
      BY <1>0 DEF HandlerState
    <3> QED BY <3>1, <3>2
  <2>4. CASE DequeueSelect(h)
    <3>1. PICK rows, picked, broken : Selected(h, rows, picked, broken)
      BY <2>4, SelectedRows
    <3> DEFINE s == [handler[h] EXCEPT !.pc = "start", !.seen = {}, !.locked = rows,
                                       !.plan = Refreshed(picked, broken)]
    <3>2. s.pc = "start"
      BY <1>0 DEF HandlerState
    <3> QED BY <3>1, <3>2 DEF Selected
  <2>5. CASE DequeueCommit(h)
    <3> DEFINE out == handler[h].out \cup Rendered(Starting(h))
               s == [Idle EXCEPT !.pc = "list", !.out = out, !.retry = handler[h].retry + 1]
    <3>1. s.pc = "list" /\ Publishing(out).pc \in {"idle", "publish"}
      BY DEF Idle, Publishing
    <3>2. \E t \in {Publishing(out), s} : handler' = [handler EXCEPT ![h] = t]
      BY <2>5 DEF DequeueCommit
    <3> QED BY <3>1, <3>2
  <2>6. CASE CancelCommit(h)
    <3>1. PICK o : handler' = [handler EXCEPT ![h] = [Idle EXCEPT !.pc = "broadcast", !.orders = o]]
      BY <2>6 DEF CancelCommit
    <3>2. [Idle EXCEPT !.pc = "broadcast", !.orders = o].pc = "broadcast"
      BY DEF Idle
    <3> QED BY <3>1, <3>2
  <2> QED BY <1>3, <2>1, <2>2, <2>3, <2>4, <2>5, <2>6 DEF HandlerStep
<1>4. ASSUME NEW h \in Handler, NEW t \in run, NEW st, Report(h, t, st)
      PROVE  \E s : /\ handler' = [handler EXCEPT ![h] = s]
                    /\ s.pc \notin {"group", "groupcancel", "groupvalidate", "maintain"}
  <2>1. PICK final : handler' = [handler EXCEPT ![h] =
                     [Idle EXCEPT !.pc = "update", !.exec = t.exec, !.arg = final, !.client = t]]
    BY <1>4 DEF Report, Receive
  <2>2. [Idle EXCEPT !.pc = "update", !.exec = t.exec, !.arg = final, !.client = t].pc = "update"
    BY DEF Idle
  <2> QED BY <2>1, <2>2
<1>5. ASSUME NEW h \in Handler, NEW k \in kills, KillTask(h, k)
      PROVE  /\ \A g \in Handler \ {h} : Steady(g)
             /\ handler'[h].pc = "update"
  BY <1>5, KillTaskHandler
<1>6. CASE \E h \in Handler : HandlerStep(h) \/ UserRequest(h) \/ HandlerCrash(h)
  BY <1>1, <1>2, <1>3, <1>6
<1>7. CASE \E h \in Handler : \/ \E t \in run, st \in {"started", "terminated", "failed", "cancelled"} : Report(h, t, st)
  BY <1>1, <1>4, <1>7
<1>8. CASE \E h \in Handler, k \in kills : KillTask(h, k)
  BY <1>5, <1>8
<1>9. \/ Background
      \/ \E h \in Handler : HandlerStep(h) \/ UserRequest(h) \/ HandlerCrash(h)
      \/ \E h \in Handler : \/ \E t \in run, st \in {"started", "terminated", "failed", "cancelled"} : Report(h, t, st)
      \/ \E h \in Handler, k \in kills : KillTask(h, k)
  BY DEF Next, WorkerStep, Crash, Background, ReportStarted, ReportDone, ReportCancelled
<1> QED BY <1>6, <1>7, <1>8, <1>9

LEMMA TypedStep == Typed /\ [ManagerNext]_vars => Typed'
<1> SUFFICES ASSUME Typed, [ManagerNext]_vars PROVE Typed'
  OBVIOUS
<1>1. CASE Next
  <2>1. TypeOK'
    BY <1>1, TypeStep DEF Typed
  <2>2. GroupCancelling'
    <3>1. \A g \in Handler : Steady(g) \/ handler'[g].pc \notin {"groupcancel", "groupvalidate"}
      BY <1>1, NextHandler, BackgroundSteady DEF Typed
    <3> QED BY <3>1 DEF Steady, Typed, GroupCancelling
  <2> QED BY <2>1, <2>2 DEF Typed
<1>2. ASSUME NEW h \in Handler, GroupRequest(h) \/ GroupHandlerStep(h) \/ MaintenanceStep(h)
      PROVE  Typed'
  BY <1>2, GroupRequestTypes, GroupCommitTypes, GroupCancelCommitTypes, GroupCancelValidateTypes,
     MaintenanceTypes DEF GroupHandlerStep
<1>3. CASE MaintenanceActivated
  BY <1>3 DEF MaintenanceActivated, Typed, TypeOK, GroupCancelling, MaintenanceStates
<1>4. CASE UNCHANGED vars
  BY <1>4 DEF vars, Typed, TypeOK, GroupCancelling
<1>5. ASSUME NEW t \in run, RunRefused(t) PROVE Typed'
  <2>1. t.exec \in Execution
    BY DEF Typed, TypeOK, Task
  <2> QED BY <1>5, <2>1 DEF RunRefused, Typed, TypeOK, GroupCancelling
<1> QED BY <1>1, <1>2, <1>3, <1>4, <1>5 DEF ManagerNext

LEMMA InitTyped == Init => Typed
<1>1. Init => TypeOK
  BY IdleOK DEF Init, TypeOK, Statuses, MaintenanceStates
<1>2. Init => GroupCancelling
  BY HandlerPcs DEF Init, GroupCancelling
<1> QED BY <1>1, <1>2 DEF Typed

\* With groups and maintenance mode too, every variable keeps its type and every
\* handler what its next step needs.
THEOREM ManagerTypes == ManagerSpec => []TypeOK
<1>1. Typed => TypeOK
  BY DEF Typed
<1> QED BY <1>1, InitTyped, TypedStep, PTL DEF ManagerSpec

-----------------------------------------------------------------------------
(* Active executions are carried, with groups and maintenance mode too. *)

\* A handler that works on a group, or on maintenance mode, carries nothing yet.
LEMMA GroupCarriesNothing ==
  ASSUME TypeOK, NEW h \in Handler,
         handler[h].pc \in {"group", "groupcancel", "groupvalidate", "maintain"}
  PROVE  handler[h].out = {} /\ handler[h].orders = {} /\ handler[h].pc # "update"
  BY DEF TypeOK, Coherent

\* Starting a group: what it starts is about to be published, or written off.
LEMMA CarriedGroupCommit ==
  ASSUME TypeOK, ActiveIsCarried, NEW h \in Handler, GroupCommit(h)
  PROVE  ActiveIsCarried'
<1>1. PICK S : S = Starting(h)
  OBVIOUS
<1>2. S \in SUBSET Execution
  BY <1>1 DEF Starting
<1>3. PICK ungated : Activate(h, S, ungated)
  BY <1>1 DEF GroupCommit
<1>4. Active' \subseteq Active \cup S
  <2>1. handler[h].plan \in Plan
    BY DEF TypeOK, HandlerState
  <2> QED BY <1>1, <2>1 DEF GroupCommit, Active, InState, Starting, Plan, ACTIVE_STATES, Running,
                            Cancelling
<1>5. handler[h].out = {} /\ handler[h].orders = {} /\ handler[h].pc # "update"
  BY GroupCarriesNothing DEF GroupCommit
<1>6. UNCHANGED <<mq, run, kills>>
  BY DEF GroupCommit
<1>7. CASE lost' = lost \ S /\ handler' = [handler EXCEPT ![h] = Publishing(Rendered(S))]
  <2>1. Publishing(Rendered(S)).out = Rendered(S)
    BY DEF Publishing, Idle
  <2> QED BY <1>2, <1>3, <1>4, <1>5, <1>6, <1>7, <2>1, CarriedActivate
<1>8. CASE lost' = lost \cup S /\ handler' = [handler EXCEPT ![h] = Idle]
  <2> SUFFICES ASSUME NEW e \in Active', e \notin lost' PROVE Carried(e)'
    BY DEF ActiveIsCarried
  <2>1. handler'[h] = Idle /\ \A g \in Handler \ {h} : handler'[g] = handler[g]
    BY <1>8, OtherHandlers
  <2>2. e \in Active /\ e \notin lost /\ e \notin S /\ e \in Execution
    BY <1>4, <1>8 DEF Active, InState
  <2>3. Carried(e) /\ token'[e] = token[e]
    BY <1>3, <2>2 DEF ActiveIsCarried, Activate, NewTokens
  <2> QED BY <1>5, <1>6, <2>1, <2>3 DEF Carried, Holds, KillReported
<1> QED BY <1>1, <1>7, <1>8 DEF GroupCommit

LEMMA ManagerCarriedStep ==
  TypeOK /\ ActiveIsCarried /\ [ManagerNext]_vars => ActiveIsCarried'
<1> SUFFICES ASSUME TypeOK, ActiveIsCarried, [ManagerNext]_vars PROVE ActiveIsCarried'
  OBVIOUS
<1>1. CASE [Next]_vars
  BY <1>1, CarriedStep
<1>2. ASSUME NEW h \in Handler,
             GroupRequest(h) \/ MaintenanceStep(h) \/ GroupCancelValidate(h)
      PROVE  ActiveIsCarried'
  <2>1. /\ \E s : handler' = [handler EXCEPT ![h] = s]
        /\ UNCHANGED <<status, token, mq, run, kills, lost>>
        /\ \/ handler[h] = Idle
           \/ handler[h].pc \in {"group", "groupcancel", "groupvalidate", "maintain"}
    BY <1>2 DEF GroupRequest, GroupPost, GroupResume, GroupCancel, SetConcurrency, MaintenanceStep,
                MaintenanceRead, MaintenanceStore, MaintenanceDeactivate, GroupCancelValidate
  <2>2. handler[h].out = {} /\ handler[h].orders = {} /\ handler[h].pc # "update"
    BY <2>1, NothingCarried, GroupCarriesNothing
  <2> QED BY <2>1, <2>2, CarriedOneHandler
<1>3. ASSUME NEW h \in Handler, GroupCancelCommit(h) PROVE ActiveIsCarried'
  <2>1. handler[h].out = {} /\ handler[h].orders = {} /\ handler[h].pc # "update"
    BY <1>3, GroupCarriesNothing DEF GroupCancelCommit
  <2>2. PICK s : handler' = [handler EXCEPT ![h] = s]
    BY <1>3 DEF GroupCancelCommit
  <2>3. handler'[h] = s /\ \A g \in Handler \ {h} : handler'[g] = handler[g]
    BY <2>2, OtherHandlers
  <2>4. Active' \subseteq Active /\ UNCHANGED <<token, lost, mq, run, kills>>
    BY <1>3 DEF GroupCancelCommit, Active, InState, ACTIVE_STATES, Running, Cancelling
  <2> QED BY <2>1, <2>3, <2>4, CarriedStill DEF KillReported
<1>4. CASE MaintenanceActivated
  <2>1. Active' = Active
    BY <1>4 DEF MaintenanceActivated, Active, InState
  <2> QED BY <1>4, <2>1, CarriedStill DEF MaintenanceActivated, KillReported
<1>5. ASSUME NEW t \in run, RunRefused(t) PROVE ActiveIsCarried'
  <2> SUFFICES ASSUME NEW e \in Active', e \notin lost' PROVE Carried(e)'
    BY DEF ActiveIsCarried
  <2>1. e \in Active /\ e \notin lost /\ e # t.exec
    BY <1>5 DEF RunRefused, Active, InState
  <2>2. Carried(e)
    BY <2>1 DEF ActiveIsCarried
  <2> QED BY <1>5, <2>1, <2>2 DEF RunRefused, Carried, Holds, KillReported
<1> QED BY <1>1, <1>2, <1>3, <1>4, <1>5, CarriedGroupCommit DEF ManagerNext, GroupHandlerStep

\* With groups and maintenance mode too, whatever handlers do at once, an active
\* execution is carried by somebody who holds its current token, unless it is
\* one of those a crash, an error or a cancel is known to have lost.
THEOREM ManagerCarrying == ManagerSpec => []ActiveIsCarried
<1>1. Init => ActiveIsCarried
  BY DEF Init, ActiveIsCarried, Active, InState, ACTIVE_STATES, Running, Cancelling
<1> QED BY <1>1, ManagerCarriedStep, ManagerTypes, PTL DEF ManagerSpec

-----------------------------------------------------------------------------
(* Executions that must run separately do, with groups too. *)

\* A group decides for each of its executions with the gate it sees.
LEMMA SeparationGroupDecide ==
  ASSUME TypeOK, Separation, NEW h \in Handler, NEW plan \in Plan, NEW P,
         handler' = [handler EXCEPT ![h] = GroupWriting(plan, P)],
         UNCHANGED <<status, bypassed, overtaken>>
  PROVE  Separation'
<1> DEFINE S == {e \in Execution : plan[e] = "pending"}
<1>1. handler'[h] = GroupWriting(plan, P) /\ \A g \in Handler \ {h} : handler'[g] = handler[g]
  BY OtherHandlers
<1>2. GroupWriting(plan, P).plan = plan /\ GroupWriting(plan, P).flagged = GateClosed(S)
  BY DEF GroupWriting, Idle
<1>3. Starting(h)' = S
  BY <1>1, <1>2 DEF Starting
<1>4. \A e \in S \ GateClosed(S) : ~MustQueue(e) /\ \A f \in S : ~Conflict(e, f)
  BY DEF GateClosed
<1> QED BY <1>1, <1>2, <1>3, <1>4, SeparationDecide

LEMMA SeparationGroupCommit ==
  ASSUME TypeOK, Separation, NEW h \in Handler, GroupCommit(h)
  PROVE  Separation'
<1>1. PICK S, ungated : /\ S = Starting(h)
                        /\ ungated = IF h \in overtaken THEN Execution ELSE handler[h].flagged
  OBVIOUS
<1>2. S \in SUBSET Execution /\ Activate(h, S, ungated)
  BY <1>1 DEF Starting, GroupCommit
<1>3. Active' \subseteq Active \cup S
  <2>1. handler[h].plan \in Plan
    BY DEF TypeOK, HandlerState
  <2> QED BY <1>1, <2>1 DEF GroupCommit, Active, InState, Starting, Plan, ACTIVE_STATES, Running,
                            Cancelling
<1>4. \A e \in S \ ungated :
        /\ \A f \in Active : Conflict(e, f) => f \in bypassed
        /\ \A f \in S : ~Conflict(e, f)
  <2>1. h \in Deciding
    BY DEF Deciding, GroupCommit
  <2> QED BY <1>1, <1>2, <2>1 DEF Separation, DecisionsHold, DecisionHolds
<1>5. PICK s \in {Idle, Publishing(Rendered(S))} : handler' = [handler EXCEPT ![h] = s]
  BY <1>1 DEF GroupCommit
<1>6. handler'[h].pc \notin {"post", "start", "group"} /\ \A g \in Handler \ {h} : handler'[g] = handler[g]
  BY <1>5, OtherHandlers, HandlerPcs
<1> QED BY <1>2, <1>3, <1>4, <1>6, SeparationActivate

LEMMA ManagerSeparationStep ==
  TypeOK /\ Separation /\ [ManagerNext]_vars => Separation'
<1> SUFFICES ASSUME TypeOK, Separation, [ManagerNext]_vars PROVE Separation'
  OBVIOUS
<1>1. CASE [Next]_vars
  BY <1>1, SeparationStep
<1>2. ASSUME NEW h \in Handler, NEW g \in Group, NEW force, GroupPost(h, g, force)
      PROVE  Separation'
  BY <1>2, GroupPlanType, SeparationGroupDecide DEF GroupPost
<1>3. ASSUME NEW h \in Handler, NEW g \in Group, GroupResume(h, g)
      PROVE  Separation'
  BY <1>3, GroupPlanType, SeparationGroupDecide DEF GroupResume
<1>4. ASSUME NEW h \in Handler, NEW s, handler' = [handler EXCEPT ![h] = s],
             s.pc \notin {"post", "start", "group"}, UNCHANGED <<status, bypassed, overtaken>>
      PROVE  Separation'
  <2>1. handler'[h] = s /\ \A x \in Handler \ {h} : handler'[x] = handler[x]
    BY <1>4, OtherHandlers
  <2> QED BY <1>4, <2>1, SeparationIdle
<1>5. ASSUME NEW h \in Handler, NEW g \in Group, NEW mode, GroupCancel(h, g, mode)
      PROVE  Separation'
  <2>1. PICK S : handler' = [handler EXCEPT ![h] =
                               [Idle EXCEPT !.pc = "groupcancel", !.arg = mode, !.targets = S,
                                            !.flagged = S \ Queued]]
    BY <1>5 DEF GroupCancel
  <2>2. [Idle EXCEPT !.pc = "groupcancel", !.arg = mode, !.targets = S,
                     !.flagged = S \ Queued].pc = "groupcancel"
    BY DEF Idle
  <2> QED BY <1>4, <1>5, <2>1, <2>2 DEF GroupCancel
<1>6. ASSUME NEW h \in Handler, NEW g \in Group, NEW n, SetConcurrency(h, g, n)
      PROVE  Separation'
  <2>1. \E s \in {Idle, [Idle EXCEPT !.pc = "list"]} : handler' = [handler EXCEPT ![h] = s]
    BY <1>6 DEF SetConcurrency
  <2> QED BY <1>4, <1>6, <2>1, HandlerPcs DEF SetConcurrency
<1>7. ASSUME NEW h \in Handler, MaintenanceStep(h) PROVE Separation'
  <2>1. \E s \in {Idle, [Idle EXCEPT !.pc = "list"],
                  [Idle EXCEPT !.pc = "maintain", !.seen = RunningExecutions]} :
          handler' = [handler EXCEPT ![h] = s]
    BY <1>7 DEF MaintenanceStep, MaintenanceRead, MaintenanceStore, MaintenanceDeactivate
  <2>2. UNCHANGED <<status, bypassed, overtaken>>
    BY <1>7 DEF MaintenanceStep, MaintenanceRead, MaintenanceStore, MaintenanceDeactivate
  <2> QED BY <1>4, <2>1, <2>2, HandlerPcs
<1>8. ASSUME NEW h \in Handler, GroupCancelValidate(h) PROVE Separation'
  <2> DEFINE s == [handler[h] EXCEPT !.pc = "cancel",
                     !.flagged = {e \in handler[h].targets : KillFlag(handler[h].arg, status[e])}]
  <2>1. handler' = [handler EXCEPT ![h] = Idle] \/ handler' = [handler EXCEPT ![h] = s]
    BY <1>8 DEF GroupCancelValidate
  <2>2. s.pc = "cancel"
    BY DEF TypeOK, HandlerState
  <2> HIDE DEF s
  <2> QED BY <1>4, <1>8, <2>1, <2>2, HandlerPcs DEF GroupCancelValidate
<1>9. ASSUME NEW h \in Handler, GroupCancelCommit(h) PROVE Separation'
  <2> DEFINE s == [Idle EXCEPT !.pc = "groupvalidate", !.arg = handler[h].arg,
                               !.targets = handler[h].flagged]
  <2>1. handler' = [handler EXCEPT ![h] = Idle] \/ handler' = [handler EXCEPT ![h] = s]
    BY <1>9 DEF GroupCancelCommit
  <2>2. s.pc = "groupvalidate"
    BY DEF Idle
  <2> HIDE DEF s
  <2>3. handler'[h].pc \in {"idle", "groupvalidate"} /\ \A x \in Handler \ {h} : handler'[x] = handler[x]
    BY <2>1, <2>2, OtherHandlers, HandlerPcs, ZenonT(40)
  <2>4. Active' \subseteq Active /\ UNCHANGED <<bypassed, overtaken>>
    BY <1>9 DEF GroupCancelCommit, Active, InState, ACTIVE_STATES, Running, Cancelling
  <2> QED BY <2>3, <2>4, SeparationKept DEF Deciding
<1>10. CASE MaintenanceActivated \/ \E t \in run : RunRefused(t)
  BY <1>10, SeparationIdle DEF MaintenanceActivated, RunRefused
<1> QED BY <1>1, <1>2, <1>3, <1>5, <1>6, <1>7, <1>8, <1>9, <1>10, SeparationGroupCommit
        DEF ManagerNext, GroupRequest, GroupHandlerStep

\* With groups too, executions that must run separately are never active
\* together unless one of them is known to have bypassed the gate: the members
\* of a group that start at once are weighed against each other as well.
THEOREM ManagerExclusion == ManagerSpec => []Exclusive
<1>1. Init => Separation
  <2> SUFFICES ASSUME Init PROVE Separation
    OBVIOUS
  <2>1. Active = {}
    BY DEF Init, Active, InState, ACTIVE_STATES, Running, Cancelling
  <2>2. Deciding = {}
    BY HandlerPcs DEF Init, Deciding
  <2> QED BY <2>1, <2>2 DEF Separation, Exclusive, DecisionsHold
<1>2. Separation => Exclusive
  BY DEF Separation
<1> QED BY <1>1, <1>2, ManagerSeparationStep, ManagerTypes, PTL DEF ManagerSpec

-----------------------------------------------------------------------------
(***************************************************************************)
(* What holds when requests are handled one at a time.  Between what a     *)
(* request reads and what it writes only the mgmtworkers do something, and *)
(* they change no status without a request of their own.                   *)
(***************************************************************************)
\* A request under way, in state s of its handler, that makes active or queues
\* nothing but what is let through.
Within(s) ==
  /\ s.pc \in {"post", "start", "group"} =>
       \A e \in Execution : s.plan[e] = "absent" \/ e \in LetThrough
  /\ s.pc \in {"cancel", "groupcancel", "groupvalidate"} => s.targets \subseteq LetThrough
  /\ s.pc = "groupcancel" => s.flagged \subseteq LetThrough
  /\ s.pc = "dequeue" => s.locked \subseteq LetThrough
  /\ s.pc = "resume" \/ (s.pc = "update" /\ s.arg \notin END_STATES) => s.exec \in LetThrough

\* The inductive invariant: what a request to activate the mode has seen is still
\* so, and once the mode is active nothing runs or is about to but what is let
\* through.
Quieting ==
  /\ maintenance = "activated" => /\ RunningExecutions \subseteq LetThrough
                                  /\ \A h \in Handler : Within(handler[h])
  /\ \A h \in Handler : handler[h].pc = "maintain" => handler[h].seen = RunningExecutions

\* Where a handler is when it takes each of its steps; none of them, nor any other
\* step of executions, has to do with the mode.
LEMMA StepPcs ==
  ASSUME NEW h \in Handler
  PROVE  /\ PostCommit(h) => handler[h].pc = "post"
         /\ Publish(h) => handler[h].pc = "publish"
         /\ UpdateCommit(h) => handler[h].pc = "update"
         /\ DequeueList(h) => handler[h].pc = "list"
         /\ DequeueSelect(h) => handler[h].pc = "dequeue"
         /\ DequeueCommit(h) => handler[h].pc = "start"
         /\ CancelCommit(h) => handler[h].pc = "cancel"
         /\ Broadcast(h) => handler[h].pc = "broadcast"
         /\ ResumeCommit(h) => handler[h].pc = "resume"
<1>1. PostCommit(h) => handler[h].pc = "post"
  BY DEF PostCommit
<1>2. Publish(h) => handler[h].pc = "publish"
  BY DEF Publish
<1>3. UpdateCommit(h) => handler[h].pc = "update"
  BY DEF UpdateCommit
<1>4. DequeueList(h) => handler[h].pc = "list"
  BY DEF DequeueList
<1>5. DequeueSelect(h) => handler[h].pc = "dequeue"
  BY DEF DequeueSelect
<1>6. DequeueCommit(h) => handler[h].pc = "start"
  BY DEF DequeueCommit
<1>7. CancelCommit(h) => handler[h].pc = "cancel"
  BY DEF CancelCommit
<1>8. Broadcast(h) => handler[h].pc = "broadcast"
  BY DEF Broadcast
<1>9. ResumeCommit(h) => handler[h].pc = "resume"
  BY DEF ResumeCommit
<1> QED BY <1>1, <1>2, <1>3, <1>4, <1>5, <1>6, <1>7, <1>8, <1>9

LEMMA NextKeepsMode ==
  ASSUME Next
  PROVE  UNCHANGED <<maintenance, concurrency>>
<1>1. ASSUME NEW h \in Handler, HandlerStep(h)
      PROVE  UNCHANGED <<maintenance, concurrency>>
  <2>1. CASE PostCommit(h) \/ Publish(h) \/ UpdateCommit(h)
    BY <2>1 DEF PostCommit, Publish, UpdateCommit
  <2>2. CASE DequeueList(h)
    BY <2>2 DEF DequeueList
  <2>3. CASE DequeueSelect(h)
    BY <2>3 DEF DequeueSelect
  <2>4. CASE DequeueCommit(h)
    BY <2>4 DEF DequeueCommit
  <2>5. CASE CancelCommit(h) \/ Broadcast(h) \/ ResumeCommit(h)
    BY <2>5 DEF CancelCommit, Broadcast, ResumeCommit
  <2> QED BY <1>1, <2>1, <2>2, <2>3, <2>4, <2>5 DEF HandlerStep
<1>2. ASSUME NEW h \in Handler, UserRequest(h)
      PROVE  UNCHANGED <<maintenance, concurrency>>
  BY <1>2 DEF UserRequest, Post, CancelRead, ResumeRead
<1>3. ASSUME WorkerStep \/ Crash
      PROVE  UNCHANGED <<maintenance, concurrency>>
  BY <1>3 DEF WorkerStep, Crash, Consume, RunDenied, KillTaskDenied, ReportStarted, ReportDone,
              ReportCancelled, Report, KillTask, WorkerCrash, HandlerCrash
<1> QED BY <1>1, <1>2, <1>3 DEF Next

LEMMA QuietFrame ==
  ASSUME Quieting, UNCHANGED <<status, maintenance>>, \A g \in Handler : Steady(g)
  PROVE  Quieting'
  BY DEF Quieting, Within, Steady, RunningExecutions

\* Handler h gets to such a state.
Enters(h) == \E s : handler' = [handler EXCEPT ![h] = s] /\ Within(s) /\ s.pc # "maintain"

\* A handler that is done, or about to list what is queued, writes nothing yet.
LEMMA WithinDone ==
  ASSUME NEW h, NEW s, handler' = [handler EXCEPT ![h] = s],
         s.pc \in {"idle", "list", "publish", "broadcast"}
  PROVE  Enters(h)
<1>1. Within(s) /\ s.pc # "maintain"
  BY DEF Within
<1> QED BY <1>1 DEF Enters

\* The requests that are let through while the mode is active.
LEMMA WithinRequest ==
  ASSUME maintenance = "activated", NEW h \in Handler, UserRequest(h)
  PROVE  status' = status /\ Enters(h)
<1>1. PICK e \in Execution :
        \/ \E force \in ForceFlags, queue \in BOOLEAN : Post(h, e, force, queue)
        \/ \E mode \in CancelModes : CancelRead(h, {e}, mode)
        \/ \E force \in BOOLEAN : ResumeRead(h, e, force)
  BY DEF UserRequest
<1>2. CASE \E force \in ForceFlags, queue \in BOOLEAN : Post(h, e, force, queue)
  <2>1. PICK d : handler' = [handler EXCEPT ![h] =
                              [Idle EXCEPT !.pc = "post", !.plan[e] = d,
                                           !.flagged = GateClosed({e})]]
    BY <1>2 DEF Post
  <2>2. e \in LetThrough /\ status' = status
    BY <1>2 DEF Post, PostAdmitted, Maintained, LetThrough
  <2> DEFINE s == [Idle EXCEPT !.pc = "post", !.plan[e] = d, !.flagged = GateClosed({e})]
  <2>3. s.pc = "post" /\ \A f \in Execution \ {e} : s.plan[f] = "absent"
    BY DEF Idle, NoPlan
  <2>4. Within(s)
    BY <2>2, <2>3 DEF Within
  <2> QED BY <2>1, <2>2, <2>3, <2>4 DEF Enters
<1>3. CASE \E mode \in CancelModes : CancelRead(h, {e}, mode)
  <2>1. PICK mode, F : handler' = [handler EXCEPT ![h] =
                 [Idle EXCEPT !.pc = "cancel", !.arg = mode, !.targets = {e}, !.flagged = F]]
    BY <1>3 DEF CancelRead
  <2>2. e \in LetThrough /\ status' = status
    BY <1>3 DEF CancelRead, Admitted, Maintained, LetThrough
  <2> DEFINE s == [Idle EXCEPT !.pc = "cancel", !.arg = mode, !.targets = {e}, !.flagged = F]
  <2>3. s.pc = "cancel" /\ s.targets = {e}
    BY DEF Idle
  <2>4. Within(s)
    BY <2>2, <2>3 DEF Within
  <2> QED BY <2>1, <2>2, <2>3, <2>4 DEF Enters
<1>4. CASE \E force \in BOOLEAN : ResumeRead(h, e, force)
  <2>1. handler' = [handler EXCEPT ![h] = [Idle EXCEPT !.pc = "resume", !.exec = e]]
    BY <1>4 DEF ResumeRead
  <2>2. e \in LetThrough /\ status' = status
    BY <1>4 DEF ResumeRead, Admitted, Maintained, LetThrough
  <2> DEFINE s == [Idle EXCEPT !.pc = "resume", !.exec = e]
  <2>3. s.pc = "resume" /\ s.exec = e
    BY DEF Idle
  <2>4. Within(s)
    BY <2>2, <2>3 DEF Within
  <2> QED BY <2>1, <2>2, <2>3, <2>4 DEF Enters
<1> QED BY <1>1, <1>2, <1>3, <1>4

LEMMA WithinReport ==
  ASSUME maintenance = "activated", NEW h \in Handler, NEW t, NEW st, Report(h, t, st)
  PROVE  status' = status /\ Enters(h)
<1>1. PICK final : handler' = [handler EXCEPT ![h] =
                   [Idle EXCEPT !.pc = "update", !.exec = t.exec, !.arg = final, !.client = t]]
  BY DEF Report, Receive
<1>2. t.exec \in LetThrough /\ status' = status
  BY DEF Report, Receive, Maintained
<1> DEFINE s == [Idle EXCEPT !.pc = "update", !.exec = t.exec, !.arg = final, !.client = t]
<1>3. s.pc = "update" /\ s.exec = t.exec
  BY DEF Idle
<1>4. Within(s)
  BY <1>2, <1>3 DEF Within
<1> QED BY <1>1, <1>2, <1>3, <1>4 DEF Enters

\* What handlers write while the mode is active.
LEMMA WithinStep ==
  ASSUME TypeOK, RunningExecutions \subseteq LetThrough, NEW h \in Handler, Within(handler[h]),
         HandlerStep(h) \/ HandlerCrash(h)
  PROVE  RunningExecutions' \subseteq LetThrough /\ Enters(h)
<1>0. handler \in [Handler -> HandlerState] /\ handler[h] \in HandlerState
  BY DEF TypeOK
<1>2. CASE PostCommit(h) \/ DequeueCommit(h)
  <2>1. /\ handler[h].pc \in {"post", "start"}
        /\ status' = [e \in Execution |->
                        IF handler[h].plan[e] = "absent" THEN status[e] ELSE handler[h].plan[e]]
    BY <1>2 DEF PostCommit, DequeueCommit, WritePlan
  <2>2. \A e \in Execution : handler[h].plan[e] = "absent" \/ e \in LetThrough
    BY <2>1 DEF Within
  <2>3. RunningExecutions' \subseteq LetThrough
    BY <2>1, <2>2 DEF RunningExecutions
  <2> DEFINE out == handler[h].out \cup Rendered(Starting(h))
             l == [Idle EXCEPT !.pc = "list", !.out = out, !.retry = handler[h].retry + 1]
  <2>4. l.pc = "list" /\ Publishing(out).pc \in {"idle", "publish"}
        /\ Publishing(Rendered(Starting(h))).pc \in {"idle", "publish"}
    BY DEF Idle, Publishing
  <2>5. PICK s \in {Publishing(Rendered(Starting(h))), Publishing(out), l} :
          handler' = [handler EXCEPT ![h] = s]
    BY <1>2 DEF PostCommit, DequeueCommit
  <2> HIDE DEF out, l
  <2> QED BY <2>3, <2>4, <2>5, WithinDone
<1>3. CASE Publish(h) \/ Broadcast(h) \/ HandlerCrash(h)
  <2>1. Enters(h)
    <3>1. CASE Publish(h)
      <4>1. \E out : handler' = [handler EXCEPT ![h] = Publishing(out)]
        BY <3>1 DEF Publish
      <4> QED BY <4>1, HandlerPcs, WithinDone
    <3>2. CASE Broadcast(h) \/ HandlerCrash(h)
      <4>1. handler' = [handler EXCEPT ![h] = Idle]
        BY <3>2 DEF Broadcast, HandlerCrash
      <4> QED BY <4>1, HandlerPcs, WithinDone
    <3> QED BY <1>3, <3>1, <3>2
  <2>2. \A e \in Execution : status'[e] \in {status[e], "rejected"}
    BY <1>3 DEF Publish, Broadcast, HandlerCrash
  <2>3. RunningExecutions' \subseteq LetThrough
    BY <2>2 DEF RunningExecutions
  <2> QED BY <2>1, <2>3
<1>4. CASE UpdateCommit(h)
  <2>1. \E s \in {Idle, [Idle EXCEPT !.pc = "list"]} : handler' = [handler EXCEPT ![h] = s]
    BY <1>4 DEF UpdateCommit
  <2>2. handler[h].pc = "update" /\ handler[h].exec \in Execution /\ status \in [Execution -> Statuses]
    BY <1>4 DEF UpdateCommit, TypeOK, Coherent
  <2>3. status' = status \/ status' = [status EXCEPT ![handler[h].exec] = handler[h].arg]
    BY <1>4 DEF UpdateCommit
  <2>4. handler[h].arg \in END_STATES \/ handler[h].exec \in LetThrough
    BY <2>2 DEF Within
  <2>5. RunningExecutions' \subseteq LetThrough
    BY <2>2, <2>3, <2>4 DEF RunningExecutions
  <2> QED BY <2>1, <2>5, WithinDone, HandlerPcs
<1>5. CASE DequeueList(h)
  <2> DEFINE s == [handler[h] EXCEPT !.pc = "dequeue", !.seen = Active,
                                     !.locked = Queued \cap System]
  <2>1. handler' = [handler EXCEPT ![h] = s]
    BY <1>0, <1>5 DEF DequeueList
  <2>2. s.pc = "dequeue" /\ s.locked = Queued \cap System
    BY <1>0 DEF HandlerState
  <2>3. Queued \subseteq LetThrough
    BY DEF Queued, InState, RunningExecutions, END_STATES
  <2>4. RunningExecutions' \subseteq LetThrough
    BY <1>5 DEF DequeueList, RunningExecutions
  <2>5. Within(s)
    BY <2>2, <2>3 DEF Within
  <2> QED BY <2>1, <2>2, <2>4, <2>5 DEF Enters
<1>6. CASE DequeueSelect(h)
  <2>1. PICK rows, picked, broken :
          /\ rows = IF handler[h].locked # {} THEN handler[h].locked
                    ELSE FirstOf(DequeueLimit, Eligible(handler[h].seen))
          /\ picked \in SUBSET rows /\ broken \in SUBSET picked
          /\ handler' = [handler EXCEPT ![h] =
                [handler[h] EXCEPT !.pc = "start", !.seen = {}, !.locked = rows,
                                   !.plan = Refreshed(picked, broken)]]
    BY <1>6 DEF DequeueSelect
  <2> DEFINE s == [handler[h] EXCEPT !.pc = "start", !.seen = {}, !.locked = rows,
                                     !.plan = Refreshed(picked, broken)]
  <2>2. s.pc = "start" /\ s.plan = Refreshed(picked, broken)
    BY <1>0 DEF HandlerState
  <2>3. rows \subseteq LetThrough
    <3>1. handler[h].locked \subseteq LetThrough
      BY <1>6 DEF DequeueSelect, Within
    <3>2. Queued \subseteq LetThrough
      BY DEF Queued, InState, RunningExecutions, END_STATES
    <3> QED BY <2>1, <3>1, <3>2 DEF FirstOf, Eligible
  <2>4. \A e \in Execution : Refreshed(picked, broken)[e] = "absent" \/ e \in LetThrough
    BY <2>1, <2>3 DEF Refreshed
  <2>5. Within(s)
    BY <2>2, <2>4 DEF Within
  <2>6. RunningExecutions' \subseteq LetThrough
    BY <1>6 DEF DequeueSelect, RunningExecutions
  <2> QED BY <2>1, <2>2, <2>5, <2>6 DEF Enters
<1>7. CASE CancelCommit(h)
  <2>1. PICK o : handler' = [handler EXCEPT ![h] = [Idle EXCEPT !.pc = "broadcast", !.orders = o]]
    BY <1>7 DEF CancelCommit
  <2>2. [Idle EXCEPT !.pc = "broadcast", !.orders = o].pc = "broadcast"
    BY DEF Idle
  <2>3. handler[h].targets \subseteq LetThrough
    BY <1>7 DEF CancelCommit, Within
  <2>4. \A e \in Execution \ handler[h].targets : status'[e] = status[e]
    BY <1>7 DEF CancelCommit
  <2>5. RunningExecutions' \subseteq LetThrough
    BY <2>3, <2>4 DEF RunningExecutions
  <2> QED BY <2>1, <2>2, <2>5, WithinDone
<1>8. CASE ResumeCommit(h)
  <2>1. \E out : handler' = [handler EXCEPT ![h] = Publishing(out)]
    BY <1>8 DEF ResumeCommit
  <2>2. handler[h].exec \in LetThrough
    BY <1>8 DEF ResumeCommit, Within
  <2>3. \A e \in Execution \ {handler[h].exec} : status'[e] = status[e]
    BY <1>8 DEF ResumeCommit, TypeOK
  <2>4. RunningExecutions' \subseteq LetThrough
    BY <2>2, <2>3 DEF RunningExecutions
  <2> QED BY <2>1, <2>4, WithinDone, HandlerPcs
<1> QED BY <1>2, <1>3, <1>4, <1>5, <1>6, <1>7, <1>8 DEF HandlerStep

\* While the mode is active, so is what is let through, and nothing else.
LEMMA QuietStays ==
  ASSUME TypeOK, Quieting, maintenance = "activated", Next
  PROVE  RunningExecutions' \subseteq LetThrough /\ \A h \in Handler : Within(handler'[h])
<1>1. RunningExecutions \subseteq LetThrough /\ \A h \in Handler : Within(handler[h])
  BY DEF Quieting
<1>2. ASSUME NEW h \in Handler, Enters(h)
      PROVE  \A g \in Handler : Within(handler'[g])
  <2>1. PICK s : handler' = [handler EXCEPT ![h] = s] /\ Within(s)
    BY <1>2 DEF Enters
  <2>2. handler'[h] = s /\ \A g \in Handler \ {h} : handler'[g] = handler[g]
    BY <2>1, OtherHandlers
  <2> QED BY <1>1, <2>1, <2>2
<1>3. CASE Background
  BY <1>1, <1>3, BackgroundSteady DEF Within, Steady, RunningExecutions
<1>4. ASSUME NEW h \in Handler, UserRequest(h) \/ \E t, st : Report(h, t, st)
      PROVE  RunningExecutions' \subseteq LetThrough /\ \A g \in Handler : Within(handler'[g])
  <2>1. status' = status /\ Enters(h)
    BY <1>4, WithinRequest, WithinReport
  <2> QED BY <1>1, <1>2, <2>1 DEF RunningExecutions
<1>5. ASSUME NEW h \in Handler, HandlerStep(h) \/ HandlerCrash(h)
      PROVE  RunningExecutions' \subseteq LetThrough /\ \A g \in Handler : Within(handler'[g])
  BY <1>1, <1>2, <1>5, WithinStep
<1>6. ASSUME NEW h \in Handler, NEW k \in kills, KillTask(h, k)
      PROVE  RunningExecutions' \subseteq LetThrough /\ \A g \in Handler : Within(handler'[g])
  <2>1. /\ handler'[h].pc = "update" /\ handler'[h].arg \in END_STATES
        /\ \A g \in Handler \ {h} : Steady(g)
        /\ status' = status
    BY <1>6, KillTaskHandler DEF END_STATES
  <2> QED BY <1>1, <2>1 DEF Within, Steady, RunningExecutions
<1> QED BY <1>3, <1>4, <1>5, <1>6
        DEF Next, WorkerStep, Crash, Background, ReportStarted, ReportDone, ReportCancelled

\* Requests on groups that are let through, and what they write.
LEMMA WithinGroupRequest ==
  ASSUME TypeOK, NEW h \in Handler, GroupRequest(h)
  PROVE  /\ UNCHANGED <<status, maintenance>>
         /\ \E s : /\ handler' = [handler EXCEPT ![h] = s] /\ s.pc # "maintain"
                   /\ maintenance = "activated" => Within(s)
<1>1. PICK g \in Group :
        \/ \E force \in ForceFlags : GroupPost(h, g, force)
        \/ GroupResume(h, g)
        \/ \E mode \in CancelModes : GroupCancel(h, g, mode)
        \/ \E n \in Concurrencies : SetConcurrency(h, g, n)
  BY DEF GroupRequest
<1>2. UNCHANGED <<status, maintenance>>
  BY <1>1 DEF GroupPost, GroupResume, GroupCancel, SetConcurrency
<1>3. maintenance = "activated" => Members(g, Execution) \subseteq LetThrough
  BY <1>1 DEF GroupPost, GroupResume, GroupCancel, SetConcurrency, Admitted, Maintained, LetThrough
<1>4. CASE (\E force \in ForceFlags : GroupPost(h, g, force)) \/ GroupResume(h, g)
  <2>1. PICK S, force, P : \E plan \in GroupPlans(g, S, force) :
          /\ S \subseteq Members(g, Execution)
          /\ handler' = [handler EXCEPT ![h] = GroupWriting(plan, P)]
    <3>1. CASE \E force \in ForceFlags : GroupPost(h, g, force)
      BY <3>1 DEF GroupPost
    <3>2. CASE GroupResume(h, g)
      <4> DEFINE P == Members(g, InState({"pending"}))
                 S == P \cup Members(g, InState({"failed", "cancelled"}))
      <4>1. \E plan \in GroupPlans(g, S, FALSE) : handler' = [handler EXCEPT ![h] = GroupWriting(plan, P)]
        BY <3>2 DEF GroupResume
      <4>2. S \subseteq Members(g, Execution)
        BY DEF Members, InState
      <4> HIDE DEF S, P
      <4> QED BY <4>1, <4>2
    <3> QED BY <1>4, <3>1, <3>2
  <2>2. PICK plan \in GroupPlans(g, S, force) :
          S \subseteq Members(g, Execution) /\ handler' = [handler EXCEPT ![h] = GroupWriting(plan, P)]
    BY <2>1
  <2>3. GroupWriting(plan, P).pc = "group" /\ GroupWriting(plan, P).plan = plan
    BY DEF GroupWriting, Idle
  <2>4. \A e \in Execution : plan[e] = "absent" \/ e \in S
    <3>1. PICK C \in Slices(g, S) : \E broken \in SUBSET C : plan = GroupPlan(S, C, broken, force)
      BY GroupPlanForm
    <3>2. PICK broken \in SUBSET C : plan = GroupPlan(S, C, broken, force)
      BY <3>1
    <3>3. C \subseteq S
      BY DEF Slices
    <3> QED BY <3>2, <3>3 DEF GroupPlan
  <2>5. maintenance = "activated" => Within(GroupWriting(plan, P))
    BY <1>3, <2>2, <2>3, <2>4 DEF Within
  <2> QED BY <1>2, <2>2, <2>3, <2>5
<1>5. CASE \E mode \in CancelModes : GroupCancel(h, g, mode)
  <2>1. PICK mode, S, F :
          /\ S \subseteq Members(g, Execution) /\ F \subseteq S
          /\ handler' = [handler EXCEPT ![h] =
               [Idle EXCEPT !.pc = "groupcancel", !.arg = mode, !.targets = S, !.flagged = F]]
    BY <1>5 DEF GroupCancel, Members
  <2> DEFINE s == [Idle EXCEPT !.pc = "groupcancel", !.arg = mode, !.targets = S, !.flagged = F]
  <2>2. s.pc = "groupcancel" /\ s.targets = S /\ s.flagged = F
    BY DEF Idle
  <2>3. maintenance = "activated" => Within(s)
    BY <1>3, <2>1, <2>2 DEF Within
  <2>4. handler' = [handler EXCEPT ![h] = s]
    BY <2>1
  <2> HIDE DEF s
  <2> QED BY <1>2, <2>2, <2>3, <2>4
<1>6. CASE \E n \in Concurrencies : SetConcurrency(h, g, n)
  <2>1. \E s \in {Idle, [Idle EXCEPT !.pc = "list"]} : handler' = [handler EXCEPT ![h] = s]
    BY <1>6 DEF SetConcurrency
  <2>2. Enters(h)
    BY <2>1, HandlerPcs, WithinDone
  <2> QED BY <1>2, <2>2 DEF Enters
<1> QED BY <1>1, <1>4, <1>5, <1>6

LEMMA WithinGroupStep ==
  ASSUME TypeOK, Quieting, NEW h \in Handler, GroupHandlerStep(h)
  PROVE  /\ maintenance' = maintenance
         /\ maintenance = "activated" => RunningExecutions' \subseteq LetThrough
         /\ \E s : /\ handler' = [handler EXCEPT ![h] = s] /\ s.pc # "maintain"
                   /\ maintenance = "activated" => Within(s)
<1>0. handler[h] \in HandlerState
  BY DEF TypeOK
<1>1. CASE GroupCommit(h)
  <2>1. \E s \in {Idle, Publishing(Rendered(Starting(h)))} : handler' = [handler EXCEPT ![h] = s]
    BY <1>1 DEF GroupCommit
  <2>2. maintenance = "activated" =>
          \A e \in Execution : handler[h].plan[e] = "absent" \/ e \in LetThrough
    BY <1>1 DEF GroupCommit, Quieting, Within
  <2>3. \A e \in Execution : handler[h].plan[e] = "absent" => status'[e] = status[e]
    BY <1>1 DEF GroupCommit
  <2>4. maintenance = "activated" => RunningExecutions' \subseteq LetThrough
    BY <2>2, <2>3 DEF Quieting, RunningExecutions
  <2>5. Enters(h)
    BY <2>1, HandlerPcs, WithinDone
  <2>6. maintenance' = maintenance
    BY <1>1 DEF GroupCommit
  <2> QED BY <2>4, <2>5, <2>6 DEF Enters
<1>2. CASE GroupCancelCommit(h)
  <2> DEFINE s == [Idle EXCEPT !.pc = "groupvalidate", !.arg = handler[h].arg,
                               !.targets = handler[h].flagged]
  <2>1. handler' = [handler EXCEPT ![h] = Idle] \/ handler' = [handler EXCEPT ![h] = s]
    BY <1>2 DEF GroupCancelCommit
  <2>2. s.pc = "groupvalidate" /\ s.targets = handler[h].flagged
    BY DEF Idle
  <2>3. maintenance = "activated" => Within(s)
    BY <1>2, <2>2 DEF GroupCancelCommit, Quieting, Within
  <2>4. \A e \in Execution : status'[e] \in {status[e], "cancelled"}
    BY <1>2 DEF GroupCancelCommit
  <2>5. maintenance = "activated" => RunningExecutions' \subseteq LetThrough
    BY <2>4 DEF Quieting, RunningExecutions, END_STATES
  <2>6. maintenance' = maintenance
    BY <1>2 DEF GroupCancelCommit
  <2>7. Within(Idle) /\ Idle.pc # "maintain"
    BY HandlerPcs DEF Within
  <2> HIDE DEF s
  <2> QED BY <2>1, <2>2, <2>3, <2>5, <2>6, <2>7
<1>3. CASE GroupCancelValidate(h)
  <2> DEFINE s == [handler[h] EXCEPT !.pc = "cancel",
                     !.flagged = {e \in handler[h].targets : KillFlag(handler[h].arg, status[e])}]
  <2>1. handler' = [handler EXCEPT ![h] = Idle] \/ handler' = [handler EXCEPT ![h] = s]
    BY <1>3 DEF GroupCancelValidate
  <2>2. s.pc = "cancel" /\ s.targets = handler[h].targets
    BY <1>0 DEF HandlerState
  <2>3. maintenance = "activated" => Within(s)
    BY <1>3, <2>2 DEF GroupCancelValidate, Quieting, Within
  <2>4. maintenance = "activated" => RunningExecutions' \subseteq LetThrough
    BY <1>3 DEF GroupCancelValidate, Quieting, RunningExecutions
  <2>5. maintenance' = maintenance
    BY <1>3 DEF GroupCancelValidate
  <2>6. Within(Idle) /\ Idle.pc # "maintain"
    BY HandlerPcs DEF Within
  <2> HIDE DEF s
  <2> QED BY <2>1, <2>2, <2>3, <2>4, <2>5, <2>6
<1> QED BY <1>1, <1>2, <1>3 DEF GroupHandlerStep

LEMMA QuietingStep ==
  ASSUME OneHandler, TypeOK, Quieting, [ManagerNext]_vars
  PROVE  Quieting'
<1>1. CASE Background
  BY <1>1, BackgroundSteady, QuietFrame
<1>2. CASE UNCHANGED vars \/ \E t \in run : RunRefused(t)
  <2>1. UNCHANGED <<status, maintenance, handler>>
    BY <1>2 DEF vars, RunRefused
  <2> QED BY <2>1, QuietFrame DEF Steady
<1>3. CASE Next /\ ~Background
  <2>1. \A g \in Handler : handler'[g].pc # "maintain"
    BY <1>3, NextHandler DEF OneHandler
  <2>2. maintenance' = maintenance
    BY <1>3, NextKeepsMode
  <2>3. maintenance = "activated" =>
          RunningExecutions' \subseteq LetThrough /\ \A g \in Handler : Within(handler'[g])
    BY <1>3, QuietStays
  <2> QED BY <2>1, <2>2, <2>3 DEF Quieting, Within
<1>4. ASSUME NEW h \in Handler, NEW s, handler' = [handler EXCEPT ![h] = s], s.pc # "maintain",
             maintenance' = "activated" =>
               Within(s) /\ RunningExecutions' \subseteq LetThrough
      PROVE  Quieting'
  <2>1. handler'[h] = s /\ \A g \in Handler : g = h
    BY <1>4, OtherHandlers DEF OneHandler
  <2>2. \A g \in Handler : handler'[g].pc # "maintain"
    BY <1>4, <2>1
  <2>3. maintenance' = "activated" =>
          RunningExecutions' \subseteq LetThrough /\ \A g \in Handler : Within(handler'[g])
    BY <1>4, <2>1
  <2> QED BY <2>2, <2>3 DEF Quieting, Within
<1>5. ASSUME NEW h \in Handler, GroupRequest(h) PROVE Quieting'
  <2>1. PICK s : /\ handler' = [handler EXCEPT ![h] = s] /\ s.pc # "maintain"
                 /\ maintenance = "activated" => Within(s)
    BY <1>5, WithinGroupRequest
  <2>2. UNCHANGED <<status, maintenance>>
    BY <1>5, WithinGroupRequest
  <2>3. maintenance = "activated" => RunningExecutions' \subseteq LetThrough
    BY <2>2 DEF Quieting, RunningExecutions
  <2> QED BY <1>4, <2>1, <2>2, <2>3
<1>6. ASSUME NEW h \in Handler, GroupHandlerStep(h) PROVE Quieting'
  BY <1>4, <1>6, WithinGroupStep
<1>7. ASSUME NEW h \in Handler, MaintenanceRead(h) PROVE Quieting'
  <2>1. handler'[h] = [Idle EXCEPT !.pc = "maintain", !.seen = RunningExecutions]
        /\ \A g \in Handler : g = h
    BY <1>7, OtherHandlers DEF MaintenanceRead, OneHandler
  <2>2. handler'[h].seen = RunningExecutions
    BY <2>1 DEF Idle
  <2>3. maintenance' # "activated" /\ status' = status
    BY <1>7 DEF MaintenanceRead
  <2> QED BY <2>1, <2>2, <2>3 DEF Quieting, RunningExecutions
<1>8. ASSUME NEW h \in Handler, MaintenanceStore(h) PROVE Quieting'
  <2>1. maintenance' = "activated" => RunningExecutions = {}
    BY <1>8 DEF MaintenanceStore, Quieting
  <2>2. maintenance' = "activated" => RunningExecutions' \subseteq LetThrough
    BY <1>8, <2>1 DEF MaintenanceStore, RunningExecutions
  <2>3. handler' = [handler EXCEPT ![h] = Idle]
    BY <1>8 DEF MaintenanceStore
  <2>4. Within(Idle) /\ Idle.pc # "maintain"
    BY HandlerPcs DEF Within
  <2> QED BY <1>4, <2>2, <2>3, <2>4
<1>9. ASSUME NEW h \in Handler, MaintenanceDeactivate(h) PROVE Quieting'
  BY <1>4, <1>9, HandlerPcs DEF MaintenanceDeactivate
<1>10. CASE MaintenanceActivated
  <2>1. PICK h \in Handler : handler[h] = Idle
    BY <1>10 DEF MaintenanceActivated
  <2>2. \A g \in Handler : handler'[g].pc = "idle"
    BY <1>10, <2>1, HandlerPcs DEF MaintenanceActivated, OneHandler
  <2>3. RunningExecutions' = {}
    BY <1>10 DEF MaintenanceActivated, RunningExecutions
  <2>4. \A g \in Handler : Within(handler'[g])
    BY <2>2 DEF Within
  <2> QED BY <2>2, <2>3, <2>4 DEF Quieting, Within
<1> QED BY <1>1, <1>2, <1>3, <1>5, <1>6, <1>7, <1>8, <1>9, <1>10 DEF ManagerNext, MaintenanceStep

\* When requests are handled one at a time, nothing runs and nothing is queued
\* while maintenance mode is active but what is let through: snapshots, and
\* executions on which requests bypass the mode.  What runs without that, and
\* what is still reported by kill orders, ends or was over before.
THEOREM MaintenanceIsQuiet == OneHandler => (ManagerSpec => []QuietWhenActivated)
<1> SUFFICES ASSUME OneHandler PROVE ManagerSpec => []QuietWhenActivated
  OBVIOUS
<1>1. Init => Quieting
  BY HandlerPcs DEF Init, Quieting
<1>2. TypeOK /\ Quieting /\ [ManagerNext]_vars => Quieting'
  BY QuietingStep
<1>3. Quieting => QuietWhenActivated
  BY DEF Quieting, QuietWhenActivated, RunningExecutions, Active, Queued, InState, ACTIVE_STATES,
         END_STATES, Running, Cancelling
<1> QED BY <1>1, <1>2, <1>3, ManagerTypes, PTL DEF ManagerSpec

-----------------------------------------------------------------------------
(***************************************************************************)
(* What a request has read still holds when it is written: with one        *)
(* handler, for the limits that dequeues and groups are held to.           *)
(***************************************************************************)

\* The executions P that a dequeue emits leave room for each of them.
Fits(P) ==
  \A e \in P :
    LET earlier == {f \in P : f < e} IN
    /\ RunningRows(Active) + Cardinality(earlier) < max_concurrent_workflows
    /\ \A g \in GroupsOf[e] :
         Cardinality(Members(g, Active)) + Cardinality(Members(g, earlier)) < concurrency[g]

\* Handler h is going to start some of the executions P: a system execution when
\* nothing runs, or what fits.
Picked(h, P) ==
  /\ Starting(h) \subseteq P
  /\ \/ P \subseteq System /\ (\A e, f \in P : e = f) /\ (Starting(h) # {} => Active = {})
     \/ Fits(P)

\* Handler h is going to write the executions S of group G, and to have no others
\* of it pending than those in C.
Sliced(h, G, S, C) ==
  /\ C \subseteq S /\ S \subseteq Execution /\ \A e \in S : G \in GroupsOf[e]
  /\ Cardinality(C) <= concurrency[G]
  /\ \A e \in Execution : /\ handler[h].plan[e] # "absent" <=> e \in S
                          /\ handler[h].plan[e] = "pending" => e \in C
  /\ \A e \in Execution :
       G \in GroupsOf[e] => /\ status[e] = "pending" => e \in S
                            /\ e \in S => status[e] # "queued"

Fresh(h) ==
  /\ handler[h].pc = "post" =>
       \A e \in Execution : handler[h].plan[e] # "absent" => status[e] = "absent"
  /\ handler[h].pc = "resume" => status[handler[h].exec] # "queued"
  /\ handler[h].pc = "dequeue" =>
       handler[h].seen = Active /\ handler[h].locked = Queued \cap System
  /\ handler[h].pc = "start" => \E P \in SUBSET Execution : Picked(h, P)
  /\ handler[h].pc = "group" => \E G \in Group, S, C \in SUBSET Execution : Sliced(h, G, S, C)

AllFresh == \A h \in Handler : Fresh(h)

\* What mgmtworkers do by themselves changes nothing of that.
LEMMA FreshFrame ==
  ASSUME AllFresh, UNCHANGED <<status, concurrency>>, \A g \in Handler : Steady(g)
  PROVE  AllFresh'
<1> SUFFICES ASSUME NEW h \in Handler PROVE Fresh(h)'
  BY DEF AllFresh
<1>1. /\ Fresh(h) /\ Active' = Active /\ Queued' = Queued
      /\ handler'[h].pc = handler[h].pc /\ handler'[h].plan = handler[h].plan
      /\ handler'[h].exec = handler[h].exec /\ handler'[h].seen = handler[h].seen
      /\ handler'[h].locked = handler[h].locked
  BY DEF AllFresh, Active, Queued, InState, Steady
<1>2. Starting(h)' = Starting(h)
  BY <1>1 DEF Starting
<1>3. ASSUME NEW P, Fits(P) PROVE Fits(P)'
  BY <1>1, <1>3 DEF Fits, RunningRows, Members
<1>4. ASSUME NEW P, Picked(h, P) PROVE Picked(h, P)'
  BY <1>1, <1>2, <1>3, <1>4 DEF Picked
<1>5. ASSUME NEW G, NEW S, NEW C, Sliced(h, G, S, C) PROVE Sliced(h, G, S, C)'
  BY <1>1, <1>5 DEF Sliced
<1> QED BY <1>1, <1>4, <1>5 DEF Fresh

\* Nor does a step after which the handler is about to write nothing it has read.
LEMMA FreshDone ==
  ASSUME OneHandler, NEW h \in Handler,
         handler'[h].pc \notin {"post", "resume", "dequeue", "start", "group"}
  PROVE  AllFresh'
  BY DEF OneHandler, AllFresh, Fresh

LEMMA FreshSelect ==
  ASSUME OneHandler, TypeOK, AllFresh, NEW h \in Handler, DequeueSelect(h)
  PROVE  AllFresh'
<1>1. PICK rows, picked, broken : Selected(h, rows, picked, broken)
  BY SelectedRows
<1>2. /\ rows \in SUBSET Execution /\ picked \in SUBSET rows /\ broken \in SUBSET picked
      /\ \/ /\ handler[h].locked # {} /\ rows = handler[h].locked /\ picked = Oldest(rows)
         \/ handler[h].locked = {} /\ Emits(handler[h].seen, rows, picked)
  BY <1>1 DEF Selected
<1>3. handler[h].pc = "dequeue" /\ UNCHANGED <<status, concurrency>>
  BY DEF DequeueSelect
<1>4. handler[h].seen = Active /\ handler[h].locked = Queued \cap System
  BY <1>3 DEF AllFresh, Fresh
<1>5. handler'[h].pc = "start" /\ handler'[h].plan = Refreshed(picked, broken)
  BY <1>1, OtherHandlers DEF Selected, TypeOK, HandlerState
<1>6. Active' = Active
  BY <1>3 DEF Active, InState
<1>7. Starting(h)' \subseteq {e \in picked : ~MustQueue(e)}
  BY <1>5 DEF Starting, Refreshed
<1>8. Picked(h, picked)'
  <2>1. CASE handler[h].locked # {} /\ rows = handler[h].locked /\ picked = Oldest(rows)
    <3>1. picked \subseteq System /\ picked \subseteq Queued
      BY <1>2, <1>4, <2>1
    <3>2. \A e, f \in picked : e = f
      <4> SUFFICES ASSUME NEW e \in picked, NEW f \in picked PROVE e = f
        OBVIOUS
      <4>1. e \in Nat /\ f \in Nat /\ e <= f /\ f <= e
        BY <1>2, <2>1 DEF Oldest
      <4> QED BY <4>1
    <3>3. ASSUME NEW e \in picked, ~MustQueue(e) PROVE Active = {}
      <4>1. e \in System /\ e \notin Active
        BY <3>1 DEF Queued, Active, InState, ACTIVE_STATES, Running, Cancelling
      <4> QED BY <3>3, <4>1 DEF MustQueue, AnyActive
    <3> QED BY <1>6, <1>7, <3>1, <3>2, <3>3 DEF Picked
  <2>2. CASE handler[h].locked = {} /\ Emits(handler[h].seen, rows, picked)
    <3>1. Fits(picked)
      BY <1>2, <1>4, <2>2 DEF Emits, Fits
    <3>2. Fits(picked)'
      BY <1>3, <1>6, <3>1 DEF Fits, RunningRows, Members
    <3> QED BY <1>7, <3>2 DEF Picked
  <2> QED BY <1>2, <2>1, <2>2
<1>9. picked \in SUBSET Execution
  BY <1>2
<1>10. Fresh(h)'
  BY <1>5, <1>8, <1>9 DEF Fresh
<1> QED BY <1>10 DEF OneHandler, AllFresh

LEMMA FreshGroup ==
  ASSUME OneHandler, TypeOK, IsFiniteSet(Execution), NEW h \in Handler, NEW G \in Group,
         NEW S \in SUBSET Execution, \A e \in S : G \in GroupsOf[e], NEW force,
         NEW plan \in GroupPlans(G, S, force), NEW P,
         handler' = [handler EXCEPT ![h] = GroupWriting(plan, P)],
         UNCHANGED <<status, concurrency>>,
         \A e \in Execution : G \in GroupsOf[e] => /\ status[e] = "pending" => e \in S
                                                   /\ e \in S => status[e] # "queued"
  PROVE  AllFresh'
<1>1. PICK C \in Slices(G, S) : \E broken \in SUBSET C : plan = GroupPlan(S, C, broken, force)
  BY GroupPlanForm
<1>2. PICK broken \in SUBSET C : plan = GroupPlan(S, C, broken, force)
  BY <1>1
<1>3. C \in SUBSET S /\ Cardinality(C) <= concurrency[G]
  <2>1. C \in SUBSET S /\ Cardinality(C) = IF Cardinality(S) < concurrency[G]
                                          THEN Cardinality(S) ELSE concurrency[G]
    BY <1>1 DEF Slices
  <2>2. Cardinality(S) \in Nat /\ concurrency[G] \in Nat
    BY FS_Subset, FS_CardinalityType DEF TypeOK
  <2> QED BY <2>1, <2>2
<1>4. \A e \in Execution : /\ plan[e] # "absent" <=> e \in S
                           /\ plan[e] = "pending" => e \in C
  BY <1>2, <1>3, GateDecisionType DEF GroupPlan
<1>5. handler'[h].plan = plan /\ handler'[h].pc = "group"
  <2>1. handler'[h] = GroupWriting(plan, P)
    BY OtherHandlers
  <2>2. GroupWriting(plan, P).plan = plan /\ GroupWriting(plan, P).pc = "group"
    BY DEF GroupWriting, Idle
  <2> QED BY <2>1, <2>2
<1>6. Sliced(h, G, S, C)'
  BY <1>3, <1>4, <1>5 DEF Sliced
<1>7. Fresh(h)'
  BY <1>3, <1>5, <1>6 DEF Fresh
<1> QED BY <1>7 DEF OneHandler, AllFresh

LEMMA FreshStep ==
  ASSUME OneHandler, IsFiniteSet(Execution), TypeOK, AllFresh, [ManagerNext]_vars
  PROVE  AllFresh'
<1>0. \A h \in Handler : \A s : handler' = [handler EXCEPT ![h] = s] => handler'[h] = s
  BY OtherHandlers
<1>1. CASE Background
  BY <1>1, BackgroundSteady, FreshFrame
<1>2. CASE UNCHANGED vars \/ MaintenanceActivated \/ \E t \in run : RunRefused(t)
  <2>1. UNCHANGED <<status, concurrency, handler>>
    BY <1>2 DEF vars, MaintenanceActivated, RunRefused
  <2> QED BY <2>1, FreshFrame DEF Steady
<1>3. ASSUME NEW h \in Handler, HandlerStep(h) \/ HandlerCrash(h) PROVE AllFresh'
  <2>1. CASE DequeueSelect(h)
    BY <2>1, FreshSelect
  <2>2. CASE DequeueList(h)
    <3>1. handler[h] \in HandlerState /\ handler \in [Handler -> HandlerState]
      BY DEF TypeOK
    <3>2. /\ handler'[h].pc = "dequeue" /\ handler'[h].seen = Active
          /\ handler'[h].locked = Queued \cap System
      BY <2>2, <3>1 DEF DequeueList, HandlerState
    <3>3. Active' = Active /\ Queued' = Queued
      BY <2>2 DEF DequeueList, Active, Queued, InState
    <3> QED BY <3>2, <3>3 DEF OneHandler, AllFresh, Fresh
  <2>3. CASE Free(handler'[h])
    BY <2>3, FreshDone DEF Free
  <2> QED BY <1>3, <2>1, <2>2, <2>3, HandlerStepStates
<1>4. ASSUME NEW h \in Handler, NEW t \in run, NEW st, Report(h, t, st) PROVE AllFresh'
  <2>1. PICK final : handler' = [handler EXCEPT ![h] =
                       [Idle EXCEPT !.pc = "update", !.exec = t.exec, !.arg = final, !.client = t]]
    BY <1>4 DEF Report, Receive
  <2> DEFINE s == [Idle EXCEPT !.pc = "update", !.exec = t.exec, !.arg = final, !.client = t]
  <2>2. s.pc = "update"
    BY DEF Idle
  <2> HIDE DEF s
  <2>3. handler'[h] = s
    BY <1>0, <2>1 DEF s
  <2> QED BY <2>2, <2>3, FreshDone
<1>5. ASSUME NEW h \in Handler, NEW k \in kills, KillTask(h, k) PROVE AllFresh'
  BY <1>5, KillTaskHandler, FreshDone
<1>6. ASSUME NEW h \in Handler, NEW e \in Execution, NEW force, NEW queue, Post(h, e, force, queue)
      PROVE  AllFresh'
  <2>1. PICK d, F : handler' = [handler EXCEPT ![h] =
                        [Idle EXCEPT !.pc = "post", !.plan[e] = d, !.flagged = F]]
    BY <1>6 DEF Post
  <2> DEFINE s == [Idle EXCEPT !.pc = "post", !.plan[e] = d, !.flagged = F]
  <2>2. s.pc = "post" /\ \A x \in Execution \ {e} : s.plan[x] = "absent"
    BY DEF Idle, NoPlan
  <2> HIDE DEF s
  <2>3. handler'[h] = s
    BY <1>0, <2>1 DEF s
  <2>4. status' = status /\ status[e] = "absent"
    BY <1>6 DEF Post, Creatable
  <2> QED BY <2>2, <2>3, <2>4 DEF OneHandler, AllFresh, Fresh
<1>7. ASSUME NEW h \in Handler, NEW e \in Execution, NEW mode, CancelRead(h, {e}, mode)
      PROVE  AllFresh'
  <2>1. PICK F : handler' = [handler EXCEPT ![h] =
                   [Idle EXCEPT !.pc = "cancel", !.arg = mode, !.targets = {e}, !.flagged = F]]
    BY <1>7 DEF CancelRead
  <2> DEFINE s == [Idle EXCEPT !.pc = "cancel", !.arg = mode, !.targets = {e}, !.flagged = F]
  <2>2. s.pc = "cancel"
    BY DEF Idle
  <2> HIDE DEF s
  <2>3. handler'[h] = s
    BY <1>0, <2>1 DEF s
  <2> QED BY <2>2, <2>3, FreshDone
<1>8. ASSUME NEW h \in Handler, NEW e \in Execution, NEW force, ResumeRead(h, e, force)
      PROVE  AllFresh'
  <2>1. handler' = [handler EXCEPT ![h] = [Idle EXCEPT !.pc = "resume", !.exec = e]]
    BY <1>8 DEF ResumeRead
  <2> DEFINE s == [Idle EXCEPT !.pc = "resume", !.exec = e]
  <2>2. s.pc = "resume" /\ s.exec = e
    BY DEF Idle
  <2> HIDE DEF s
  <2>3. handler'[h] = s
    BY <1>0, <2>1 DEF s
  <2>4. status' = status /\ status[e] # "queued"
    BY <1>8 DEF ResumeRead, ResumeAllowed
  <2> QED BY <2>2, <2>3, <2>4 DEF OneHandler, AllFresh, Fresh
<1>9. ASSUME NEW h \in Handler, NEW G \in Group, NEW force, GroupPost(h, G, force)
      PROVE  AllFresh'
  <2> DEFINE S == Members(G, Execution)
  <2>1. PICK plan \in GroupPlans(G, S, force) : handler' = [handler EXCEPT ![h] = GroupWriting(plan, {})]
    BY <1>9 DEF GroupPost
  <2>2. S \in SUBSET Execution /\ \A e \in Execution : e \in S <=> G \in GroupsOf[e]
    BY DEF Members
  <2>3. UNCHANGED <<status, concurrency>> /\ \A e \in S : status[e] = "absent"
    BY <1>9 DEF GroupPost, Creatable
  <2> HIDE DEF S
  <2> QED BY <2>1, <2>2, <2>3, FreshGroup
<1>10. ASSUME NEW h \in Handler, NEW G \in Group, GroupResume(h, G)
       PROVE  AllFresh'
  <2> DEFINE P == Members(G, InState({"pending"}))
             S == P \cup Members(G, InState({"failed", "cancelled"}))
  <2>1. PICK plan \in GroupPlans(G, S, FALSE) : handler' = [handler EXCEPT ![h] = GroupWriting(plan, P)]
    BY <1>10 DEF GroupResume
  <2>2. S \in SUBSET Execution /\ \A e \in S : G \in GroupsOf[e]
    BY DEF Members, InState
  <2>3. \A e \in Execution : G \in GroupsOf[e] => /\ status[e] = "pending" => e \in S
                                                  /\ e \in S => status[e] # "queued"
    BY DEF Members, InState
  <2>4. UNCHANGED <<status, concurrency>>
    BY <1>10 DEF GroupResume
  <2> HIDE DEF S, P
  <2> QED BY <2>1, <2>2, <2>3, <2>4, FreshGroup
<1>11. ASSUME NEW h \in Handler, NEW G \in Group, NEW mode, GroupCancel(h, G, mode)
       PROVE  AllFresh'
  <2>1. PICK S, F : handler' = [handler EXCEPT ![h] =
          [Idle EXCEPT !.pc = "groupcancel", !.arg = mode, !.targets = S, !.flagged = F]]
    BY <1>11 DEF GroupCancel
  <2> DEFINE s == [Idle EXCEPT !.pc = "groupcancel", !.arg = mode, !.targets = S, !.flagged = F]
  <2>2. s.pc = "groupcancel"
    BY DEF Idle
  <2> HIDE DEF s
  <2>3. handler'[h] = s
    BY <1>0, <2>1 DEF s
  <2> QED BY <2>2, <2>3, FreshDone
<1>12. ASSUME NEW h \in Handler, NEW G \in Group, NEW n, SetConcurrency(h, G, n)
       PROVE  AllFresh'
  <2>1. \E s \in {Idle, [Idle EXCEPT !.pc = "list"]} : handler' = [handler EXCEPT ![h] = s]
    BY <1>12 DEF SetConcurrency
  <2>2. handler'[h].pc \in {"idle", "list"}
    BY <1>0, <2>1, HandlerPcs
  <2> QED BY <2>2, FreshDone
<1>13. ASSUME NEW h \in Handler, MaintenanceStep(h) PROVE AllFresh'
  <2>1. PICK s \in {Idle, [Idle EXCEPT !.pc = "list"],
                    [Idle EXCEPT !.pc = "maintain", !.seen = RunningExecutions]} :
          handler' = [handler EXCEPT ![h] = s]
    BY <1>13 DEF MaintenanceStep, MaintenanceRead, MaintenanceStore, MaintenanceDeactivate
  <2>2. handler'[h] = s /\ s.pc \in {"idle", "list", "maintain"}
    BY <1>0, <2>1, HandlerPcs
  <2> QED BY <2>2, FreshDone
<1>14. ASSUME NEW h \in Handler, GroupCommit(h) PROVE AllFresh'
  <2>1. \E s \in {Idle, Publishing(Rendered(Starting(h)))} : handler' = [handler EXCEPT ![h] = s]
    BY <1>14 DEF GroupCommit
  <2>2. handler'[h].pc \in {"idle", "publish"}
    BY <1>0, <2>1, HandlerPcs
  <2> QED BY <2>2, FreshDone
<1>15. ASSUME NEW h \in Handler, GroupCancelCommit(h) PROVE AllFresh'
  <2> DEFINE s == [Idle EXCEPT !.pc = "groupvalidate", !.arg = handler[h].arg,
                               !.targets = handler[h].flagged]
  <2>1. handler' = [handler EXCEPT ![h] = Idle] \/ handler' = [handler EXCEPT ![h] = s]
    BY <1>15 DEF GroupCancelCommit
  <2>2. s.pc = "groupvalidate"
    BY DEF Idle
  <2> HIDE DEF s
  <2>3. handler'[h].pc \in {"idle", "groupvalidate"}
    BY <1>0, <2>1, <2>2, HandlerPcs
  <2> QED BY <2>3, FreshDone
<1>16. ASSUME NEW h \in Handler, GroupCancelValidate(h) PROVE AllFresh'
  <2> DEFINE s == [handler[h] EXCEPT !.pc = "cancel",
                     !.flagged = {e \in handler[h].targets : KillFlag(handler[h].arg, status[e])}]
  <2>1. handler' = [handler EXCEPT ![h] = Idle] \/ handler' = [handler EXCEPT ![h] = s]
    BY <1>16 DEF GroupCancelValidate
  <2>2. s.pc = "cancel"
    BY DEF TypeOK, HandlerState
  <2> HIDE DEF s
  <2>3. handler'[h].pc \in {"idle", "cancel"}
    BY <1>0, <2>1, <2>2, HandlerPcs
  <2> QED BY <2>3, FreshDone
<1>17. CASE Next
  BY <1>1, <1>3, <1>4, <1>5, <1>6, <1>7, <1>8, <1>17
     DEF Next, UserRequest, WorkerStep, Crash, Background, ReportStarted, ReportDone, ReportCancelled
<1> QED BY <1>2, <1>9, <1>10, <1>11, <1>12, <1>13, <1>14, <1>15, <1>16, <1>17
        DEF ManagerNext, GroupRequest, GroupHandlerStep

LEMMA FreshHolds ==
  OneHandler /\ IsFiniteSet(Execution) => (ManagerSpec => []AllFresh)
<1> SUFFICES ASSUME OneHandler, IsFiniteSet(Execution) PROVE ManagerSpec => []AllFresh
  OBVIOUS
<1>1. Init => AllFresh
  BY HandlerPcs DEF Init, AllFresh, Fresh
<1>2. TypeOK /\ AllFresh /\ [ManagerNext]_vars => AllFresh'
  BY FreshStep
<1> QED BY <1>1, <1>2, ManagerTypes, PTL DEF ManagerSpec

-----------------------------------------------------------------------------
(* Counting. *)

\* A finite set of numbers that is not empty has a greatest one.
LEMMA GreatestNumber ==
  ASSUME NEW S \in SUBSET Nat, IsFiniteSet(S), S # {}
  PROVE  \E m \in S : \A x \in S : x <= m
<1> DEFINE Above(y) == {x \in S : x > y}
           T == {Cardinality(Above(y)) : y \in S}
<1>0. \A x \in S : x \in Nat
  OBVIOUS
<1>1. \A y \in S : IsFiniteSet(Above(y)) /\ Cardinality(Above(y)) \in Nat
  BY FS_Subset, FS_CardinalityType
<1>2. T \in SUBSET Nat /\ T # {}
  <2> HIDE DEF Above
  <2>1. \A k \in T : k \in Nat
    BY <1>1
  <2>2. PICK y \in S : TRUE
    OBVIOUS
  <2>3. Cardinality(Above(y)) \in T
    OBVIOUS
  <2> HIDE DEF T
  <2> QED BY <2>1, <2>3
<1> DEFINE R == OpToRel(<, Nat)
<1>3. IsWellFoundedOn(R, Nat)
  BY NatLessThanWellFounded
<1> HIDE DEF R, T
<1>4. PICK n \in T : \A k \in T : ~ (<<k, n>> \in R)
  BY <1>2, <1>3, WFMin
<1>5. \A k \in T : k \in Nat /\ n \in Nat /\ ~ (k < n)
  BY <1>2, <1>4 DEF R, OpToRel
<1>6. PICK m \in S : n = Cardinality(Above(m))
  BY <1>4 DEF T
<1>7. ASSUME NEW x \in S, x > m PROVE FALSE
  <2>1. Above(x) \in SUBSET Above(m) /\ x \in Above(m) /\ x \notin Above(x)
    <3>1. x \in Nat /\ m \in Nat /\ \A z \in S : z > x => z > m
      BY <1>0, <1>7
    <3>2. Above(x) \in SUBSET Above(m)
      BY <3>1
    <3>3. x \in Above(m)
      BY <1>7
    <3>4. x \notin Above(x)
      <4>1. ~ (x > x)
        BY <3>1
      <4> QED BY <4>1
    <3> HIDE DEF Above
    <3> QED BY <3>2, <3>3, <3>4
  <2>2. IsFiniteSet(Above(m)) /\ Cardinality(Above(x)) \in T
    BY <1>1 DEF T
  <2> HIDE DEF Above
  <2>3. Cardinality(Above(x)) <= Cardinality(Above(m)) /\ Cardinality(Above(x)) # Cardinality(Above(m))
    BY <2>1, <2>2, FS_Subset
  <2> QED BY <1>5, <1>6, <2>2, <2>3
<1> QED BY <1>7

\* When each member of P has room after those before it, P has room.
LEMMA RoomForAll ==
  ASSUME NEW P \in SUBSET Nat, IsFiniteSet(P), P # {}, NEW n \in Nat, NEW K \in Nat,
         \A e \in P : n + Cardinality({f \in P : f < e}) < K
  PROVE  n + Cardinality(P) <= K
<1>1. PICK m \in P : \A x \in P : x <= m
  BY GreatestNumber
<1>2. {f \in P : f < m} = P \ {m}
  <2>1. \A x \in P : x < m <=> x # m
    <3>1. \A x \in P : x \in Nat /\ m \in Nat
      OBVIOUS
    <3> QED BY <1>1, <3>1
  <2> QED BY <2>1
<1>3. Cardinality(P \ {m}) = Cardinality(P) - 1 /\ Cardinality(P) \in Nat
  BY FS_RemoveElement, FS_CardinalityType
<1>4. n + Cardinality({f \in P : f < m}) < K
  BY <1>1
<1> QED BY <1>2, <1>3, <1>4

LEMMA UnionBound ==
  ASSUME NEW A, NEW B, NEW U \in SUBSET (A \cup B), IsFiniteSet(A), IsFiniteSet(B)
  PROVE  /\ Cardinality(A) \in Nat /\ Cardinality(B) \in Nat /\ Cardinality(U) \in Nat
         /\ Cardinality(U) <= Cardinality(A) + Cardinality(B)
<1>1. /\ IsFiniteSet(A \cup B)
      /\ Cardinality(A \cup B) = Cardinality(A) + Cardinality(B) - Cardinality(A \cap B)
  BY FS_Union
<1>2. /\ Cardinality(A) \in Nat /\ Cardinality(B) \in Nat
      /\ Cardinality(A \cap B) \in Nat /\ Cardinality(A \cup B) \in Nat
  <2>1. IsFiniteSet(A \cap B)
    BY FS_Subset
  <2> QED BY <1>1, <2>1, FS_CardinalityType
<1>3. IsFiniteSet(U) /\ Cardinality(U) <= Cardinality(A \cup B)
  BY <1>1, FS_Subset
<1>4. Cardinality(U) \in Nat
  BY <1>3, FS_CardinalityType
<1> QED BY <1>1, <1>2, <1>3, <1>4

\* _report_running has a row, or several, for each active execution.
LEMMA RowsBound ==
  ASSUME NEW A \in SUBSET Execution, IsFiniteSet(A), IsFiniteSet(Group)
  PROVE  RunningRows(A) \in Nat /\ Cardinality(A) <= RunningRows(A)
<1> DEFINE Lone == {e \in A : GroupsOf[e] = {}}
           Pairs == {eg \in A \X Group : eg[2] \in GroupsOf[eg[1]]}
           Grouped == A \ Lone
<1>1. RunningRows(A) = Cardinality(Lone) + Cardinality(Pairs)
  BY DEF RunningRows
<1>2. IsFiniteSet(Lone) /\ IsFiniteSet(Pairs) /\ IsFiniteSet(Grouped)
  <2>1. IsFiniteSet(A \X Group)
    BY FS_Product
  <2> QED BY <2>1, FS_Subset
<1>3. /\ Cardinality(Lone) \in Nat /\ Cardinality(Pairs) \in Nat /\ Cardinality(Grouped) \in Nat
  BY <1>2, FS_CardinalityType
<1>4. Cardinality(Grouped) <= Cardinality(Pairs)
  <2> DEFINE first == [eg \in Pairs |-> eg[1]]
  <2>1. \A eg \in Pairs : eg[1] \in Grouped
    OBVIOUS
  <2>2. \A e \in Grouped : \E eg \in Pairs : eg[1] = e
    <3> SUFFICES ASSUME NEW e \in Grouped PROVE \E eg \in Pairs : eg[1] = e
      OBVIOUS
    <3>1. PICK g \in GroupsOf[e] : TRUE
      OBVIOUS
    <3>2. e \in Execution /\ g \in Group
      OBVIOUS
    <3>3. <<e, g>> \in Pairs
      BY <3>2
    <3> QED BY <3>3
  <2> HIDE DEF Pairs, Grouped
  <2>3. first \in Surjection(Pairs, Grouped)
    BY <2>1, <2>2 DEF Surjection
  <2> QED BY <1>2, <2>3, FS_Surjection
<1>5. Cardinality(A) <= Cardinality(Lone) + Cardinality(Grouped)
  BY <1>2, UnionBound
<1>6. Cardinality(A) \in Nat
  BY FS_CardinalityType
<1> HIDE DEF Lone, Pairs, Grouped
<1> QED BY <1>1, <1>3, <1>4, <1>5, <1>6

-----------------------------------------------------------------------------
(* Dequeues and groups keep to their limits. *)

\* The only step that gives a queued execution its turn is a dequeue's.
LEMMA StartedByDequeue ==
  ASSUME OneHandler, TypeOK, AllFresh, [ManagerNext]_vars, NEW e \in Queued, status'[e] = "pending"
  PROVE  \E h \in Handler : DequeueCommit(h)
<1>0. e \in Execution /\ status[e] = "queued" /\ status \in [Execution -> Statuses]
  BY DEF Queued, InState, TypeOK
<1>1. CASE status' = status
  BY <1>0, <1>1
<1>2. ASSUME NEW h \in Handler, HandlerStep(h) PROVE DequeueCommit(h) \/ status' = status
  <2>0. handler[h] \in HandlerState /\ Coherent(handler[h]) /\ Fresh(h)
    BY DEF TypeOK, AllFresh
  <2>1. CASE PostCommit(h)
    BY <1>0, <2>0, <2>1 DEF PostCommit, WritePlan, Fresh
  <2>2. CASE ResumeCommit(h)
    BY <1>0, <2>0, <2>2 DEF ResumeCommit, Fresh
  <2>3. CASE UpdateCommit(h)
    BY <1>0, <2>0, <2>3 DEF UpdateCommit, Coherent, END_STATES
  <2>4. CASE CancelCommit(h)
    <3>1. CancelStatus(handler[h].arg) # "pending"
      BY <2>0, <2>4 DEF CancelCommit, Coherent, CancelModes, CancelStatus
    <3> QED BY <1>0, <2>4, <3>1 DEF CancelCommit
  <2>5. CASE Publish(h) \/ Broadcast(h)
    BY <2>5 DEF Publish, Broadcast
  <2>6. CASE DequeueList(h)
    BY <2>6 DEF DequeueList
  <2>7. CASE DequeueSelect(h)
    BY <2>7 DEF DequeueSelect
  <2> QED BY <1>2, <2>1, <2>2, <2>3, <2>4, <2>5, <2>6, <2>7 DEF HandlerStep
<1>3. ASSUME NEW h \in Handler, UserRequest(h) PROVE status' = status
  BY <1>3 DEF UserRequest, Post, CancelRead, ResumeRead
<1>4. ASSUME WorkerStep PROVE status' = status
  BY <1>4 DEF WorkerStep, Consume, RunDenied, KillTaskDenied, ReportStarted, ReportDone,
              ReportCancelled, Report, KillTask
<1>5. ASSUME NEW w \in Worker, WorkerCrash(w) PROVE status' = status
  BY <1>5 DEF WorkerCrash
<1>6. ASSUME NEW h \in Handler, HandlerCrash(h) PROVE FALSE
  BY <1>0, <1>6 DEF HandlerCrash
<1>7. ASSUME NEW h \in Handler, GroupRequest(h) \/ MaintenanceStep(h) \/ GroupCancelValidate(h)
      PROVE  status' = status
  BY <1>7 DEF GroupRequest, GroupPost, GroupResume, GroupCancel, SetConcurrency, MaintenanceStep,
              MaintenanceRead, MaintenanceStore, MaintenanceDeactivate, GroupCancelValidate
<1>8. ASSUME NEW h \in Handler, GroupCancelCommit(h) PROVE FALSE
  BY <1>0, <1>8 DEF GroupCancelCommit
<1>9. ASSUME NEW h \in Handler, GroupCommit(h) PROVE FALSE
  <2>1. handler[h].pc = "group" /\ Fresh(h)
    BY <1>9 DEF GroupCommit, AllFresh
  <2>2. PICK G \in Group, S \in SUBSET Execution, C \in SUBSET Execution : Sliced(h, G, S, C)
    BY <2>1 DEF Fresh
  <2>3. handler[h].plan[e] = "pending"
    BY <1>0, <1>9 DEF GroupCommit
  <2>4. e \in S /\ G \in GroupsOf[e]
    BY <1>0, <2>2, <2>3 DEF Sliced
  <2> QED BY <1>0, <2>2, <2>4 DEF Sliced
<1>10. CASE UNCHANGED vars \/ MaintenanceActivated \/ \E t \in run : RunRefused(t)
  BY <1>1, <1>10 DEF vars, MaintenanceActivated, RunRefused
<1> QED BY <1>1, <1>2, <1>3, <1>4, <1>5, <1>6, <1>7, <1>8, <1>9, <1>10
        DEF ManagerNext, Next, Crash, GroupHandlerStep

\* A dequeue leaves no more active than the manager, and its groups, allow.
LEMMA DequeueFits ==
  ASSUME TypeOK, AllFresh, IsFiniteSet(Execution), IsFiniteSet(Group),
         max_concurrent_workflows > 0, NEW h \in Handler, DequeueCommit(h),
         NEW e0 \in Queued, status'[e0] = "pending"
  PROVE  /\ Cardinality(Active') <= max_concurrent_workflows
         /\ \A g \in Group, e \in Queued :
              g \in GroupsOf[e] /\ status'[e] = "pending" =>
                Cardinality(Members(g, Active')) <= concurrency[g]
<1>1. PICK P \in SUBSET Execution : Picked(h, P)
  BY DEF DequeueCommit, AllFresh, Fresh
<1>2. \A e \in Queued : status'[e] = "pending" => e \in Starting(h)
  BY DEF DequeueCommit, WritePlan, Starting, Queued, InState
<1>3. Active' \subseteq Active \cup Starting(h)
  <2>1. handler[h].plan \in Plan
    BY DEF TypeOK, HandlerState
  <2> QED BY <2>1 DEF DequeueCommit, WritePlan, Active, InState, Starting, Plan, ACTIVE_STATES,
                      Running, Cancelling
<1>4. PICK A : A = Active
  OBVIOUS
<1>5. PICK B : B = Active'
  OBVIOUS
<1>6. A \in SUBSET Execution /\ B \in SUBSET (A \cup P) /\ e0 \in P /\ Starting(h) \subseteq P
  BY <1>1, <1>2, <1>3, <1>4, <1>5 DEF Active, InState, Picked
<1>7. IsFiniteSet(A) /\ IsFiniteSet(P)
  BY <1>6, FS_Subset
<1>8. CASE P \subseteq System /\ (\A e, f \in P : e = f) /\ (Starting(h) # {} => Active = {})
  <2>1. A = {} /\ P = {e0}
    <3>1. e0 \in Starting(h)
      BY <1>2
    <3>2. A = {}
      BY <1>4, <1>8, <3>1
    <3> QED BY <1>6, <1>8, <3>2
  <2>2. Cardinality(B) <= Cardinality(P) /\ Cardinality(P) = 1
    BY <1>6, <1>7, <2>1, FS_Subset, FS_Singleton
  <2>3. Cardinality(B) \in Nat
    BY <1>6, <1>7, <2>1, FS_Subset, FS_CardinalityType
  <2>4. Cardinality(B) <= max_concurrent_workflows
    BY <2>2, <2>3
  <2>5. \A e \in P : GroupsOf[e] = {}
    BY <1>8, <1>1
  <2> QED BY <1>2, <1>5, <1>6, <2>4, <2>5
<1>9. CASE Fits(P)
  <2>1. \A e \in P :
          /\ RunningRows(A) + Cardinality({f \in P : f < e}) < max_concurrent_workflows
          /\ \A g \in GroupsOf[e] :
               Cardinality(Members(g, A)) + Cardinality(Members(g, {f \in P : f < e})) < concurrency[g]
    BY <1>4, <1>9 DEF Fits
  <2>2. Cardinality(B) <= max_concurrent_workflows
    <3>1. RunningRows(A) \in Nat /\ Cardinality(A) <= RunningRows(A)
      BY <1>6, <1>7, RowsBound
    <3>2. RunningRows(A) + Cardinality(P) <= max_concurrent_workflows
      <4>1. P \in SUBSET Nat /\ P # {} /\ max_concurrent_workflows \in Nat
        BY <1>6
      <4> QED BY <1>7, <2>1, <3>1, <4>1, RoomForAll
    <3>3. /\ Cardinality(A) \in Nat /\ Cardinality(P) \in Nat /\ Cardinality(B) \in Nat
          /\ Cardinality(B) <= Cardinality(A) + Cardinality(P)
      BY <1>6, <1>7, UnionBound
    <3> QED BY <3>1, <3>2, <3>3
  <2>3. ASSUME NEW g \in Group, NEW e \in P, g \in GroupsOf[e]
        PROVE  Cardinality(Members(g, B)) <= concurrency[g]
    <3> DEFINE MA == Members(g, A)
               MP == Members(g, P)
    <3>1. MA \in SUBSET A /\ MP \in SUBSET P /\ e \in MP /\ Members(g, B) \in SUBSET (MA \cup MP)
      BY <1>6, <2>3 DEF Members
    <3>2. \A x \in MP : g \in GroupsOf[x] /\ Members(g, {f \in P : f < x}) = {f \in MP : f < x}
      BY DEF Members
    <3>3. \A x \in MP : Cardinality(MA) + Cardinality({f \in MP : f < x}) < concurrency[g]
      BY <2>1, <3>1, <3>2, ZenonT(40)
    <3>4. IsFiniteSet(MA) /\ IsFiniteSet(MP)
      BY <1>7, <3>1, FS_Subset
    <3> HIDE DEF MA, MP
    <3>5. /\ Cardinality(MA) \in Nat /\ Cardinality(MP) \in Nat /\ Cardinality(Members(g, B)) \in Nat
          /\ Cardinality(Members(g, B)) <= Cardinality(MA) + Cardinality(MP)
      BY <3>1, <3>4, UnionBound
    <3>6. MP \in SUBSET Nat /\ MP # {} /\ concurrency[g] \in Nat
      BY <1>6, <3>1 DEF TypeOK
    <3>7. Cardinality(MA) + Cardinality(MP) <= concurrency[g]
      BY <3>3, <3>4, <3>5, <3>6, RoomForAll
    <3> QED BY <3>5, <3>6, <3>7
  <2> QED BY <1>2, <1>5, <1>6, <2>2, <2>3
<1> QED BY <1>1, <1>8, <1>9 DEF Picked

DequeueStep ==
  LET started == {e \in Queued : status'[e] = "pending"} IN
  started # {} =>
    /\ Cardinality(Active') <= max_concurrent_workflows
    /\ \A g \in Group :
         Members(g, started) # {} => Cardinality(Members(g, Active')) <= concurrency[g]

\* When requests are handled one at a time, what start_queued_executions starts
\* fits in max_concurrent_workflows and in the concurrency of its groups, for any
\* number of executions and groups, even of executions of several groups.
THEOREM DequeuesFit ==
  OneHandler /\ IsFiniteSet(Execution) /\ IsFiniteSet(Group) /\ max_concurrent_workflows > 0
    => (ManagerSpec => DequeueWithinLimits)
<1> SUFFICES ASSUME OneHandler, IsFiniteSet(Execution), IsFiniteSet(Group),
                    max_concurrent_workflows > 0
             PROVE  ManagerSpec => DequeueWithinLimits
  OBVIOUS
<1>1. TypeOK /\ AllFresh /\ [ManagerNext]_vars => [DequeueStep]_vars
  <2> SUFFICES ASSUME TypeOK, AllFresh, [ManagerNext]_vars,
                      NEW e0 \in Queued, status'[e0] = "pending"
               PROVE  /\ Cardinality(Active') <= max_concurrent_workflows
                      /\ \A g \in Group :
                           Members(g, {e \in Queued : status'[e] = "pending"}) # {} =>
                             Cardinality(Members(g, Active')) <= concurrency[g]
    BY DEF DequeueStep
  <2>1. PICK h \in Handler : DequeueCommit(h)
    BY StartedByDequeue
  <2>2. /\ Cardinality(Active') <= max_concurrent_workflows
        /\ \A g \in Group, e \in Queued :
             g \in GroupsOf[e] /\ status'[e] = "pending" =>
               Cardinality(Members(g, Active')) <= concurrency[g]
    BY <2>1, DequeueFits
  <2>3. ASSUME NEW g \in Group, Members(g, {e \in Queued : status'[e] = "pending"}) # {}
        PROVE  Cardinality(Members(g, Active')) <= concurrency[g]
    <3>1. PICK e \in Queued : g \in GroupsOf[e] /\ status'[e] = "pending"
      BY <2>3 DEF Members
    <3> QED BY <2>2, <3>1
  <2> QED BY <2>2, <2>3
<1>2. ManagerSpec => [][DequeueStep]_vars
  BY <1>1, FreshHolds, ManagerTypes, PTL DEF ManagerSpec
<1> QED BY <1>2, PTL DEF DequeueWithinLimits, DequeueStep

GroupStartStep(h, g) ==
  /\ handler[h].pc = "group"
  /\ \E e \in Members(g, Starting(h)) : token'[e] # token[e]
  => Cardinality({e \in Members(g, Execution) : status'[e] = "pending"}) <= concurrency[g]

\* A handler that is about to start a group issues tokens when it commits, not before.
LEMMA TokensByGroupCommit ==
  ASSUME OneHandler, TypeOK, [ManagerNext]_vars, NEW h \in Handler, handler[h].pc = "group",
         token' # token
  PROVE  GroupCommit(h)
<1>0. \A g \in Handler : g = h
  BY DEF OneHandler
<1>1. ASSUME NEW g \in Handler, HandlerStep(g) PROVE FALSE
  BY <1>0, <1>1, StepPcs DEF HandlerStep
<1>2. ASSUME NEW g \in Handler, UserRequest(g) PROVE token' = token
  BY <1>2 DEF UserRequest, Post, CancelRead, ResumeRead
<1>3. ASSUME WorkerStep \/ Crash PROVE token' = token
  BY <1>3 DEF WorkerStep, Crash, Consume, RunDenied, KillTaskDenied, ReportStarted, ReportDone,
              ReportCancelled, Report, KillTask, WorkerCrash, HandlerCrash
<1>4. ASSUME NEW g \in Handler, GroupRequest(g) \/ MaintenanceStep(g) \/ GroupCancelValidate(g)
                                  \/ GroupCancelCommit(g)
      PROVE  token' = token
  BY <1>4 DEF GroupRequest, GroupPost, GroupResume, GroupCancel, SetConcurrency, MaintenanceStep,
              MaintenanceRead, MaintenanceStore, MaintenanceDeactivate, GroupCancelValidate,
              GroupCancelCommit
<1>5. CASE UNCHANGED vars \/ MaintenanceActivated \/ \E t \in run : RunRefused(t)
  BY <1>5 DEF vars, MaintenanceActivated, RunRefused
<1> QED BY <1>0, <1>1, <1>2, <1>3, <1>4, <1>5 DEF ManagerNext, Next, GroupHandlerStep

\* When requests are handled one at a time and executions are of one group at
\* most (as those that are created with a group are), starting a group, or
\* resuming it with some of its executions on their way already, never leaves
\* more of them pending than its concurrency.
THEOREM GroupsFit ==
  /\ OneHandler /\ IsFiniteSet(Execution)
  /\ \A e \in Execution : \A f, g \in GroupsOf[e] : f = g
  => (ManagerSpec => StartWithinConcurrency)
<1> SUFFICES ASSUME OneHandler, IsFiniteSet(Execution),
                    \A e \in Execution : \A f, g \in GroupsOf[e] : f = g
             PROVE  ManagerSpec => StartWithinConcurrency
  OBVIOUS
<1>1. TypeOK /\ AllFresh /\ [ManagerNext]_vars =>
        [\A h \in Handler, g \in Group : GroupStartStep(h, g)]_vars
  <2> SUFFICES ASSUME TypeOK, AllFresh, [ManagerNext]_vars, NEW h \in Handler, NEW g \in Group,
                      handler[h].pc = "group", NEW e0 \in Members(g, Starting(h)),
                      token'[e0] # token[e0]
               PROVE  Cardinality({e \in Members(g, Execution) : status'[e] = "pending"})
                        <= concurrency[g]
    BY DEF GroupStartStep
  <2>1. GroupCommit(h)
    BY TokensByGroupCommit
  <2>2. PICK G \in Group, S \in SUBSET Execution, C \in SUBSET Execution : Sliced(h, G, S, C)
    BY DEF AllFresh, Fresh
  <2>3. G = g
    <3>1. e0 \in Execution /\ g \in GroupsOf[e0] /\ handler[h].plan[e0] = "pending"
      BY DEF Members, Starting
    <3>2. G \in GroupsOf[e0]
      BY <2>2, <3>1 DEF Sliced
    <3> QED BY <3>1, <3>2
  <2>4. {e \in Members(g, Execution) : status'[e] = "pending"} \in SUBSET C
    <3> SUFFICES ASSUME NEW e \in Execution, g \in GroupsOf[e], status'[e] = "pending"
                 PROVE  e \in C
      BY DEF Members
    <3>1. handler[h].plan[e] = "absent" => status'[e] = status[e]
      BY <2>1 DEF GroupCommit
    <3>2. handler[h].plan[e] # "absent" => handler[h].plan[e] = "pending"
      BY <2>1 DEF GroupCommit
    <3>3. handler[h].plan[e] = "pending"
      BY <2>2, <2>3, <3>1, <3>2 DEF Sliced
    <3> QED BY <2>2, <3>3 DEF Sliced
  <2>5. Cardinality(C) <= concurrency[g]
    BY <2>2, <2>3 DEF Sliced
  <2>6. PICK X : X = {e \in Members(g, Execution) : status'[e] = "pending"}
    OBVIOUS
  <2>7. IsFiniteSet(C) /\ IsFiniteSet(X) /\ Cardinality(X) <= Cardinality(C)
    BY <2>4, <2>6, FS_Subset
  <2>8. Cardinality(C) \in Nat /\ Cardinality(X) \in Nat /\ concurrency[g] \in Nat
    BY <2>7, FS_CardinalityType DEF TypeOK
  <2> QED BY <2>5, <2>6, <2>7, <2>8
<1>2. ManagerSpec => [][\A h \in Handler, g \in Group : GroupStartStep(h, g)]_vars
  BY <1>1, FreshHolds, ManagerTypes, PTL DEF ManagerSpec
<1> QED BY <1>2, PTL DEF StartWithinConcurrency, GroupStartStep
=============================================================================
