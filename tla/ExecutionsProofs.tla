-------------------------- MODULE ExecutionsProofs --------------------------
(***************************************************************************)
(* Proofs about Executions, for any executions, deployments, groups,       *)
(* handlers and mgmtworkers: its type invariant, the exclusion of          *)
(* executions in conflict, the carrying of active executions, and what may *)
(* happen to executions that have ended.                                   *)
(***************************************************************************)
EXTENDS Executions, TLAPS

USE ExecutionAssumption, SystemAssumption, BoundAssumption, TaskAssumption

--------------------------------------------------------------------------
(* Handler states. *)

\* An idle handler is well formed.
LEMMA IdleOK == Idle \in HandlerState /\ Coherent(Idle)
  BY DEF Idle, HandlerState, Coherent, Pcs, Args, Plan, NoPlan

\* So is one that has messages to publish.
LEMMA PublishingOK ==
  ASSUME NEW out \in SUBSET Message
  PROVE  Publishing(out) \in HandlerState /\ Coherent(Publishing(out))
  BY IdleOK DEF Publishing, Idle, HandlerState, Coherent, Pcs, Args, Plan, NoPlan

\* The other states a handler enters: with a creation planned,
LEMMA PostingOK ==
  ASSUME NEW plan \in Plan, NEW F \in SUBSET Execution
  PROVE  /\ [Idle EXCEPT !.pc = "post", !.plan = plan, !.flagged = F] \in HandlerState
         /\ Coherent([Idle EXCEPT !.pc = "post", !.plan = plan, !.flagged = F])
  BY IdleOK DEF Idle, HandlerState, Coherent, Pcs, Plan

\* with a status report to be written,
LEMMA UpdatingOK ==
  ASSUME NEW e \in Execution, NEW st \in END_STATES \cup {"started"},
         NEW c \in Task \cup {NoTask}, c # NoTask => c.exec = e
  PROVE  /\ [Idle EXCEPT !.pc = "update", !.exec = e, !.arg = st, !.client = c]
              \in HandlerState
         /\ Coherent([Idle EXCEPT !.pc = "update", !.exec = e, !.arg = st,
                                  !.client = c])
  BY IdleOK DEF Idle, HandlerState, Coherent, Pcs, Args

\* about to look for queued executions,
LEMMA ListingOK ==
  ASSUME NEW out \in SUBSET Message, NEW n \in Nat
  PROVE  /\ [Idle EXCEPT !.pc = "list", !.out = out, !.retry = n] \in HandlerState
         /\ Coherent([Idle EXCEPT !.pc = "list", !.out = out, !.retry = n])
  BY IdleOK DEF Idle, HandlerState, Coherent, Pcs

\* having seen what runs, having selected what to start,
LEMMA DequeuingOK ==
  ASSUME NEW s \in HandlerState, Coherent(s), s.pc = "list",
         NEW A \in SUBSET Execution, NEW L \in SUBSET Execution
  PROVE  /\ [s EXCEPT !.pc = "dequeue", !.seen = A, !.locked = L] \in HandlerState
         /\ Coherent([s EXCEPT !.pc = "dequeue", !.seen = A, !.locked = L])
  BY DEF HandlerState, Coherent, Pcs

LEMMA StartingOK ==
  ASSUME NEW s \in HandlerState, Coherent(s), s.pc = "dequeue",
         NEW plan \in Plan, NEW L \in SUBSET Execution
  PROVE  /\ [s EXCEPT !.pc = "start", !.seen = {}, !.locked = L, !.plan = plan]
              \in HandlerState
         /\ Coherent([s EXCEPT !.pc = "start", !.seen = {}, !.locked = L,
                               !.plan = plan])
  BY DEF HandlerState, Coherent, Pcs

\* with a cancel or a resume to be written, and with kill orders to send.
LEMMA CancellingOK ==
  ASSUME NEW S \in SUBSET Execution, NEW K \in SUBSET S, NEW mode \in CancelModes
  PROVE  /\ [Idle EXCEPT !.pc = "cancel", !.arg = mode, !.targets = S, !.flagged = K]
              \in HandlerState
         /\ Coherent([Idle EXCEPT !.pc = "cancel", !.arg = mode, !.targets = S,
                                  !.flagged = K])
  BY IdleOK DEF Idle, HandlerState, Coherent, Pcs, Args

LEMMA ResumingOK ==
  ASSUME NEW e \in Execution
  PROVE  /\ [Idle EXCEPT !.pc = "resume", !.exec = e] \in HandlerState
         /\ Coherent([Idle EXCEPT !.pc = "resume", !.exec = e])
  BY IdleOK DEF Idle, HandlerState, Coherent, Pcs

LEMMA BroadcastingOK ==
  ASSUME NEW orders \in SUBSET Message
  PROVE  /\ [Idle EXCEPT !.pc = "broadcast", !.orders = orders] \in HandlerState
         /\ Coherent([Idle EXCEPT !.pc = "broadcast", !.orders = orders])
  BY IdleOK DEF Idle, HandlerState, Coherent, Pcs

\* Giving one handler a well formed state keeps them all well formed.
LEMMA HandlerUpdate ==
  ASSUME TypeOK, NEW h \in Handler, NEW s \in HandlerState, Coherent(s),
         handler' = [handler EXCEPT ![h] = s]
  PROVE  /\ handler' \in [Handler -> HandlerState]
         /\ \A g \in Handler : Coherent(handler'[g])
  BY DEF TypeOK

\* What a step says of one handler leaves the other ones alone.
LEMMA OtherHandlers ==
  ASSUME TypeOK, NEW h \in Handler, NEW s, handler' = [handler EXCEPT ![h] = s]
  PROVE  handler'[h] = s /\ \A g \in Handler \ {h} : handler'[g] = handler[g]
  BY DEF TypeOK

\* Messages rendered for executions are messages.
LEMMA RenderedType ==
  ASSUME TypeOK, NEW S \in SUBSET Execution
  PROVE  /\ Rendered(S) \in SUBSET Message
         /\ NewTokens(S) \in [Execution -> Nat]
  BY DEF TypeOK, Rendered, Message, NewTokens

\* Making executions pending gives the variables it changes their types.
LEMMA ActivateType ==
  ASSUME TypeOK, NEW h \in Handler, NEW S \in SUBSET Execution, NEW ungated,
         Activate(h, S, ungated)
  PROVE  /\ token' \in [Execution -> Nat]
         /\ bypassed' \subseteq Execution /\ overtaken' \subseteq Handler
<1>1. token' \in [Execution -> Nat]
  BY RenderedType DEF Activate
<1> QED BY <1>1 DEF Activate, TypeOK, Deciding

\* So does writing a plan.
LEMMA WritePlanType ==
  ASSUME TypeOK, NEW h \in Handler, WritePlan(h)
  PROVE  /\ status' \in [Execution -> Statuses]
         /\ token' \in [Execution -> Nat]
         /\ bypassed' \subseteq Execution /\ overtaken' \subseteq Handler
         /\ lost' \subseteq Execution
<1>1. handler[h].plan \in Plan
  BY DEF TypeOK, HandlerState
<1>2. status' \in [Execution -> Statuses]
  BY <1>1 DEF WritePlan, TypeOK, Plan, Statuses, ACTIVE_STATES, END_STATES, Running
<1>3. Starting(h) \in SUBSET Execution
  BY DEF Starting
<1>4. lost' \subseteq Execution
  BY DEF WritePlan, TypeOK
<1> QED BY <1>2, <1>3, <1>4, ActivateType DEF WritePlan

\* Detaching dead clients keeps handlers well formed.
LEMMA UnclientOK ==
  ASSUME NEW hs \in [Handler -> HandlerState], \A g \in Handler : Coherent(hs[g]),
         NEW dead
  PROVE  /\ Unclient(dead, hs) \in [Handler -> HandlerState]
         /\ \A g \in Handler : Coherent(Unclient(dead, hs)[g])
<1> SUFFICES ASSUME NEW g \in Handler
             PROVE  /\ Unclient(dead, hs)[g] \in HandlerState
                    /\ Coherent(Unclient(dead, hs)[g])
  BY DEF Unclient
<1>1. hs[g] \in HandlerState /\ Coherent(hs[g])
  OBVIOUS
<1>2. CASE hs[g].client \in dead
  <2>1. Unclient(dead, hs)[g] = [hs[g] EXCEPT !.client = NoTask]
    BY <1>2 DEF Unclient
  <2> QED BY <1>1, <2>1, SMTT(30) DEF HandlerState, Coherent
<1>3. CASE hs[g].client \notin dead
  BY <1>1, <1>3 DEF Unclient
<1> QED BY <1>2, <1>3

--------------------------------------------------------------------------
(* The type invariant. *)

\* What a creation plans is a status it may write.
LEMMA PostDecisionsType ==
  ASSUME TypeOK, NEW e \in Execution, NEW force, NEW queue,
         NEW decision \in PostDecisions(e, force, queue)
  PROVE  decision \in {"absent", "rejected", "queued", "pending", "failed", "cancelled"}
  BY DEF PostDecisions, GateDecision

\* Handler h locks `rows' and decides to refresh those in `picked'.
Selected(h, rows, picked, broken) ==
  /\ rows \in SUBSET Execution
  /\ picked \in SUBSET rows /\ broken \in SUBSET picked
  /\ IF handler[h].locked # {} THEN rows = handler[h].locked /\ picked = Oldest(rows)
     ELSE /\ rows = FirstOf(DequeueLimit, Eligible(handler[h].seen))
          /\ Emits(handler[h].seen, rows, picked)
  /\ handler' = [handler EXCEPT ![h] =
       [handler[h] EXCEPT !.pc = "start", !.seen = {}, !.locked = rows,
                          !.plan = Refreshed(picked, broken)]]

\* That is what DequeueSelect does.
LEMMA SelectedRows ==
  ASSUME TypeOK, NEW h \in Handler, DequeueSelect(h)
  PROVE  \E rows, picked, broken : Selected(h, rows, picked, broken)
<1> DEFINE rows == IF handler[h].locked # {} THEN handler[h].locked
                   ELSE FirstOf(DequeueLimit, Eligible(handler[h].seen))
<1>1. rows \in SUBSET Execution
  BY DEF TypeOK, HandlerState, FirstOf, Eligible, Queued, InState
<1>2. PICK picked \in SUBSET rows : \E broken \in SUBSET picked :
        /\ IF handler[h].locked # {} THEN picked = Oldest(rows)
           ELSE Emits(handler[h].seen, rows, picked)
        /\ handler' = [handler EXCEPT ![h] =
             [handler[h] EXCEPT !.pc = "start", !.seen = {}, !.locked = rows,
                                !.plan = Refreshed(picked, broken)]]
  BY DEF DequeueSelect
<1> QED BY <1>1, <1>2, ZenonT(40) DEF Selected

\* Each action of the specification preserves the type invariant.
LEMMA TypeStep == TypeOK /\ [Next]_vars => TypeOK'
<1> SUFFICES ASSUME TypeOK, [Next]_vars PROVE TypeOK'
  OBVIOUS
<1> USE DEF Statuses, ACTIVE_STATES, END_STATES, Running, Cancelling
<1>1. ASSUME NEW h \in Handler, NEW e \in Execution, NEW force, NEW queue,
             Post(h, e, force, queue)
      PROVE  TypeOK'
  <2>1. PICK d \in PostDecisions(e, force, queue) :
          handler' = [handler EXCEPT ![h] =
                        [Idle EXCEPT !.pc = "post", !.plan[e] = d,
                                     !.flagged = GateClosed({e})]]
    BY <1>1 DEF Post
  <2>2. [Idle.plan EXCEPT ![e] = d] \in Plan /\ GateClosed({e}) \in SUBSET Execution
    BY PostDecisionsType DEF Idle, NoPlan, Plan, GateClosed
  <2>3. [Idle EXCEPT !.pc = "post", !.plan[e] = d, !.flagged = GateClosed({e})] =
          [Idle EXCEPT !.pc = "post", !.plan = [Idle.plan EXCEPT ![e] = d],
                       !.flagged = GateClosed({e})]
    BY DEF Idle
  <2> QED BY <1>1, <2>1, <2>2, <2>3, PostingOK, HandlerUpdate DEF Post, TypeOK
<1>2. ASSUME NEW h \in Handler, PostCommit(h)
      PROVE  TypeOK'
  <2>1. Starting(h) \in SUBSET Execution
    BY DEF Starting
  <2>2. handler' = [handler EXCEPT ![h] = Publishing(Rendered(Starting(h)))]
    BY <1>2 DEF PostCommit
  <2>3. /\ handler' \in [Handler -> HandlerState]
        /\ \A g \in Handler : Coherent(handler'[g])
    BY <2>1, <2>2, RenderedType, PublishingOK, HandlerUpdate
  <2> QED BY <1>2, <2>3, WritePlanType DEF PostCommit, TypeOK
<1>3. ASSUME NEW h \in Handler, Publish(h)
      PROVE  TypeOK'
  <2>1. PICK m \in handler[h].out :
          /\ mq' = mq \cup {m}
          /\ handler' = [handler EXCEPT ![h] = Publishing(handler[h].out \ {m})]
    BY <1>3 DEF Publish
  <2>2. handler[h].out \in SUBSET Message
    BY DEF TypeOK, HandlerState
  <2> QED BY <1>3, <2>1, <2>2, PublishingOK, HandlerUpdate DEF Publish, TypeOK
<1>4. ASSUME NEW h \in Handler, UpdateCommit(h)
      PROVE  TypeOK'
  <2>1. /\ handler[h].exec \in Execution
        /\ handler[h].arg \in END_STATES \cup {"started"}
    BY <1>4 DEF UpdateCommit, TypeOK, Coherent
  <2>2. /\ [Idle EXCEPT !.pc = "list"] \in HandlerState
        /\ Coherent([Idle EXCEPT !.pc = "list"])
    BY IdleOK DEF Idle, HandlerState, Coherent, Pcs
  <2>3. \E s \in {Idle, [Idle EXCEPT !.pc = "list"]} :
          handler' = [handler EXCEPT ![h] = s]
    BY <1>4 DEF UpdateCommit
  <2>4. status' \in [Execution -> Statuses]
    BY <1>4, <2>1 DEF UpdateCommit, TypeOK
  <2>5. run' \subseteq Task /\ lost' \subseteq Execution /\ bypassed' \subseteq Execution
    BY <1>4, <2>1 DEF UpdateCommit, TypeOK
  <2>6. /\ handler' \in [Handler -> HandlerState]
        /\ \A g \in Handler : Coherent(handler'[g])
    BY <2>2, <2>3, IdleOK, HandlerUpdate
  <2> QED BY <1>4, <2>4, <2>5, <2>6 DEF UpdateCommit, TypeOK
<1>5. ASSUME NEW h \in Handler, DequeueList(h)
      PROVE  TypeOK'
  <2> DEFINE s == [handler[h] EXCEPT !.pc = "dequeue", !.seen = Active,
                                     !.locked = Queued \cap System]
  <2>1. handler' = [handler EXCEPT ![h] = s]
    BY <1>5 DEF DequeueList, TypeOK
  <2>2. s \in HandlerState /\ Coherent(s)
    <3>1. handler[h] \in HandlerState /\ Coherent(handler[h]) /\ handler[h].pc = "list"
      BY <1>5 DEF TypeOK, DequeueList
    <3>2. Active \in SUBSET Execution /\ Queued \cap System \in SUBSET Execution
      BY DEF Active, Queued, InState
    <3> QED BY <3>1, <3>2, DequeuingOK
  <2> QED BY <1>5, <2>1, <2>2, HandlerUpdate DEF DequeueList, TypeOK
<1>6. ASSUME NEW h \in Handler, DequeueSelect(h)
      PROVE  TypeOK'
  <2>1. PICK rows, picked, broken : Selected(h, rows, picked, broken)
    BY <1>6, SelectedRows
  <2>2. Refreshed(picked, broken) \in Plan
    BY DEF Refreshed, Plan
  <2>3. handler[h] \in HandlerState /\ Coherent(handler[h]) /\ handler[h].pc = "dequeue"
    BY <1>6 DEF TypeOK, DequeueSelect
  <2>4. /\ handler' \in [Handler -> HandlerState]
        /\ \A g \in Handler : Coherent(handler'[g])
    BY <2>1, <2>2, <2>3, StartingOK, HandlerUpdate DEF Selected
  <2> QED BY <1>6, <2>4 DEF DequeueSelect, TypeOK
<1>24. ASSUME NEW h \in Handler, DequeueCommit(h)
      PROVE  TypeOK'
  <2> DEFINE out == handler[h].out \cup Rendered(Starting(h))
             s == [Idle EXCEPT !.pc = "list", !.out = out,
                               !.retry = handler[h].retry + 1]
  <2>1. Starting(h) \in SUBSET Execution /\ handler[h].out \in SUBSET Message
    BY DEF Starting, TypeOK, HandlerState
  <2>2. out \in SUBSET Message
    BY <2>1, RenderedType
  <2>3. handler[h].retry + 1 \in Nat
    BY DEF TypeOK, HandlerState
  <2>4. s \in HandlerState /\ Coherent(s)
    BY <2>2, <2>3, ListingOK
  <2>5. \E t \in {Publishing(out), s} : handler' = [handler EXCEPT ![h] = t]
    BY <1>24 DEF DequeueCommit
  <2>6. /\ handler' \in [Handler -> HandlerState]
        /\ \A g \in Handler : Coherent(handler'[g])
    BY <2>2, <2>4, <2>5, PublishingOK, HandlerUpdate
  <2> QED BY <1>24, <2>6, WritePlanType DEF DequeueCommit, TypeOK
<1>7. ASSUME NEW h \in Handler, CancelCommit(h)
      PROVE  TypeOK'
  <2> DEFINE S == handler[h].targets
             K == handler[h].flagged
  <2>1. S \in SUBSET Execution /\ K \in SUBSET S /\ handler[h].arg \in CancelModes
    BY <1>7 DEF CancelCommit, TypeOK, HandlerState, Coherent
  <2>2. CancelStatus(handler[h].arg) \in Statuses
    BY <2>1 DEF CancelStatus, CancelModes
  <2>3. status' \in [Execution -> Statuses]
    BY <1>7, <2>2 DEF CancelCommit, TypeOK
  <2>4. token' \in [Execution -> Nat] /\ Rendered(K) \in SUBSET Message
    BY <1>7, <2>1, RenderedType DEF CancelCommit
  <2>5. bypassed' \subseteq Execution /\ lost' \subseteq Execution
    BY <1>7, <2>1 DEF CancelCommit, TypeOK
  <2>6. handler' = [handler EXCEPT ![h] =
                      [Idle EXCEPT !.pc = "broadcast", !.orders = Rendered(K)]]
    BY <1>7 DEF CancelCommit
  <2>7. /\ handler' \in [Handler -> HandlerState]
        /\ \A g \in Handler : Coherent(handler'[g])
    BY <2>4, <2>6, BroadcastingOK, HandlerUpdate
  <2> QED BY <1>7, <2>3, <2>4, <2>5, <2>7 DEF CancelCommit, TypeOK
<1>8. ASSUME NEW h \in Handler, Broadcast(h)
      PROVE  TypeOK'
  <2>1. handler[h].orders \in SUBSET Message
    BY DEF TypeOK, HandlerState
  <2>2. kills' \subseteq Task
    BY <1>8, <2>1 DEF Broadcast, TypeOK, Message, Task
  <2> QED BY <1>8, <2>2, IdleOK, HandlerUpdate DEF Broadcast, TypeOK
<1>9. ASSUME NEW h \in Handler, ResumeCommit(h)
      PROVE  TypeOK'
  <2>1. handler[h].exec \in Execution
    BY <1>9 DEF ResumeCommit, TypeOK, Coherent
  <2>2. status' \in [Execution -> Statuses]
    BY <1>9, <2>1 DEF ResumeCommit, TypeOK
  <2> DEFINE e == handler[h].exec
  <2>3. /\ Activate(h, {e}, GateClosed({e}))
        /\ handler' = [handler EXCEPT ![h] = Publishing(Rendered({e}))]
    BY <1>9 DEF ResumeCommit
  <2>4. /\ handler' \in [Handler -> HandlerState]
        /\ \A g \in Handler : Coherent(handler'[g])
    BY <2>1, <2>3, RenderedType, PublishingOK, HandlerUpdate
  <2> QED BY <1>9, <2>1, <2>2, <2>3, <2>4, ActivateType DEF ResumeCommit, TypeOK
<1>10. ASSUME NEW h \in Handler, NEW S \in SUBSET Execution, NEW mode \in CancelModes,
              CancelRead(h, S, mode)
       PROVE  TypeOK'
  <2>1. {e \in S : KillFlag(mode, status[e])} \in SUBSET S
    OBVIOUS
  <2>2. requests' \in Nat
    BY <1>10 DEF CancelRead, TypeOK
  <2>3. /\ handler' \in [Handler -> HandlerState]
        /\ \A g \in Handler : Coherent(handler'[g])
    BY <1>10, <2>1, CancellingOK, HandlerUpdate DEF CancelRead
  <2> QED BY <1>10, <2>2, <2>3 DEF CancelRead, TypeOK
<1>11. ASSUME NEW h \in Handler, NEW e \in Execution, NEW force, ResumeRead(h, e, force)
       PROVE  TypeOK'
  <2>1. requests' \in Nat
    BY <1>11 DEF ResumeRead, TypeOK
  <2>2. /\ handler' \in [Handler -> HandlerState]
        /\ \A g \in Handler : Coherent(handler'[g])
    BY <1>11, ResumingOK, HandlerUpdate DEF ResumeRead
  <2> QED BY <1>11, <2>1, <2>2 DEF ResumeRead, TypeOK
<1>12. ASSUME NEW h \in Handler, NEW t \in run,
              NEW st \in END_STATES \cup {"started"}, Report(h, t, st)
       PROVE  TypeOK'
  <2>1. t \in Task /\ t.exec \in Execution
    BY DEF TypeOK, Task
  <2>2. PICK final \in Reported(t.exec, st) :
          handler' = [handler EXCEPT ![h] =
                        [Idle EXCEPT !.pc = "update", !.exec = t.exec,
                                     !.arg = final, !.client = t]]
    BY <1>12 DEF Report, Receive
  <2>3. final \in END_STATES \cup {"started"}
    BY DEF Reported
  <2>4. /\ handler' \in [Handler -> HandlerState]
        /\ \A g \in Handler : Coherent(handler'[g])
    BY <2>1, <2>2, <2>3, UpdatingOK, HandlerUpdate
  <2> QED BY <1>12, <2>4 DEF Report, TypeOK
<1>13. ASSUME NEW w \in Worker, NEW m \in mq, Consume(w, m)
       PROVE  TypeOK'
  BY <1>13 DEF Consume, TypeOK, Message, Task
<1>14. ASSUME NEW t \in run, RunDenied(t)
       PROVE  TypeOK'
  BY <1>14 DEF RunDenied, TypeOK
<1>15. ASSUME NEW h \in Handler, NEW k \in kills, KillTask(h, k)
       PROVE  TypeOK'
  <2>1. k \in Task /\ k.exec \in Execution
    BY DEF TypeOK, Task
  <2>2. PICK final \in Reported(k.exec, "cancelled") :
          handler' = Unclient(Killed(k),
                       [handler EXCEPT ![h] =
                          [Idle EXCEPT !.pc = "update", !.exec = k.exec,
                                       !.arg = final]])
    BY <1>15 DEF KillTask
  <2> DEFINE s == [Idle EXCEPT !.pc = "update", !.exec = k.exec, !.arg = final]
  <2>3. final \in END_STATES \cup {"started"}
    BY DEF Reported
  <2>4. s \in HandlerState /\ Coherent(s)
    BY <2>1, <2>3, IdleOK DEF Idle, HandlerState, Coherent, Pcs, Args
  <2>5. /\ [handler EXCEPT ![h] = s] \in [Handler -> HandlerState]
        /\ \A g \in Handler : Coherent([handler EXCEPT ![h] = s][g])
    BY <2>4 DEF TypeOK
  <2>6. /\ handler' \in [Handler -> HandlerState]
        /\ \A g \in Handler : Coherent(handler'[g])
    BY <2>2, <2>5, UnclientOK
  <2>7. run' \subseteq Task /\ kills' \subseteq Task
    BY <1>15 DEF KillTask, TypeOK
  <2> QED BY <1>15, <2>6, <2>7 DEF KillTask, TypeOK
<1>16. ASSUME NEW k \in kills, KillTaskDenied(k)
       PROVE  TypeOK'
  <2>1. /\ handler' \in [Handler -> HandlerState]
        /\ \A g \in Handler : Coherent(handler'[g])
    BY <1>16, UnclientOK DEF KillTaskDenied, TypeOK
  <2>2. lost' \subseteq Execution
    <3>1. \A u \in Killed(k) : u.exec \in Execution
      BY DEF Killed, TypeOK, Task
    <3>2. {t.exec : t \in {u \in Killed(k) : ~Denied(u)}} \subseteq Execution
      BY <3>1
    <3> QED BY <1>16, <3>2 DEF KillTaskDenied, TypeOK
  <2> QED BY <1>16, <2>1, <2>2 DEF KillTaskDenied, TypeOK
<1>17. ASSUME NEW w \in Worker, WorkerCrash(w)
       PROVE  TypeOK'
  <2>1. /\ handler' \in [Handler -> HandlerState]
        /\ \A g \in Handler : Coherent(handler'[g])
    BY <1>17, UnclientOK DEF WorkerCrash, TypeOK
  <2>2. mq' \subseteq Message
    BY <1>17 DEF WorkerCrash, TypeOK, Task, Message
  <2> QED BY <1>17, <2>1, <2>2 DEF WorkerCrash, TypeOK
<1>18. ASSUME NEW h \in Handler, HandlerCrash(h)
       PROVE  TypeOK'
  <2>1. /\ handler' \in [Handler -> HandlerState]
        /\ \A g \in Handler : Coherent(handler'[g])
    BY <1>18, IdleOK, HandlerUpdate DEF HandlerCrash
  <2>2. status' \in [Execution -> Statuses]
    BY <1>18 DEF HandlerCrash, TypeOK
  <2>3. /\ handler[h].out \cup handler[h].orders \in SUBSET Message
        /\ handler[h].pc = "update" => handler[h].exec \in Execution
    BY DEF TypeOK, HandlerState, Coherent
  <2>4. lost' \subseteq Execution
    <3> DEFINE M == handler[h].out \cup handler[h].orders
    <3>1. \A m \in M : m.exec \in Execution
      BY <2>3 DEF Message
    <3>2. {m.exec : m \in M} \subseteq Execution
      BY <3>1
    <3> QED BY <1>18, <2>3, <3>2 DEF HandlerCrash, TypeOK
  <2> QED BY <1>18, <2>1, <2>2, <2>4 DEF HandlerCrash, TypeOK
<1>19. CASE UNCHANGED vars
  BY <1>19 DEF vars, TypeOK
<1>20. ASSUME NEW h \in Handler, HandlerStep(h) PROVE TypeOK'
  BY <1>20, <1>2, <1>3, <1>4, <1>5, <1>6, <1>7, <1>8, <1>9, <1>24
     DEF HandlerStep
<1>21. ASSUME NEW h \in Handler, UserRequest(h) PROVE TypeOK'
  BY <1>21, <1>1, <1>10, <1>11 DEF UserRequest
<1>22. CASE WorkerStep
  BY <1>22, <1>12, <1>13, <1>14, <1>15, <1>16
     DEF WorkerStep, ReportStarted, ReportDone, ReportCancelled
<1>23. CASE Crash
  BY <1>23, <1>17, <1>18 DEF Crash
<1> QED BY <1>19, <1>20, <1>21, <1>22, <1>23 DEF Next

\* The variables of the specification always have their types.
THEOREM TypeCorrect == Spec => []TypeOK
<1>1. Init => TypeOK
  BY IdleOK DEF Init, TypeOK, Statuses, MaintenanceStates
<1> QED BY <1>1, TypeStep, PTL DEF Spec

--------------------------------------------------------------------------
(***************************************************************************)
(* Exclusion.  An execution that conflicts with an active one finds its    *)
(* gate closed; the executions one dequeue starts are not in conflict with *)
(* each other, because it emits either one system execution or at most one *)
(* execution of each deployment.                                           *)
(***************************************************************************)

\* Conflict is symmetric.
LEMMA ConflictSymmetric ==
  ASSUME NEW e \in Execution, NEW f \in Execution, Conflict(e, f)
  PROVE  Conflict(f, e)
  BY DEF Conflict, SameDeployment

\* The gate of an execution is closed while one it conflicts with is active.
LEMMA GateSeesConflict ==
  ASSUME NEW e \in Execution, NEW f \in Active, Conflict(e, f)
  PROVE  MustQueue(e)
<1>1. f \in Execution \ {e}
  BY DEF Active, InState, Conflict
<1>2. CASE e \in System
  BY <1>1, <1>2 DEF MustQueue, AnyActive
<1>3. CASE e \notin System /\ f \in System
  BY <1>3 DEF MustQueue, SystemBusy
<1>4. CASE e \notin System /\ f \notin System
  BY <1>1, <1>4 DEF MustQueue, DeploymentBusy, Conflict
<1> QED BY <1>2, <1>3, <1>4

\* The inductive invariant: besides exclusion, that decisions which no other
\* start has overtaken still hold when they are committed.
Separation == Exclusive /\ DecisionsHold

\* A step that makes nothing active without recording it as bypassing the gate,
\* and leaves the decisions of the others alone, keeps executions separated.
LEMMA SeparationKept ==
  ASSUME Separation, Active' \subseteq Active \cup bypassed',
         bypassed \subseteq bypassed',
         \A g \in Deciding' \ overtaken' :
           /\ g \in Deciding \ overtaken
           /\ handler'[g].plan = handler[g].plan
           /\ handler'[g].flagged = handler[g].flagged
  PROVE  Separation'
<1>1. Exclusive'
  BY DEF Separation, Exclusive, Conflict, SameDeployment
<1>2. ASSUME NEW g \in Deciding' \ overtaken' PROVE DecisionHolds(g)'
  <2>1. DecisionHolds(g) /\ Starting(g)' = Starting(g)
    BY <1>2 DEF Separation, DecisionsHold, Starting
  <2> QED BY <1>2, <2>1 DEF DecisionHolds, Conflict, SameDeployment
<1> QED BY <1>1, <1>2 DEF Separation, DecisionsHold

\* So does one that changes no status and enters no decision.
LEMMA SeparationIdle ==
  ASSUME TypeOK, Separation, UNCHANGED <<status, bypassed, overtaken>>,
         \A g \in Handler : \/ handler'[g].pc \notin {"post", "start", "group"}
                            \/ /\ handler'[g].plan = handler[g].plan
                               /\ handler'[g].flagged = handler[g].flagged
                               /\ handler'[g].pc = handler[g].pc
  PROVE  Separation'
<1>1. Active' = Active
  BY DEF Active, InState
<1> QED BY <1>1, SeparationKept DEF Deciding

\* Handler h makes the executions of S active on a decision that holds.
LEMMA SeparationActivate ==
  ASSUME Separation, NEW h \in Handler, NEW S \in SUBSET Execution, NEW ungated,
         Activate(h, S, ungated), Active' \subseteq Active \cup S,
         \A e \in S \ ungated :
           /\ \A f \in Active : Conflict(e, f) => f \in bypassed
           /\ \A f \in S : ~Conflict(e, f),
         handler'[h].pc \notin {"post", "start", "group"},
         \A g \in Handler \ {h} : handler'[g] = handler[g]
  PROVE  Separation'
<1>1. bypassed' = (bypassed \ S) \cup (S \cap ungated)
  BY DEF Activate
<1>2. ASSUME NEW e \in Active', NEW f \in Active', Conflict(e, f)
      PROVE  e \in bypassed' \/ f \in bypassed'
  <2>0. e \in Execution /\ f \in Execution /\ Conflict(f, e)
    BY <1>2, ConflictSymmetric DEF Active, InState
  <2>1. CASE e \in S /\ e \notin ungated
    BY <1>1, <1>2, <2>1
  <2>2. CASE f \in S /\ f \notin ungated
    BY <1>1, <1>2, <2>0, <2>2
  <2>3. CASE (e \in S /\ e \in ungated) \/ (f \in S /\ f \in ungated)
    BY <1>1, <2>3
  <2>4. CASE e \notin S /\ f \notin S
    BY <1>1, <1>2, <2>4 DEF Separation, Exclusive
  <2> QED BY <2>1, <2>2, <2>3, <2>4
<1>3. Exclusive'
  BY <1>2 DEF Exclusive, Conflict, SameDeployment
<1>4. CASE S = {}
  BY <1>1, <1>4, SeparationKept DEF Activate, Deciding
<1>5. CASE S # {}
  <2>1. Deciding' \ overtaken' = {}
    BY <1>5 DEF Activate, Deciding
  <2> QED BY <1>3, <2>1 DEF Separation, DecisionsHold
<1> QED BY <1>4, <1>5

\* Writing a plan is such a step.
LEMMA SeparationWritePlan ==
  ASSUME TypeOK, Separation, NEW h \in Deciding, WritePlan(h),
         handler'[h].pc \notin {"post", "start", "group"},
         \A g \in Handler \ {h} : handler'[g] = handler[g]
  PROVE  Separation'
<1> DEFINE S == Starting(h)
           ungated == IF h \in overtaken THEN Execution ELSE handler[h].flagged
<1>1. h \in Handler /\ S \in SUBSET Execution /\ Activate(h, S, ungated)
  BY DEF Deciding, Starting, WritePlan
<1>2. Active' \subseteq Active \cup S
  <2>1. handler[h].plan \in Plan
    BY <1>1 DEF TypeOK, HandlerState
  <2> QED BY <2>1 DEF WritePlan, Active, InState, Starting, Plan, ACTIVE_STATES,
                      Running, Cancelling
<1>3. \A e \in S \ ungated :
        /\ \A f \in Active : Conflict(e, f) => f \in bypassed
        /\ \A f \in S : ~Conflict(e, f)
  BY <1>1 DEF Separation, DecisionsHold, DecisionHolds
<1> QED BY <1>1, <1>2, <1>3, SeparationActivate

\* What one dequeue emits is free of conflicts: either one system execution or
\* at most one execution of each deployment.
LEMMA EmittedApart ==
  ASSUME TypeOK, NEW h \in Handler, NEW rows \in SUBSET Execution,
         NEW picked \in SUBSET rows,
         IF handler[h].locked # {} THEN picked = Oldest(rows)
         ELSE /\ rows = FirstOf(DequeueLimit, Eligible(handler[h].seen))
              /\ Emits(handler[h].seen, rows, picked),
         NEW e \in picked, NEW f \in picked
  PROVE  ~Conflict(e, f)
<1>1. e \in Execution /\ f \in Execution /\ e \in Nat /\ f \in Nat
  OBVIOUS
<1>2. CASE handler[h].locked # {}
  <2>1. e <= f /\ f <= e
    BY <1>2 DEF Oldest
  <2> QED BY <1>1, <2>1 DEF Conflict
<1>3. CASE handler[h].locked = {}
  <2>1. /\ rows = FirstOf(DequeueLimit, Eligible(handler[h].seen))
        /\ Emits(handler[h].seen, rows, picked)
    BY <1>3
  <2>2. e \notin System /\ f \notin System
    BY <2>1 DEF FirstOf, Eligible
  <2>3. f < e => DeploymentOf[f] # DeploymentOf[e]
    BY <2>1 DEF Emits
  <2>4. e < f => DeploymentOf[e] # DeploymentOf[f]
    BY <2>1 DEF Emits
  <2> QED BY <1>1, <2>2, <2>3, <2>4 DEF Conflict, SameDeployment
<1> QED BY <1>2, <1>3

\* A new decision holds when it is taken, and disturbs no other one.
LEMMA SeparationDecide ==
  ASSUME TypeOK, Separation, NEW h \in Handler,
         UNCHANGED <<status, bypassed, overtaken>>,
         \A g \in Handler \ {h} : handler'[g] = handler[g],
         \A e \in Starting(h)' \ handler'[h].flagged :
           /\ ~MustQueue(e)
           /\ \A f \in Starting(h)' : ~Conflict(e, f)
  PROVE  Separation'
<1>1. Active' = Active
  BY DEF Active, InState
<1>2. Exclusive'
  BY <1>1 DEF Separation, Exclusive, Conflict, SameDeployment
<1>3. DecisionHolds(h)'
  <2> SUFFICES ASSUME NEW e \in Starting(h)' \ handler'[h].flagged
               PROVE  /\ \A f \in Active : ~Conflict(e, f)
                      /\ \A f \in Starting(h)' : ~Conflict(e, f)
    BY <1>1 DEF DecisionHolds, Conflict, SameDeployment
  <2>1. e \in Execution
    BY DEF Starting
  <2> QED BY <2>1, GateSeesConflict
<1>4. ASSUME NEW g \in Deciding' \ overtaken', g # h PROVE DecisionHolds(g)'
  <2>1. g \in Handler /\ handler'[g] = handler[g] /\ g \in Deciding \ overtaken
    BY <1>4 DEF Deciding
  <2>2. DecisionHolds(g) /\ Starting(g)' = Starting(g)
    BY <2>1 DEF Separation, DecisionsHold, Starting
  <2> QED BY <1>1, <2>1, <2>2 DEF DecisionHolds, Conflict, SameDeployment
<1> QED BY <1>2, <1>3, <1>4 DEF Separation, DecisionsHold

\* Each action of the specification keeps executions separated.
LEMMA SeparationStep == TypeOK /\ Separation /\ [Next]_vars => Separation'
<1> SUFFICES ASSUME TypeOK, Separation, [Next]_vars PROVE Separation'
  OBVIOUS
<1> USE DEF ACTIVE_STATES, END_STATES, Running, Cancelling
<1>0. handler \in [Handler -> HandlerState] /\ status \in [Execution -> Statuses]
  BY DEF TypeOK
<1>1. ASSUME NEW h \in Handler, NEW e \in Execution, NEW force, NEW queue,
             Post(h, e, force, queue)
      PROVE  Separation'
  <2>1. PICK d \in PostDecisions(e, force, queue) :
          handler' = [handler EXCEPT ![h] =
                        [Idle EXCEPT !.pc = "post", !.plan[e] = d,
                                     !.flagged = GateClosed({e})]]
    BY <1>1 DEF Post
  <2>2. handler'[h] = [Idle EXCEPT !.pc = "post", !.plan[e] = d,
                                   !.flagged = GateClosed({e})]
    BY <1>0, <2>1
  <2>3. Starting(h)' \subseteq {e} /\ handler'[h].flagged = GateClosed({e})
    BY <2>2 DEF Starting, Idle, NoPlan
  <2>4. \A x \in Starting(h)' \ handler'[h].flagged :
          ~MustQueue(x) /\ \A f \in Starting(h)' : ~Conflict(x, f)
    BY <2>3 DEF GateClosed
  <2> QED BY <1>0, <1>1, <2>1, <2>4, SeparationDecide DEF Post
<1>2. ASSUME NEW h \in Handler, PostCommit(h) PROVE Separation'
  <2>1. h \in Deciding /\ WritePlan(h)
    BY <1>2 DEF PostCommit, Deciding
  <2>2. handler'[h].pc \notin {"post", "start", "group"}
    BY <1>0, <1>2 DEF PostCommit, Publishing, Idle
  <2> QED BY <1>0, <1>2, <2>1, <2>2, SeparationWritePlan DEF PostCommit
<1>3. ASSUME NEW h \in Handler, DequeueSelect(h) PROVE Separation'
  <2>1. PICK rows, picked, broken : Selected(h, rows, picked, broken)
    BY <1>3, SelectedRows
  <2>2. handler'[h].plan = Refreshed(picked, broken)
    BY <1>0, <2>1 DEF Selected, HandlerState
  <2>3. Starting(h)' \subseteq {x \in picked : ~MustQueue(x)}
    BY <2>2 DEF Starting, Refreshed
  <2>4. \A x \in picked, f \in picked : ~Conflict(x, f)
    BY <2>1, EmittedApart DEF Selected
  <2> QED BY <1>0, <1>3, <2>1, <2>3, <2>4, SeparationDecide DEF DequeueSelect, Selected
<1>4. ASSUME NEW h \in Handler, DequeueCommit(h) PROVE Separation'
  <2>1. h \in Deciding /\ WritePlan(h)
    BY <1>4 DEF DequeueCommit, Deciding
  <2>2. handler'[h].pc \notin {"post", "start", "group"}
    BY <1>0, <1>4 DEF DequeueCommit, Publishing, Idle
  <2> QED BY <1>0, <1>4, <2>1, <2>2, SeparationWritePlan DEF DequeueCommit
<1>5. ASSUME NEW h \in Handler, ResumeCommit(h) PROVE Separation'
  <2> DEFINE e == handler[h].exec
  <2>1. e \in Execution
    BY <1>5 DEF ResumeCommit, TypeOK, Coherent
  <2>2. Active' \subseteq Active \cup {e} /\ Activate(h, {e}, GateClosed({e}))
    BY <1>5 DEF ResumeCommit, Active, InState, TypeOK
  <2>3. \A x \in {e} \ GateClosed({e}) :
          /\ \A f \in Active : Conflict(x, f) => f \in bypassed
          /\ \A f \in {e} : ~Conflict(x, f)
    BY <2>1, GateSeesConflict DEF GateClosed
  <2>4. handler'[h].pc \notin {"post", "start", "group"}
    BY <1>0, <1>5 DEF ResumeCommit, Publishing, Idle
  <2>5. \A g \in Handler \ {h} : handler'[g] = handler[g]
    BY <1>0, <1>5 DEF ResumeCommit
  <2> HIDE DEF e
  <2> QED BY <2>1, <2>2, <2>3, <2>4, <2>5, SeparationActivate
<1>6. ASSUME NEW h \in Handler, UpdateCommit(h) PROVE Separation'
  <2> DEFINE e == handler[h].exec
  <2>1. e \in Execution /\ handler[h].arg \in END_STATES \cup {"started"}
    BY <1>6 DEF UpdateCommit, TypeOK, Coherent
  <2>2. bypassed \subseteq bypassed' /\ Active' \subseteq Active \cup bypassed'
    BY <1>0, <1>6, <2>1 DEF UpdateCommit, Active, InState
  <2>3. /\ overtaken' = overtaken
        /\ \A g \in Handler \ {h} : handler'[g] = handler[g]
        /\ handler'[h].pc \notin {"post", "start", "group"}
    <3>1. PICK s \in {Idle, [Idle EXCEPT !.pc = "list"]} :
            handler' = [handler EXCEPT ![h] = s]
      BY <1>6 DEF UpdateCommit
    <3>2. Idle.pc = "idle" /\ [Idle EXCEPT !.pc = "list"].pc = "list"
      BY DEF Idle
    <3> QED BY <1>6, <3>1, <3>2, OtherHandlers DEF UpdateCommit
  <2> QED BY <2>2, <2>3, SeparationKept DEF Deciding
<1>7. ASSUME NEW h \in Handler, CancelCommit(h) PROVE Separation'
  <2>1. bypassed \subseteq bypassed' /\ Active' \subseteq Active \cup bypassed'
    BY <1>7 DEF CancelCommit, Active, InState
  <2>2. /\ overtaken' = overtaken
        /\ \A g \in Handler \ {h} : handler'[g] = handler[g]
        /\ handler'[h].pc \notin {"post", "start", "group"}
    BY <1>0, <1>7 DEF CancelCommit, Idle
  <2> QED BY <2>1, <2>2, SeparationKept DEF Deciding
<1>8. ASSUME NEW h \in Handler, HandlerCrash(h) PROVE Separation'
  <2>1. Active' \subseteq Active /\ bypassed' = bypassed
    BY <1>8 DEF HandlerCrash, Active, InState
  <2>2. /\ overtaken' = overtaken \ {h}
        /\ \A g \in Handler \ {h} : handler'[g] = handler[g]
        /\ handler'[h].pc \notin {"post", "start", "group"}
    BY <1>0, <1>8 DEF HandlerCrash, Idle
  <2> QED BY <2>1, <2>2, SeparationKept DEF Deciding
<1>9. ASSUME NEW h \in Handler,
             Publish(h) \/ DequeueList(h) \/ Broadcast(h)
      PROVE  Separation'
  <2>1. UNCHANGED <<status, bypassed, overtaken>>
    BY <1>9 DEF Publish, DequeueList, Broadcast
  <2>2. \A g \in Handler : \/ handler'[g] = handler[g]
                           \/ handler'[g].pc \notin {"post", "start", "group"}
    <3>1. CASE Publish(h)
      <4>1. PICK out : handler' = [handler EXCEPT ![h] = Publishing(out)]
        BY <3>1 DEF Publish
      <4>2. Publishing(out).pc \in {"idle", "publish"}
        BY DEF Publishing, Idle
      <4> QED BY <4>1, <4>2, OtherHandlers
    <3>2. CASE DequeueList(h)
      BY <1>0, <3>2 DEF DequeueList, HandlerState
    <3>3. CASE Broadcast(h)
      <4>1. handler' = [handler EXCEPT ![h] = Idle] /\ Idle.pc = "idle"
        BY <3>3 DEF Broadcast, Idle
      <4> QED BY <4>1, OtherHandlers
    <3> QED BY <1>9, <3>1, <3>2, <3>3
  <2> QED BY <2>1, <2>2, SeparationIdle
<1>10. ASSUME NEW h \in Handler, NEW e \in Execution,
              \/ \E mode \in CancelModes : CancelRead(h, {e}, mode)
              \/ \E force \in BOOLEAN : ResumeRead(h, e, force)
       PROVE  Separation'
  <2>1. UNCHANGED <<status, bypassed, overtaken>>
    BY <1>10 DEF CancelRead, ResumeRead
  <2>2. \A g \in Handler : \/ handler'[g] = handler[g]
                           \/ handler'[g].pc \notin {"post", "start", "group"}
    <3>1. ASSUME NEW mode, CancelRead(h, {e}, mode)
          PROVE  handler'[h].pc = "cancel" /\ \A g \in Handler \ {h} : handler'[g] = handler[g]
      <4> DEFINE K == {x \in {e} : KillFlag(mode, status[x])}
                 s == [Idle EXCEPT !.pc = "cancel", !.arg = mode, !.targets = {e},
                                   !.flagged = K]
      <4>1. handler' = [handler EXCEPT ![h] = s]
        BY <3>1 DEF CancelRead
      <4>2. s.pc = "cancel"
        BY DEF Idle
      <4> QED BY <4>1, <4>2, OtherHandlers
    <3>2. ASSUME NEW force, ResumeRead(h, e, force)
          PROVE  handler'[h].pc = "resume" /\ \A g \in Handler \ {h} : handler'[g] = handler[g]
      <4> DEFINE s == [Idle EXCEPT !.pc = "resume", !.exec = e]
      <4>1. handler' = [handler EXCEPT ![h] = s]
        BY <3>2 DEF ResumeRead
      <4>2. s.pc = "resume"
        BY DEF Idle
      <4> QED BY <4>1, <4>2, OtherHandlers
    <3> QED BY <1>10, <3>1, <3>2
  <2> QED BY <2>1, <2>2, SeparationIdle
<1>11. CASE WorkerStep \/ \E w \in Worker : WorkerCrash(w)
  <2>1. UNCHANGED <<status, bypassed, overtaken>>
    BY <1>11 DEF WorkerStep, Consume, RunDenied, KillTaskDenied, KillTask,
                 ReportStarted, ReportDone, ReportCancelled, Report, WorkerCrash
  <2>2. ASSUME NEW dead, handler' = Unclient(dead, handler)
        PROVE  \A g \in Handler : \/ handler'[g].pc \notin {"post", "start", "group"}
                                  \/ /\ handler'[g].plan = handler[g].plan
                                     /\ handler'[g].flagged = handler[g].flagged
                                     /\ handler'[g].pc = handler[g].pc
    BY <1>0, <2>2 DEF Unclient, HandlerState
  <2>3. ASSUME NEW h \in Handler, NEW k \in kills, KillTask(h, k)
        PROVE  \A g \in Handler : \/ handler'[g].pc \notin {"post", "start", "group"}
                                  \/ /\ handler'[g].plan = handler[g].plan
                                     /\ handler'[g].flagged = handler[g].flagged
                                     /\ handler'[g].pc = handler[g].pc
    <3>1. PICK final \in Reported(k.exec, "cancelled") :
            handler' = Unclient(Killed(k),
                         [handler EXCEPT ![h] =
                            [Idle EXCEPT !.pc = "update", !.exec = k.exec,
                                         !.arg = final]])
      BY <2>3 DEF KillTask
    <3> DEFINE s == [Idle EXCEPT !.pc = "update", !.exec = k.exec, !.arg = final]
    <3>2. s.pc = "update" /\ [s EXCEPT !.client = NoTask].pc = "update"
      BY DEF Idle
    <3>3. handler'[h].pc = "update"
      BY <1>0, <3>1, <3>2 DEF Unclient
    <3>4. \A g \in Handler \ {h} : /\ handler'[g].plan = handler[g].plan
                                   /\ handler'[g].flagged = handler[g].flagged
                                   /\ handler'[g].pc = handler[g].pc
      BY <1>0, <3>1 DEF Unclient, HandlerState
    <3> QED BY <3>3, <3>4
  <2>4. ASSUME NEW h \in Handler, NEW t, NEW st, Report(h, t, st)
        PROVE  \A g \in Handler : \/ handler'[g] = handler[g]
                                  \/ handler'[g].pc \notin {"post", "start", "group"}
    <3>1. PICK final : handler' = [handler EXCEPT ![h] =
                         [Idle EXCEPT !.pc = "update", !.exec = t.exec,
                                      !.arg = final, !.client = t]]
      BY <2>4 DEF Report, Receive
    <3> QED BY <3>1, OtherHandlers DEF Idle
  <2> QED
    BY <1>11, <2>1, <2>2, <2>3, <2>4, SeparationIdle
       DEF WorkerStep, Consume, RunDenied, KillTaskDenied, ReportStarted,
           ReportDone, ReportCancelled, WorkerCrash
<1>12. CASE UNCHANGED vars
  BY <1>12, SeparationIdle DEF vars
<1>13. ASSUME NEW h \in Handler, HandlerStep(h) PROVE Separation'
  BY <1>13, <1>2, <1>3, <1>4, <1>5, <1>6, <1>7, <1>9 DEF HandlerStep
<1>14. ASSUME NEW h \in Handler, UserRequest(h) PROVE Separation'
  BY <1>14, <1>1, <1>10 DEF UserRequest
<1> QED BY <1>8, <1>11, <1>12, <1>13, <1>14 DEF Next, Crash

LEMMA SeparationHolds == Spec => []Separation
<1>1. Init => Separation
  <2> SUFFICES ASSUME Init PROVE Separation
    OBVIOUS
  <2>1. Active = {}
    BY DEF Init, Active, InState, ACTIVE_STATES, Running, Cancelling
  <2>2. \A h \in Handler : handler[h].pc = "idle"
    BY DEF Init, Idle
  <2> QED BY <2>1, <2>2 DEF Separation, Exclusive, DecisionsHold, Deciding
<1> QED BY <1>1, SeparationStep, TypeCorrect, PTL DEF Spec

\* In every behaviour of the manager, whatever the number of REST handlers, two
\* executions that must run separately are active together only if one of them
\* was forced, does not block, was resumed or cancelled with its gate closed, or
\* was started on a decision that another handler had overtaken.
THEOREM ExclusionHolds == Spec => []Exclusive
<1>1. Separation => Exclusive
  BY DEF Separation
<1> QED BY <1>1, SeparationHolds, PTL

\* A request that has decided to start executions, and that no other start has
\* overtaken since, still may start them when it commits: between the check and
\* the commit nothing has become active that they must wait for.
THEOREM DecisionsStayTrue == Spec => []DecisionsHold
<1>1. Separation => DecisionsHold
  BY DEF Separation
<1> QED BY <1>1, SeparationHolds, PTL

--------------------------------------------------------------------------
(***************************************************************************)
(* Carrying.  A token is replaced only together with a message or an order *)
(* that carries the new one; a carrier disappears only by handing over to  *)
(* the next one, with the end of its execution, or into `lost'.            *)
(***************************************************************************)

\* An idle handler carries nothing, nor does one that is about to write.
LEMMA NothingCarried ==
  /\ Idle.out = {} /\ Idle.orders = {} /\ Idle.pc = "idle"
  /\ TypeOK => \A h \in Handler :
       /\ handler[h].pc \in {"post", "update", "cancel", "resume"} =>
            handler[h].out = {} /\ handler[h].orders = {}
       /\ handler[h].pc \in {"list", "dequeue", "start", "publish"} =>
            handler[h].orders = {}
       /\ handler[h].pc = "broadcast" => handler[h].out = {}
  BY DEF Idle, TypeOK, Coherent

\* An execution stays carried when each of its carriers hands over.
LEMMA CarriedOn ==
  ASSUME NEW e \in Execution, Carried(e), token'[e] = token[e],
         \A c \in mq \cup run \cup kills : Holds(c, e) => Carried(e)',
         \A g \in Handler :
           /\ \A c \in handler[g].out \cup handler[g].orders :
                Holds(c, e) => Carried(e)'
           /\ KillReported(g, e) => Carried(e)'
  PROVE  Carried(e)'
  BY DEF Carried

\* Carriers in their next state.
LEMMA CarriedNext ==
  ASSUME NEW e \in Execution, NEW c, c.exec = e, c.token = token'[e],
         \/ c \in mq' \cup run' \cup kills'
         \/ \E g \in Handler : c \in handler'[g].out \cup handler'[g].orders
  PROVE  Carried(e)'
  BY DEF Carried, Holds

\* Nothing becomes active, no message moves, and handlers keep what they have.
LEMMA CarriedStill ==
  ASSUME ActiveIsCarried, Active' \subseteq Active, token' = token,
         lost \subseteq lost', UNCHANGED <<mq, run, kills>>,
         \A g \in Handler :
           /\ handler[g].out \subseteq handler'[g].out
           /\ handler[g].orders \subseteq handler'[g].orders
           /\ \A e \in Execution : KillReported(g, e) => KillReported(g, e)'
  PROVE  ActiveIsCarried'
<1> SUFFICES ASSUME NEW e \in Active', e \notin lost' PROVE Carried(e)'
  BY DEF ActiveIsCarried
<1>1. e \in Execution /\ Carried(e)
  BY DEF ActiveIsCarried, Active, InState
<1> QED BY <1>1 DEF Carried, Holds

\* Handler h, which carries nothing or keeps what it carries, does something
\* that changes no status.
LEMMA CarriedOneHandler ==
  ASSUME TypeOK, ActiveIsCarried, NEW h \in Handler, NEW s,
         UNCHANGED <<status, token, mq, run, kills, lost>>,
         handler' = [handler EXCEPT ![h] = s],
         handler[h].out \subseteq s.out, handler[h].orders \subseteq s.orders,
         handler[h].pc # "update"
  PROVE  ActiveIsCarried'
<1>1. Active' = Active
  BY DEF Active, InState
<1>2. handler'[h] = s /\ \A g \in Handler \ {h} : handler'[g] = handler[g]
  BY OtherHandlers
<1> QED BY <1>1, <1>2, CarriedStill DEF KillReported

\* The executions handler h makes active are carried by what it will publish.
LEMMA CarriedActivate ==
  ASSUME TypeOK, ActiveIsCarried, NEW h \in Handler, NEW S \in SUBSET Execution,
         NEW ungated, NEW s, Activate(h, S, ungated), Active' \subseteq Active \cup S,
         handler' = [handler EXCEPT ![h] = s], lost' = lost \ S,
         handler[h].out \cup Rendered(S) \subseteq s.out,
         handler[h].orders = {}, handler[h].pc # "update",
         UNCHANGED <<mq, run, kills>>
  PROVE  ActiveIsCarried'
<1> SUFFICES ASSUME NEW e \in Active', e \notin lost' PROVE Carried(e)'
  BY DEF ActiveIsCarried
<1>1. handler'[h] = s /\ \A g \in Handler \ {h} : handler'[g] = handler[g]
  BY OtherHandlers
<1>2. e \in Execution
  BY DEF Active, InState
<1>3. CASE e \in S
  <2> DEFINE c == [exec |-> e, token |-> token[e] + 1]
  <2>1. c \in Rendered(S) /\ c.exec = e /\ c.token = token'[e]
    BY <1>2, <1>3 DEF Rendered, Activate, NewTokens
  <2> QED BY <1>1, <1>2, <2>1, CarriedNext
<1>4. CASE e \notin S
  <2>1. Carried(e) /\ token'[e] = token[e]
    BY <1>2, <1>4 DEF ActiveIsCarried, Activate, NewTokens
  <2> QED BY <1>1, <1>2, <2>1 DEF Carried, Holds, KillReported
<1> QED BY <1>3, <1>4

\* Each action of the specification keeps active executions carried.
LEMMA CarriedStep == TypeOK /\ ActiveIsCarried /\ [Next]_vars => ActiveIsCarried'
<1> SUFFICES ASSUME TypeOK, ActiveIsCarried, [Next]_vars PROVE ActiveIsCarried'
  OBVIOUS
<1> USE DEF ACTIVE_STATES, END_STATES, Running, Cancelling
<1>0. /\ handler \in [Handler -> HandlerState] /\ status \in [Execution -> Statuses]
      /\ token \in [Execution -> Nat]
      /\ Active \subseteq Execution
  BY DEF TypeOK, Active, InState
<1>1. ASSUME NEW h \in Handler, UserRequest(h)
      PROVE  ActiveIsCarried'
  <2>1. /\ handler[h] = Idle /\ \E s : handler' = [handler EXCEPT ![h] = s]
        /\ UNCHANGED <<status, token, mq, run, kills, lost>>
    BY <1>1 DEF UserRequest, Post, CancelRead, ResumeRead
  <2>2. handler[h].out = {} /\ handler[h].orders = {} /\ handler[h].pc # "update"
    BY <2>1, NothingCarried
  <2> QED BY <2>1, <2>2, CarriedOneHandler
<1>2. ASSUME NEW h \in Handler, PostCommit(h) \/ DequeueCommit(h)
      PROVE  ActiveIsCarried'
  <2> DEFINE S == Starting(h)
  <2>1. PICK ungated : S \in SUBSET Execution /\ Activate(h, S, ungated)
    BY <1>2 DEF PostCommit, DequeueCommit, WritePlan, Starting
  <2>2. Active' \subseteq Active \cup S
    <3>1. handler[h].plan \in Plan
      BY <1>0 DEF HandlerState
    <3> QED BY <1>2, <3>1 DEF PostCommit, DequeueCommit, WritePlan, Active, InState,
                              Starting, Plan
  <2>3. PICK s : /\ handler' = [handler EXCEPT ![h] = s]
                 /\ handler[h].out \cup Rendered(S) \subseteq s.out
    <3> DEFINE out == handler[h].out \cup Rendered(S)
               s2 == [Idle EXCEPT !.pc = "list", !.out = out,
                                  !.retry = handler[h].retry + 1]
    <3>1. Publishing(out).out = out /\ s2.out = out
      BY DEF Publishing, Idle
    <3>2. CASE PostCommit(h)
      <4>1. out = Rendered(S)
        BY <3>2, NothingCarried DEF PostCommit
      <4> QED BY <3>1, <3>2, <4>1 DEF PostCommit
    <3>3. CASE DequeueCommit(h)
      <4>1. \E s \in {Publishing(out), s2} : handler' = [handler EXCEPT ![h] = s]
        BY <3>3 DEF DequeueCommit
      <4> QED BY <3>1, <4>1
    <3> QED BY <1>2, <3>2, <3>3
  <2>4. handler[h].orders = {} /\ handler[h].pc # "update" /\ UNCHANGED <<mq, run, kills>>
    BY <1>2, NothingCarried DEF PostCommit, DequeueCommit
  <2>5. lost' = lost \ S
    BY <1>2 DEF PostCommit, DequeueCommit, WritePlan
  <2> QED BY <2>1, <2>2, <2>3, <2>4, <2>5, CarriedActivate
<1>3. ASSUME NEW h \in Handler, ResumeCommit(h) PROVE ActiveIsCarried'
  <2> DEFINE e == handler[h].exec
             s == Publishing(Rendered({e}))
  <2>1. {e} \in SUBSET Execution
    BY <1>3 DEF ResumeCommit, TypeOK, Coherent
  <2>2. Active' \subseteq Active \cup {e} /\ Activate(h, {e}, GateClosed({e}))
    BY <1>0, <1>3, <2>1 DEF ResumeCommit, Active, InState
  <2>3. s.out = Rendered({e})
    BY DEF Publishing, Idle
  <2>4. handler[h].out = {} /\ handler[h].orders = {} /\ handler[h].pc # "update"
    BY <1>3, NothingCarried DEF ResumeCommit
  <2>5. /\ UNCHANGED <<mq, run, kills>> /\ lost' = lost \ {e}
        /\ handler' = [handler EXCEPT ![h] = s]
    BY <1>3 DEF ResumeCommit
  <2> HIDE DEF e, s
  <2> QED BY <2>1, <2>2, <2>3, <2>4, <2>5, CarriedActivate
<1>4. ASSUME NEW h \in Handler, Publish(h) PROVE ActiveIsCarried'
  <2>1. PICK m \in handler[h].out :
          /\ mq' = mq \cup {m}
          /\ handler' = [handler EXCEPT ![h] = Publishing(handler[h].out \ {m})]
    BY <1>4 DEF Publish
  <2>2. /\ Publishing(handler[h].out \ {m}).out = handler[h].out \ {m}
        /\ handler[h].orders = {} /\ handler[h].pc # "update"
    BY <1>4, NothingCarried DEF Publishing, Idle, Publish
  <2>3. /\ handler'[h].out = handler[h].out \ {m}
        /\ \A g \in Handler \ {h} : handler'[g] = handler[g]
    BY <2>1, <2>2, OtherHandlers
  <2>4. UNCHANGED <<status, token, run, kills, lost>> /\ Active' = Active
    BY <1>4 DEF Publish, Active, InState
  <2> SUFFICES ASSUME NEW e \in Active, e \notin lost PROVE Carried(e)'
    BY <2>4 DEF ActiveIsCarried
  <2>5. Carried(e)
    BY DEF ActiveIsCarried
  <2> QED BY <2>1, <2>2, <2>3, <2>4, <2>5 DEF Carried, Holds, KillReported
<1>5. ASSUME NEW h \in Handler, DequeueList(h) \/ DequeueSelect(h)
      PROVE  ActiveIsCarried'
  <2>1. PICK s : /\ handler' = [handler EXCEPT ![h] = s]
                 /\ s.out = handler[h].out /\ s.orders = handler[h].orders
    <3>1. CASE DequeueList(h)
      <4> DEFINE s == [handler[h] EXCEPT !.pc = "dequeue", !.seen = Active,
                                         !.locked = Queued \cap System]
      <4>1. handler' = [handler EXCEPT ![h] = s]
        BY <1>0, <3>1 DEF DequeueList
      <4>2. s.out = handler[h].out /\ s.orders = handler[h].orders
        BY <1>0 DEF HandlerState
      <4> QED BY <4>1, <4>2
    <3>2. CASE DequeueSelect(h)
      <4>1. PICK rows, picked, broken : Selected(h, rows, picked, broken)
        BY <3>2, SelectedRows
      <4> DEFINE s == [handler[h] EXCEPT !.pc = "start", !.seen = {}, !.locked = rows,
                                         !.plan = Refreshed(picked, broken)]
      <4>2. s.out = handler[h].out /\ s.orders = handler[h].orders
        BY <1>0 DEF HandlerState
      <4> QED BY <4>1, <4>2 DEF Selected
    <3> QED BY <1>5, <3>1, <3>2
  <2>2. UNCHANGED <<status, token, mq, run, kills, lost>> /\ handler[h].pc # "update"
    BY <1>5 DEF DequeueList, DequeueSelect
  <2> QED BY <2>1, <2>2, CarriedOneHandler
<1>6. ASSUME NEW h \in Handler, UpdateCommit(h) PROVE ActiveIsCarried'
  <2> DEFINE e == handler[h].exec
             st == handler[h].arg
             valid == ValidUpdate(WorkflowOf[e] = "create_snapshot", status[e], st)
  <2>1. e \in Execution /\ st \in END_STATES \cup {"started"}
    BY <1>6 DEF UpdateCommit, TypeOK, Coherent
  <2>2. \A g \in Handler \ {h} : handler'[g] = handler[g]
    BY <1>0, <1>6 DEF UpdateCommit
  <2>3. handler[h].out = {} /\ handler[h].orders = {}
    BY <1>6, NothingCarried DEF UpdateCommit
  <2>4. UNCHANGED <<token, mq, kills>> /\ lost \ {e} \subseteq lost'
    BY <1>6 DEF UpdateCommit
  <2>5. run \ {handler[h].client} \subseteq run'
    BY <1>6 DEF UpdateCommit
  <2> SUFFICES ASSUME NEW f \in Active', f \notin lost' PROVE Carried(f)'
    BY DEF ActiveIsCarried
  <2>6. f \in Execution
    BY DEF Active, InState
  <2>7. CASE f # e
    <3>1. f \in Active /\ f \notin lost
      BY <1>6, <2>1, <2>4, <2>7 DEF UpdateCommit, Active, InState, TypeOK
    <3>2. Carried(f)
      BY <3>1 DEF ActiveIsCarried
    <3>3. \A c \in run : Holds(c, f) => c \in run'
      BY <2>5, <2>7 DEF Holds, TypeOK, Coherent, Task
    <3>4. ~KillReported(h, f)
      BY <2>7 DEF KillReported
    <3> QED BY <2>2, <2>3, <2>4, <3>2, <3>3, <3>4 DEF Carried, Holds, KillReported
  <2>8. CASE f = e
    <3>1. ~(valid /\ st \in END_STATES)
      BY <1>6, <2>1, <2>8 DEF UpdateCommit, Active, InState, TypeOK
    <3>2. run' = run /\ lost \subseteq lost'
      BY <1>6, <3>1 DEF UpdateCommit
    <3>3. e \in Active
      BY <1>0, <1>6, <2>1, <2>8, <3>1 DEF UpdateCommit, Active, InState
    <3>4. Carried(e)
      BY <2>8, <3>2, <3>3 DEF ActiveIsCarried
    <3>5. ~KillReported(h, e)
      BY <1>0, <3>1, <3>3 DEF KillReported, ValidUpdate, Active, InState
    <3> QED BY <2>2, <2>3, <2>4, <2>8, <3>2, <3>4, <3>5 DEF Carried, Holds, KillReported
  <2> QED BY <2>7, <2>8
<1>7. ASSUME NEW h \in Handler, CancelCommit(h) PROVE ActiveIsCarried'
  <2> DEFINE S == handler[h].targets
             K == handler[h].flagged
             s == [Idle EXCEPT !.pc = "broadcast", !.orders = Rendered(K)]
  <2>1. handler' = [handler EXCEPT ![h] = s] /\ UNCHANGED <<mq, run, kills>>
    BY <1>7 DEF CancelCommit
  <2>2. s.orders = Rendered(K)
    BY DEF Idle
  <2>3. handler'[h].orders = Rendered(K) /\ \A g \in Handler \ {h} : handler'[g] = handler[g]
    BY <2>1, <2>2, OtherHandlers
  <2>4. handler[h].out = {} /\ handler[h].orders = {} /\ handler[h].pc # "update"
    BY <1>7, NothingCarried DEF CancelCommit
  <2>5. token' = NewTokens(K) /\ lost' = (lost \cup (S \ Active)) \ K
    BY <1>7 DEF CancelCommit
  <2> SUFFICES ASSUME NEW e \in Active', e \notin lost' PROVE Carried(e)'
    BY DEF ActiveIsCarried
  <2>6. e \in Execution
    BY DEF Active, InState
  <2>7. CASE e \in K
    <3> DEFINE c == [exec |-> e, token |-> token[e] + 1]
    <3>1. c \in Rendered(K) /\ c.exec = e /\ c.token = token'[e]
      BY <2>5, <2>6, <2>7 DEF Rendered, NewTokens
    <3> QED BY <2>3, <2>6, <3>1, CarriedNext
  <2>8. CASE e \notin K
    <3>1. token'[e] = token[e]
      BY <2>5, <2>6, <2>8 DEF NewTokens
    <3>2. e \in Active /\ e \notin lost
      BY <1>7, <2>5, <2>6, <2>8 DEF CancelCommit, Active, InState
    <3>3. Carried(e)
      BY <3>2 DEF ActiveIsCarried
    <3> QED BY <2>1, <2>3, <2>4, <3>1, <3>3 DEF Carried, Holds, KillReported
  <2> QED BY <2>7, <2>8
<1>8. ASSUME NEW h \in Handler, Broadcast(h) PROVE ActiveIsCarried'
  <2>1. /\ UNCHANGED <<status, token, mq, run, lost>> /\ Active' = Active
        /\ handler' = [handler EXCEPT ![h] = Idle]
        /\ kills \subseteq kills'
    BY <1>8 DEF Broadcast, Active, InState
  <2>2. \A g \in Handler \ {h} : handler'[g] = handler[g]
    BY <2>1, OtherHandlers
  <2>3. handler[h].out = {} /\ handler[h].pc # "update"
    BY <1>8, NothingCarried DEF Broadcast
  <2> SUFFICES ASSUME NEW e \in Active, e \notin lost PROVE Carried(e)'
    BY <2>1 DEF ActiveIsCarried
  <2>4. Carried(e)
    BY DEF ActiveIsCarried
  <2>5. CASE \E o \in handler[h].orders : Holds(o, e)
    <3>1. PICK o \in handler[h].orders : Holds(o, e)
      BY <2>5
    <3>2. PICK w : w \in Worker
      OBVIOUS
    <3> DEFINE c == [exec |-> o.exec, token |-> o.token, worker |-> w]
    <3>3. c \in kills'
      BY <1>8, <3>1, <3>2 DEF Broadcast
    <3>4. c.exec = e /\ c.token = token'[e]
      BY <2>1, <3>1 DEF Holds
    <3> QED BY <1>0, <3>3, <3>4, CarriedNext
  <2>6. CASE ~\E o \in handler[h].orders : Holds(o, e)
    BY <2>1, <2>2, <2>3, <2>4, <2>6 DEF Carried, Holds, KillReported
  <2> QED BY <2>5, <2>6
<1>9. ASSUME NEW h \in Handler, NEW t, NEW st, Report(h, t, st)
      PROVE  ActiveIsCarried'
  <2>1. /\ handler[h] = Idle /\ \E s : handler' = [handler EXCEPT ![h] = s]
        /\ UNCHANGED <<status, token, mq, run, kills, lost>>
    BY <1>9 DEF Report, Receive
  <2>2. handler[h].out = {} /\ handler[h].orders = {} /\ handler[h].pc # "update"
    BY <2>1, NothingCarried
  <2> QED BY <2>1, <2>2, CarriedOneHandler
<1>10. ASSUME NEW w \in Worker, NEW m \in mq, Consume(w, m) PROVE ActiveIsCarried'
  <2> DEFINE c == [exec |-> m.exec, token |-> m.token, worker |-> w]
  <2>1. /\ UNCHANGED <<status, token, handler, kills, lost>> /\ Active' = Active
        /\ mq' = mq \ {m} /\ run' = run \cup {c}
    BY <1>10 DEF Consume, Active, InState
  <2> SUFFICES ASSUME NEW e \in Active, e \notin lost PROVE Carried(e)'
    BY <2>1 DEF ActiveIsCarried
  <2>2. Carried(e)
    BY DEF ActiveIsCarried
  <2>3. CASE Holds(m, e)
    <3>1. c \in run' /\ c.exec = e /\ c.token = token'[e]
      BY <2>1, <2>3 DEF Holds
    <3> QED BY <1>0, <3>1, CarriedNext
  <2>4. CASE ~Holds(m, e)
    BY <2>1, <2>2, <2>4 DEF Carried, Holds, KillReported
  <2> QED BY <2>3, <2>4
<1>11. ASSUME NEW t \in run, RunDenied(t) PROVE ActiveIsCarried'
  <2>1. /\ UNCHANGED <<status, token, handler, mq, kills, lost>> /\ Active' = Active
        /\ run' = run \ {t} /\ Denied(t)
    BY <1>11 DEF RunDenied, Active, InState
  <2> SUFFICES ASSUME NEW e \in Active, e \notin lost PROVE Carried(e)'
    BY <2>1 DEF ActiveIsCarried
  <2>2. Carried(e)
    BY DEF ActiveIsCarried
  <2>3. ~Holds(t, e)
    BY <2>1 DEF Holds, Denied
  <2> QED BY <2>1, <2>2, <2>3 DEF Carried, Holds, KillReported
<1>12. ASSUME NEW dead, NEW hs, handler' = Unclient(dead, hs), hs \in [Handler -> HandlerState],
              NEW g \in Handler
       PROVE  /\ handler'[g].out = hs[g].out /\ handler'[g].orders = hs[g].orders
              /\ handler'[g].pc = hs[g].pc /\ handler'[g].exec = hs[g].exec
              /\ handler'[g].arg = hs[g].arg
              /\ hs[g].client = NoTask => handler'[g].client = NoTask
  BY <1>12 DEF Unclient, HandlerState
<1>13. ASSUME NEW h \in Handler, NEW k \in kills, KillTask(h, k) PROVE ActiveIsCarried'
  <2>1. PICK final \in Reported(k.exec, "cancelled") :
          handler' = Unclient(Killed(k),
                       [handler EXCEPT ![h] =
                          [Idle EXCEPT !.pc = "update", !.exec = k.exec,
                                       !.arg = final]])
    BY <1>13 DEF KillTask
  <2> DEFINE s == [Idle EXCEPT !.pc = "update", !.exec = k.exec, !.arg = final]
             hs == [handler EXCEPT ![h] = s]
  <2>2. /\ UNCHANGED <<status, token, mq, lost>> /\ Active' = Active
        /\ kills' = kills \ {k} /\ run' = run \ Killed(k)
        /\ handler[h] = Idle
    BY <1>13 DEF KillTask, Active, InState
  <2>3. k.exec \in Execution /\ final \in {"cancelled", "failed"}
    BY DEF TypeOK, Task, Reported
  <2>4. s \in HandlerState
    BY <2>3, IdleOK DEF Idle, HandlerState, Pcs, Args
  <2>5. hs \in [Handler -> HandlerState]
    BY <1>0, <2>4
  <2>6. \A g \in Handler :
          /\ handler'[g].out = hs[g].out /\ handler'[g].orders = hs[g].orders
          /\ handler'[g].pc = hs[g].pc /\ handler'[g].exec = hs[g].exec
          /\ handler'[g].arg = hs[g].arg
          /\ hs[g].client = NoTask => handler'[g].client = NoTask
    <3>1. handler' = Unclient(Killed(k), hs)
      BY <2>1
    <3> HIDE DEF hs
    <3> QED BY <1>12, <2>5, <3>1
  <2>7. /\ hs[h] = s /\ \A g \in Handler \ {h} : hs[g] = handler[g]
        /\ s.pc = "update" /\ s.exec = k.exec /\ s.arg = final /\ s.client = NoTask
    BY <1>0 DEF Idle
  <2>8. handler[h].out = {} /\ handler[h].orders = {} /\ handler[h].pc # "update"
    BY <2>2, NothingCarried
  <2> SUFFICES ASSUME NEW e \in Active, e \notin lost PROVE Carried(e)'
    BY <2>2 DEF ActiveIsCarried
  <2>9. CASE k.exec = e
    <3>1. KillReported(h, e)'
      BY <2>3, <2>6, <2>7, <2>9 DEF KillReported
    <3> QED BY <3>1 DEF Carried
  <2>10. CASE k.exec # e
    <3>1. \A c \in run \cup kills : Holds(c, e) => c \in run' \cup kills'
      BY <2>2, <2>10 DEF Holds, Killed
    <3>2. Carried(e)
      BY DEF ActiveIsCarried
    <3> HIDE DEF hs, s
    <3>3. \A g \in Handler : /\ handler[g].out \subseteq handler'[g].out
                             /\ handler[g].orders \subseteq handler'[g].orders
                             /\ KillReported(g, e) => KillReported(g, e)'
      BY <2>6, <2>7, <2>8 DEF KillReported
    <3> QED BY <2>2, <3>1, <3>2, <3>3 DEF Carried, Holds
  <2> QED BY <2>9, <2>10
<1>14. ASSUME NEW k \in kills, KillTaskDenied(k) PROVE ActiveIsCarried'
  <2>1. /\ UNCHANGED <<status, token, mq>> /\ Active' = Active
        /\ kills' = kills \ {k} /\ run' = run \ Killed(k) /\ Denied(k)
        /\ lost' = lost \cup {t.exec : t \in {u \in Killed(k) : ~Denied(u)}}
        /\ handler' = Unclient(Killed(k), handler)
    BY <1>14 DEF KillTaskDenied, Active, InState
  <2>2. \A g \in Handler : /\ handler[g].out \subseteq handler'[g].out
                           /\ handler[g].orders \subseteq handler'[g].orders
                           /\ \A e \in Execution : KillReported(g, e) => KillReported(g, e)'
    BY <1>0, <1>12, <2>1 DEF KillReported
  <2> SUFFICES ASSUME NEW e \in Active, e \notin lost' PROVE Carried(e)'
    BY <2>1 DEF ActiveIsCarried
  <2>3. Carried(e)
    BY <2>1 DEF ActiveIsCarried
  <2>4. \A c \in run \cup kills : Holds(c, e) => c \in run' \cup kills'
    BY <2>1 DEF Holds, Denied
  <2> QED BY <1>0, <2>1, <2>2, <2>3, <2>4 DEF Carried, Holds
<1>15. ASSUME NEW w \in Worker, WorkerCrash(w) PROVE ActiveIsCarried'
  <2> DEFINE dead == {t \in run : t.worker = w}
  <2>1. /\ UNCHANGED <<status, token, kills, lost>> /\ Active' = Active
        /\ run' = run \ dead
        /\ mq' = mq \cup {[exec |-> t.exec, token |-> t.token] : t \in dead}
        /\ handler' = Unclient(dead, handler)
    BY <1>15 DEF WorkerCrash, Active, InState
  <2>2. \A g \in Handler : /\ handler[g].out \subseteq handler'[g].out
                           /\ handler[g].orders \subseteq handler'[g].orders
                           /\ \A e \in Execution : KillReported(g, e) => KillReported(g, e)'
    BY <1>0, <1>12, <2>1 DEF KillReported
  <2> SUFFICES ASSUME NEW e \in Active, e \notin lost PROVE Carried(e)'
    BY <2>1 DEF ActiveIsCarried
  <2>3. Carried(e)
    BY DEF ActiveIsCarried
  <2>4. CASE \E t \in dead : Holds(t, e)
    <3>1. PICK t \in dead : Holds(t, e)
      BY <2>4
    <3> DEFINE c == [exec |-> t.exec, token |-> t.token]
    <3>2. c \in mq' /\ c.exec = e /\ c.token = token'[e]
      BY <2>1, <3>1 DEF Holds
    <3> QED BY <1>0, <3>2, CarriedNext
  <2>5. CASE ~\E t \in dead : Holds(t, e)
    BY <1>0, <2>1, <2>2, <2>3, <2>5 DEF Carried, Holds
  <2> QED BY <2>4, <2>5
<1>16. ASSUME NEW h \in Handler, HandlerCrash(h) PROVE ActiveIsCarried'
  <2> DEFINE s == handler[h]
  <2>1. /\ UNCHANGED <<token, mq, run, kills>>
        /\ \A g \in Handler \ {h} : handler'[g] = handler[g]
    BY <1>0, <1>16 DEF HandlerCrash
  <2>2. Active' \subseteq Active
    BY <1>16 DEF HandlerCrash, Active, InState
  <2>3. /\ lost \subseteq lost'
        /\ \A m \in s.out \cup s.orders : m.exec \in lost'
        /\ \A e \in Execution : KillReported(h, e) => e \in lost'
    BY <1>16 DEF HandlerCrash, KillReported
  <2> SUFFICES ASSUME NEW e \in Active', e \notin lost' PROVE Carried(e)'
    BY DEF ActiveIsCarried
  <2>4. Carried(e)
    BY <2>2, <2>3 DEF ActiveIsCarried
  <2>5. ~KillReported(h, e) /\ \A c \in s.out \cup s.orders : ~Holds(c, e)
    BY <1>0, <2>2, <2>3 DEF Holds
  <2> QED BY <2>1, <2>4, <2>5 DEF Carried, Holds, KillReported
<1>17. CASE UNCHANGED vars
  BY <1>17, CarriedStill DEF vars, Active, InState, KillReported
<1>18. ASSUME NEW h \in Handler, HandlerStep(h) PROVE ActiveIsCarried'
  BY <1>18, <1>2, <1>3, <1>4, <1>5, <1>6, <1>7, <1>8 DEF HandlerStep
<1>19. CASE WorkerStep
  BY <1>19, <1>9, <1>10, <1>11, <1>13, <1>14
     DEF WorkerStep, ReportStarted, ReportDone, ReportCancelled
<1>20. CASE Crash
  BY <1>20, <1>15, <1>16 DEF Crash
<1> QED BY <1>1, <1>17, <1>18, <1>19, <1>20 DEF Next

\* An active execution always has somebody who will move it on: a message in
\* the queue or about to be sent, a process or a kill order that holds its
\* current token, unless it is recorded as lost (its handler crashed before
\* sending, an old kill order hit it, or a stale write revived it).
THEOREM CarryingHolds == Spec => []ActiveIsCarried
<1>1. Init => ActiveIsCarried
  BY DEF Init, ActiveIsCarried, Active, InState, ACTIVE_STATES, Running, Cancelling
<1> QED BY <1>1, CarriedStep, TypeCorrect, PTL DEF Spec

--------------------------------------------------------------------------
(* Steps that leave a handler alone. *)

\* Handler g goes on with what it was doing (a client that died is all it may lose).
Steady(g) ==
  /\ handler'[g].pc = handler[g].pc /\ handler'[g].exec = handler[g].exec
  /\ handler'[g].arg = handler[g].arg /\ handler'[g].plan = handler[g].plan
  /\ handler'[g].targets = handler[g].targets /\ handler'[g].flagged = handler[g].flagged
  /\ handler'[g].seen = handler[g].seen /\ handler'[g].locked = handler[g].locked
  /\ handler'[g].out = handler[g].out /\ handler'[g].orders = handler[g].orders

LEMMA SteadyUnclient ==
  ASSUME TypeOK, NEW hs \in [Handler -> HandlerState], NEW dead, handler' = Unclient(dead, hs),
         NEW g \in Handler, hs[g] = handler[g]
  PROVE  Steady(g)
<1>1. handler[g] \in HandlerState
  BY DEF TypeOK
<1>2. handler'[g] = IF hs[g].client \in dead THEN [hs[g] EXCEPT !.client = NoTask] ELSE hs[g]
  BY DEF Unclient
<1> QED BY <1>1, <1>2 DEF Steady, HandlerState

\* What mgmtworkers do by themselves leaves statuses and handlers alone.
Background ==
  \/ \E w \in Worker, m \in mq : Consume(w, m)
  \/ \E t \in run : RunDenied(t)
  \/ \E k \in kills : KillTaskDenied(k)
  \/ \E w \in Worker : WorkerCrash(w)

LEMMA BackgroundSteady ==
  ASSUME TypeOK, Background
  PROVE  UNCHANGED <<status, concurrency, maintenance, token>> /\ \A g \in Handler : Steady(g)
<1>1. UNCHANGED <<status, concurrency, maintenance, token>>
  BY DEF Background, Consume, RunDenied, KillTaskDenied, WorkerCrash
<1>2. handler' = handler \/ \E dead : handler' = Unclient(dead, handler)
  BY DEF Background, Consume, RunDenied, KillTaskDenied, WorkerCrash
<1>3. \A g \in Handler : Steady(g)
  <2>1. handler \in [Handler -> HandlerState]
    BY DEF TypeOK
  <2>2. CASE handler' = handler
    BY <2>2 DEF Steady
  <2>3. CASE \E dead : handler' = Unclient(dead, handler)
    BY <2>1, <2>3, SteadyUnclient
  <2> QED BY <1>2, <2>2, <2>3
<1> QED BY <1>1, <1>3

\* A kill order makes an idle handler write its report.
LEMMA KillTaskHandler ==
  ASSUME TypeOK, NEW h \in Handler, NEW k \in kills, KillTask(h, k)
  PROVE  /\ k.exec \in Execution /\ handler[h] = Idle
         /\ handler'[h].pc = "update" /\ handler'[h].exec = k.exec
         /\ handler'[h].arg \in {"cancelled", "failed"}
         /\ handler'[h].locked = {} /\ handler'[h].plan = NoPlan
         /\ \A g \in Handler \ {h} : Steady(g)
         /\ UNCHANGED <<status, concurrency, maintenance, token>>
<1>1. PICK final \in Reported(k.exec, "cancelled") :
        handler' = Unclient(Killed(k),
                     [handler EXCEPT ![h] =
                        [Idle EXCEPT !.pc = "update", !.exec = k.exec, !.arg = final]])
  BY DEF KillTask
<1> DEFINE s == [Idle EXCEPT !.pc = "update", !.exec = k.exec, !.arg = final]
           hs == [handler EXCEPT ![h] = s]
<1>2. k.exec \in Execution /\ final \in {"cancelled", "failed"}
  BY DEF TypeOK, Task, Reported
<1>3. s \in HandlerState
  BY <1>2, IdleOK DEF Idle, HandlerState, Pcs, Args, END_STATES
<1>4. /\ s.pc = "update" /\ s.exec = k.exec /\ s.arg = final /\ s.client = NoTask
      /\ s.locked = {} /\ s.plan = NoPlan
  BY DEF Idle
<1> HIDE DEF s
<1>5. hs \in [Handler -> HandlerState] /\ hs[h] = s /\ \A g \in Handler \ {h} : hs[g] = handler[g]
  BY <1>3 DEF TypeOK
<1>6. handler' = Unclient(Killed(k), hs)
  BY <1>1 DEF s
<1> HIDE DEF hs
<1>7. \A g \in Handler \ {h} : Steady(g)
  BY <1>5, <1>6, SteadyUnclient
<1>8. handler'[h] = IF s.client \in Killed(k) THEN [s EXCEPT !.client = NoTask] ELSE s
  BY <1>5, <1>6 DEF Unclient
<1>9. handler'[h].pc = s.pc /\ handler'[h].exec = s.exec /\ handler'[h].arg = s.arg
      /\ handler'[h].locked = s.locked /\ handler'[h].plan = s.plan
  BY <1>3, <1>8 DEF HandlerState
<1> QED BY <1>2, <1>4, <1>7, <1>9 DEF KillTask

--------------------------------------------------------------------------
(***************************************************************************)
(* What handlers write in turn.  The rows a dequeue has locked stay queued *)
(* and its own, the rows a creation is about to insert do not exist, and   *)
(* whatever else is about to be written does.                              *)
(***************************************************************************)
Own(h) ==
  /\ handler[h].locked \subseteq Queued
  /\ handler[h].pc = "start" =>
       \A e \in Execution : handler[h].plan[e] # "absent" => e \in handler[h].locked
  /\ handler[h].pc = "post" =>
       \A e \in Execution : handler[h].plan[e] # "absent" => status[e] = "absent"
  /\ handler[h].pc \notin {"post", "start"} => handler[h].plan = NoPlan
  /\ handler[h].pc \in {"update", "resume"} => status[handler[h].exec] # "absent"
  /\ handler[h].pc = "cancel" => \A e \in handler[h].targets : status[e] # "absent"

Apart(g, h) ==
  /\ handler[g].locked \cap handler[h].locked = {}
  /\ handler[g].pc = "post" /\ handler[h].pc = "post" =>
       \A e \in Execution : handler[g].plan[e] = "absent" \/ handler[h].plan[e] = "absent"

InTurn ==
  /\ \A h \in Handler : Own(h)
  /\ \A g, h \in Handler : g # h => Apart(g, h)

\* Executions that handler g is about to write and keeps the others off.
Held(g) ==
  handler[g].locked \cup
    (IF handler[g].pc = "post" THEN {e \in Execution : handler[g].plan[e] # "absent"} ELSE {})

\* A step of handler h that writes nothing another one holds.
LEMMA InTurnFrame ==
  ASSUME TypeOK, InTurn, NEW h \in Handler, \A g \in Handler \ {h} : Steady(g),
         \A e \in Execution : status[e] # "absent" => status'[e] # "absent",
         \A g \in Handler \ {h} : \A e \in Held(g) : status'[e] = status[e],
         Own(h)', \A g \in Handler \ {h} : Apart(h, g)'
  PROVE  InTurn'
<1>1. ASSUME NEW g \in Handler \ {h} PROVE Own(g)'
  <2>1. Own(g) /\ Steady(g) /\ handler[g] \in HandlerState /\ Coherent(handler[g])
    BY DEF InTurn, TypeOK
  <2>2. /\ handler'[g].locked = handler[g].locked /\ handler'[g].pc = handler[g].pc
        /\ handler'[g].plan = handler[g].plan /\ handler'[g].exec = handler[g].exec
        /\ handler'[g].targets = handler[g].targets
    BY <2>1 DEF Steady
  <2>3. handler'[g].locked \subseteq Queued'
    <3>1. \A e \in handler[g].locked : e \in Execution /\ status[e] = "queued" /\ status'[e] = status[e]
      BY <2>1 DEF Held, Own, Queued, InState
    <3> QED BY <2>2, <3>1 DEF Queued, InState
  <2>4. handler[g].pc = "post" =>
          \A e \in Execution : handler[g].plan[e] # "absent" => status'[e] = "absent"
    BY <2>1 DEF Held, Own
  <2>5. handler[g].pc \in {"update", "resume"} => status'[handler[g].exec] # "absent"
    BY <2>1 DEF Own, Coherent
  <2>6. handler[g].pc = "cancel" => \A e \in handler[g].targets : status'[e] # "absent"
    BY <2>1 DEF Own, HandlerState
  <2> QED BY <2>1, <2>2, <2>3, <2>4, <2>5, <2>6 DEF Own
<1>2. ASSUME NEW g \in Handler, NEW f \in Handler, g # f PROVE Apart(g, f)'
  <2>1. CASE g = h
    BY <1>2, <2>1
  <2>2. CASE f = h
    <3>1. Apart(f, g)'
      BY <1>2, <2>2
    <3> QED BY <3>1 DEF Apart
  <2>3. CASE g # h /\ f # h
    <3>1. Apart(g, f) /\ Steady(g) /\ Steady(f)
      BY <1>2, <2>3 DEF InTurn
    <3> QED BY <3>1 DEF Apart, Steady
  <2> QED BY <2>1, <2>2, <2>3
<1> QED BY <1>1, <1>2 DEF InTurn

\* A handler that is about to write nothing.
Free(s) ==
  /\ s.pc \in {"idle", "list", "publish", "broadcast"}
  /\ s.plan = NoPlan /\ s.locked = {}

LEMMA FreeStates ==
  /\ Free(Idle) /\ Free([Idle EXCEPT !.pc = "list"])
  /\ \A out : Free(Publishing(out))
  /\ \A out, n : Free([Idle EXCEPT !.pc = "list", !.out = out, !.retry = n])
  /\ \A o : Free([Idle EXCEPT !.pc = "broadcast", !.orders = o])
  BY DEF Idle, Publishing, Free

\* Handler h is done with what it wrote.
LEMMA InTurnDone ==
  ASSUME TypeOK, InTurn, NEW h \in Handler, NEW s, handler' = [handler EXCEPT ![h] = s], Free(s),
         \A e \in Execution : status[e] # "absent" => status'[e] # "absent",
         \A g \in Handler \ {h} : \A e \in Held(g) : status'[e] = status[e]
  PROVE  InTurn'
<1>1. handler'[h] = s /\ \A g \in Handler \ {h} : handler'[g] = handler[g]
  BY OtherHandlers
<1>2. Own(h)' /\ \A g \in Handler \ {h} : Apart(h, g)'
  BY <1>1 DEF Own, Apart, Free
<1>3. \A g \in Handler \ {h} : Steady(g)
  BY <1>1 DEF Steady
<1> QED BY <1>2, <1>3, InTurnFrame

\* Writes under row locks stay off what the others have locked, and off rows
\* that do not exist yet.
LEMMA HeldElsewhere ==
  ASSUME InTurn, NEW h \in Handler, NEW e \in Execution, e \notin Locked, status[e] # "absent"
  PROVE  \A g \in Handler \ {h} : e \notin Held(g)
<1> SUFFICES ASSUME NEW g \in Handler \ {h}, e \in Held(g) PROVE FALSE
  OBVIOUS
<1>1. Own(g)
  BY DEF InTurn
<1>2. e \notin handler[g].locked
  BY DEF Locked
<1> QED BY <1>1, <1>2 DEF Held, Own

LEMMA InTurnCommits ==
  ASSUME TypeOK, InTurn, NEW h \in Handler, PostCommit(h) \/ DequeueCommit(h) \/ HandlerCrash(h)
  PROVE  InTurn'
<1>0. /\ handler[h].plan \in Plan /\ Own(h) /\ \A g \in Handler \ {h} : Own(g) /\ Apart(h, g)
  BY DEF TypeOK, HandlerState, InTurn
<1>1. PICK s : handler' = [handler EXCEPT ![h] = s] /\ Free(s)
  <2>1. CASE PostCommit(h)
    <3>1. handler' = [handler EXCEPT ![h] = Publishing(Rendered(Starting(h)))]
      BY <2>1 DEF PostCommit
    <3> QED BY <3>1, FreeStates
  <2>2. CASE HandlerCrash(h)
    <3>1. handler' = [handler EXCEPT ![h] = Idle]
      BY <2>2 DEF HandlerCrash
    <3> QED BY <3>1, FreeStates
  <2>3. CASE DequeueCommit(h)
    <3> DEFINE out == handler[h].out \cup Rendered(Starting(h))
               t == [Idle EXCEPT !.pc = "list", !.out = out, !.retry = handler[h].retry + 1]
    <3>1. \E s \in {Publishing(out), t} : handler' = [handler EXCEPT ![h] = s]
      BY <2>3 DEF DequeueCommit
    <3> QED BY <3>1, FreeStates
  <2> QED BY <2>1, <2>2, <2>3
<1>2. \A e \in Execution : /\ status[e] # "absent" => status'[e] # "absent"
                           /\ handler[h].plan[e] = "absent" => status'[e] = status[e]
  BY <1>0 DEF PostCommit, DequeueCommit, HandlerCrash, WritePlan
<1>3. \A g \in Handler \ {h} : \A e \in Held(g) : status'[e] = status[e]
  <2> SUFFICES ASSUME NEW g \in Handler \ {h}, NEW e \in Held(g), handler[h].plan[e] # "absent"
               PROVE  status'[e] = status[e]
    <3>1. \A g \in Handler \ {h} : Held(g) \subseteq Execution
      BY DEF Held, TypeOK, HandlerState
    <3> QED BY <1>2, <3>1
  <2>0. e \in Execution /\ Own(g) /\ Own(h) /\ Apart(h, g)
    BY <1>0 DEF Held, TypeOK, HandlerState
  <2>1. CASE handler[h].pc = "post"
    <3>1. status[e] = "absent"
      BY <2>0, <2>1 DEF Own
    <3>2. e \notin handler[g].locked
      BY <2>0, <3>1 DEF Own, Queued, InState
    <3> QED BY <2>0, <2>1, <3>2 DEF Held, Apart
  <2>2. CASE handler[h].pc = "start"
    <3>1. e \in handler[h].locked /\ status[e] = "queued"
      BY <2>0, <2>2 DEF Own, Queued, InState
    <3> QED BY <2>0, <3>1 DEF Held, Apart, Own
  <2>3. CASE handler[h].pc \notin {"post", "start"}
    BY <2>0, <2>3 DEF Own, NoPlan
  <2> QED BY <2>1, <2>2, <2>3
<1> QED BY <1>1, <1>2, <1>3, InTurnDone

LEMMA InTurnWrites ==
  ASSUME TypeOK, InTurn, NEW h \in Handler,
         UpdateCommit(h) \/ CancelCommit(h) \/ ResumeCommit(h)
  PROVE  InTurn'
<1>0. /\ handler[h] \in HandlerState /\ Coherent(handler[h]) /\ Own(h)
      /\ status \in [Execution -> Statuses]
  BY DEF TypeOK, InTurn
<1>1. PICK s : handler' = [handler EXCEPT ![h] = s] /\ Free(s)
  <2>1. CASE UpdateCommit(h)
    <3>1. \E s \in {Idle, [Idle EXCEPT !.pc = "list"]} : handler' = [handler EXCEPT ![h] = s]
      BY <2>1 DEF UpdateCommit
    <3> QED BY <3>1, FreeStates
  <2>2. CASE CancelCommit(h)
    <3>1. \E o : handler' = [handler EXCEPT ![h] = [Idle EXCEPT !.pc = "broadcast", !.orders = o]]
      BY <2>2 DEF CancelCommit
    <3> QED BY <3>1, FreeStates
  <2>3. CASE ResumeCommit(h)
    <3>1. \E out : handler' = [handler EXCEPT ![h] = Publishing(out)]
      BY <2>3 DEF ResumeCommit
    <3> QED BY <3>1, FreeStates
  <2> QED BY <2>1, <2>2, <2>3
<1>2. PICK W \in SUBSET Execution :
        /\ W \cap Locked = {} /\ \A e \in W : status[e] # "absent" /\ status'[e] # "absent"
        /\ \A e \in Execution \ W : status'[e] = status[e]
  <2>1. CASE UpdateCommit(h)
    <3> DEFINE W == {handler[h].exec}
    <3>1. /\ handler[h].pc = "update" /\ handler[h].exec \in Execution
          /\ handler[h].arg \in END_STATES \cup {"started"}
      BY <1>0, <2>1 DEF UpdateCommit, Coherent
    <3>2. status' = status \/ status' = [status EXCEPT ![handler[h].exec] = handler[h].arg]
      BY <2>1 DEF UpdateCommit
    <3>3. W \cap Locked = {} /\ \A e \in W : status[e] # "absent"
      BY <1>0, <2>1, <3>1 DEF UpdateCommit, Own
    <3>4. \A e \in W : status'[e] # "absent"
      BY <1>0, <3>1, <3>2, <3>3 DEF END_STATES
    <3>5. W \in SUBSET Execution /\ \A e \in Execution \ W : status'[e] = status[e]
      BY <1>0, <3>1, <3>2
    <3> HIDE DEF W
    <3> QED BY <3>3, <3>4, <3>5
  <2>2. CASE CancelCommit(h)
    <3> DEFINE W == handler[h].targets
    <3>1. W \in SUBSET Execution /\ handler[h].arg \in CancelModes /\ handler[h].pc = "cancel"
      BY <1>0, <2>2 DEF CancelCommit, HandlerState, Coherent
    <3>2. CancelStatus(handler[h].arg) # "absent"
      BY <3>1 DEF CancelModes, CancelStatus
    <3> QED BY <1>0, <2>2, <3>1, <3>2 DEF CancelCommit, Own
  <2>3. CASE ResumeCommit(h)
    <3> DEFINE W == {handler[h].exec}
    <3>1. handler[h].pc = "resume" /\ handler[h].exec \in Execution
      BY <1>0, <2>3 DEF ResumeCommit, Coherent
    <3>2. status' = [status EXCEPT ![handler[h].exec] = "pending"] /\ handler[h].exec \notin Locked
      BY <2>3 DEF ResumeCommit
    <3>3. W \in SUBSET Execution /\ \A e \in Execution \ W : status'[e] = status[e]
      BY <1>0, <3>1, <3>2
    <3>4. \A e \in W : status[e] # "absent" /\ status'[e] # "absent"
      BY <1>0, <3>1, <3>2 DEF Own
    <3>5. W \cap Locked = {}
      BY <3>2
    <3> HIDE DEF W
    <3> QED BY <3>3, <3>4, <3>5
  <2> QED BY <2>1, <2>2, <2>3
<1>3. \A g \in Handler \ {h} : Held(g) \subseteq Execution /\ W \cap Held(g) = {}
  <2>1. \A g \in Handler \ {h} : Held(g) \subseteq Execution
    BY DEF Held, TypeOK, HandlerState
  <2> QED BY <1>2, <2>1, HeldElsewhere
<1>4. \A e \in Execution : status[e] # "absent" => status'[e] # "absent"
  BY <1>2
<1>5. \A g \in Handler \ {h} : \A e \in Held(g) : status'[e] = status[e]
  BY <1>2, <1>3
<1> QED BY <1>1, <1>4, <1>5, InTurnDone

\* Handler h takes on something else, and no status changes.
LEMMA InTurnTakes ==
  ASSUME TypeOK, InTurn, NEW h \in Handler, status' = status,
         \A g \in Handler \ {h} : Steady(g), Own(h)', \A g \in Handler \ {h} : Apart(h, g)'
  PROVE  InTurn'
  BY InTurnFrame

LEMMA InTurnRequest ==
  ASSUME TypeOK, InTurn, NEW h \in Handler, UserRequest(h)
  PROVE  InTurn'
<1>0. status' = status /\ handler[h] = Idle
  BY DEF UserRequest, Post, CancelRead, ResumeRead
<1>1. ASSUME NEW s, handler' = [handler EXCEPT ![h] = s]
      PROVE  handler'[h] = s /\ \A g \in Handler \ {h} : handler'[g] = handler[g] /\ Steady(g)
  BY <1>1, OtherHandlers DEF Steady
<1>2. ASSUME NEW e \in Execution, NEW force, NEW queue, Post(h, e, force, queue)
      PROVE  InTurn'
  <2>1. PICK d, F : handler' = [handler EXCEPT ![h] =
                        [Idle EXCEPT !.pc = "post", !.plan[e] = d, !.flagged = F]]
    BY <1>2 DEF Post
  <2> DEFINE s == [Idle EXCEPT !.pc = "post", !.plan[e] = d, !.flagged = F]
  <2>2. s.pc = "post" /\ s.locked = {} /\ \A x \in Execution \ {e} : s.plan[x] = "absent"
    BY DEF Idle, NoPlan
  <2> HIDE DEF s
  <2>3. handler'[h] = s /\ \A g \in Handler \ {h} : handler'[g] = handler[g] /\ Steady(g)
    BY <1>1, <2>1 DEF s
  <2>4. status[e] = "absent" /\ e \notin Posting
    BY <1>2 DEF Post, Creatable
  <2>5. Own(h)'
    BY <1>0, <2>2, <2>3, <2>4 DEF Own
  <2>6. \A g \in Handler \ {h} : Apart(h, g)'
    BY <2>2, <2>3, <2>4 DEF Apart, Posting
  <2> QED BY <1>0, <2>3, <2>5, <2>6, InTurnTakes
<1>3. ASSUME NEW e \in Execution, NEW mode, CancelRead(h, {e}, mode)
      PROVE  InTurn'
  <2>1. PICK F : handler' = [handler EXCEPT ![h] =
                   [Idle EXCEPT !.pc = "cancel", !.arg = mode, !.targets = {e}, !.flagged = F]]
    BY <1>3 DEF CancelRead
  <2> DEFINE s == [Idle EXCEPT !.pc = "cancel", !.arg = mode, !.targets = {e}, !.flagged = F]
  <2>2. s.pc = "cancel" /\ s.locked = {} /\ s.plan = NoPlan /\ s.targets = {e}
    BY DEF Idle
  <2> HIDE DEF s
  <2>3. handler'[h] = s /\ \A g \in Handler \ {h} : handler'[g] = handler[g] /\ Steady(g)
    BY <1>1, <2>1 DEF s
  <2>4. status[e] # "absent"
    BY <1>3 DEF CancelRead
  <2> QED BY <1>0, <2>2, <2>3, <2>4, InTurnTakes DEF Own, Apart
<1>4. ASSUME NEW e \in Execution, NEW force, ResumeRead(h, e, force)
      PROVE  InTurn'
  <2>1. handler' = [handler EXCEPT ![h] = [Idle EXCEPT !.pc = "resume", !.exec = e]]
    BY <1>4 DEF ResumeRead
  <2> DEFINE s == [Idle EXCEPT !.pc = "resume", !.exec = e]
  <2>2. s.pc = "resume" /\ s.locked = {} /\ s.plan = NoPlan /\ s.exec = e
    BY DEF Idle
  <2> HIDE DEF s
  <2>3. handler'[h] = s /\ \A g \in Handler \ {h} : handler'[g] = handler[g] /\ Steady(g)
    BY <1>1, <2>1 DEF s
  <2>4. status[e] # "absent"
    BY <1>4 DEF ResumeRead, ResumeAllowed
  <2> QED BY <1>0, <2>2, <2>3, <2>4, InTurnTakes DEF Own, Apart
<1> QED BY <1>2, <1>3, <1>4 DEF UserRequest

LEMMA InTurnDequeue ==
  ASSUME TypeOK, InTurn, NEW h \in Handler, DequeueList(h) \/ DequeueSelect(h)
  PROVE  InTurn'
<1>0. /\ handler \in [Handler -> HandlerState] /\ handler[h] \in HandlerState
      /\ Own(h) /\ \A g \in Handler \ {h} : Apart(h, g)
      /\ \A g \in Handler : handler[g].locked \subseteq Locked
  BY DEF TypeOK, InTurn, Locked
<1>1. ASSUME NEW s, handler' = [handler EXCEPT ![h] = s]
      PROVE  handler'[h] = s /\ \A g \in Handler \ {h} : handler'[g] = handler[g] /\ Steady(g)
  BY <1>1, OtherHandlers DEF Steady
<1>2. CASE DequeueList(h)
  <2> DEFINE s == [handler[h] EXCEPT !.pc = "dequeue", !.seen = Active, !.locked = Queued \cap System]
  <2>1. s.pc = "dequeue" /\ s.locked = Queued \cap System /\ s.plan = handler[h].plan
    BY <1>0 DEF HandlerState
  <2>2. handler' = [handler EXCEPT ![h] = s]
    BY <1>0, <1>2 DEF DequeueList
  <2> HIDE DEF s
  <2>3. handler'[h] = s /\ \A g \in Handler \ {h} : handler'[g] = handler[g] /\ Steady(g)
    BY <1>1, <2>2
  <2>4. /\ status' = status /\ handler[h].plan = NoPlan
        /\ Queued \cap System \cap Locked = {} /\ Queued' = Queued
    BY <1>0, <1>2 DEF DequeueList, Own, Queued, InState
  <2>5. Own(h)'
    BY <2>1, <2>3, <2>4 DEF Own
  <2>6. \A g \in Handler \ {h} : Apart(h, g)'
    BY <1>0, <2>1, <2>3, <2>4 DEF Apart
  <2> QED BY <2>3, <2>4, <2>5, <2>6, InTurnTakes
<1>3. CASE DequeueSelect(h)
  <2>1. PICK rows, picked, broken : Selected(h, rows, picked, broken)
    BY <1>3, SelectedRows
  <2> DEFINE s == [handler[h] EXCEPT !.pc = "start", !.seen = {}, !.locked = rows,
                                     !.plan = Refreshed(picked, broken)]
  <2>2. s.pc = "start" /\ s.locked = rows /\ s.plan = Refreshed(picked, broken)
    BY <1>0 DEF HandlerState
  <2>3. handler' = [handler EXCEPT ![h] = s]
    BY <2>1 DEF Selected
  <2> HIDE DEF s
  <2>4. handler'[h] = s /\ \A g \in Handler \ {h} : handler'[g] = handler[g] /\ Steady(g)
    BY <1>1, <2>3
  <2>5. rows \subseteq Queued /\ \A g \in Handler \ {h} : rows \cap handler[g].locked = {}
    <3>1. CASE handler[h].locked # {}
      <4>1. rows = handler[h].locked
        BY <2>1, <3>1 DEF Selected
      <4> QED BY <1>0, <4>1 DEF Own, Apart
    <3>2. CASE handler[h].locked = {}
      <4>1. rows = FirstOf(DequeueLimit, Eligible(handler[h].seen)) /\ rows \cap Locked = {}
        BY <1>3, <2>1, <3>2 DEF Selected, DequeueSelect
      <4> QED BY <1>0, <4>1 DEF FirstOf, Eligible
    <3> QED BY <3>1, <3>2
  <2>6. \A e \in Execution : Refreshed(picked, broken)[e] # "absent" => e \in rows
    BY <2>1, SMTT(30) DEF Selected, Refreshed
  <2>7. status' = status /\ Queued' = Queued
    BY <1>3 DEF DequeueSelect, Queued, InState
  <2>8. Own(h)'
    BY <2>2, <2>4, <2>5, <2>6, <2>7 DEF Own
  <2>9. \A g \in Handler \ {h} : Apart(h, g)'
    BY <2>2, <2>4, <2>5 DEF Apart
  <2> QED BY <2>4, <2>7, <2>8, <2>9, InTurnTakes
<1> QED BY <1>2, <1>3

LEMMA InTurnStep == TypeOK /\ InTurn /\ [Next]_vars => InTurn'
<1> SUFFICES ASSUME TypeOK, InTurn, [Next]_vars PROVE InTurn'
  OBVIOUS
<1>1. CASE Background
  <2>1. status' = status /\ \A g \in Handler : Steady(g)
    BY <1>1, BackgroundSteady
  <2> QED BY <2>1 DEF InTurn, Own, Apart, Steady, Queued, InState
<1>2. CASE UNCHANGED vars
  <2>1. handler' = handler /\ status' = status
    BY <1>2 DEF vars
  <2>2. Queued' = Queued
    BY <2>1 DEF Queued, InState
  <2>3. \A h \in Handler : Own(h)'
    BY <2>1, <2>2 DEF InTurn, Own
  <2>4. \A g, h \in Handler : g # h => Apart(g, h)'
    BY <2>1 DEF InTurn, Apart
  <2> QED BY <2>3, <2>4 DEF InTurn
<1>3. ASSUME NEW h \in Handler, Publish(h) \/ Broadcast(h) PROVE InTurn'
  <2>1. CASE Publish(h)
    <3>1. PICK out : handler' = [handler EXCEPT ![h] = Publishing(out)]
      BY <2>1 DEF Publish
    <3>2. status' = status
      BY <2>1 DEF Publish
    <3> QED BY <3>1, <3>2, FreeStates, InTurnDone
  <2>2. CASE Broadcast(h)
    <3>1. handler' = [handler EXCEPT ![h] = Idle] /\ status' = status
      BY <2>2 DEF Broadcast
    <3> QED BY <3>1, FreeStates, InTurnDone
  <2> QED BY <1>3, <2>1, <2>2
<1>4. ASSUME NEW h \in Handler, HandlerStep(h) \/ HandlerCrash(h) PROVE InTurn'
  BY <1>3, <1>4, InTurnCommits, InTurnWrites, InTurnDequeue DEF HandlerStep
<1>5. ASSUME NEW h \in Handler, NEW t \in run, NEW st, Report(h, t, st) PROVE InTurn'
  <2>1. PICK final : handler' = [handler EXCEPT ![h] =
                       [Idle EXCEPT !.pc = "update", !.exec = t.exec, !.arg = final, !.client = t]]
    BY <1>5 DEF Report, Receive
  <2> DEFINE s == [Idle EXCEPT !.pc = "update", !.exec = t.exec, !.arg = final, !.client = t]
  <2>2. s.pc = "update" /\ s.locked = {} /\ s.plan = NoPlan /\ s.exec = t.exec
    BY DEF Idle
  <2> HIDE DEF s
  <2>3. handler'[h] = s /\ \A g \in Handler \ {h} : handler'[g] = handler[g] /\ Steady(g)
    BY <2>1, OtherHandlers DEF s, Steady
  <2>4. status' = status /\ status[t.exec] # "absent"
    BY <1>5 DEF Report, Authorized, Active, InState, ACTIVE_STATES, Running, Cancelling
  <2> QED BY <2>2, <2>3, <2>4, InTurnTakes DEF Own, Apart
<1>6. ASSUME NEW h \in Handler, NEW k \in kills, KillTask(h, k) PROVE InTurn'
  <2>1. /\ handler'[h].pc = "update" /\ handler'[h].exec = k.exec /\ status' = status
        /\ handler'[h].locked = {} /\ handler'[h].plan = NoPlan
        /\ \A g \in Handler \ {h} : Steady(g)
    BY <1>6, KillTaskHandler
  <2>2. status[k.exec] # "absent"
    BY <1>6 DEF KillTask, Authorized, Active, InState, ACTIVE_STATES, Running, Cancelling
  <2>3. Own(h)' /\ \A g \in Handler \ {h} : Apart(h, g)'
    BY <2>1, <2>2 DEF Own, Apart
  <2> QED BY <2>1, <2>3, InTurnTakes
<1> QED BY <1>1, <1>2, <1>4, <1>5, <1>6, InTurnRequest
        DEF Next, WorkerStep, Crash, Background, ReportStarted, ReportDone, ReportCancelled

LEMMA InTurnHolds == Spec => []InTurn
<1>1. Init => InTurn
  BY FreeStates DEF Init, InTurn, Own, Apart, Free
<1> QED BY <1>1, InTurnStep, TypeCorrect, PTL DEF Spec

--------------------------------------------------------------------------
(* What ended stays ended, when requests are handled one at a time. *)
OneHandler == \A g, h \in Handler : g = h

\* Where the steps of a handler take it: a dequeue goes on, the others are done.
LEMMA HandlerStepStates ==
  ASSUME TypeOK, NEW h \in Handler, HandlerStep(h) \/ HandlerCrash(h)
  PROVE  /\ \/ DequeueList(h) /\ handler'[h].pc = "dequeue"
            \/ DequeueSelect(h) /\ handler'[h].pc = "start"
            \/ Free(handler'[h])
         /\ \A g \in Handler \ {h} : Steady(g)
<1>1. ASSUME NEW s, handler' = [handler EXCEPT ![h] = s]
      PROVE  handler'[h] = s /\ \A g \in Handler \ {h} : Steady(g)
  BY <1>1, OtherHandlers DEF Steady
<1>3. CASE PostCommit(h)
  <2>1. \E out : handler' = [handler EXCEPT ![h] = Publishing(out)]
    BY <1>3, Zenon DEF PostCommit
  <2> QED BY <1>1, <2>1, FreeStates, ZenonT(40)
<1>4. CASE Publish(h)
  <2>1. \E out : handler' = [handler EXCEPT ![h] = Publishing(out)]
    BY <1>4, Zenon DEF Publish
  <2> QED BY <1>1, <2>1, FreeStates, ZenonT(40)
<1>5. CASE ResumeCommit(h)
  <2>1. \E out : handler' = [handler EXCEPT ![h] = Publishing(out)]
    BY <1>5 DEF ResumeCommit
  <2> QED BY <1>1, <2>1, FreeStates
<1>6. CASE UpdateCommit(h)
  <2>1. \/ handler' = [handler EXCEPT ![h] = Idle]
        \/ handler' = [handler EXCEPT ![h] = [Idle EXCEPT !.pc = "list"]]
    <3>1. CASE maintenance = "off"
      BY <1>6, <3>1, Zenon DEF UpdateCommit
    <3>2. CASE maintenance # "off"
      BY <1>6, <3>2, Zenon DEF UpdateCommit
    <3> QED BY <3>1, <3>2
  <2> QED BY <1>1, <2>1, FreeStates
<1>7. CASE CancelCommit(h)
  <2>1. \E o : handler' = [handler EXCEPT ![h] = [Idle EXCEPT !.pc = "broadcast", !.orders = o]]
    BY <1>7, Zenon DEF CancelCommit
  <2>2. PICK o : handler' = [handler EXCEPT ![h] = [Idle EXCEPT !.pc = "broadcast", !.orders = o]]
    BY <2>1, Zenon
  <2> DEFINE s == [Idle EXCEPT !.pc = "broadcast", !.orders = o]
  <2>3. Free(s)
    BY FreeStates, Zenon
  <2>4. handler' = [handler EXCEPT ![h] = s]
    BY <2>2
  <2> HIDE DEF s
  <2> QED BY <1>1, <2>3, <2>4
<1>8. CASE Broadcast(h) \/ HandlerCrash(h)
  <2>1. handler' = [handler EXCEPT ![h] = Idle]
    BY <1>8 DEF Broadcast, HandlerCrash
  <2> QED BY <1>1, <2>1, FreeStates
<1>9. CASE DequeueList(h)
  <2> DEFINE s == [handler[h] EXCEPT !.pc = "dequeue", !.seen = Active, !.locked = Queued \cap System]
  <2>1. s.pc = "dequeue"
    BY DEF TypeOK, HandlerState
  <2>2. handler' = [handler EXCEPT ![h] = s]
    BY <1>9 DEF DequeueList, TypeOK
  <2> HIDE DEF s
  <2>3. handler'[h] = s /\ \A g \in Handler \ {h} : Steady(g)
    BY <1>1, <2>2
  <2> QED BY <1>9, <2>1, <2>3
<1>10. CASE DequeueSelect(h)
  <2>1. PICK rows, picked, broken : Selected(h, rows, picked, broken)
    BY <1>10, SelectedRows
  <2> DEFINE s == [handler[h] EXCEPT !.pc = "start", !.seen = {}, !.locked = rows,
                                     !.plan = Refreshed(picked, broken)]
  <2>2. s.pc = "start"
    BY DEF TypeOK, HandlerState
  <2>3. handler' = [handler EXCEPT ![h] = s]
    BY <2>1 DEF Selected
  <2> HIDE DEF s
  <2>4. handler'[h] = s /\ \A g \in Handler \ {h} : Steady(g)
    BY <1>1, <2>3
  <2> QED BY <1>10, <2>2, <2>4
<1>11. CASE DequeueCommit(h)
  <2> DEFINE out == handler[h].out \cup Rendered(Starting(h))
             t == [Idle EXCEPT !.pc = "list", !.out = out, !.retry = handler[h].retry + 1]
  <2>1. \E s \in {Publishing(out), t} : handler' = [handler EXCEPT ![h] = s]
    BY <1>11 DEF DequeueCommit
  <2>2. Free(Publishing(out)) /\ Free(t)
    BY FreeStates
  <2> HIDE DEF t, out
  <2> QED BY <1>1, <2>1, <2>2
<1> QED BY <1>3, <1>4, <1>5, <1>6, <1>7, <1>8, <1>9, <1>10, <1>11 DEF HandlerStep

\* What a cancel or a resume was allowed for is still so when it is written.
Answering ==
  \A h \in Handler :
    /\ handler[h].pc = "cancel" =>
         \A e \in handler[h].targets : CancelAllowed(handler[h].arg, status[e])
    /\ handler[h].pc = "resume" => status[handler[h].exec] # "terminated"
    /\ MaxRequests = 0 => handler[h].pc \notin {"cancel", "resume"}

\* That takes requests that are handled one at a time, or none of those requests.
LEMMA AnsweringStep ==
  ASSUME OneHandler \/ MaxRequests = 0, TypeOK, Answering, [Next]_vars
  PROVE  Answering'
<1>1. ASSUME NEW h \in Handler, \A g \in Handler \ {h} : Steady(g),
             handler'[h].pc \notin {"cancel", "resume"}
      PROVE  Answering'
  <2>1. CASE OneHandler
    BY <1>1, <2>1 DEF OneHandler, Answering
  <2>2. CASE MaxRequests = 0
    BY <1>1, <2>2 DEF Answering, Steady
  <2> QED BY <2>1, <2>2
<1>2. CASE UNCHANGED vars
  BY <1>2 DEF vars, Answering
<1>3. CASE Background
  <2>1. status' = status /\ \A g \in Handler : Steady(g)
    BY <1>3, BackgroundSteady
  <2> QED BY <2>1 DEF Answering, Steady
<1>4. ASSUME NEW h \in Handler, NEW t \in run, NEW st, Report(h, t, st) PROVE Answering'
  <2>1. PICK final : handler' = [handler EXCEPT ![h] =
                       [Idle EXCEPT !.pc = "update", !.exec = t.exec, !.arg = final, !.client = t]]
    BY <1>4 DEF Report, Receive
  <2> DEFINE s == [Idle EXCEPT !.pc = "update", !.exec = t.exec, !.arg = final, !.client = t]
  <2>2. s.pc = "update"
    BY DEF Idle
  <2> HIDE DEF s
  <2>3. handler'[h] = s /\ \A g \in Handler \ {h} : Steady(g)
    BY <2>1, OtherHandlers DEF s, Steady
  <2> QED BY <1>1, <2>2, <2>3
<1>5. ASSUME NEW h \in Handler, NEW k \in kills, KillTask(h, k) PROVE Answering'
  BY <1>1, <1>5, KillTaskHandler
<1>6. ASSUME NEW h \in Handler, NEW e \in Execution, NEW force, NEW queue, Post(h, e, force, queue)
      PROVE  Answering'
  <2>1. PICK d, F : handler' = [handler EXCEPT ![h] =
                        [Idle EXCEPT !.pc = "post", !.plan[e] = d, !.flagged = F]]
    BY <1>6 DEF Post
  <2> DEFINE s == [Idle EXCEPT !.pc = "post", !.plan[e] = d, !.flagged = F]
  <2>2. s.pc = "post"
    BY DEF Idle
  <2> HIDE DEF s
  <2>3. handler'[h] = s /\ \A g \in Handler \ {h} : Steady(g)
    BY <2>1, OtherHandlers DEF s, Steady
  <2> QED BY <1>1, <2>2, <2>3
<1>7. ASSUME NEW h \in Handler, NEW e \in Execution, NEW mode, CancelRead(h, {e}, mode)
      PROVE  Answering'
  <2>1. PICK F : handler' = [handler EXCEPT ![h] =
                   [Idle EXCEPT !.pc = "cancel", !.arg = mode, !.targets = {e}, !.flagged = F]]
    BY <1>7 DEF CancelRead
  <2> DEFINE s == [Idle EXCEPT !.pc = "cancel", !.arg = mode, !.targets = {e}, !.flagged = F]
  <2>2. s.pc = "cancel" /\ s.arg = mode /\ s.targets = {e}
    BY DEF Idle
  <2> HIDE DEF s
  <2>3. handler'[h] = s
    BY <2>1, OtherHandlers DEF s
  <2>4. /\ status' = status /\ CancelAllowed(mode, status[e])
        /\ MaxRequests # 0 /\ OneHandler
    BY <1>7 DEF CancelRead, TypeOK
  <2>5. \A g \in Handler : g = h
    BY <2>4 DEF OneHandler
  <2> QED BY <2>2, <2>3, <2>4, <2>5 DEF Answering
<1>8. ASSUME NEW h \in Handler, NEW e \in Execution, NEW force, ResumeRead(h, e, force)
      PROVE  Answering'
  <2>1. handler' = [handler EXCEPT ![h] = [Idle EXCEPT !.pc = "resume", !.exec = e]]
    BY <1>8 DEF ResumeRead
  <2> DEFINE s == [Idle EXCEPT !.pc = "resume", !.exec = e]
  <2>2. s.pc = "resume" /\ s.exec = e
    BY DEF Idle
  <2> HIDE DEF s
  <2>3. handler'[h] = s
    BY <2>1, OtherHandlers DEF s
  <2>4. /\ status' = status /\ status[e] # "terminated"
        /\ MaxRequests # 0 /\ OneHandler
    BY <1>8 DEF ResumeRead, ResumeAllowed, TypeOK
  <2>5. \A g \in Handler : g = h
    BY <2>4 DEF OneHandler
  <2> QED BY <2>2, <2>3, <2>4, <2>5 DEF Answering
<1>9. ASSUME NEW h \in Handler, HandlerStep(h) \/ HandlerCrash(h) PROVE Answering'
  BY <1>1, <1>9, HandlerStepStates DEF Free
<1> QED BY <1>2, <1>3, <1>4, <1>5, <1>6, <1>7, <1>8, <1>9
        DEF Next, UserRequest, WorkerStep, Crash, Background, ReportStarted, ReportDone, ReportCancelled

\* One step leaves an ended execution ended, but for a kill or a resume.
EndedStep(e) ==
  status[e] \in END_STATES /\ WorkflowOf[e] # "create_snapshot" =>
    \/ status'[e] \in END_STATES \cup {"kill_cancelling"}
    \/ status[e] # "terminated" /\ status'[e] = "pending"

LEMMA EndedSteps ==
  ASSUME TypeOK, InTurn, Answering, [Next]_vars, NEW e \in Execution
  PROVE  EndedStep(e)
<1> SUFFICES ASSUME status[e] \in END_STATES, WorkflowOf[e] # "create_snapshot"
             PROVE  \/ status'[e] \in END_STATES \cup {"kill_cancelling"}
                    \/ status[e] # "terminated" /\ status'[e] = "pending"
  BY DEF EndedStep
<1>0. status[e] \notin {"absent", "queued"}
  BY DEF END_STATES
<1>1. CASE status'[e] = status[e]
  BY <1>1
<1>2. ASSUME NEW h \in Handler, PostCommit(h) \/ DequeueCommit(h) \/ HandlerCrash(h)
      PROVE  status'[e] = status[e]
  <2>0. Own(h) /\ handler[h].plan \in Plan
    BY DEF InTurn, TypeOK, HandlerState
  <2>1. CASE HandlerCrash(h)
    BY <1>0, <2>1 DEF HandlerCrash
  <2>2. CASE PostCommit(h)
    <3>1. handler[h].plan[e] = "absent"
      BY <1>0, <2>0, <2>2 DEF Own, PostCommit
    <3> QED BY <2>2, <3>1 DEF PostCommit, WritePlan
  <2>3. CASE DequeueCommit(h)
    <3>1. handler[h].plan[e] = "absent"
      BY <1>0, <2>0, <2>3 DEF Own, DequeueCommit, Queued, InState
    <3> QED BY <2>3, <3>1 DEF DequeueCommit, WritePlan
  <2> QED BY <1>2, <2>1, <2>2, <2>3
<1>3. ASSUME NEW h \in Handler, UpdateCommit(h) PROVE status'[e] = status[e]
  <2>1. CASE handler[h].exec # e
    BY <1>3, <2>1 DEF UpdateCommit, TypeOK
  <2>2. CASE handler[h].exec = e
    <3>1. ValidUpdate(WorkflowOf[e] = "create_snapshot", status[e], handler[h].arg) =>
            status[e] = handler[h].arg
      BY DEF ValidUpdate
    <3> QED BY <1>3, <2>2, <3>1 DEF UpdateCommit, TypeOK
  <2> QED BY <2>1, <2>2
<1>4. ASSUME NEW h \in Handler, CancelCommit(h)
      PROVE  status'[e] = status[e] \/ status'[e] = "kill_cancelling"
  <2>1. CASE e \notin handler[h].targets
    BY <1>4, <2>1 DEF CancelCommit
  <2>2. CASE e \in handler[h].targets
    <3>1. CancelAllowed(handler[h].arg, status[e])
      BY <1>4, <2>2 DEF CancelCommit, Answering
    <3>2. handler[h].arg = "kill"
      BY <1>0, <3>1 DEF CancelAllowed, KillFlag, END_STATES, Running
    <3> QED BY <1>4, <2>2, <3>2 DEF CancelCommit, CancelStatus
  <2> QED BY <2>1, <2>2
<1>5. ASSUME NEW h \in Handler, ResumeCommit(h)
      PROVE  status'[e] = status[e] \/ (status[e] # "terminated" /\ status'[e] = "pending")
  BY <1>5 DEF ResumeCommit, Answering, TypeOK
<1>6. ASSUME NEW h \in Handler, Publish(h) \/ Broadcast(h) \/ DequeueList(h)
      PROVE  status' = status
  BY <1>6 DEF Publish, Broadcast, DequeueList
<1>7. ASSUME NEW h \in Handler, DequeueSelect(h)
      PROVE  status' = status
  BY <1>7 DEF DequeueSelect
<1>8. ASSUME NEW h \in Handler, UserRequest(h)
      PROVE  status' = status
  BY <1>8 DEF UserRequest, Post, CancelRead, ResumeRead
<1>9. ASSUME WorkerStep PROVE status' = status
  BY <1>9 DEF WorkerStep, Consume, RunDenied, KillTaskDenied, ReportStarted, ReportDone,
              ReportCancelled, Report, KillTask
<1>10. ASSUME NEW w \in Worker, WorkerCrash(w) PROVE status' = status
  BY <1>10 DEF WorkerCrash
<1>11. CASE UNCHANGED vars
  BY <1>11 DEF vars
<1> QED BY <1>1, <1>2, <1>3, <1>4, <1>5, <1>6, <1>7, <1>8, <1>9, <1>10, <1>11
        DEF Next, HandlerStep, Crash

\* An ended execution is made active again by a kill, or by a resume that is
\* allowed for it, and by nothing else: no late report, no dequeue and no
\* creation writes over it, whatever handlers do at once; and when requests are
\* handled one at a time, no cancel that was read before it ended does.
THEOREM EndedIsKept ==
  OneHandler \/ MaxRequests = 0 => (Spec => EndedStaysEnded)
<1> SUFFICES ASSUME OneHandler \/ MaxRequests = 0 PROVE Spec => EndedStaysEnded
  OBVIOUS
<1>1. Init => Answering
  BY FreeStates DEF Init, Answering, Free
<1>2. TypeOK /\ Answering /\ [Next]_vars => Answering'
  BY AnsweringStep
<1>3. TypeOK /\ InTurn /\ Answering /\ [Next]_vars =>
        [\A e \in Execution : EndedStep(e)]_vars
  BY EndedSteps
<1>4. Spec => [][\A e \in Execution : EndedStep(e)]_vars
  BY <1>1, <1>2, <1>3, TypeCorrect, InTurnHolds, PTL DEF Spec
<1> QED BY <1>4 DEF EndedStaysEnded, EndedStep
=============================================================================
