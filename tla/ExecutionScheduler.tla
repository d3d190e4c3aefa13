------------------------- MODULE ExecutionScheduler -------------------------
(***************************************************************************)
(* One execution schedule and the managers whose scheduler looks after it  *)
(* (execution_scheduler/main.py), with the REST requests on it             *)
(* (rest/resources_v3_1/execution_schedules.py).                           *)
(*                                                                         *)
(* A manager reads the row before it takes the advisory lock, and acts on  *)
(* what it has read; its writes are committed one by one.  The loop goes   *)
(* through all the schedules it has listed as due, and the commit or the   *)
(* rollback of one expires the rows of the ones after it: one schedule is  *)
(* modelled, which another may precede in the list, so that its row is     *)
(* read again (Reread).  Maintenance mode, in which the loop does nothing, *)
(* is off.                                                                 *)
(***************************************************************************)
EXTENDS Integers, Sequences

CONSTANTS
  Manager,    \* nodes of the cluster, each with a scheduler
  None,       \* no occurrence, no manager
  Rules,      \* recurrence rules, each the set of times at which it occurs
  Slip,       \* the schedule's slip, with the minute that is added to it
  StopOnFail, \* the schedule's stop_on_fail
  MaxTime, MaxExecs, MaxPatches, MaxCrashes  \* bounds

ASSUME SchedulerAssumption ==
  /\ None \notin Manager \cup Nat
  /\ Rules \subseteq SUBSET (0 .. MaxTime) /\ Rules # {}
  /\ Slip \in Nat /\ StopOnFail \in BOOLEAN
  /\ MaxTime \in Nat /\ MaxExecs \in Nat /\ MaxPatches \in Nat /\ MaxCrashes \in Nat

VARIABLES
  now,         \* the clock
  sched,       \* the row in execution_schedules
  execs,       \* executions the schedule has created, in order
  lock,        \* who holds the advisory lock of the schedule
  mgr,         \* where each manager is in try_run, and what it has read
  patches, crashes,  \* how many there were (bounded)
  unrecorded,  \* history: executions the row was not told about in time
  patchedOver  \* history: a PATCH came while a manager was at the schedule

vars == <<now, sched, execs, lock, mgr, patches, crashes, unrecorded, patchedOver>>

Time == 0 .. MaxTime
Occurrence == Time \cup {None}

\* `latest' is a position in execs, 0 for NULL.
Row == [exists : BOOLEAN, enabled : BOOLEAN, rule : Rules,
        next : Occurrence, latest : 0 .. MaxExecs]

\* "rejected" executions failed before they were sent.
ExecStatus == {"pending", "sent", "terminated", "failed", "rejected"}
END_STATES == {"terminated", "failed", "rejected"}

Pcs == {"idle", "loaded", "locked", "create", "prepare", "commit"}

\* A manager between two rounds of its loop keeps nothing.
NoRow == [exists |-> FALSE, enabled |-> FALSE, rule |-> CHOOSE rule \in Rules : TRUE,
          next |-> None, latest |-> 0]
Idle == [pc |-> "idle", row |-> NoRow, next |-> None, latest |-> 0, new |-> 0,
         disable |-> FALSE, ahead |-> FALSE]

\* rrule.after: the first occurrence later than t.
After(rule, t) ==
  IF \E x \in rule : x > t
  THEN CHOOSE x \in rule : x > t /\ \A y \in rule : y > t => x <= y
  ELSE None
--------------------------------------------------------------------------
\* check_schedules: the schedules that are due are read,
Load(m) ==
  /\ mgr[m].pc = "idle"
  /\ sched.exists /\ sched.enabled
  /\ sched.next # None /\ sched.next < now
  /\ mgr' = [mgr EXCEPT ![m].pc = "loaded", ![m].row = sched]
  /\ UNCHANGED <<now, sched, execs, lock, patches, crashes, unrecorded, patchedOver>>

\* and, when an earlier schedule of the list has been tried, read again: what
\* is there now is taken, due and enabled or not.
Reread(m) ==
  /\ mgr[m].pc = "loaded" /\ sched.exists
  /\ mgr' = [mgr EXCEPT ![m].row = sched]
  /\ UNCHANGED <<now, sched, execs, lock, patches, crashes, unrecorded, patchedOver>>

\* (mutant) the answer of pg_try_advisory_lock is ignored
TryLockIgnored(m) ==
  /\ mgr[m].pc = "loaded"
  /\ lock' = IF lock = None THEN m ELSE lock
  /\ mgr' = [mgr EXCEPT ![m].pc = "locked"]
  /\ UNCHANGED <<now, sched, execs, patches, crashes, unrecorded, patchedOver>>

\* The schedule is tried: without the lock the manager gives up.
TryLock(m) ==
  /\ mgr[m].pc = "loaded"
  /\ lock' = IF lock = None THEN m ELSE lock
  /\ mgr' = [mgr EXCEPT ![m] = IF lock = None THEN [@ EXCEPT !.pc = "locked"]
                                             ELSE Idle]
  /\ UNCHANGED <<now, sched, execs, patches, crashes, unrecorded, patchedOver>>

\* The status of the latest execution that manager m knows of, as it is now.
LastStatus(m) ==
  IF mgr[m].row.latest = 0 THEN "none" ELSE execs[mgr[m].row.latest].status

\* (mutants) an execution that is running, or has failed, does not matter
LastFailedOnly(m) == StopOnFail /\ LastStatus(m) = "failed"
LastRunningOnly(m) == LastStatus(m) \notin END_STATES \cup {"none"}

\* The latest execution keeps the next one from running.
LastBlocks(m) ==
  \/ LastStatus(m) \notin END_STATES \cup {"none"}
  \/ StopOnFail /\ LastStatus(m) = "failed"

ShouldRun(m) == ~ LastBlocks(m) /\ now - mgr[m].row.next <= Slip

\* A row that was read again may have no next occurrence for should_run to parse.
NothingToParse(m) == ~ LastBlocks(m) /\ mgr[m].row.next = None

\* try_run computes the next occurrence and decides.  A schedule whose latest
\* execution has failed is to be disabled.  (`ahead': the occurrence that the
\* manager has read is still to come.)
Decide(m) ==
  /\ mgr[m].pc = "locked" /\ ~ NothingToParse(m)
  /\ mgr' = [mgr EXCEPT
       ![m].pc = IF ShouldRun(m) THEN "create" ELSE "commit",
       ![m].next = After(mgr[m].row.rule, now),
       ![m].latest = mgr[m].row.latest,
       ![m].disable = StopOnFail /\ LastStatus(m) = "failed",
       ![m].ahead = mgr[m].row.next # None /\ mgr[m].row.next > now]
  /\ UNCHANGED <<now, sched, execs, lock, patches, crashes, unrecorded, patchedOver>>

\* execute_workflow commits a pending execution,
Create(m) ==
  /\ mgr[m].pc = "create"
  /\ Len(execs) < MaxExecs
  /\ execs' = Append(execs, [status |-> "pending", at |-> mgr[m].row.next,
                             early |-> mgr[m].ahead])
  /\ mgr' = [mgr EXCEPT ![m].pc = "prepare", ![m].new = Len(execs) + 1]
  /\ unrecorded' = IF sched = mgr[m].row THEN unrecorded
                   ELSE unrecorded \cup {Len(execs) + 1, sched.latest}
  /\ UNCHANGED <<now, sched, lock, patches, crashes, patchedOver>>

\* prepares it and sends it,
Prepared(m) ==
  /\ mgr[m].pc = "prepare"
  /\ execs' = [execs EXCEPT ![mgr[m].new].status = "sent"]
  /\ mgr' = [mgr EXCEPT ![m].pc = "commit", ![m].latest = mgr[m].new]
  /\ UNCHANGED <<now, sched, lock, patches, crashes, unrecorded, patchedOver>>

\* or fails it, and then the schedule has no latest execution.
PrepareFails(m) ==
  /\ mgr[m].pc = "prepare"
  /\ execs' = [execs EXCEPT ![mgr[m].new].status = "rejected"]
  /\ mgr' = [mgr EXCEPT ![m].pc = "commit", ![m].latest = 0]
  /\ UNCHANGED <<now, sched, lock, patches, crashes, unrecorded, patchedOver>>

\* (mutants) the next occurrence is not written, or only after an execution
WrittenLatest(m) ==
  [sched EXCEPT !.latest = IF mgr[m].new = 0 THEN @ ELSE mgr[m].latest,
                !.enabled = @ /\ ~ mgr[m].disable]
WrittenIfRun(m) ==
  [sched EXCEPT !.next = IF mgr[m].new = 0 THEN @ ELSE mgr[m].next,
                !.latest = IF mgr[m].new = 0 THEN @ ELSE mgr[m].latest,
                !.enabled = @ /\ ~ mgr[m].disable]

\* The row that manager m commits: the columns it has assigned.
Written(m) ==
  [sched EXCEPT !.next = mgr[m].next,
                !.latest = IF mgr[m].new = 0 THEN @ ELSE mgr[m].latest,
                !.enabled = @ /\ ~ mgr[m].disable]

\* try_run ends: the row is written and the lock released.
Commit(m) ==
  /\ mgr[m].pc = "commit" /\ sched.exists
  /\ sched' = Written(m)
  /\ lock' = None
  /\ mgr' = [mgr EXCEPT ![m] = Idle]
  /\ UNCHANGED <<now, execs, patches, crashes, unrecorded, patchedOver>>

\* The process of manager m ends and is started again: the database releases
\* its lock, and an execution it has created stays.
Restart(m) ==
  /\ mgr' = [mgr EXCEPT ![m] = Idle]
  /\ lock' = IF lock = m THEN None ELSE lock
  /\ unrecorded' = unrecorded \cup ({mgr[m].new} \ {0})
  /\ UNCHANGED <<now, sched, execs, patches, patchedOver>>

\* The row is gone when it is read again or written, or has nothing to parse:
\* that raises out of the loop.
Raises(m) ==
  /\ \/ mgr[m].pc \in {"loaded", "commit"} /\ ~ sched.exists
     \/ mgr[m].pc = "locked" /\ NothingToParse(m)
  /\ Restart(m)
  /\ UNCHANGED crashes

Crash(m) ==
  /\ mgr[m].pc # "idle" /\ crashes < MaxCrashes
  /\ crashes' = crashes + 1
  /\ Restart(m)
--------------------------------------------------------------------------
\* (mutant) a new rule does not move the next occurrence
PatchedRuleOnly(rule, enabled) == [sched EXCEPT !.rule = rule, !.enabled = enabled]

Patched(rule, enabled) ==
  [sched EXCEPT !.rule = rule, !.enabled = enabled, !.next = After(rule, now)]

\* PATCH /execution-schedules/<id>
Patch(rule, enabled) ==
  /\ sched.exists /\ patches < MaxPatches
  /\ patches' = patches + 1
  /\ sched' = Patched(rule, enabled)
  /\ patchedOver' = (patchedOver \/ \E m \in Manager : mgr[m].pc # "idle")
  /\ UNCHANGED <<now, execs, lock, mgr, crashes, unrecorded>>

\* DELETE /execution-schedules/<id>
Delete ==
  /\ sched.exists /\ patches < MaxPatches
  /\ patches' = patches + 1
  /\ sched' = [sched EXCEPT !.exists = FALSE]
  /\ UNCHANGED <<now, execs, lock, mgr, crashes, unrecorded, patchedOver>>

\* An execution that was sent ends.
End(i, st) ==
  /\ execs[i].status = "sent"
  /\ execs' = [execs EXCEPT ![i].status = st]
  /\ UNCHANGED <<now, sched, lock, mgr, patches, crashes, unrecorded, patchedOver>>

Tick ==
  /\ now < MaxTime
  /\ now' = now + 1
  /\ UNCHANGED <<sched, execs, lock, mgr, patches, crashes, unrecorded, patchedOver>>
--------------------------------------------------------------------------
\* PUT /execution-schedules/<id> at time 0.
Init ==
  /\ now = 0
  /\ \E rule \in Rules :
       sched = [exists |-> TRUE, enabled |-> TRUE, rule |-> rule,
                next |-> After(rule, 0), latest |-> 0]
  /\ execs = <<>>
  /\ lock = None
  /\ mgr = [m \in Manager |-> Idle]
  /\ patches = 0 /\ crashes = 0
  /\ unrecorded = {}
  /\ patchedOver = FALSE

\* What manager m does by itself.
Step(m) ==
  \/ Load(m) \/ Reread(m) \/ TryLock(m) \/ Decide(m) \/ Create(m)
  \/ Prepared(m) \/ PrepareFails(m) \/ Commit(m) \/ Raises(m)

Next ==
  \/ \E m \in Manager : Step(m) \/ Crash(m)
  \/ \E rule \in Rules, enabled \in BOOLEAN : Patch(rule, enabled)
  \/ Delete
  \/ \E i \in DOMAIN execs, st \in {"terminated", "failed"} : End(i, st)
  \/ Tick

\* Every manager keeps running its loop.
Spec == Init /\ [][Next]_vars /\ \A m \in Manager : WF_vars(Step(m))
--------------------------------------------------------------------------
\* The variables have their types, and who is past the lock holds it.
TypeOK ==
  /\ now \in Time
  /\ sched \in Row
  /\ execs \in Seq([status : ExecStatus, at : Time, early : BOOLEAN]) /\ Len(execs) <= MaxExecs
  /\ lock \in Manager \cup {None}
  /\ mgr \in [Manager -> [pc : Pcs, row : Row, next : Occurrence,
                          latest : 0 .. MaxExecs, new : 0 .. MaxExecs,
                          disable : BOOLEAN, ahead : BOOLEAN]]
  /\ \A m \in Manager : (lock = m) <=> mgr[m].pc \notin {"idle", "loaded"}
  /\ patches \in 0 .. MaxPatches /\ crashes \in 0 .. MaxCrashes
  /\ unrecorded \subseteq 0 .. MaxExecs
  /\ patchedOver \in BOOLEAN

Recorded == DOMAIN execs \ unrecorded

\* The recorded executions that were not started ahead of their occurrence.
OnTime == {i \in Recorded : ~ execs[i].early}

\* Once it has come, an occurrence is executed at most once, unless the manager
\* that did was overtaken between reading the row and taking the lock, or the
\* first one died before it could record the execution.  (Before it has come it
\* may be executed besides, any number of times, by managers that have read the
\* row again after another schedule of their list: those are not on time.)
RunsOnce ==
  \A i, j \in OnTime : execs[i].at = execs[j].at => i = j

\* Nor do executions of the schedule overlap.
NoOverlap ==
  \A i, j \in Recorded :
    execs[i].status = "sent" /\ execs[j].status = "sent" => i = j

\* With stop_on_fail, an execution that fails is the last one, also when the
\* schedule is enabled again.  (One that failed in preparation is forgotten.)
StopsOnFail ==
  [][StopOnFail /\ Len(execs') > Len(execs)
     => \A i \in DOMAIN execs \ unrecorded' : execs[i].status # "failed"]_vars

\* The next occurrence belongs to the rule, unless a PATCH came while a manager
\* was at the schedule: the manager writes the one it has computed before.
NextFollowsRule ==
  ~ patchedOver => sched.next \in sched.rule \cup {None}

\* A schedule is not left behind: an occurrence that is due is passed.
DueMovesOn ==
  \A x \in UNION Rules :
    (sched.exists /\ sched.enabled /\ sched.next = x /\ x < now)
      ~> ~ (sched.exists /\ sched.enabled /\ sched.next = x)
=============================================================================
