# TLA+ models of the Cloudify manager

This project models the parts of cloudify-manager that share one PostgreSQL
database through short, mostly unlocked READ COMMITTED transactions. Its core is
what decides which workflow executions run, when, and what is known about them:
the REST handlers, the execution scheduler, the AMQP queues and the mgmtworkers.
Around it are the tree of deployments and its summaries, deployment modifications,
the upload of blueprints, and the service that stores logs and events.

Paths are relative to the repository. RM stands for
`rest-service/manager_rest/resource_manager.py`.

## 1. Inventory of the system

| Component | State | Operations | Interacts with | What is hard | Correct if |
|---|---|---|---|---|---|
| Workflow executions (RM, `rest/resources_v1/executions.py`, `storage/resource_models.py`) | `executions.status`, tokens | POST, PATCH status, cancel / force-cancel / kill, resume, dequeue | database, AMQP, mgmtworkers, groups, maintenance mode | decisions rest on unlocked reads; publishing follows the commit; late reports | executions that must run separately do; whatever is active has somebody to end it; an ended execution stays ended; whatever is queued moves on |
| Workflow dispatch (`workflow_executor.py`, RabbitMQ) | workflow queue, fanout of service tasks | publish, consume, ack, redeliver | REST, mgmtworkers | redelivery after a crash, orders handled late | a message is acted on with a token the manager accepts |
| Mgmtworker (`mgmtworker/worker.py`) | running workflow processes | consume, report, kill | AMQP, REST | late acks; kills racing with resumes | as above |
| Execution tokens (`security/user_handler.py`) | token of an execution | issue, check | all requests of workflows | replaced by kill and resume | an old process cannot move a resumed execution |
| Execution groups (`rest/resources_v3_1/executions.py`) | members, `concurrency` | POST, cancel, resume, PATCH | executions, dequeue | one member of several fails | limits are kept; what is started is sent |
| Maintenance mode (`maintenance.py`, `resources_v2_1/maintenance_mode.py`) | off, activating, activated | activate, deactivate, check before each request | executions | activated by whichever request finds nothing running; some endpoints, and a header, are let through | nothing runs or waits once it is active but what is let through |
| Tasks graphs and operations (`resources_v3_1/operations.py`, RM) | `operations.state`, counters of the execution | store a graph, PUT, PATCH, DELETE, reset on resume | workflows, agents, resume | counters written back from stale reads; resume racing with reports | counters are exact; a resume runs again exactly what has to be |
| Execution scheduler (`execution-scheduler`, `resources_v3_1/execution_schedules.py`) | schedule rows, advisory locks | loop of every manager; PUT, PATCH, DELETE | executions | the row is read before the lock is taken, or again after another schedule's commit; several commits | each occurrence runs once when it has come; no schedule is left behind |
| Deployments: labels graph, inter-deployment dependencies, deletion (RM, `resources_v3_1/deployments.py`) | labels, edges, dependencies, a summary per deployment | PATCH labels, group labels and members, dependencies, status reports, delete | executions | the cycle check, the insertion and the summaries are separate; rows are locked in different orders | the labels graph is acyclic and says what the labels say; every row sums up what is below it |
| Deployment modifications (RM, `resources_v1/nodes.py`) | modification, node instances and their versions | start, finish, rollback; PATCH of an instance | workflows | many commits per request; versions that go back | counts and relationships fit the instances there are; rollback restores; no unread change is overwritten |
| Blueprints (`resources_v3_1/blueprints.py`, `upload_manager`, `cloudify_system_workflows/blueprint.py`) | row, archive and folder of each id | upload, validate, PATCH by the workflow, icon, delete | executions, file server, deployments, other blueprints | three stores under one id, archives of several types, no lock over them, several requests and a workflow with errors it does not catch | an uploaded blueprint has its own files; nothing in use is deleted; a failed upload leaves no half-made one |
| Deployment updates (`cloudify_system_workflows/deployment_update`) | update rows, plan | steps of one workflow | executions | sequential | |
| Plugins (RM, `plugins_update`) | install state per manager and agent | install, update, finalize | executions | several reporters | |
| Snapshots (`cloudify_system_workflows/snapshots`) | files | create, restore | executions | file and table dumps | |
| amqp-postgres | unacked messages, batch, cache of executions | consume, store in a batch or one by one, ack, restart | AMQP, database | failing batches, redelivery, stale cache, one thread dying | nothing acked is lost; nothing is stored more often than delivered |
| Storage manager (`storage/storage_manager.py`) | session, transaction | get, list, put, update, transaction | everything | expiry of what was read, at each commit | |
| Component types, DSL parser, api-service, migrations, packaging | | | | no protocol of their own | |

`PROJECT.json` lists the same components with their status, and the hazards at
the lines where they bite.

## 2. Modules

| Module | Models |
|---|---|
| `ExecutionStates` | the statuses, and which of them follow which on a report, a cancel or a resume |
| `Executions` | executions, REST handlers, workflow queue, kill orders, mgmtworkers, crashes |
| `ExecutionsProofs` | theorems about `Executions` |
| `ExecutionGroups` | requests on groups; extends `Executions` |
| `Maintenance` | maintenance mode; extends `Executions` |
| `Manager` | the three above composed |
| `ManagerProofs` | theorems about `Manager`; extends `ExecutionsProofs` |
| `TasksGraphs` | the operations of one execution, their counters, and resume |
| `TasksGraphsProofs` | theorems about `TasksGraphs` |
| `ExecutionScheduler` | one schedule and the managers that run it |
| `ExecutionSchedulerProofs` | theorems about `ExecutionScheduler` |
| `EventJournal` | what is promised of logs and events: the abstract specification |
| `LogPublisher` | amqp-postgres, which implements `EventJournal` |
| `LogPublisherProofs` | theorems about `LogPublisher`, the refinement among them |
| `DeploymentStatus` | how statuses and counts are summed up (operators only) |
| `DeploymentTree` | labels, the labels graph, dependencies, a group, deletion, `recalc_ancestors` |
| `DeploymentTreeProofs` | theorems about `DeploymentTree` |
| `Blueprints` | blueprint rows, archives and folders, their uploads and deletion |
| `BlueprintsProofs` | theorems about `Blueprints` |
| `Modifications` | modifications of one deployment and its node instances |
| `ModificationsProofs` | theorems about `Modifications` |
| `MC*` | the instances that TLC checks |

### Executions

A REST handler is a process that handles one request at a time; there are as many
as REST workers in the cluster. A request becomes as many actions as there are
points where another handler may come in between:

* `Post` is the decision of `prepare_executions` (fail, queue, start), made on
  what the database holds then; `PostCommit` writes it and issues a token;
  `Publish` sends one message. `GateDecision`, `MustQueue`, `DeploymentBusy`,
  `SystemBusy` and `AnyActive` are the filters of `check_for_executions` and its
  helpers.
* `Report*` is the arrival of a PATCH with a token (`Authorized`),
  `UpdateCommit` the validation and the write under the row lock
  (`update_execution_status`), after which the handler dequeues if the execution
  has ended.
* `DequeueList`, `DequeueSelect` and `DequeueCommit` are
  `start_queued_executions`: what counts as running is read first
  (`_report_running`), then up to `DequeueLimit` queued rows are locked and each is
  checked again (`Refreshed`, that is `_refresh_execution`), then what may start
  is written. `DequeueRetries` is the five of the code.
* `CancelRead`, `CancelCommit` and `Broadcast` are `cancel_execution` with its
  two transactions; `ResumeRead` and `ResumeCommit` are `resume_execution`.
* `Consume`, `RunDenied`, `KillTask`, `KillTaskDenied`, `WorkerCrash` are the
  mgmtworker. A message stays unacked while its workflow runs, and a crash
  puts it back. `HandlerCrash` ends a request where it is.

Three history variables say which promises the code has given up: `bypassed`
(executions made active although the gate was closed for them: force, resume, a
workflow that does not block, a cancel of an ended execution, a start on an
overtaken decision), `overtaken` (handlers whose decision another start has
made stale) and `lost` (active executions whose carrier was dropped by a crash, by
an error after the commit, or by a cancel that revived them). They are assigned
where it happens, never by looking at the property.

The deployment of an execution, its kind of workflow and its groups are constants.
Left out: executions that cascade to inner Component deployments,
`scheduled_time`, the `requeue` action, dry runs, executions imported with
`force_status`, and that `delete_deployment_environment` may run although the environment could
not be created: here such an environment makes every execution of the deployment fail.

### ExecutionGroups, Maintenance, Manager

`GroupPost`, `GroupResume`, `GroupCancel` and `SetConcurrency` are the requests on
groups. `Slices` is `executions[:concurrency]` of `start_executions`, in any order,
since the relationship has none; `GroupCommit` includes the raise after the
commit of `prepare_executions`, which drops the messages.

`MaintenanceRead` and `MaintenanceStore` are the two steps of an activation,
`MaintenanceActivated` the check that precedes every request. What
`maintenance_mode_handler` refuses in which mode is a conjunct of each request's
action: `Admitted` for requests on executions that exist, `PostAdmitted` for the one
that creates an execution. Constants say which endpoint creates it (`EndpointOf`: POST
`executions`, the snapshots, or another one that `_handle_activating_mode` does not know)
and on which executions requests come with the bypass header (`Bypassing`). Their
messages, like those of snapshots, carry `bypass_maintenance`, unless they come from a dequeue
or a resume: reports of `LetThrough` may be accepted in any mode, and any process may be refused
once the mode is active and end (`RunRefused`), with its execution as it was. A log bundle, whose message carries
the flag though its endpoint is refused, is `"other"` here: while one runs, the mode
does not become active.

The orders of a group kill are handled one by one: the loop of
`cancel_workflow_task` that stops at an error it does not expect is not modelled.

### TasksGraphs

`GraphRead`/`GraphCommit` and `Put`/`PutRead`/`PutCommit` show that storing
operations reads the counters and writes both of them back; `Patch` and `Delete`
count in SQL. A graph's operations may be given as ended already, as a restore does, and are
counted as such (`GraphCommit`). `Patch` takes the states that the workflow library sends,
in its order (`Follows`); the handler would take any. `ResetRead`, `Consider`, `Reset` and `Resume` are a resume. SQLAlchemy
expires what it holds at each commit, so `Consider` uses the listed state of an
operation until the first commit and reads it again after that. `drift` records
the steps that leave the counters wrong, `late` the operations that changed while
a resume was at work. Operation states `sending`, `sent` and `started` are one.
Left out: update-stored inputs, events, node instances changed on success.

### ExecutionScheduler

`Load`, `TryLock`, `Decide`, `Create`, `Prepared` or `PrepareFails`, and `Commit` are the
steps of `check_schedules` and `try_run`; `Crash` ends a manager at any of them and
releases its session's advisory lock. One schedule is modelled. Others matter in one way: the
commit or rollback of a schedule expires the rows of those after it in the list, and
the next use of such a row reads it again without asking whether it is enabled and due
(`Reread`); a row that has no next occurrence then, or is gone, ends the round (`Raises`).
So a manager may run an occurrence ahead of its time (`early`), and it is run again when it has
come. A rule is the set of times at which it occurs.
`unrecorded` holds the executions of managers that were overtaken between the read
and the lock, or died before they could record them.

### LogPublisher and EventJournal

Two threads share two queues. The consumer thread is `Deliver` and `Ack`; the
publisher thread is `Take`, `Store`, `Lookup` (an item at a time, through the cache),
`StoreCommit`, and, when a batch fails, `StoreFails`, `LookupOne`, `InsertOne` and
`StoredOneByOne`. A `Reconnect` gives RabbitMQ back what was not acked while both
threads keep deliveries of the channel that is gone; acking one of those ends the
service (`AckStale`), as the loss of the database and a crash do. An error that
`_store_nobatch` does not expect ends the publisher thread alone (`ThreadDies`,
`DatabaseLostUnseen`). Messages are told apart by `Kind` only.

`EventJournal` is the promise: a message leaves the queue when it was recorded, is
of no use, or had no execution. `Journal` is the refinement mapping: `exists` is the
set of executions with a row, `waiting` is what is queued or unacked, and
`Unwanted` what is for the hooks or malformed. The history `orphans` holds messages
whose execution was missing at some moment while their batch was being stored.

### DeploymentStatus and DeploymentTree

`DeploymentStatus` has `compare_statuses`, `decide_deployment_status` and `Summary`,
which is `get_children_summary` with what `recalc_ancestors` does with it. In
`DeploymentTree` a request is one step up to its inserts (`Patch`, `GroupAdd`,
`GroupSet`, `IddPut`, with the cycle checks on what is committed then), one for its
inserts and the commit (`PatchCommit`, `GroupAddCommit`, `GroupSetCommit`,
`IddCommit`), and then `recalc_ancestors` in a transaction of its own: `RecalcQuery`
reads what is above, `RecalcLock` locks it row by row, `RecalcCommit` writes the
summaries in the order of the code. `Levels` and `get_dependencies` give the recursive
query with its order and duplicates, since that order is the order of the summaries;
`Endless` is the query that does not end on a cycle. `Held`, `Shared`, `Wanted` and
`Waits` are the row locks, with the key-share locks that inserts take on the rows they
refer to; the database ends a request of a cycle of waits (`DeadlockAbort`).
`CanInsert` is the unique constraint on edges and the foreign keys of both ends: a PATCH or a
group whose edge another request has inserted meanwhile fails at its flush and leaves nothing.
Deletion is `Delete` with its checks, then the steps of its execution; `DeleteRefused` is one
whose execution is refused after the status of the deployment was committed. `Cancel` is
`cancel_execution`, which writes that status and does not recalculate. Inter-deployment
dependencies are there because they keep a deployment from being deleted and because their
failure is committed and recalculated with the rest; no property is about them alone.

`overtaken` says which kinds of requests inserted edges on a cycle check that another
one had made stale; `lost` that a recalculation did not happen (a deadlock, a cancel, a refused
delete), had read a graph to which
edges were added before it was done, or went over a deployment that is reached at two
levels (`Uneven`), which may be summed up before one below it, in one transaction and with
nobody else at work: the comment of `recalc_ancestors` that parents come before
grandparents holds for graphs that are even. `RollupCurrent` leaves these out, and what follows a
group request that was overtaken: it may leave an edge that no label names, and
`delete_deployment` looks for parents by labels.
Left out: creation by a workflow, consumer labels, recursive deletion of services,
dependencies on external deployments, deletion of a group.

### Blueprints

Three stores, all by the id of the blueprint: the row, `archive`, `folder`. Archives lie beside
each other by type, `<id>.<type>`, and `find` takes the first one in the order of
`SUPPORTED_ARCHIVE_TYPES` (`Found`), while a download sends any of them (`WfFetch`). An upload is
a PUT (`PutReplace`, `PutRow`, `PutArchive`, `PutFails`, or `ValidateRow`) and the
workflow it starts (`Wf*`), whose PATCHes are refused once the row, and the
execution with it, is gone (`Authorised`). The last PATCH is `PatchRead`,
`PatchExtract` and `PatchCommit`, with the ways it fails; its answer may be lost
(`PatchUnanswered`), and then the workflow reports a failure. `WfStops` is an error outside of
any `try` of the workflow (a PATCH of the state that fails, an archive that unpacks to nothing,
a provider context that cannot be read): it ends with its row as it is, and the id can be used
again only after a forced delete, as when a process dies (`UploadDies`, `DeleteDies`). `DeleteCheck`,
`DeleteFiles`, `DeleteRow` are a delete, `CreateCheck` and `CreateCommit` the creation
of a deployment, `SetIcon` and `RemoveIcon` rewrite the archive from the folder. Files
are named by the upload they come from. `Moved` is `shutil.move`, which nests.

Histories: `mixed` (uploads whose files something else wrote to, or which found an archive of
another type or a folder under their id), `excused` (imports a
delete could not see or was told not to), `unanswered`, `swept` (uploads whose
deployments went with their row although the request could see them).
Left out: S3 storage, `skip_execution`, validation from a URL, visibility, labels, and that
two PUTs of one id at the same time write to one temporary file; the parser is a choice of
imports.

### Modifications

One scaled node and `Hub`, an instance related to all of its instances. Each commit of
`start_deployment_modification`, `finish_deployment_modification` and
`rollback_deployment_modification` is an action; the loops commit once per instance, and a
rollback that adds an instance again commits it with version 1 first (`RollbackReadd`) and with
its old version then (`RollbackRestore`).
`Fails` ends a request between two commits, which can be sent again or be followed by the
opposite one. `Read` and `Write` are a client of PATCH `/node-instances/<id>` with its
version. A rollback restores rows with their old version, which `rolled` records;
`crossed` holds modifications started beside another or handled by two requests at once,
`hands` what was begun on each. Left out: scaling groups, several scaled nodes, `force`.

## 3. Runs

| Run | Question | Result |
|---|---|---|
| `ExecConcurrent` | two handlers, two mgmtworkers: `TypeOK`, `Exclusive`, `ActiveIsCarried` | holds |
| `ExecKinds` | environment creation, snapshot and plugin update, two handlers and a crash: `DecisionsHold`, `ActiveIsCarried`, `EndedStaysEnded` | holds |
| `ExecLive` | one handler, four executions that may fail, two attempts to dequeue, and a cancel, kill, resume or forced start: `QueuedMovesOn`, `EndedStaysEnded` | holds |
| `ManagerSerial` | a group and maintenance, a snapshot and a bypassing execution, one handler, two requests: `ActiveIsCarried`, `QuietWhenActivated`, `DequeueWithinLimits`, `StartWithinConcurrency` | holds |
| `TasksConcurrent` | two requests on the operations of an execution, two resumes: `TypeOK`, `CountersExact`, `SucceededStays`, `FailedAreRetried`, `RetriedStays` | holds |
| `SchedulerCluster` | two managers, a crash and a PATCH or DELETE: `TypeOK`, `RunsOnce`, `NoOverlap`, `NextFollowsRule`, `StopsOnFail`, `DueMovesOn` | holds |
| `LogJournal` | messages of every kind, failing batches, reconnection, crash: `TypeOK`, `OncePerDelivery`, `ImplementsJournal` (refinement), `StorableIsStored` | holds |
| `TreeConcurrent` | two handlers, three requests on three deployments and a group: `TypeOK`, `NoCycles`, `GraphMatchesLabels`, `RollupCurrent` | holds |
| `BlueprintUploads` | two uploads, archives of two types, a delete, a deployment, workflows that stop, and an icon, a killed DELETE or a lost answer: `TypeOK`, `FilesMatch`, `ImportsHold`, `NoDeploymentSwept`, `NoHalfUploads` | holds |
| `ModificationRequests` | two handlers, one failure, one client: `TypeOK`, `Settled`, `NoStaleWrite`, `RollbackRestores` | holds |
| `ManagerGroupLost` | a group POST of which one execution fails: `StartedIsSent` | violated |
| `BlueprintFiles` | two uploads of one id, one after the other: `OwnFiles` | violated |

Each property of a run that holds has a mutant of the code, listed in
`PROJECT.json`, that TLC shows to break it.

### What the runs show

* Executions: every overlap of conflicting executions goes back to a bypass or to a
  decision another start overtook, and whatever is active is carried by somebody whose
  token is good, except what a crash or an error dropped. What is queued moves on, with one
  handler, unless the dequeue that last looked at it met failing executions in all of its
  attempts (`OutOfAttempts`): then nobody looks again until another execution ends, and
  `ExecLive` has behaviours in which none does.
* Maintenance mode, with one handler: whatever creates work while the mode is being activated
  keeps it from becoming active, and once it is, only snapshots and bypassing requests make any.
* `SchedulerCluster`: an occurrence that has come is run once but for the accounted races.
  Before it has come it may be run besides, by a manager that has read the row again.
* `LogJournal`: the one-by-one fallback stores no second copy because the failed
  transaction is rolled back; a cached "no execution" does not survive its batch; a
  storable message is stored whatever shares its batch, unless the publisher thread is
  ended by a message that raises.
* `TreeConcurrent`: two PATCHes never make two deployments parents of each other, since
  each holds the row that the other's edge refers to; through longer paths, or a group,
  they can make a cycle (`overtaken`). Summaries are right once all is quiet, whatever
  the order of commits and recalculations, unless a recalculation was dropped by a
  deadlock, had read the graph too early or went over it in the wrong order.
* `BlueprintUploads`: the only ways to a blueprint without its own files, without
  what it imports, or to deployments that vanish with it, are those the histories name. One of
  them: a forced delete between the commit of a row and the move of its archive leaves that
  archive, and the next upload of the id, with an archive of another type, may be made of it.
* `ModificationRequests`: requests that fail half way can be sent again without
  harm. A rollback of a half-done start, finish or rollback gives back the instances and
  relationships there were (`RollbackRestores`); the counts agree with them (`Settled`) only if
  no finish was begun, and nothing repairs a finish of what only half started. The version check lets a stale write
  through only after a rollback.

### What the violations show

* `ManagerGroupLost`: in a group, the executions that were prepared next to one
  that failed are committed as pending, and their messages are lost with the
  exception.
* `BlueprintFiles`: a failed upload may leave its folder. The next upload of that id
  moves its files into that folder rather than in its place, and is nevertheless
  `uploaded`; the code expects an `OSError` for a folder that is not empty.

### Known races

Four races and two ways to outdated rows were found with these models and are now part
of what the properties account for, rather than runs of their own. Two POSTs on two REST workers can both find a
deployment free and both start (`Exclusive` with `overtaken`), although the docstring
of `is_blocking_execution` says that blocking workflows "are required to run separately".
`cancel_execution` validates in one transaction and writes in another, so that an
execution that ends in between becomes `cancelling` and nobody moves it on (`lost`,
`bypassed`); with two handlers and cancel requests `EndedStaysEnded` does not hold, which
is why `ExecKinds` has no cancels and `ExecLive` has one handler. A POST that decides
to queue behind an execution that ends before the row is committed is not seen by that
execution's dequeue; with two handlers `QueuedMovesOn` does not hold.
The fourth came out of the proof of `ImportsAreThere`, since it takes three uploads and
`BlueprintUploads` has two: the last PATCH of an upload looks for what it imports by
id alone (`_validate_imported_blueprints`), so that, when the imported blueprint
was deleted meanwhile and a validation has taken its id, the upload is accepted and
loses its import when the validation ends and drops its row (`excused`).
Three more came out of a comparison of the models with the code, and are exceptions that the
properties name: a row of the scheduler that is read again (`early`), an archive of another type
under the id of a blueprint (`mixed`), and upload workflows that stop half way (`WfStops`).
The outdated rows came out of the proof of `RowsRollUp` and take four deployments or a
group: rows above a deployment that is reached at two levels, and the parent at the end of
an edge without a label (section 2), may stay outdated once everything is quiet.

### Bounds

Two executions of one deployment and one manager-wide execution are the smallest
instance in which every filter of `check_for_executions` matters; a third kind is
added in `ExecKinds`. Races need two handlers and no more: each property is
about what one handler read and another one did, and `ExclusionHolds` and
`CarryingHolds` confirm it for any number. `MaxRequests` bounds cancel, resume and
group requests, `MaxCrashes` the crashes. `ExecLive` has four executions, three of one
deployment, and two attempts instead of five, so that a dequeue can meet two failing ones with
another still queued; `MaxWork` 4 makes room for all four, or for three and a cancel, resume or
forced start.
In `ManagerSerial` a group of two over a limit
of 1, paused and widened to 2, meets every case of `start_executions`; it has one handler
because `DequeueWithinLimits` and `QuietWhenActivated` are promises the code can only
keep then. It has an execution of each kind that the maintenance check tells apart: a snapshot,
which is a system workflow too, one that bypasses the mode, and the group, whose endpoint is
refused only once the mode is active. `MaxWork` 5 leaves one request when all four are there.
`TasksConcurrent` has an operation, its retry and a nop, and resumes with
and without force; its `VIEW` leaves the counters out once they have drifted, when
no guard and no property reads their values any more. `SchedulerCluster` has a
rule of two occurrences, another of the first of them alone, so that a row is read again that has
no next one, five instants, a slip of one and room for four executions.

`LogJournal` has one message of each kind but two storable ones, of two executions, of
which two are sent (`MaxSent`), with batches of up to two (`BatchLimit` 1) and a cache of
one, so that batches are shared and the cache overflows; two channels allow one
reconnection, with the restart that a stale ack causes, or one crash; two changes let an execution be deleted and created
again. `TreeConcurrent` starts from a service below an environment and another
environment, and three requests are what it takes to add one half of a cycle each
and still report a status. `BlueprintUploads` has two uploads over two ids, so
that one may import, replace or follow the other, and zip and tar.gz archives,
so that one may leave an archive that the other finds; `MaxRare` 1 allows one icon, one killed
DELETE or one lost answer, each of which is enough for the case its property names. `ModificationRequests` goes from two
instances to one or three, with two modifications, so that one can cross the other or
follow it, and two requests that end one.

Deadlock is not checked: a manager with nothing to do has stopped. `SYMMETRY` is over
handlers, mgmtworkers, clients, uploads and the like, in runs without liveness; `MaxWork` bounds
the executions and the requests of a run together.

### Fairness

`FairSpec` of `Executions`: handlers finish the request they have accepted (WF),
mgmtworkers consume their queue (WF), and a workflow or kill order that can report its
end does so some day (SF, since the handlers may be busy with others at any moment,
and the REST client tries again); one that was told to cancel reports it or is killed. Nobody has to send a request, nothing has to
crash. `ExecutionScheduler`: the loop of each manager goes on (WF on its steps).
`LogPublisher`: RabbitMQ delivers what is queued, and the loops of the two threads go on
(WF on `Deliver`, on `Ack` or `AckStale`, on `Take` and on `Publisher`); the publisher
waits for BATCH_DELAY at most, so a batch that has items is stored.

## 4. Theorems

Each theorem is about the specification the runs check, for every value of its constants
that satisfies the assumptions named in the module; histories stand in the theorems as
in the runs. What follows gives the inductive invariant of each and why it is needed.
Hypotheses beyond the modules' assumptions are named.

### ExecutionsProofs

From `ExecutionAssumption`, `SystemAssumption`, `BoundAssumption`, `TaskAssumption`.

* `TypeCorrect` (`TypeOK`): it is inductive because it includes `Coherent`: what a handler
  holds is of the kind its next step will write.
* `ExclusionHolds` (`Exclusive`) and `DecisionsStayTrue` (`DecisionsHold`): `Exclusive`
  alone is not inductive, since a commit relies on a decision made earlier. The
  invariant is `Separation == Exclusive /\ DecisionsHold`: a decision that was not
  overtaken still has nothing active in conflict with what it will start, except
  what was bypassed. `GateSeesConflict` is the heart of it: if the gate is open for
  an execution, nothing active conflicts with it, so the several filters of
  `check_for_executions` together cover the relation `Conflict`. `EmittedApart`
  does the same for what one dequeue emits.
* `CarryingHolds` (`ActiveIsCarried`): every step that takes a carrier away (a kill, a
  consumed message, a crash) leaves another one with the current token, ends the
  execution, or puts it in `lost`.
* `EndedIsKept` (`EndedStaysEnded`): if there is one handler, or if nobody cancels or
  resumes (`MaxRequests = 0`); otherwise it is false, see the known races. Two
  invariants: `InTurn` holds for any handlers and says that the rows a dequeue
  has locked stay queued and belong to it alone, and that what a creation will insert does
  not exist; `Answering` says that what a cancel or resume was allowed for is still so
  when it is written.

### ManagerProofs

About `ManagerSpec`, with groups and maintenance mode; also from `GroupAssumption`. Steps
of executions are taken over from `ExecutionsProofs`; those of groups and of the mode are
new.

* `ManagerTypes`, `ManagerCarrying`, `ManagerExclusion`: as above, for any number of
  handlers. The types need `GroupCancelling`, what a group cancel holds between its reads.
* `MaintenanceIsQuiet` (`QuietWhenActivated`), `DequeuesFit` (`DequeueWithinLimits`) and
  `GroupsFit` (`StartWithinConcurrency`): if there is one handler. The code reads
  without a lock what it decides on, so two handlers break all three. The invariants are
  `Quieting` (what an activation has seen to run is what runs, and what is active or queued when
  the mode is, is let through) and `AllFresh` (what a
  dequeue has seen and picked still fits, and what a group request has sliced still is all
  of the group that may be pending). `DequeuesFit` also takes finite sets and a
  positive `max_concurrent_workflows`: the gate for system executions does not ask
  for the limit, so that with a limit of 0 one would exceed it. `GroupsFit` takes executions of
  at most one group, as POST `/execution-groups` creates them.

### TasksGraphsProofs

From `OperationAssumption`, for any operations, retries, clients and resumes.

* `TypeCorrect` (`TypeOK`).
* `CountersAreExact` (`CountersExact`): with `StoringApart`: requests that store
  operations do not store the same ones, and what one has put stays stored until it
  is counted. A graph's operations are absent until its commit.
* `SucceededNotRerun` (`SucceededStays`), `RetriedNotReset` (`RetriedStays`) and
  `FailedRetried` (`FailedAreRetried`): from `ResetsHold`: but for operations that are
  `late`, a resume still has to look at, or is about to reset, every operation that failed and
  was not retried, and will reset none that succeeded or was retried.

### ExecutionSchedulerProofs

From `SchedulerAssumption`, for any managers, rules, slip and bounds.

* `TypeCorrect` (`TypeOK`), with `Coherent`: only one manager holds the lock, and what it
  has read and computed is there when it writes.
* `OccurrencesRunOnce` (`RunsOnce`): from `Ordered`: the next occurrence of the row lies
  after every execution the row was told about that was on time, that of the manager at work
  after all. An execution ahead of its occurrence leaves the next occurrence where it was,
  which is why those are not counted.
* `ExecutionsDoNotOverlap` (`NoOverlap`), `NothingAfterFailure` (`StopsOnFail`): from
  `OneBlocks`: an execution that keeps the next one from running is the latest one of
  the row, or the one the holder of the lock is about to write.
* `NextIsOfRule` (`NextFollowsRule`): from `RuleKept`.

### LogPublisherProofs

From `MessageAssumption` and `LimitAssumption`, for any messages, executions, limits.

* `TypeCorrect` (`TypeOK`): with it that the cache never outgrows its limit.
* `JournalImplemented` (`ImplementsJournal`): the refinement of `EventJournal`. Only two
  facts need an invariant. `Orderly`: deliveries are stored and acked in the order in
  which they came, each message waits in one place, and what the threads hold RabbitMQ
  still has. `Settling`: what is to be acked is stored, of no use or an orphan; this needs
  that the cache holds a missing execution only while the batch that missed it is stored.
* `StoredOncePerDelivery` (`OncePerDelivery`): from `StoredOnce`: the rows of a message,
  with the deliveries of it that may still become rows, are not more than its
  deliveries.

The induction over sequences that these need (what a sanitised cache keeps, how many
items are left) is done with the least counterexample, by `WFMin` of
`WellFoundedInduction`.

### BlueprintsProofs

From `BlueprintAssumption` and `NoneAssumption`, for any blueprints, uploads, deployments,
handlers and requests.

* `TypeCorrect` (`TypeOK`): with the foreign keys (`Keys`): the upload of a row is of its
  id and past its insert, deployments are of rows.
* `UploadsSettle` (`NoHalfUploads`): inductive with those, for uploads that ended; one that
  stopped half way leaves its row.
* `DeploymentsNotSwept` (`NoDeploymentSwept`): from `Deployed`: a deployment's blueprint was
  uploaded, and a delete that goes on although it sees deployments is of an upload that was
  not answered.
* `ImportsAreThere` (`ImportsHold`): from `ImportsKept`: what an upload past its check
  imports is there or excused, and a checked delete of it is under way only if
  excused.
* `FilesAreOwn` (`FilesMatch`): from `FilesKept`: from the moment an upload has stored its
  archive, that is the only one under its id, what the workflow has fetched is that one, and
  the folder, once extracted, is its own, unless something was mixed.

### ModificationsProofs

From `ModificationAssumption` and `NoneAssumption`, for any instances (a finite set),
modifications, handlers, clients, targets and bounds.

* `TypeCorrect` (`TypeOK`): it needs `Coherent`: the modification a request works
  on is stored, the hub is never removed and is part of every copy of the
  instances, and what a start adds is never the hub.
* `StaleWritesFollowRollbacks` (`NoStaleWrite`): from `VersionsGrow`: until a rollback
  restores the hub, a client's version is not above the stored one, and is below it when
  the client has missed a change. Every commit of a request is a `HubStep`: it leaves
  the hub alone, counts its version up, or sets `rolled`.
* `RollbacksRestore` (`RollbackRestores`): from `Alone` (one request on one started
  modification, while nothing is crossed) and `Restoring`: the instances a rollback has
  still to deal with are all that is not as it was.
* `DeploymentsSettle` (`Settled`): from `Balanced`: with nothing started the counts,
  instances and relationships agree, and otherwise they are exactly as far as the started
  modification has got (`Reached`), whichever requests failed on the way.

### DeploymentTreeProofs

From `TreeAssumption`, for any finite set of deployments, groups, dependencies, requests
and bounds. The lists of the model (`Selected`, `Deduplicated`, `Listed`, `ById`) are
recursive functions; `Recursion` gives what such a function is at each number, `Induction`
replaces induction by the least counterexample.

* `TypeCorrect` (`TypeOK`): it needs what the recursive query and the summaries return.
* `TreeInvariant`: `TreeInv` is inductive. It is the conjunction of the types, `Fit` (what
  a request has checked holds until something marks it stale: `Checked`, a set of
  deployments closed upwards that has the parents to be and none of the
  deployments they are for), `PatchesApart` (two PATCHes at their inserts are of different
  deployments, by the row locks), `Matching` (edges and labels agree) and `Rising` (while
  nothing was overtaken, each deployment has a rank above the ranks of its children; while
  no group was, no two edges are opposite).
* `GraphFollowsLabels` (`GraphMatchesLabels`): from `Matching`.
* `CyclesNeedOvertaking` (`NoCycles`): a graph with ranks has no cycle (`Rising` is the
  inductive form of the property), and edges on a check that still holds keep
  ranks: the set of `Checked` is lifted above all the rest.

* `RowsRollUp` (`RollupCurrent`): from `RollupInv`, which adds two parts to `TreeInv`.
  `OrdersHold`: the rows a handler has read are closed upwards and in an order from the
  bottom up (`FromBelow`), until edges are added; `QueryInOrder` gets that from the
  levels of the recursive query when no deployment is at two of them. `Rolled`: every row
  sums up the rows below it, except those that are above a deployment from which a handler
  has yet to recalculate or whose delete has yet to start (`Above`, the least set
  closed upwards), and those that a handler has read and will sum up. A step that changes
  a status, a kind or an edge leaves a handler to recalculate from there (`RolledKept`), the
  query turns what is above into what has been read, and the commit settles exactly
  that (`ResummedAreRows`).

The proofs showed errors of earlier versions of the model and its properties: the unique
constraint on edges was there for groups and not for a PATCH; and `RollupCurrent` asked only
that the graph be even once all is quiet, and allowed for no overtaken groups, of which both
are false with four deployments (labels 1: {2, 3}, 2: {3}, 3: {4}, all of them environments
but for the first; a PATCH that takes 1 from 3 sums up 4 before 3) or with a group.

### Only model-checked

Liveness (`QueuedMovesOn`, `DueMovesOn`, `StorableIsStored`) is out of the prover's reach.
The two violations are statements about single behaviours, which TLC exhibits.

## 5. Plan

Done: executions, groups, maintenance mode, operations, the scheduler, logs and events
with a refinement, the tree of deployments, blueprints, modifications; every safety
property of a passing run is a theorem. What is left, in this order:

1. Executions: the batch of a group kill, `requeue`, cascading workflows.
2. Plugins: the states reported per manager and agent.

## 6. Not modelled, and why

Snapshots are dumps of files and tables; their scheduling is in `Executions`. Deployment
updates and Component types are sequential clients of requests that are modelled;
their steps work on plans of the DSL parser, which is a library. Users, roles, LDAP
and permissions are tables and filters with no protocol. Filters, searches, listings and the
api-service read only. Migrations, packaging, the command-line shell and the test suites
hold no running state. These make up most of the repository's lines: the models cover
the parts in which several actors change shared state, which is a small share of the
whole (about 8 % of the implementation's lines).
