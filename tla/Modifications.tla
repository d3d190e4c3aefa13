--------------------------- MODULE Modifications ---------------------------
(***************************************************************************)
(* Deployment modifications (scaling) and the node instances they change,  *)
(* for one deployment with one scaled node.  Hub is the instance of        *)
(* another node, related to every instance of the scaled one.  A request   *)
(* starts, finishes or rolls back a modification in a series of commits of *)
(* its own; workflows meanwhile update node instances under the optimistic *)
(* version check.                                                          *)
(***************************************************************************)
EXTENDS Naturals, FiniteSets

CONSTANTS
  Instance, Hub,  \* ids of the scaled node's instances; the related instance
  First,          \* the instances a new deployment has
  Modification,
  Handler,        \* handlers of modification requests
  Client,         \* workflows that update the hub
  Targets,        \* numbers of instances that are asked for
  MaxRequests,    \* bound: requests to finish or to roll back
  MaxFailures,    \* bound: requests that fail half way
  MaxWrites,      \* bound: updates of the hub
  None

ASSUME ModificationAssumption ==
  /\ IsFiniteSet(Instance) /\ First \subseteq Instance /\ Hub \notin Instance
  /\ Targets \subseteq Nat /\ MaxRequests \in Nat
  /\ MaxFailures \in Nat /\ MaxWrites \in Nat

VARIABLES
  inst,       \* node_instances: version, what was last written, relationships
  current,    \* number_of_instances
  planned,    \* planned_number_of_instances
  mod,        \* deployment_modifications
  req,        \* what each handler is doing
  read,       \* what each client read of the hub
  failures, requests, writes,  \* bounded counters
  changed,    \* history: how often the hub was changed
  hands,      \* history: what was begun on each modification, and failed starts
  crossed,    \* history: modifications that were started while another one was, or
              \* that two requests worked on at once
  rolled,     \* history: a rollback set the hub back to an older version
  stale       \* history: a write was accepted that replaced unread changes

vars == <<inst, current, planned, mod, req, read, failures, requests, writes,
          changed, hands, crossed, rolled, stale>>
counts == <<current, planned>>
bounds == <<failures, requests>>
clients == <<read, writes, stale>>
history == <<changed, hands, crossed, rolled>>

Row == Instance \cup {Hub}
Present == {i \in Row : inst[i] # None}
Scaled == Present \ {Hub}
Started == {m \in Modification : mod[m] # None /\ mod[m].status = "started"}
Before(m) == {i \in Row : mod[m].before[i] # None}
Idle == [pc |-> "idle"]
New == [version |-> 1, by |-> None, rels |-> {}]

InstanceRow == [version : Nat, by : Client \cup {None}, rels : SUBSET Instance]
ModificationRow ==
  [status : {"started", "finished", "rolledback"}, target : Nat,
   before : [Row -> {None} \cup InstanceRow],
   added : SUBSET Instance, removed : SUBSET Instance]
Request ==
  [pc : {"check", "count", "relate", "add", "finish", "remove", "rollback", "uncount"},
   mod : Modification, todo : SUBSET Row, seen : SUBSET Row]

ASSUME NoneAssumption == None \notin InstanceRow \cup ModificationRow

\* The variables have their types; a modification has one of its three statuses, and a
\* handler holds what its next commit needs.
TypeOK ==
  /\ inst \in [Row -> {None} \cup InstanceRow]
  /\ current \in Nat /\ planned \in Nat
  /\ mod \in [Modification -> {None} \cup ModificationRow]
  /\ req \in [Handler -> {Idle} \cup Request]
  /\ read \in [Client -> {None} \cup [version : Nat, changed : Nat]]
  /\ failures \in 0..MaxFailures /\ requests \in 0..MaxRequests /\ writes \in 0..MaxWrites
  /\ changed \in Nat /\ crossed \subseteq Modification
  /\ hands \in [Modification -> SUBSET {"failed", "finish", "rollback"}]
  /\ rolled \in BOOLEAN /\ stale \in BOOLEAN

Init ==
  /\ inst = [i \in Row |-> IF i = Hub THEN [New EXCEPT !.rels = First]
                           ELSE IF i \in First THEN New ELSE None]
  /\ current = Cardinality(First) /\ planned = Cardinality(First)
  /\ mod = [m \in Modification |-> None]
  /\ req = [h \in Handler |-> Idle]
  /\ read = [c \in Client |-> None]
  /\ failures = 0 /\ requests = 0 /\ writes = 0
  /\ hands = [m \in Modification |-> {}]
  /\ changed = 0 /\ crossed = {} /\ rolled = FALSE /\ stale = FALSE

Go(h, pc) == req' = [req EXCEPT ![h].pc = pc]
Stop(h) == req' = [req EXCEPT ![h] = Idle]
Work(h, pc, todo) == req' = [req EXCEPT ![h].pc = pc, ![h].todo = todo]

\* version_id_col: every update counts the version up.
Update(i, rels) == [inst EXCEPT ![i].rels = rels, ![i].version = @ + 1]

-----------------------------------------------------------------------------
\* start_deployment_modification

\* No modification of the deployment is started when the table is read.
StartCheck(h, m) ==
  /\ req[h] = Idle /\ mod[m] = None /\ Started = {}
  /\ \A g \in Handler : req[g] # Idle => req[g].mod # m
  /\ req' = [req EXCEPT ![h] = [pc |-> "check", mod |-> m, todo |-> {}, seen |-> {}]]
  /\ UNCHANGED <<inst, counts, mod, clients, bounds, history>>

\* The instances are read, modify_deployment says which ones to add or to remove,
\* and the modification is stored with a copy of all of them.
StartPlan(h, target) ==
  LET m == req[h].mod
      have == Cardinality(Scaled) IN
  /\ req[h].pc = "check"
  /\ \E added \in SUBSET (Instance \ Scaled), removed \in SUBSET Scaled :
       /\ Cardinality(added) = (IF target > have THEN target - have ELSE 0)
       /\ Cardinality(removed) = (IF target < have THEN have - target ELSE 0)
       /\ \A n \in Started : added \cap mod[n].added = {}
       /\ mod' = [mod EXCEPT ![m] = [status |-> "started", target |-> target,
                    before |-> inst, added |-> added, removed |-> removed]]
  /\ crossed' = IF Started = {} THEN crossed ELSE crossed \cup Started \cup {m}
  /\ Go(h, "count")
  /\ UNCHANGED <<inst, counts, clients, bounds, changed, hands, rolled>>

StartCount(h) ==
  /\ req[h].pc = "count"
  /\ planned' = mod[req[h].mod].target
  /\ Go(h, "relate")
  /\ UNCHANGED <<inst, current, mod, clients, bounds, history>>

\* The hub is related to the instances that will be added.
StartRelate(h) ==
  LET added == mod[req[h].mod].added IN
  /\ req[h].pc = "relate"
  /\ IF added = {} THEN UNCHANGED <<inst, changed>>
     ELSE /\ inst' = Update(Hub, inst[Hub].rels \cup added)
          /\ changed' = changed + 1
  /\ Work(h, "add", added)
  /\ UNCHANGED <<counts, mod, clients, bounds, hands, crossed, rolled>>

\* The instances are added one by one.
StartAdd(h, i) ==
  /\ req[h].pc = "add" /\ i \in req[h].todo
  /\ inst' = [inst EXCEPT ![i] = New]
  /\ Work(h, "add", req[h].todo \ {i})
  /\ UNCHANGED <<counts, mod, clients, bounds, history>>

StartEnd(h) ==
  /\ req[h].pc = "add" /\ req[h].todo = {} /\ Stop(h)
  /\ UNCHANGED <<inst, counts, mod, clients, bounds, history>>

-----------------------------------------------------------------------------
\* Requests that end a modification: they may be sent while the modification is
\* still being started, or while another request ends it.

\* crossed, once one more request works on m.
Crossing(m) == IF \E g \in Handler : req[g] # Idle /\ req[g].mod = m
                 THEN crossed \cup {m} ELSE crossed

\* finish_deployment_modification
FinishCheck(h, m) ==
  /\ req[h] = Idle /\ m \in Started /\ requests < MaxRequests
  /\ req' = [req EXCEPT ![h] = [pc |-> "finish", mod |-> m, todo |-> {}, seen |-> {}]]
  /\ crossed' = Crossing(m)
  /\ requests' = requests + 1
  /\ UNCHANGED <<inst, counts, mod, clients, failures, changed, hands, rolled>>

\* The count is stored first.
FinishCount(h) ==
  LET m == mod[req[h].mod] IN
  /\ req[h].pc = "finish"
  /\ current' = m.target
  /\ hands' = [hands EXCEPT ![req[h].mod] = @ \cup {"finish"}]
  /\ Work(h, "remove", IF m.removed = {} THEN {} ELSE m.removed \cup {Hub})
  /\ UNCHANGED <<inst, planned, mod, clients, bounds, changed, crossed, rolled>>

\* Mutant: only the instances are removed, not the relationships to them.
FinishRemoveOnly(h, i) ==
  /\ req[h].pc = "remove" /\ i \in req[h].todo
  /\ IF inst[i] = None THEN Stop(h) /\ UNCHANGED inst
     ELSE /\ Work(h, "remove", req[h].todo \ {i})
          /\ inst' = IF i = Hub THEN inst ELSE [inst EXCEPT ![i] = None]
  /\ UNCHANGED <<counts, mod, clients, bounds, history>>

\* One instance at a time is removed, or loses its relationships to the removed
\* ones.  One that is not there any more ends the request with a NotFoundError.
FinishRemove(h, i) ==
  LET removed == mod[req[h].mod].removed IN
  /\ req[h].pc = "remove" /\ i \in req[h].todo
  /\ IF inst[i] = None THEN Stop(h) /\ UNCHANGED <<inst, changed>>
     ELSE /\ Work(h, "remove", req[h].todo \ {i})
          /\ inst' = IF i = Hub THEN Update(Hub, inst[Hub].rels \ removed)
                     ELSE [inst EXCEPT ![i] = None]
          /\ changed' = IF i = Hub THEN changed + 1 ELSE changed
  /\ UNCHANGED <<counts, mod, clients, bounds, hands, crossed, rolled>>

FinishEnd(h) ==
  /\ req[h].pc = "remove" /\ req[h].todo = {} /\ Stop(h)
  /\ mod' = [mod EXCEPT ![req[h].mod].status = "finished"]
  /\ UNCHANGED <<inst, counts, clients, bounds, history>>

\* rollback_deployment_modification: the instances are read.
RollbackCheck(h, m) ==
  /\ req[h] = Idle /\ m \in Started /\ requests < MaxRequests
  /\ req' = [req EXCEPT ![h] = [pc |-> "rollback", mod |-> m, seen |-> Present,
                                todo |-> Present \cup Before(m)]]
  /\ crossed' = Crossing(m)
  /\ hands' = [hands EXCEPT ![m] = @ \cup {"rollback"}]
  /\ requests' = requests + 1
  /\ UNCHANGED <<inst, counts, mod, clients, failures, changed, rolled>>

\* Those that were not there before are deleted.
RollbackDelete(h, i) ==
  /\ req[h].pc = "rollback" /\ i \in req[h].todo \ Before(req[h].mod)
  /\ IF inst[i] = None THEN Stop(h) /\ UNCHANGED inst
     ELSE /\ Work(h, "rollback", req[h].todo \ {i})
          /\ inst' = [inst EXCEPT ![i] = None]
  /\ UNCHANGED <<counts, mod, clients, bounds, history>>

\* Mutant: instances that are missing are not added again.
RollbackRestorePresent(h, i) ==
  /\ req[h].pc = "rollback" /\ i \in req[h].todo
  /\ Work(h, "rollback", req[h].todo \ {i})
  /\ inst' = IF inst[i] = None THEN inst
             ELSE [inst EXCEPT ![i] = mod[req[h].mod].before[i]]
  /\ changed' = changed + 1 /\ rolled' = TRUE
  /\ UNCHANGED <<counts, mod, clients, bounds, hands, crossed>>

\* Then the others: one that was missing is first put again, with version 1.  When it
\* is there by now, the request ends with an error.
RollbackReadd(h, i) ==
  LET old == mod[req[h].mod].before[i] IN
  /\ req[h].pc = "rollback" /\ i \in req[h].todo \ req[h].seen
  /\ req[h].todo \subseteq Before(req[h].mod)
  /\ IF inst[i] # None THEN Stop(h) /\ UNCHANGED inst
     ELSE /\ req' = [req EXCEPT ![h].seen = @ \cup {i}]
          /\ inst' = [inst EXCEPT ![i] = [old EXCEPT !.version = 1]]
  /\ UNCHANGED <<counts, mod, clients, bounds, history>>

\* It gets its version back, and one that was there all its old attributes, the
\* version included.
RollbackRestore(h, i) ==
  LET old == mod[req[h].mod].before[i] IN
  /\ req[h].pc = "rollback" /\ i \in req[h].todo \cap req[h].seen
  /\ req[h].todo \subseteq Before(req[h].mod)
  /\ IF inst[i] = None
       THEN Stop(h) /\ UNCHANGED <<inst, changed, rolled>>
       ELSE /\ Work(h, "rollback", req[h].todo \ {i})
            /\ inst' = [inst EXCEPT ![i] = old]
            /\ changed' = IF i = Hub /\ inst[i] # old THEN changed + 1 ELSE changed
            /\ rolled' = (rolled \/ (i = Hub /\ inst[i] # old))
  /\ UNCHANGED <<counts, mod, clients, bounds, hands, crossed>>

\* The planned number is what the current number is.
RollbackCount(h) ==
  /\ req[h].pc = "rollback" /\ req[h].todo = {}
  /\ planned' = current
  /\ Go(h, "uncount")
  /\ UNCHANGED <<inst, current, mod, clients, bounds, history>>

\* Mutant: a status the clients do not know, so that it is no end state for them.
RollbackEndOther(h) ==
  /\ req[h].pc = "uncount" /\ Stop(h)
  /\ mod' = [mod EXCEPT ![req[h].mod].status = "cancelled"]
  /\ UNCHANGED <<inst, counts, clients, bounds, history>>

RollbackEnd(h) ==
  /\ req[h].pc = "uncount" /\ Stop(h)
  /\ mod' = [mod EXCEPT ![req[h].mod].status = "rolledback"]
  /\ UNCHANGED <<inst, counts, clients, bounds, history>>

\* A request fails half way: a conflict with another update, or the manager stops.
\* What it committed stays, and the modification can be ended by another request.
Fails(h) ==
  /\ req[h] # Idle /\ failures < MaxFailures /\ failures' = failures + 1 /\ Stop(h)
  /\ hands' = IF req[h].pc \in {"count", "relate", "add"}
                THEN [hands EXCEPT ![req[h].mod] = @ \cup {"failed"}] ELSE hands
  /\ UNCHANGED <<inst, counts, mod, clients, requests, changed, crossed, rolled>>

-----------------------------------------------------------------------------
\* GET and PATCH /node-instances/<id>, for the hub

Read(c) ==
  /\ read[c] = None
  /\ read' = [read EXCEPT ![c] = [version |-> inst[Hub].version, changed |-> changed]]
  /\ UNCHANGED <<inst, counts, mod, req, bounds, writes, stale, history>>

\* Mutant: the version that was read is compared the wrong way round.
CurrentReversed(c) == inst[Hub].version >= read[c].version

\* The version of the row may not be newer than the one that was read.
Current(c) == inst[Hub].version <= read[c].version

\* The update is done, or refused with a 409.
Write(c) ==
  /\ read[c] # None /\ writes < MaxWrites
  /\ read' = [read EXCEPT ![c] = None]
  /\ IF Current(c)
       THEN /\ inst' = [inst EXCEPT ![Hub].by = c, ![Hub].version = @ + 1]
            /\ writes' = writes + 1 /\ changed' = changed + 1
            /\ stale' = (stale \/ read[c].changed # changed)
       ELSE UNCHANGED <<inst, writes, changed, stale>>
  /\ UNCHANGED <<counts, mod, req, bounds, hands, crossed, rolled>>

Next ==
  \/ \E h \in Handler :
       \/ \E m \in Modification : StartCheck(h, m) \/ FinishCheck(h, m) \/ RollbackCheck(h, m)
       \/ \E n \in Targets : StartPlan(h, n)
       \/ \E i \in Row : \/ StartAdd(h, i) \/ FinishRemove(h, i)
                         \/ RollbackDelete(h, i) \/ RollbackReadd(h, i) \/ RollbackRestore(h, i)
       \/ StartCount(h) \/ StartRelate(h) \/ StartEnd(h) \/ FinishCount(h) \/ FinishEnd(h)
       \/ RollbackCount(h) \/ RollbackEnd(h) \/ Fails(h)
  \/ \E c \in Client : Read(c) \/ Write(c)

Spec == Init /\ [][Next]_vars

-----------------------------------------------------------------------------
\* Properties

Quiet == Started = {} /\ \A h \in Handler : req[h] = Idle

\* m was finished although it had not started all the way, or half finished and
\* half rolled back.
Mixed(m) == {"finish", "failed"} \subseteq hands[m] \/ {"finish", "rollback"} \subseteq hands[m]

\* When every modification has ended, there are as many instances as the node
\* says and as it plans, and the hub is related to exactly those: also after
\* requests failed half way and were sent again, unless modifications were
\* crossed or mixed.
Settled ==
  Quiet /\ crossed = {} /\ (\A m \in Modification : ~Mixed(m)) =>
    /\ current = Cardinality(Scaled) /\ planned = current
    /\ inst[Hub].rels = Scaled

\* A rollback, whatever failed before it (a start, a finish, an earlier rollback),
\* ends with the instances there were before, related as they were, unless
\* modifications were crossed.
RollbackRestores ==
  [][\A m \in Modification :
       crossed = {} /\ m \in Started /\ mod'[m].status = "rolledback" =>
         Present = Before(m) /\ inst[Hub].rels = mod[m].before[Hub].rels]_vars

\* The optimistic version check of PATCH /node-instances: a write never replaces a
\* change its client has not read, unless a rollback had set the version back.
NoStaleWrite == stale => rolled
=============================================================================
