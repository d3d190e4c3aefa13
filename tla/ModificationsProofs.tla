------------------------ MODULE ModificationsProofs ------------------------
(***************************************************************************)
(* Proofs about Modifications, for any instances, modifications, handlers, *)
(* clients and targets: its type invariant, that the version check of      *)
(* PATCH /node-instances only fails to protect unread changes after a      *)
(* rollback, what a rollback restores, and that counts, instances and      *)
(* relationships agree when all modifications have ended.                  *)
(***************************************************************************)
EXTENDS Modifications, FiniteSetTheorems, TLAPS

USE ModificationAssumption, NoneAssumption

\* What the next commit of a request relies on: its modification is stored, an
\* instance that is to be added is not the hub, and the hub itself is never
\* removed, nor missing in the copy a rollback restores.
Coherent ==
  /\ inst[Hub] # None
  /\ \A m \in Modification : mod[m] # None => mod[m].before[Hub] # None
  /\ \A h \in Handler : req[h] # Idle /\ req[h].pc # "check" => mod[req[h].mod] # None
  /\ \A h \in Handler : req[h].pc = "add" => req[h].todo \subseteq Instance

Typed == TypeOK /\ Coherent

\* While no rollback has set the hub back, its version has grown with every change:
\* a client whose version is still the stored one has read all of them.
VersionsGrow ==
  ~ rolled =>
    /\ ~ stale
    /\ \A c \in Client : read[c] # None =>
         /\ read[c].version <= inst[Hub].version
         /\ read[c].changed # changed => read[c].version < inst[Hub].version

-----------------------------------------------------------------------------
(* Types. *)

\* What the variables are, at the place an action changes.
LEMMA Types ==
  ASSUME Typed
  PROVE  /\ inst \in [Row -> {None} \cup InstanceRow]
         /\ inst[Hub] \in InstanceRow
         /\ mod \in [Modification -> {None} \cup ModificationRow]
         /\ req \in [Handler -> {Idle} \cup Request]
         /\ Hub \in Row /\ Hub \notin Instance /\ Row = Instance \cup {Hub}
         /\ \A h \in Handler : req[h].pc # "idle" =>
              /\ req[h] \in Request
              /\ req[h].pc # "check" => mod[req[h].mod] \in ModificationRow
<1>1. ASSUME NEW h \in Handler, req[h].pc # "idle"
      PROVE  /\ req[h] \in Request
             /\ req[h].pc # "check" => mod[req[h].mod] \in ModificationRow
  <2>1. req[h] # Idle /\ req[h] \in Request
    BY <1>1 DEF Typed, TypeOK, Idle
  <2>2. req[h].mod \in Modification
    BY <2>1 DEF Request
  <2> QED BY <2>1, <2>2 DEF Typed, TypeOK, Coherent
<1>2. inst[Hub] \in InstanceRow
  BY DEF Typed, TypeOK, Coherent, Row
<1> QED BY <1>1, <1>2 DEF Typed, TypeOK, Row

\* A handler that goes on to request r, or becomes idle, in a step that removes no
\* modification.
Requested(h, r) ==
  /\ r \in {Idle} \cup Request
  /\ req' = [req EXCEPT ![h] = r]
  /\ r.pc \notin {"idle", "check"} => mod'[r.mod] # None
  /\ r.pc = "add" => r.todo \subseteq Instance

\* The requests of all handlers are then well formed.
LEMMA RequestTypes ==
  ASSUME Typed, NEW h \in Handler, NEW r, Requested(h, r),
         \A m \in Modification : mod[m] # None => mod'[m] # None
  PROVE  /\ req' \in [Handler -> {Idle} \cup Request]
         /\ \A g \in Handler : req'[g] # Idle /\ req'[g].pc # "check" => mod'[req'[g].mod] # None
         /\ \A g \in Handler : req'[g].pc = "add" => req'[g].todo \subseteq Instance
<1>1. req' \in [Handler -> {Idle} \cup Request]
  BY Types DEF Requested
<1>2. \A g \in Handler : req'[g] = IF g = h THEN r ELSE req[g]
  BY Types DEF Requested
<1>3. ASSUME NEW g \in Handler, req'[g] # Idle, req'[g].pc # "check"
      PROVE  mod'[req'[g].mod] # None
  <2>1. CASE g = h
    <3>1. r # Idle /\ r \in Request /\ r.pc # "check"
      BY <1>2, <1>3, <2>1 DEF Requested
    <3> QED BY <1>2, <2>1, <3>1 DEF Requested, Request
  <2>2. CASE g # h
    <3>1. req[g] # Idle /\ req[g].pc # "check" /\ req[g].mod \in Modification
      BY <1>2, <1>3, <2>2, Types DEF Request
    <3> QED BY <1>2, <2>2, <3>1 DEF Typed, Coherent
  <2> QED BY <2>1, <2>2
<1> QED BY <1>1, <1>2, <1>3 DEF Requested, Typed, Coherent

\* Each action keeps the types.  First the ones of a start,
LEMMA StartCheckTypes ==
  ASSUME Typed, NEW h \in Handler, NEW m \in Modification, StartCheck(h, m)
  PROVE  Typed'
  BY Types
     DEF StartCheck, counts, bounds, clients, history, Idle, Typed, TypeOK, Coherent,
         Request, ModificationRow, InstanceRow

LEMMA StartPlanTypes ==
  ASSUME Typed, NEW h \in Handler, NEW n \in Targets, StartPlan(h, n)
  PROVE  Typed'
<1> DEFINE m == req[h].mod
<1>1. req[h] \in Request /\ m \in Modification
  BY Types DEF StartPlan, Request
<1>2. PICK added \in SUBSET (Instance \ Scaled), removed \in SUBSET Scaled :
        mod' = [mod EXCEPT ![m] = [status |-> "started", target |-> n,
                  before |-> inst, added |-> added, removed |-> removed]]
  BY DEF StartPlan
<1>3. mod'[m] \in ModificationRow /\ mod'[m].before = inst
  <2>1. removed \subseteq Instance /\ added \subseteq Instance /\ n \in Nat
    BY Types DEF Scaled, Present
  <2> QED BY <1>1, <1>2, <2>1, Types DEF ModificationRow
<1>4. \A k \in Modification : k # m => mod'[k] = mod[k]
  BY <1>2, Types
<1>5. mod' \in [Modification -> {None} \cup ModificationRow]
  BY <1>2, <1>3, <1>4, Types
<1>6. req' = [req EXCEPT ![h] = [req[h] EXCEPT !.pc = "count"]]
  BY DEF StartPlan, Go
<1>7. [req[h] EXCEPT !.pc = "count"] \in Request
  BY <1>1 DEF Request
<1>8. UNCHANGED <<inst, counts, clients, bounds, changed, hands, rolled>>
      /\ crossed' \subseteq Modification
  BY <1>1 DEF Typed, TypeOK, StartPlan, Started
<1>9. TypeOK'
  BY <1>5, <1>6, <1>7, <1>8, Types DEF Typed, TypeOK, counts, clients, bounds
<1>10. Coherent'
  <2>1. \A k \in Modification : mod'[k] # None => mod'[k].before[Hub] # None
    BY <1>3, <1>4 DEF Typed, Coherent
  <2>2. \A k \in Modification : mod[k] # None => mod'[k] # None
    BY <1>3, <1>4
  <2>3. \A g \in Handler \ {h} : req'[g] = req[g]
    BY <1>6
  <2>4. req'[h].pc = "count" /\ req'[h].mod = m
    BY <1>6, <1>1, Types DEF Request
  <2>5. ASSUME NEW g \in Handler, req'[g] # Idle, req'[g].pc # "check"
        PROVE  mod'[req'[g].mod] # None
    <3>1. CASE g = h
      BY <3>1, <2>4, <1>3
    <3>2. CASE g # h
      <4>1. req[g] # Idle /\ req[g].pc # "check" /\ req[g].mod \in Modification
        BY <3>2, <2>3, <2>5, Types DEF Request
      <4> QED BY <4>1, <3>2, <2>2, <2>3 DEF Typed, Coherent
    <3> QED BY <3>1, <3>2
  <2> QED BY <1>8, <2>1, <2>3, <2>4, <2>5 DEF Typed, Coherent
<1> QED BY <1>9, <1>10 DEF Typed

LEMMA StartCountTypes ==
  ASSUME Typed, NEW h \in Handler, StartCount(h)
  PROVE  Typed'
  BY Types
     DEF StartCount, Go, counts, bounds, clients, history, Idle, Typed, TypeOK,
         Coherent, Request, ModificationRow, InstanceRow

LEMMA StartRelateTypes ==
  ASSUME Typed, NEW h \in Handler, StartRelate(h)
  PROVE  Typed'
<1> DEFINE added == mod[req[h].mod].added
           r == [req[h] EXCEPT !.pc = "add", !.todo = added]
<1>1. req[h] \in Request /\ mod[req[h].mod] \in ModificationRow
  BY Types DEF StartRelate
<1>2. added \subseteq Instance /\ r \in Request /\ r.todo = added
  BY <1>1, Types DEF ModificationRow, Request
<1>3. Requested(h, r)
  BY <1>1, <1>2 DEF StartRelate, Work, Requested, Request
<1>4. UNCHANGED <<counts, mod, clients, bounds, hands, crossed, rolled>>
  BY DEF StartRelate
<1>5. changed' \in Nat
  BY DEF StartRelate, Typed, TypeOK
<1>6. inst'[Hub] \in InstanceRow /\ inst' \in [Row -> {None} \cup InstanceRow]
  <2>1. CASE added = {}
    BY <2>1, Types DEF StartRelate
  <2>2. CASE added # {}
    BY <2>2, <1>2, Types DEF StartRelate, Update, InstanceRow
  <2> QED BY <2>1, <2>2
<1> QED BY <1>3, <1>4, <1>5, <1>6, RequestTypes
        DEF Typed, TypeOK, Coherent, counts, clients, bounds

LEMMA StartAddTypes ==
  ASSUME Typed, NEW h \in Handler, NEW i \in Row, StartAdd(h, i)
  PROVE  Typed'
  BY Types
     DEF StartAdd, Work, New, counts, bounds, clients, history, Idle, Typed, TypeOK,
         Coherent, Request, ModificationRow, InstanceRow

LEMMA StartEndTypes ==
  ASSUME Typed, NEW h \in Handler, StartEnd(h)
  PROVE  Typed'
  BY Types
     DEF StartEnd, Stop, counts, bounds, clients, history, Idle, Typed, TypeOK,
         Coherent, Request, ModificationRow, InstanceRow

\* then of a finish,
LEMMA FinishCheckTypes ==
  ASSUME Typed, NEW h \in Handler, NEW m \in Modification, FinishCheck(h, m)
  PROVE  Typed'
  BY Types
     DEF FinishCheck, Crossing, Started, counts, bounds, clients, history, Idle,
         Typed, TypeOK, Coherent, Request, ModificationRow, InstanceRow

LEMMA FinishCountTypes ==
  ASSUME Typed, NEW h \in Handler, FinishCount(h)
  PROVE  Typed'
<1> DEFINE m == mod[req[h].mod]
           todo == IF m.removed = {} THEN {} ELSE m.removed \cup {Hub}
           r == [req[h] EXCEPT !.pc = "remove", !.todo = todo]
<1>1. req[h] \in Request /\ m \in ModificationRow
  BY Types DEF FinishCount
<1>2. r \in Request /\ req[h].mod \in Modification
  BY <1>1, Types, ZenonT(40) DEF ModificationRow, Request
<1>3. Requested(h, r)
  BY <1>1, <1>2 DEF FinishCount, Work, Requested, Request
<1>4. UNCHANGED <<inst, planned, mod, clients, bounds, changed, crossed, rolled>>
  BY DEF FinishCount
<1>5. current' \in Nat /\ hands' \in [Modification -> SUBSET {"failed", "finish", "rollback"}]
  BY <1>1, <1>2 DEF FinishCount, ModificationRow, Typed, TypeOK
<1> QED BY <1>3, <1>4, <1>5, RequestTypes
        DEF Typed, TypeOK, Coherent, clients, bounds

LEMMA FinishRemoveTypes ==
  ASSUME Typed, NEW h \in Handler, NEW i \in Row, FinishRemove(h, i)
  PROVE  Typed'
<1> DEFINE removed == mod[req[h].mod].removed
           r == [req[h] EXCEPT !.pc = "remove", !.todo = req[h].todo \ {i}]
<1>1. req[h] \in Request /\ mod[req[h].mod] \in ModificationRow
  BY Types DEF FinishRemove
<1>2. Requested(h, r) \/ Requested(h, Idle)
  <2>1. r \in Request
    BY <1>1 DEF Request
  <2> QED BY <2>1, <1>1 DEF FinishRemove, Work, Stop, Requested, Request, Idle
<1>3. UNCHANGED <<counts, mod, clients, bounds, hands, crossed, rolled>>
  BY DEF FinishRemove
<1>4. changed' \in Nat
  BY DEF FinishRemove, Typed, TypeOK
<1>5. inst'[Hub] \in InstanceRow /\ inst' \in [Row -> {None} \cup InstanceRow]
  <2>1. CASE inst' = inst
    BY <2>1, Types
  <2>2. CASE i = Hub /\ inst' = Update(Hub, inst[Hub].rels \ removed)
    BY <2>2, Types DEF Update, InstanceRow
  <2>3. CASE i # Hub /\ inst' = [inst EXCEPT ![i] = None]
    BY <2>3, Types
  <2> QED BY <2>1, <2>2, <2>3 DEF FinishRemove
<1> QED BY <1>2, <1>3, <1>4, <1>5, RequestTypes
        DEF Typed, TypeOK, Coherent, counts, clients, bounds

LEMMA FinishEndTypes ==
  ASSUME Typed, NEW h \in Handler, FinishEnd(h)
  PROVE  Typed'
  BY Types
     DEF FinishEnd, Stop, counts, bounds, clients, history, Idle, Typed, TypeOK,
         Coherent, Request, ModificationRow, InstanceRow

\* of a rollback,
LEMMA RollbackCheckTypes ==
  ASSUME Typed, NEW h \in Handler, NEW m \in Modification, RollbackCheck(h, m)
  PROVE  Typed'
  BY Types
     DEF RollbackCheck, Crossing, Started, Present, Before, counts, bounds, clients,
         history, Idle, Typed, TypeOK, Coherent, Request, ModificationRow, InstanceRow

LEMMA RollbackDeleteTypes ==
  ASSUME Typed, NEW h \in Handler, NEW i \in Row, RollbackDelete(h, i)
  PROVE  Typed'
<1> DEFINE r == [req[h] EXCEPT !.pc = "rollback", !.todo = req[h].todo \ {i}]
<1>1. req[h] \in Request /\ mod[req[h].mod] \in ModificationRow /\ req[h].mod \in Modification
  BY Types DEF RollbackDelete, Request
<1>2. Requested(h, r) \/ Requested(h, Idle)
  <2>1. r \in Request
    BY <1>1 DEF Request
  <2> QED BY <2>1, <1>1 DEF RollbackDelete, Work, Stop, Requested, Request, Idle
<1>3. UNCHANGED <<counts, mod, clients, bounds, history>>
  BY DEF RollbackDelete
<1>4. i # Hub
  BY <1>1, Types DEF RollbackDelete, Before, Typed, Coherent
<1>5. inst'[Hub] \in InstanceRow /\ inst' \in [Row -> {None} \cup InstanceRow]
  BY <1>4, Types DEF RollbackDelete
<1> QED BY <1>2, <1>3, <1>5, RequestTypes
        DEF Typed, TypeOK, Coherent, counts, clients, bounds, history

LEMMA RollbackReaddTypes ==
  ASSUME Typed, NEW h \in Handler, NEW i \in Row, RollbackReadd(h, i)
  PROVE  Typed'
<1> DEFINE r == [req[h] EXCEPT !.seen = req[h].seen \cup {i}]
           old == mod[req[h].mod].before[i]
<1>1. req[h] \in Request /\ mod[req[h].mod] \in ModificationRow /\ req[h].mod \in Modification
  BY Types DEF RollbackReadd, Request
<1>2. Requested(h, r) \/ Requested(h, Idle)
  <2>1. r \in Request
    BY <1>1 DEF Request
  <2> QED BY <2>1, <1>1 DEF RollbackReadd, Stop, Requested, Request, Idle
<1>3. UNCHANGED <<counts, mod, clients, bounds, history>>
  BY DEF RollbackReadd
<1>4. [old EXCEPT !.version = 1] \in InstanceRow
  BY <1>1 DEF RollbackReadd, Before, ModificationRow, InstanceRow
<1>5. i = Hub => inst' = inst
  BY Types DEF RollbackReadd
<1>6. inst'[Hub] \in InstanceRow /\ inst' \in [Row -> {None} \cup InstanceRow]
  BY <1>4, <1>5, Types DEF RollbackReadd
<1> QED BY <1>2, <1>3, <1>6, RequestTypes
        DEF Typed, TypeOK, Coherent, counts, clients, bounds, history

LEMMA RollbackRestoreTypes ==
  ASSUME Typed, NEW h \in Handler, NEW i \in Row, RollbackRestore(h, i)
  PROVE  Typed'
  BY Types, SMTT(30)
     DEF RollbackRestore, Work, Stop, Before, counts, bounds, clients, history, Idle,
         Typed, TypeOK, Coherent, Request, ModificationRow, InstanceRow

LEMMA RollbackCountTypes ==
  ASSUME Typed, NEW h \in Handler, RollbackCount(h)
  PROVE  Typed'
<1> DEFINE r == [req[h] EXCEPT !.pc = "uncount"]
<1>1. req[h] \in Request /\ r \in Request
  BY Types DEF RollbackCount, Request
<1>2. Requested(h, r)
  BY <1>1, Types DEF RollbackCount, Go, Requested, Request
<1>3. UNCHANGED <<inst, current, mod, clients, bounds, history>> /\ planned' \in Nat
  BY DEF RollbackCount, Typed, TypeOK
<1> QED BY <1>2, <1>3, RequestTypes
        DEF Typed, TypeOK, Coherent, clients, bounds, history

LEMMA RollbackEndTypes ==
  ASSUME Typed, NEW h \in Handler, RollbackEnd(h)
  PROVE  Typed'
  BY Types
     DEF RollbackEnd, Stop, counts, bounds, clients, history, Idle, Typed, TypeOK,
         Coherent, Request, ModificationRow, InstanceRow

\* a request that fails,
LEMMA FailsTypes ==
  ASSUME Typed, NEW h \in Handler, Fails(h)
  PROVE  Typed'
  BY Types
     DEF Fails, Stop, counts, bounds, clients, history, Idle, Typed, TypeOK, Coherent,
         Request, ModificationRow, InstanceRow

\* and the clients.
LEMMA ReadTypes ==
  ASSUME Typed, NEW c \in Client, Read(c)
  PROVE  Typed'
<1>1. [version |-> inst[Hub].version, changed |-> changed] \in [version : Nat, changed : Nat]
  BY Types DEF InstanceRow, Typed, TypeOK
<1> QED BY <1>1 DEF Read, counts, bounds, history, Typed, TypeOK, Coherent

LEMMA WriteTypes ==
  ASSUME Typed, NEW c \in Client, Write(c)
  PROVE  Typed'
<1>1. inst'[Hub] \in InstanceRow /\ inst' \in [Row -> {None} \cup InstanceRow]
  <2>1. CASE Current(c)
    BY <2>1, Types DEF Write, InstanceRow
  <2>2. CASE ~ Current(c)
    BY <2>2, Types DEF Write
  <2> QED BY <2>1, <2>2
<1>2. writes' \in 0..MaxWrites /\ changed' \in Nat
  BY DEF Write, Typed, TypeOK
<1>3. stale' \in BOOLEAN /\ read' \in [Client -> {None} \cup [version : Nat, changed : Nat]]
  BY DEF Write, Typed, TypeOK
<1> QED BY <1>1, <1>2, <1>3 DEF Write, counts, bounds, Typed, TypeOK, Coherent

\* The initial state has the types, and every step keeps them.
LEMMA InitTypes == Init => Typed
<1> SUFFICES ASSUME Init PROVE Typed
  OBVIOUS
<1>1. Cardinality(First) \in Nat
  BY FS_Subset, FS_CardinalityType
<1>2. inst \in [Row -> {None} \cup InstanceRow] /\ inst[Hub] \in InstanceRow
  BY DEF Init, New, InstanceRow, Row
<1>3. TypeOK
  <2>1. /\ failures \in 0..MaxFailures /\ requests \in 0..MaxRequests /\ writes \in 0..MaxWrites
        /\ changed \in Nat /\ current \in Nat /\ planned \in Nat
    BY <1>1 DEF Init
  <2>2. /\ mod \in [Modification -> {None} \cup ModificationRow]
        /\ req \in [Handler -> {Idle} \cup Request]
        /\ read \in [Client -> {None} \cup [version : Nat, changed : Nat]]
        /\ hands \in [Modification -> SUBSET {"failed", "finish", "rollback"}]
    BY DEF Init
  <2>3. crossed \subseteq Modification /\ rolled \in BOOLEAN /\ stale \in BOOLEAN
    BY DEF Init
  <2> QED BY <1>2, <2>1, <2>2, <2>3 DEF TypeOK
<1>4. Coherent
  BY <1>2 DEF Init, Coherent, Idle
<1> QED BY <1>3, <1>4 DEF Typed

LEMMA TypeStep == Typed /\ [Next]_vars => Typed'
<1> SUFFICES ASSUME Typed, [Next]_vars PROVE Typed'
  OBVIOUS
<1>1. CASE UNCHANGED vars
  BY <1>1 DEF vars, Typed, TypeOK, Coherent
<1>2. ASSUME NEW h \in Handler, NEW m \in Modification,
             StartCheck(h, m) \/ FinishCheck(h, m) \/ RollbackCheck(h, m)
      PROVE  Typed'
  BY <1>2, StartCheckTypes, FinishCheckTypes, RollbackCheckTypes
<1>3. ASSUME NEW h \in Handler, NEW n \in Targets, StartPlan(h, n)
      PROVE  Typed'
  BY <1>3, StartPlanTypes
<1>4. ASSUME NEW h \in Handler, NEW i \in Row,
             StartAdd(h, i) \/ FinishRemove(h, i) \/ RollbackDelete(h, i) \/ RollbackReadd(h, i) \/ RollbackRestore(h, i)
      PROVE  Typed'
  BY <1>4, StartAddTypes, FinishRemoveTypes, RollbackDeleteTypes, RollbackReaddTypes,
     RollbackRestoreTypes
<1>5. ASSUME NEW h \in Handler,
             \/ StartCount(h) \/ StartRelate(h) \/ StartEnd(h) \/ FinishCount(h)
             \/ FinishEnd(h) \/ RollbackCount(h) \/ RollbackEnd(h) \/ Fails(h)
      PROVE  Typed'
  BY <1>5, StartCountTypes, StartRelateTypes, StartEndTypes, FinishCountTypes,
     FinishEndTypes, RollbackCountTypes, RollbackEndTypes, FailsTypes
<1>6. ASSUME NEW c \in Client, Read(c) \/ Write(c)
      PROVE  Typed'
  BY <1>6, ReadTypes, WriteTypes
<1> QED BY <1>1, <1>2, <1>3, <1>4, <1>5, <1>6 DEF Next

\* The rows of modifications and of node instances keep their types, and every
\* request under way holds what its next commit needs.
THEOREM TypeCorrect == Spec => []TypeOK
<1>1. Typed => TypeOK
  BY DEF Typed
<1> QED BY <1>1, InitTypes, TypeStep, PTL DEF Spec

-----------------------------------------------------------------------------
(* Versions. *)

\* A step leaves the hub and its history alone, or changes it with a higher version,
\* or is a rollback that says so; no client takes part.
HubStep ==
  /\ UNCHANGED <<read, stale>>
  /\ rolled => rolled'
  /\ \/ rolled'
     \/ inst'[Hub] = inst[Hub] /\ changed' = changed
     \/ inst'[Hub].version = inst[Hub].version + 1

\* Such a step keeps VersionsGrow.
LEMMA HubStepGrows ==
  ASSUME Typed, VersionsGrow, HubStep
  PROVE  VersionsGrow'
<1>1. inst[Hub].version \in Nat
  BY Types DEF InstanceRow
<1>2. \A c \in Client : read[c] # None => read[c].version \in Nat
  BY DEF Typed, TypeOK
<1> QED BY <1>1, <1>2 DEF HubStep, VersionsGrow, Typed, TypeOK

\* Every commit of a request on a modification is such a step: those that touch no
\* node instance,
LEMMA ChecksGrow ==
  ASSUME NEW h \in Handler, NEW m \in Modification,
         StartCheck(h, m) \/ FinishCheck(h, m) \/ RollbackCheck(h, m)
  PROVE  HubStep
  BY DEF StartCheck, FinishCheck, RollbackCheck, HubStep, clients, history

LEMMA RequestsGrow ==
  ASSUME NEW h \in Handler,
         \/ \E n \in Targets : StartPlan(h, n)
         \/ StartCount(h) \/ StartEnd(h) \/ FinishCount(h) \/ FinishEnd(h)
         \/ RollbackCount(h) \/ RollbackEnd(h) \/ Fails(h)
  PROVE  HubStep
  BY DEF StartPlan, StartCount, StartEnd, FinishCount, FinishEnd, RollbackCount,
         RollbackEnd, Fails, HubStep, clients, history

\* and those that do.
LEMMA InstancesGrow ==
  ASSUME Typed, NEW h \in Handler, NEW i \in Row,
         \/ StartRelate(h) \/ StartAdd(h, i) \/ FinishRemove(h, i)
         \/ RollbackDelete(h, i) \/ RollbackReadd(h, i) \/ RollbackRestore(h, i)
  PROVE  HubStep
<1>1. CASE StartRelate(h)
  BY <1>1, Types DEF StartRelate, Update, InstanceRow, HubStep, clients
<1>2. CASE StartAdd(h, i)
  <2>1. i # Hub
    BY <1>2, Types DEF StartAdd, Typed, Coherent
  <2> QED BY <1>2, <2>1, Types DEF StartAdd, HubStep, clients, history
<1>3. CASE FinishRemove(h, i)
  BY <1>3, Types DEF FinishRemove, Update, InstanceRow, HubStep, clients
<1>4. CASE RollbackDelete(h, i)
  <2>1. i # Hub
    <3>1. mod[req[h].mod] # None /\ req[h].mod \in Modification
      BY <1>4, Types DEF RollbackDelete, Request
    <3> QED BY <1>4, <3>1, Types DEF RollbackDelete, Before, Typed, Coherent
  <2> QED BY <1>4, <2>1, Types DEF RollbackDelete, HubStep, clients, history
<1>5. CASE RollbackReadd(h, i)
  <2>1. inst'[Hub] = inst[Hub]
    BY <1>5, Types DEF RollbackReadd
  <2> QED BY <1>5, <2>1 DEF RollbackReadd, HubStep, clients, history
<1>6. CASE RollbackRestore(h, i)
  BY <1>6, Types DEF RollbackRestore, HubStep, clients
<1> QED BY <1>1, <1>2, <1>3, <1>4, <1>5, <1>6

\* A client that reads knows all changes; one that writes knew them, or is refused.
LEMMA ClientsGrow ==
  ASSUME Typed, VersionsGrow, NEW c \in Client, Read(c) \/ Write(c)
  PROVE  VersionsGrow'
<1>1. inst[Hub].version \in Nat
  BY Types DEF InstanceRow
<1>2. \A d \in Client : read[d] # None => read[d].version \in Nat
  BY DEF Typed, TypeOK
<1>3. CASE Read(c)
  BY <1>1, <1>2, <1>3 DEF Read, VersionsGrow, Typed, TypeOK, history
<1>4. CASE Write(c)
  <2>1. CASE ~ Current(c)
    BY <1>4, <2>1 DEF Write, VersionsGrow, Typed, TypeOK
  <2>2. CASE Current(c)
    <3>1. inst'[Hub].version = inst[Hub].version + 1
      BY <1>4, <2>2, Types DEF Write, InstanceRow
    <3>2. ~ rolled => read[c].changed = changed
      BY <1>1, <1>2, <1>4, <2>2 DEF Write, Current, VersionsGrow
    <3>3. ~ rolled' => ~ stale'
      BY <1>4, <2>2, <3>2 DEF Write, VersionsGrow
    <3>4. \A d \in Client : read'[d] # None => read'[d] = read[d] /\ read[d] # None
      BY <1>4 DEF Write, Typed, TypeOK
    <3> QED BY <1>1, <1>2, <1>4, <3>1, <3>3, <3>4 DEF Write, VersionsGrow
  <2> QED BY <2>1, <2>2
<1> QED BY <1>3, <1>4

\* So does every step.
LEMMA VersionStep == Typed /\ VersionsGrow /\ [Next]_vars => VersionsGrow'
<1> SUFFICES ASSUME Typed, VersionsGrow, [Next]_vars PROVE VersionsGrow'
  OBVIOUS
<1>1. CASE UNCHANGED vars
  BY <1>1 DEF vars, VersionsGrow
<1>2. CASE Next
  <2>1. CASE \E c \in Client : Read(c) \/ Write(c)
    BY <2>1, ClientsGrow
  <2>2. ASSUME NEW h \in Handler, NEW i \in Row,
               \/ StartRelate(h) \/ StartAdd(h, i) \/ FinishRemove(h, i)
               \/ RollbackDelete(h, i) \/ RollbackReadd(h, i) \/ RollbackRestore(h, i)
        PROVE  HubStep
    BY <2>2, InstancesGrow
  <2>3. CASE ~ \E c \in Client : Read(c) \/ Write(c)
    <3>1. HubStep
      BY <1>2, <2>2, <2>3, Types, ChecksGrow, RequestsGrow DEF Next
    <3> QED BY <3>1, HubStepGrows
  <2> QED BY <2>1, <2>3
<1> QED BY <1>1, <1>2

\* PATCH /node-instances with its version never overwrites a change its client has
\* not read before some rollback has restored an older version of the row, however
\* many requests and clients work on the deployment.
THEOREM StaleWritesFollowRollbacks == Spec => []NoStaleWrite
<1>1. Init => VersionsGrow
  BY DEF Init, VersionsGrow
<1>2. VersionsGrow => NoStaleWrite
  BY DEF VersionsGrow, NoStaleWrite
<1> QED BY <1>1, <1>2, InitTypes, TypeStep, VersionStep, PTL DEF Spec

-----------------------------------------------------------------------------
\* Handler h works on modification m.
On(h, m) == req[h] # Idle /\ req[h].mod = m

\* While nothing was crossed, the deployment has one started modification at most
\* and one request works on it; a start that is not stored yet has it for itself.
Alone ==
  /\ \A m \in Modification : mod[m] = None => hands[m] = {}
  /\ \A h \in Handler : req[h].pc = "check" =>
       /\ mod[req[h].mod] = None
       /\ \A g \in Handler : On(g, req[h].mod) => g = h
  /\ crossed = {} =>
       /\ \A m, n \in Started : m = n
       /\ \A h \in Handler : req[h].pc \notin {"idle", "check"} => req[h].mod \in Started
       /\ \A h, g \in Handler, m \in Modification : On(h, m) /\ On(g, m) => h = g

\* The instances a rollback of m has still to deal with are all that is not yet as
\* it was before.
Restored(m, todo) ==
  /\ \A i \in Row \ todo : inst[i] = None <=> mod[m].before[i] = None
  /\ Hub \notin todo => inst[Hub].rels = mod[m].before[Hub].rels

\* That is how far the request r of a handler has got, if it is a rollback.
Back(r) ==
  /\ r.pc = "rollback" => Restored(r.mod, r.todo)
  /\ r.pc = "uncount" => Restored(r.mod, {})

Restoring == crossed = {} => \A h \in Handler : Back(req[h])

\* The scaled instances there were before m, those with the ones it adds, and the
\* ones that are left of them when it is finished.
Old(m) == Before(m) \ {Hub}
All(m) == Old(m) \cup mod[m].added
Left(m) == All(m) \ mod[m].removed

\* The deployment is as its counts say.
Even ==
  /\ current = Cardinality(Scaled) /\ planned = current
  /\ inst[Hub].rels = Scaled

\* The plan of m leads from a deployment that was even to the number asked for.
Planned(m) ==
  /\ mod[m].before[Hub].rels = Old(m)
  /\ mod[m].added \cap Old(m) = {} /\ mod[m].removed \subseteq Old(m)
  /\ Cardinality(Left(m)) = mod[m].target

\* All of m's instances are there; of those it removes, some may be gone.
InPlace(m) ==
  /\ planned = mod[m].target
  /\ Scaled \subseteq All(m) /\ Scaled \ mod[m].removed = Left(m)
  /\ inst[Hub].rels \subseteq All(m) /\ inst[Hub].rels \ mod[m].removed = Left(m)

\* How far m has got when the request that works on it, if any, is r.
Reached(m, r) ==
  /\ current = IF "finish" \in hands[m] THEN mod[m].target ELSE Cardinality(Old(m))
  /\ hands[m] \subseteq {"finish"} /\ r.pc \notin {"count", "relate", "add"} => InPlace(m)
  /\ r.pc \in {"count", "relate"} =>
       hands[m] = {} /\ Scaled = Old(m) /\ inst[Hub].rels = Old(m)
  /\ r.pc = "relate" => planned = mod[m].target
  /\ r.pc = "add" =>
       /\ hands[m] = {} /\ planned = mod[m].target /\ r.todo \subseteq mod[m].added
       /\ Scaled = All(m) \ r.todo /\ inst[Hub].rels = All(m)
  /\ r.pc = "remove" =>
       /\ "finish" \in hands[m] /\ r.todo \subseteq mod[m].removed \cup {Hub}
       /\ Scaled \cap mod[m].removed \subseteq r.todo
       /\ Hub \notin r.todo => inst[Hub].rels \cap mod[m].removed = {}
  /\ r.pc \in {"rollback", "uncount"} => "rollback" \in hands[m]
  /\ r.pc = "uncount" => planned = current

\* Nothing was crossed or mixed.
Clean == crossed = {} /\ \A m \in Modification : ~ Mixed(m)

\* Then the deployment is even when no modification is started, and otherwise as
\* far as the one that is has got.
Balanced ==
  Clean =>
    /\ Started = {} => Even
    /\ \A m \in Started : Planned(m)
    /\ \A m \in Started, h \in Handler : On(h, m) => Reached(m, req[h])
    /\ \A m \in Started : (\A h \in Handler : ~ On(h, m)) => Reached(m, Idle)

-----------------------------------------------------------------------------
(* One modification, and one request on it, at a time. *)

\* A handler goes on with its request, which is then r, or ends it,
Works(h, r) ==
  /\ req[h] # Idle /\ req' = [req EXCEPT ![h] = r]
  /\ \/ r = Idle
     \/ /\ r \in Request /\ r.mod = req[h].mod
        /\ r.pc # "check" /\ req[h].pc # "check"
  /\ UNCHANGED <<mod, crossed>>
  /\ \A m \in Modification : mod[m] = None => hands'[m] = hands[m]

\* takes up a request r that ends modification m,
Takes(h, m, r) ==
  /\ req[h] = Idle /\ m \in Started
  /\ req' = [req EXCEPT ![h] = r]
  /\ r \in Request /\ r.mod = m /\ r.pc \in {"finish", "rollback"}
  /\ crossed' = Crossing(m) /\ UNCHANGED mod
  /\ \A n \in Modification : mod[n] = None => hands'[n] = hands[n]

\* or ends its modification with status st.
Ends(h, st) ==
  /\ req[h].pc \in {"remove", "uncount"} /\ Stop(h)
  /\ st \in {"finished", "rolledback"}
  /\ mod' = [mod EXCEPT ![req[h].mod].status = st]
  /\ UNCHANGED <<crossed, hands>>

\* Which actions do which.
LEMMA TheyWork ==
  ASSUME Typed, NEW h \in Handler, NEW i \in Row,
         \/ StartCount(h) \/ StartRelate(h) \/ StartAdd(h, i) \/ StartEnd(h)
         \/ FinishCount(h) \/ FinishRemove(h, i)
         \/ RollbackDelete(h, i) \/ RollbackReadd(h, i) \/ RollbackRestore(h, i) \/ RollbackCount(h) \/ Fails(h)
  PROVE  \E r \in {Idle} \cup Request : Works(h, r)
<1>1. CASE Fails(h)
  <2>1. req[h] \in Request /\ req[h].mod \in Modification
    BY <1>1, Types DEF Fails, Request
  <2>2. req[h].pc # "check" => mod[req[h].mod] # None
    BY <1>1 DEF Fails, Typed, Coherent
  <2>3. \A m \in Modification : mod[m] = None => hands'[m] = hands[m]
    BY <1>1, <2>2 DEF Fails, Typed, TypeOK
  <2> QED BY <1>1, <2>3 DEF Fails, Stop, Works
<1>2. CASE ~ Fails(h)
  <2>1. req[h].pc \notin {"idle", "check"} /\ req[h] \in Request /\ req[h] # Idle
        /\ req[h].mod \in Modification /\ mod[req[h].mod] \in ModificationRow
    <3>1. req[h].pc \notin {"idle", "check"}
      BY <1>2 DEF StartCount, StartRelate, StartAdd, StartEnd, FinishCount, FinishRemove,
             RollbackDelete, RollbackReadd, RollbackRestore, RollbackCount
    <3> QED BY <3>1, Types DEF Request, Idle
  <2>2. UNCHANGED <<mod, crossed>>
    BY <1>2 DEF StartCount, StartRelate, StartAdd, StartEnd, FinishCount, FinishRemove,
           RollbackDelete, RollbackReadd, RollbackRestore, RollbackCount, history
  <2>3. \A m \in Modification : mod[m] = None => hands'[m] = hands[m]
    <3>1. CASE FinishCount(h)
      BY <3>1, <2>1 DEF FinishCount, Typed, TypeOK
    <3>2. CASE ~ FinishCount(h)
      BY <1>2, <3>2 DEF StartCount, StartRelate, StartAdd, StartEnd, FinishRemove,
           RollbackDelete, RollbackReadd, RollbackRestore, RollbackCount, history
    <3> QED BY <3>1, <3>2
  <2>4. ASSUME Stop(h) PROVE Works(h, Idle)
    BY <2>1, <2>2, <2>3, <2>4 DEF Stop, Works
  <2>5. ASSUME NEW pc, pc \in {"relate", "add", "remove", "rollback", "uncount"},
               NEW todo \in SUBSET Row, Work(h, pc, todo)
        PROVE  \E r \in Request : Works(h, r)
    <3> DEFINE r == [req[h] EXCEPT !.pc = pc, !.todo = todo]
    <3>1. r \in Request /\ r.mod = req[h].mod /\ r.pc # "check"
      BY <2>1, <2>5 DEF Request
    <3>2. req' = [req EXCEPT ![h] = r]
      BY <2>5 DEF Work
    <3> HIDE DEF r
    <3> QED BY <2>1, <2>2, <2>3, <3>1, <3>2 DEF Works
  <2>6. ASSUME NEW pc, pc \in {"relate", "add", "remove", "rollback", "uncount"}, Go(h, pc)
        PROVE  \E r \in Request : Works(h, r)
    <3> DEFINE r == [req[h] EXCEPT !.pc = pc]
    <3>1. r \in Request /\ r.mod = req[h].mod /\ r.pc # "check"
      BY <2>1, <2>6 DEF Request
    <3>2. req' = [req EXCEPT ![h] = r]
      BY <2>6 DEF Go
    <3> HIDE DEF r
    <3> QED BY <2>1, <2>2, <2>3, <3>1, <3>2 DEF Works
  <2>7. \A todo : /\ todo = mod[req[h].mod].added => todo \in SUBSET Row
                  /\ todo = req[h].todo \ {i} => todo \in SUBSET Row
                  /\ todo = mod[req[h].mod].removed \cup {Hub} => todo \in SUBSET Row
                  /\ todo = {} => todo \in SUBSET Row
    BY <2>1, Types DEF Request, ModificationRow
  <2>8. \/ Stop(h) \/ Go(h, "relate") \/ Go(h, "uncount")
        \/ Work(h, "add", mod[req[h].mod].added) \/ Work(h, "add", req[h].todo \ {i})
        \/ Work(h, "remove", {}) \/ Work(h, "remove", mod[req[h].mod].removed \cup {Hub})
        \/ Work(h, "remove", req[h].todo \ {i}) \/ Work(h, "rollback", req[h].todo \ {i})
        \/ req' = [req EXCEPT ![h].seen = @ \cup {i}]
    BY <1>2 DEF StartCount, StartRelate, StartAdd, StartEnd, FinishCount, FinishRemove,
           RollbackDelete, RollbackReadd, RollbackRestore, RollbackCount
  <2>9. ASSUME req' = [req EXCEPT ![h].seen = @ \cup {i}]
        PROVE  \E r \in Request : Works(h, r)
    <3> DEFINE r == [req[h] EXCEPT !.seen = req[h].seen \cup {i}]
    <3>1. r \in Request /\ r.mod = req[h].mod /\ r.pc # "check"
      BY <2>1 DEF Request
    <3>2. req' = [req EXCEPT ![h] = r]
      BY <2>9
    <3> HIDE DEF r
    <3> QED BY <2>1, <2>2, <2>3, <3>1, <3>2 DEF Works
  <2> QED BY <2>4, <2>5, <2>6, <2>7, <2>8, <2>9
<1> QED BY <1>1, <1>2

LEMMA TheyTake ==
  ASSUME Typed, NEW h \in Handler, NEW m \in Modification,
         FinishCheck(h, m) \/ RollbackCheck(h, m)
  PROVE  \E r \in Request : Takes(h, m, r)
<1>1. CASE FinishCheck(h, m)
  <2> DEFINE r == [pc |-> "finish", mod |-> m, todo |-> {}, seen |-> {}]
  <2>1. r \in Request /\ r.mod = m /\ r.pc = "finish"
    BY DEF Request
  <2> QED BY <1>1, <2>1 DEF FinishCheck, Takes
<1>2. CASE RollbackCheck(h, m)
  <2> DEFINE r == [pc |-> "rollback", mod |-> m, seen |-> Present, todo |-> Present \cup Before(m)]
  <2>1. r \in Request /\ r.mod = m /\ r.pc = "rollback"
    BY DEF Request, Present, Before
  <2>2. \A n \in Modification : mod[n] = None => hands'[n] = hands[n]
    BY <1>2 DEF RollbackCheck, Started, Typed, TypeOK
  <2> QED BY <1>2, <2>1, <2>2 DEF RollbackCheck, Takes
<1> QED BY <1>1, <1>2

LEMMA TheyEnd ==
  ASSUME NEW h \in Handler, FinishEnd(h) \/ RollbackEnd(h)
  PROVE  Ends(h, "finished") \/ Ends(h, "rolledback")
  BY DEF FinishEnd, RollbackEnd, Ends, history

\* Each of them keeps Alone.
LEMMA WorksAlone ==
  ASSUME Typed, Alone, NEW h \in Handler, NEW r \in {Idle} \cup Request, Works(h, r)
  PROVE  Alone'
<1>1. \A g \in Handler : req'[g] = IF g = h THEN r ELSE req[g]
  BY Types DEF Works
<1>2. Started' = Started
  BY DEF Works, Started
<1>3. r = Idle \/ (r # Idle /\ r.pc # "check" /\ r.mod = req[h].mod /\ req[h] # Idle
                   /\ req[h].pc \notin {"idle", "check"})
  <2>1. req[h] \in Request
    BY Types DEF Works
  <2> QED BY <2>1 DEF Works, Request, Idle
<1>4. \A m \in Modification : mod'[m] = None => hands'[m] = {}
  BY DEF Works, Alone
<1>5. \A g \in Handler : req'[g].pc = "check" => req'[g] = req[g]
  BY <1>1, <1>3 DEF Idle
<1>6. \A g \in Handler : req'[g].pc \notin {"idle", "check"} =>
        req[g].pc \notin {"idle", "check"} /\ req'[g].mod = req[g].mod
  BY <1>1, <1>3 DEF Idle
<1>7. \A g \in Handler : \A m : On(g, m)' => On(g, m)
  BY <1>1, <1>3 DEF On
<1>8. \A g \in Handler : req'[g].pc = "check" =>
        /\ mod'[req'[g].mod] = None
        /\ \A k \in Handler : On(k, req[g].mod)' => k = g
  BY <1>5, <1>7 DEF Works, Alone
<1> QED BY <1>2, <1>4, <1>6, <1>7, <1>8 DEF Works, Alone

LEMMA TakesAlone ==
  ASSUME Typed, Alone, NEW h \in Handler, NEW m \in Modification, NEW r \in Request,
         Takes(h, m, r)
  PROVE  Alone'
<1>1. \A g \in Handler : req'[g] = IF g = h THEN r ELSE req[g]
  BY Types DEF Takes
<1>2. Started' = Started /\ m \in Started
  BY DEF Takes, Started
<1>3. \A n \in Modification : mod'[n] = None => hands'[n] = {}
  BY DEF Takes, Alone
<1>8. \A g \in Handler : \A n : On(g, n)' => IF g = h THEN n = m ELSE On(g, n)
  BY <1>1 DEF On, Takes
<1>4. ASSUME NEW g \in Handler, req'[g].pc = "check"
      PROVE  /\ mod'[req'[g].mod] = None
             /\ \A k \in Handler : On(k, req[g].mod)' => k = g
  <2>1. g # h /\ req'[g] = req[g] /\ mod[req[g].mod] = None
    BY <1>1, <1>4 DEF Takes, Alone
  <2>2. req[g].mod # m
    BY <2>1 DEF Takes, Started
  <2> QED BY <1>4, <1>8, <2>1, <2>2 DEF Takes, Alone
<1>5. SUFFICES ASSUME crossed' = {} PROVE Alone'
  BY <1>3, <1>4 DEF Alone
<1>6. crossed = {} /\ \A g \in Handler : ~ On(g, m)
  BY <1>5 DEF Takes, Crossing, On
<1>7. \A g \in Handler : req'[g].pc \notin {"idle", "check"} => req'[g].mod \in Started'
  BY <1>1, <1>2, <1>6 DEF Takes, Alone
<1>9. \A g, k \in Handler, n \in Modification : On(g, n)' /\ On(k, n)' => g = k
  BY <1>6, <1>8 DEF Alone
<1> QED BY <1>2, <1>3, <1>4, <1>6, <1>7, <1>9 DEF Alone

LEMMA EndsAlone ==
  ASSUME Typed, Alone, NEW h \in Handler, NEW st, Ends(h, st)
  PROVE  /\ Alone'
         /\ Started' = Started \ {req[h].mod}
<1> DEFINE m == req[h].mod
<1>1. m \in Modification /\ req[h] # Idle /\ mod[m] \in ModificationRow
  BY Types DEF Ends, Request, Idle
<1>2. \A g \in Handler : req'[g] = IF g = h THEN Idle ELSE req[g]
  BY Types DEF Ends, Stop
<1>3. /\ \A n \in Modification : n # m => mod'[n] = mod[n]
      /\ mod'[m].status = st /\ mod'[m] # None
  <2>1. mod'[m] = [mod[m] EXCEPT !.status = st]
    BY <1>1, Types DEF Ends
  <2>2. [mod[m] EXCEPT !.status = st] \in ModificationRow
    BY <1>1 DEF Ends, ModificationRow
  <2> QED BY <1>1, <2>1, <2>2, Types DEF Ends, ModificationRow
<1>4. Started' = Started \ {m}
  BY <1>1, <1>3 DEF Started, Ends
<1>5. \A n \in Modification : mod'[n] = None => hands'[n] = {}
  BY <1>3 DEF Ends, Alone
<1>7. \A g \in Handler : \A n : On(g, n)' => g # h /\ On(g, n)
  BY <1>2 DEF On
<1>6. ASSUME NEW g \in Handler, req'[g].pc = "check"
      PROVE  /\ mod'[req'[g].mod] = None
             /\ \A k \in Handler : On(k, req[g].mod)' => k = g
  <2>1. req'[g] = req[g]
    BY <1>2, <1>6 DEF Idle
  <2>2. mod[req[g].mod] = None /\ req[g].mod \in Modification
    BY <1>6, <2>1, Types DEF Alone, Request
  <2> QED BY <1>1, <1>3, <1>6, <1>7, <2>1, <2>2 DEF Alone
<1>8. ASSUME crossed = {}, NEW g \in Handler, req'[g].pc \notin {"idle", "check"}
      PROVE  req'[g].mod \in Started'
  <2>1. g # h /\ req'[g] = req[g] /\ req[g] # Idle
    BY <1>2, <1>8 DEF Idle
  <2>2. req[g].mod \in Started
    BY <1>8, <2>1 DEF Alone
  <2>3. req[g].mod # m
    BY <1>1, <1>8, <2>1 DEF Alone, On
  <2> QED BY <1>4, <2>1, <2>2, <2>3
<1> QED BY <1>4, <1>5, <1>6, <1>7, <1>8 DEF Ends, Alone

LEMMA ChecksAlone ==
  ASSUME Typed, Alone, NEW h \in Handler, NEW m \in Modification, StartCheck(h, m)
  PROVE  Alone' /\ Started' = Started
<1> DEFINE r == [pc |-> "check", mod |-> m, todo |-> {}, seen |-> {}]
<1>1. \A g \in Handler : req'[g] = IF g = h THEN r ELSE req[g]
  BY Types DEF StartCheck
<1>2. Started' = Started
  BY DEF Started, StartCheck
<1>3. \A g \in Handler : \A n : On(g, n)' => IF g = h THEN n = m ELSE On(g, n)
  BY <1>1 DEF On
<1>4. \A g \in Handler : ~ On(g, m)
  BY DEF On, StartCheck
<1>5. ASSUME NEW g \in Handler, req'[g].pc = "check"
      PROVE  /\ mod'[req'[g].mod] = None
             /\ \A k \in Handler : On(k, req[g].mod)' => k = g
  <2>1. CASE g = h
    BY <1>1, <1>3, <1>4, <2>1 DEF StartCheck
  <2>2. CASE g # h
    <3>1. req'[g] = req[g] /\ req[g] # Idle
      BY <1>1, <1>5, <2>2 DEF Idle
    <3>2. req[g].mod # m
      BY <1>4, <3>1 DEF On
    <3> QED BY <1>3, <1>5, <2>2, <3>1, <3>2 DEF StartCheck, Alone
  <2> QED BY <2>1, <2>2
<1>6. /\ \A k \in Modification : mod'[k] = None => hands'[k] = {}
      /\ UNCHANGED crossed
  BY DEF Alone, StartCheck, history
<1>7. \A g \in Handler : req'[g].pc \notin {"idle", "check"} =>
        req'[g] = req[g]
  BY <1>1
<1>8. \A g, k \in Handler, n \in Modification : crossed = {} /\ On(g, n)' /\ On(k, n)' => g = k
  BY <1>3, <1>4 DEF Alone
<1> QED BY <1>2, <1>5, <1>6, <1>7, <1>8 DEF Alone

\* What a start stores.
LEMMA PlanStores ==
  ASSUME Typed, Alone, NEW h \in Handler, NEW n \in Targets, StartPlan(h, n)
  PROVE  LET m == req[h].mod IN
         /\ m \in Modification /\ mod[m] = None /\ m \notin Started /\ hands[m] = {}
         /\ \E added \in SUBSET (Instance \ Scaled), removed \in SUBSET Scaled :
              /\ Cardinality(added) = (IF n > Cardinality(Scaled) THEN n - Cardinality(Scaled) ELSE 0)
              /\ Cardinality(removed) = (IF n < Cardinality(Scaled) THEN Cardinality(Scaled) - n ELSE 0)
              /\ mod'[m] = [status |-> "started", target |-> n, before |-> inst,
                            added |-> added, removed |-> removed]
         /\ \A k \in Modification : k # m => mod'[k] = mod[k]
         /\ Started' = Started \cup {m}
         /\ \A g \in Handler : g # h => req'[g] = req[g]
         /\ req'[h] = [req[h] EXCEPT !.pc = "count"]
         /\ req[h] \in Request
<1> DEFINE m == req[h].mod
           new(added, removed) == [status |-> "started", target |-> n, before |-> inst,
                                   added |-> added, removed |-> removed]
<1>1. req[h].pc = "check" /\ req[h] \in Request /\ m \in Modification
  BY Types DEF StartPlan, Request
<1>2. mod[m] = None /\ m \notin Started /\ hands[m] = {}
  BY <1>1 DEF Alone, Started
<1>3. PICK added \in SUBSET (Instance \ Scaled), removed \in SUBSET Scaled :
        /\ Cardinality(added) = (IF n > Cardinality(Scaled) THEN n - Cardinality(Scaled) ELSE 0)
        /\ Cardinality(removed) = (IF n < Cardinality(Scaled) THEN Cardinality(Scaled) - n ELSE 0)
        /\ mod' = [mod EXCEPT ![m] = new(added, removed)]
  BY DEF StartPlan
<1>4. /\ mod'[m] = new(added, removed)
      /\ \A k \in Modification : k # m => mod'[k] = mod[k]
  BY <1>1, <1>3, Types
<1>5. mod'[m] # None /\ mod'[m].status = "started"
  <2>1. new(added, removed) \in ModificationRow
    <3>1. added \in SUBSET Instance /\ removed \in SUBSET Instance /\ n \in Nat
      BY Types DEF Scaled, Present
    <3> QED BY <3>1, Types DEF ModificationRow
  <2> QED BY <1>4, <2>1
<1>6. Started' = Started \cup {m}
  BY <1>1, <1>4, <1>5 DEF Started
<1>7. /\ \A g \in Handler : g # h => req'[g] = req[g]
      /\ req'[h] = [req[h] EXCEPT !.pc = "count"]
  BY Types DEF StartPlan, Go
<1> QED BY <1>1, <1>2, <1>3, <1>4, <1>6, <1>7

LEMMA PlansAlone ==
  ASSUME Typed, Alone, NEW h \in Handler, NEW n \in Targets, StartPlan(h, n)
  PROVE  Alone'
<1> DEFINE m == req[h].mod
<1>1. /\ m \in Modification /\ mod[m] = None /\ hands[m] = {}
      /\ \A k \in Modification : k # m => mod'[k] = mod[k]
      /\ Started' = Started \cup {m}
      /\ \A g \in Handler : g # h => req'[g] = req[g]
      /\ req[h] \in Request
  BY PlanStores
<1>2. req[h].pc = "check" /\ hands' = hands
  BY DEF StartPlan
<1>3. req'[h].pc = "count" /\ req'[h].mod = m /\ req'[h] # Idle /\ req[h] # Idle
  <2>1. req'[h] = [req[h] EXCEPT !.pc = "count"]
    BY PlanStores
  <2> QED BY <1>1, <1>2, <2>1 DEF Request, Idle
<1>4. \A g \in Handler : \A k : On(g, k)' => On(g, k)
  BY <1>1, <1>3 DEF On
<1>5. \A k \in Modification : mod'[k] = None => hands'[k] = {}
  BY <1>1, <1>2 DEF Alone
<1>6. ASSUME NEW g \in Handler, req'[g].pc = "check"
      PROVE  /\ mod'[req'[g].mod] = None
             /\ \A k \in Handler : On(k, req[g].mod)' => k = g
  <2>1. g # h /\ req'[g] = req[g] /\ req[g].mod \in Modification
    BY <1>1, <1>3, <1>6, Types DEF Request
  <2>2. req[g].mod # m
    BY <1>2, <1>3, <1>6, <2>1 DEF Alone, On, Idle
  <2> QED BY <1>1, <1>4, <1>6, <2>1, <2>2 DEF Alone
<1>7. ASSUME crossed' = {}
      PROVE  /\ \A k, l \in Started' : k = l
             /\ \A g \in Handler : req'[g].pc \notin {"idle", "check"} => req'[g].mod \in Started'
             /\ \A g, k \in Handler, l \in Modification : On(g, l)' /\ On(k, l)' => g = k
  <2>1. crossed = {} /\ Started = {}
    BY <1>7 DEF StartPlan
  <2>2. \A g \in Handler : g # h => req'[g].pc \in {"idle", "check"}
    BY <1>1, <2>1 DEF Alone
  <2> QED BY <1>1, <1>3, <1>4, <2>1, <2>2 DEF Alone
<1> QED BY <1>5, <1>6, <1>7 DEF Alone

\* So does every step.
LEMMA AloneStep == Typed /\ Alone /\ [Next]_vars => Alone'
<1> SUFFICES ASSUME Typed, Alone, [Next]_vars PROVE Alone'
  OBVIOUS
<1>1. CASE UNCHANGED <<req, mod, crossed, hands>>
  BY <1>1 DEF Alone, On, Started
<1>2. ASSUME NEW h \in Handler, NEW m \in Modification,
             StartCheck(h, m) \/ FinishCheck(h, m) \/ RollbackCheck(h, m)
      PROVE  Alone'
  BY <1>2, TheyTake, TakesAlone, ChecksAlone
<1>3. ASSUME NEW h \in Handler, NEW n \in Targets, StartPlan(h, n)
      PROVE  Alone'
  BY <1>3, PlansAlone
<1>4. ASSUME NEW h \in Handler, NEW i \in Row,
             \/ StartCount(h) \/ StartRelate(h) \/ StartAdd(h, i) \/ StartEnd(h)
             \/ FinishCount(h) \/ FinishRemove(h, i)
             \/ RollbackDelete(h, i) \/ RollbackReadd(h, i) \/ RollbackRestore(h, i) \/ RollbackCount(h) \/ Fails(h)
      PROVE  Alone'
  BY <1>4, TheyWork, WorksAlone
<1>5. ASSUME NEW h \in Handler, FinishEnd(h) \/ RollbackEnd(h)
      PROVE  Alone'
  BY <1>5, TheyEnd, EndsAlone
<1>6. CASE \E c \in Client : Read(c) \/ Write(c)
  <2>1. UNCHANGED <<req, mod, crossed, hands>>
    BY <1>6 DEF Read, Write, history
  <2> QED BY <1>1, <2>1
<1>7. Hub \in Row
  BY DEF Row
<1> QED BY <1>1, <1>2, <1>3, <1>4, <1>5, <1>6, <1>7 DEF Next, vars

-----------------------------------------------------------------------------
(* What a rollback restores. *)

\* A handler that works on a modification is the only one, and on the only one.
LEMMA OnlyOne ==
  ASSUME Typed, Alone, crossed = {}, NEW h \in Handler, req[h].pc \notin {"idle", "check"}
  PROVE  /\ req[h].mod \in Modification /\ Started = {req[h].mod} /\ On(h, req[h].mod)
         /\ \A g \in Handler : g # h => req[g].pc \in {"idle", "check"}
<1>1. req[h].mod \in Started /\ req[h] # Idle
  BY DEF Alone, Idle
<1>2. req[h].mod \in Modification
  BY <1>1 DEF Started
<1>3. ASSUME NEW g \in Handler, req[g].pc \notin {"idle", "check"} PROVE g = h
  BY <1>1, <1>2, <1>3 DEF Alone, On, Idle
<1> QED BY <1>1, <1>2, <1>3 DEF Alone, On

\* The same instances are there as before, and the hub is related to the same ones.
SameShape ==
  /\ \A i \in Row : inst'[i] = None <=> inst[i] = None
  /\ inst'[Hub].rels = inst[Hub].rels

\* A step that keeps the shape, and in which no rollback gets further, keeps Restoring.
LEMMA ShapeRestoring ==
  ASSUME Typed, Restoring, SameShape, crossed' = {} => crossed = {},
         \A m \in Modification : mod[m] # None => mod'[m].before = mod[m].before,
         \A h \in Handler : req'[h].pc \in {"rollback", "uncount"} => req'[h] = req[h]
  PROVE  Restoring'
<1> SUFFICES ASSUME crossed' = {}, NEW h \in Handler PROVE Back(req[h])'
  BY DEF Restoring
<1>1. CASE req'[h].pc \notin {"rollback", "uncount"}
  BY <1>1 DEF Back
<1>2. CASE req'[h].pc \in {"rollback", "uncount"}
  <2>1. req'[h] = req[h] /\ Back(req[h])
    BY <1>2 DEF Restoring
  <2>2. mod[req[h].mod] # None /\ req[h].mod \in Modification
    BY <1>2, <2>1, Types DEF Request
  <2>3. mod'[req[h].mod].before = mod[req[h].mod].before
    BY <2>2
  <2> QED BY <2>1, <2>3 DEF Back, Restored, SameShape
<1> QED BY <1>1, <1>2

\* One of a handler at work keeps it when it does for that handler.
LEMMA MineRestoring ==
  ASSUME Typed, Alone, NEW h \in Handler, crossed' = {} => crossed = {},
         req[h].pc \notin {"idle", "check"},
         \A g \in Handler : g # h => req'[g] = req[g],
         crossed = {} => Back(req[h])'
  PROVE  Restoring'
<1> SUFFICES ASSUME crossed' = {}, NEW g \in Handler PROVE Back(req[g])'
  BY DEF Restoring
<1>1. CASE g = h
  BY <1>1
<1>2. CASE g # h
  <2>1. req'[g].pc \in {"idle", "check"}
    BY <1>2, OnlyOne
  <2> QED BY <2>1 DEF Back
<1> QED BY <1>1, <1>2

\* The steps of a rollback.
LEMMA DeleteRestoring ==
  ASSUME Typed, Alone, Restoring, NEW h \in Handler, NEW i \in Row, RollbackDelete(h, i)
  PROVE  Restoring'
<1>1. req[h] \in Request /\ req[h].mod \in Modification /\ req[h].pc = "rollback"
  BY Types DEF RollbackDelete, Request
<1>2. UNCHANGED <<mod, crossed>> /\ \A g \in Handler : g # h => req'[g] = req[g]
  BY Types DEF RollbackDelete, Stop, Work, history
<1>3. ASSUME crossed = {} PROVE Back(req[h])'
  <2>1. Restored(req[h].mod, req[h].todo)
    BY <1>1, <1>3 DEF Restoring, Back
  <2>2. CASE inst[i] = None
    <3>1. req'[h] = Idle
      BY <2>2, Types DEF RollbackDelete, Stop
    <3> QED BY <3>1 DEF Back, Idle
  <2>3. CASE inst[i] # None
    <3>1. req'[h] = [req[h] EXCEPT !.pc = "rollback", !.todo = req[h].todo \ {i}]
      BY <2>3, Types DEF RollbackDelete, Work
    <3>2. req'[h].mod = req[h].mod /\ req'[h].pc = "rollback" /\ req'[h].todo = req[h].todo \ {i}
      BY <1>1, <3>1 DEF Request
    <3>3. \A k \in Row : inst'[k] = IF k = i THEN None ELSE inst[k]
      BY <2>3, Types DEF RollbackDelete
    <3>4. mod[req[h].mod].before[i] = None /\ i # Hub
      BY <1>1, Types DEF RollbackDelete, Before, Typed, Coherent
    <3> QED BY <1>2, <2>1, <3>2, <3>3, <3>4, Types DEF Back, Restored
  <2> QED BY <2>2, <2>3
<1> QED BY <1>1, <1>2, <1>3, MineRestoring

LEMMA ReaddRestoring ==
  ASSUME Typed, Alone, Restoring, NEW h \in Handler, NEW i \in Row, RollbackReadd(h, i)
  PROVE  Restoring'
<1>1. /\ req[h] \in Request /\ req[h].mod \in Modification /\ req[h].pc = "rollback"
      /\ i \in req[h].todo
  BY Types DEF RollbackReadd, Request
<1>2. UNCHANGED <<mod, crossed>> /\ \A g \in Handler : g # h => req'[g] = req[g]
  BY Types DEF RollbackReadd, Stop, history
<1>3. ASSUME crossed = {} PROVE Back(req[h])'
  <2>1. Restored(req[h].mod, req[h].todo)
    BY <1>1, <1>3 DEF Restoring, Back
  <2>2. CASE inst[i] # None
    <3>1. req'[h] = Idle
      BY <2>2, Types DEF RollbackReadd, Stop
    <3> QED BY <3>1 DEF Back, Idle
  <2>3. CASE inst[i] = None
    <3>1. req'[h] = [req[h] EXCEPT !.seen = req[h].seen \cup {i}]
      BY <2>3, Types DEF RollbackReadd
    <3>2. req'[h].mod = req[h].mod /\ req'[h].pc = "rollback" /\ req'[h].todo = req[h].todo
      BY <1>1, <3>1 DEF Request
    <3>3. \A k \in Row : k # i => inst'[k] = inst[k]
      BY <2>3, Types DEF RollbackReadd
    <3>4. i # Hub
      BY <2>3, Types
    <3> QED BY <1>1, <1>2, <2>1, <3>2, <3>3, <3>4, Types DEF Back, Restored
  <2> QED BY <2>2, <2>3
<1> QED BY <1>1, <1>2, <1>3, MineRestoring

LEMMA RestoreRestoring ==
  ASSUME Typed, Alone, Restoring, NEW h \in Handler, NEW i \in Row, RollbackRestore(h, i)
  PROVE  Restoring'
<1>1. req[h] \in Request /\ req[h].mod \in Modification /\ req[h].pc = "rollback"
  BY Types DEF RollbackRestore, Request
<1>2. UNCHANGED <<mod, crossed>> /\ \A g \in Handler : g # h => req'[g] = req[g]
  BY Types DEF RollbackRestore, Stop, Work
<1>3. ASSUME crossed = {} PROVE Back(req[h])'
  <2>1. Restored(req[h].mod, req[h].todo)
    BY <1>1, <1>3 DEF Restoring, Back
  <2>2. CASE inst[i] = None
    <3>1. req'[h] = Idle
      BY <2>2, Types DEF RollbackRestore, Stop
    <3> QED BY <3>1 DEF Back, Idle
  <2>3. CASE inst[i] # None
    <3>1. req'[h] = [req[h] EXCEPT !.pc = "rollback", !.todo = req[h].todo \ {i}]
      BY <2>3, Types DEF RollbackRestore, Work
    <3>2. req'[h].mod = req[h].mod /\ req'[h].pc = "rollback" /\ req'[h].todo = req[h].todo \ {i}
      BY <1>1, <3>1 DEF Request
    <3>3. \A k \in Row : inst'[k] = IF k = i THEN mod[req[h].mod].before[i] ELSE inst[k]
      BY <2>3, Types DEF RollbackRestore
    <3> QED BY <1>2, <2>1, <3>2, <3>3, Types DEF Back, Restored
  <2> QED BY <2>2, <2>3
<1> QED BY <1>1, <1>2, <1>3, MineRestoring

LEMMA UncountRestoring ==
  ASSUME Typed, Alone, Restoring, NEW h \in Handler, RollbackCount(h)
  PROVE  Restoring'
<1>1. req[h] \in Request /\ req[h].pc = "rollback" /\ req[h].todo = {}
  BY Types DEF RollbackCount, Request
<1>2. UNCHANGED <<inst, mod, crossed>> /\ \A g \in Handler : g # h => req'[g] = req[g]
  BY Types DEF RollbackCount, Go, history
<1>3. req'[h].mod = req[h].mod /\ req'[h].pc = "uncount"
  BY <1>1, Types DEF RollbackCount, Go, Request
<1>4. crossed = {} => Back(req[h])'
  BY <1>1, <1>2, <1>3 DEF Restoring, Back, Restored
<1> QED BY <1>1, <1>2, <1>4, MineRestoring

LEMMA RollbackRestoring ==
  ASSUME Typed, Alone, Restoring, NEW h \in Handler, NEW m \in Modification, RollbackCheck(h, m)
  PROVE  Restoring'
<1> DEFINE r == [pc |-> "rollback", mod |-> m, seen |-> Present, todo |-> Present \cup Before(m)]
<1>1. \A g \in Handler : req'[g] = IF g = h THEN r ELSE req[g]
  BY Types DEF RollbackCheck
<1>2. UNCHANGED <<inst, mod>>
  BY DEF RollbackCheck
<1>3. Restored(m, Present \cup Before(m))
  BY Types DEF Restored, Present, Before, Typed, Coherent
<1>4. req'[h].pc = "rollback" /\ req'[h].mod = m /\ req'[h].todo = Present \cup Before(m)
  BY <1>1
<1> SUFFICES ASSUME crossed' = {}, NEW g \in Handler PROVE Back(req[g])'
  BY DEF Restoring
<1>5. crossed = {}
  BY DEF RollbackCheck, Crossing
<1>6. CASE g = h
  BY <1>2, <1>3, <1>4, <1>6 DEF Back, Restored
<1>7. CASE g # h
  <2>1. req'[g] = req[g] /\ Back(req[g])
    BY <1>1, <1>5, <1>7 DEF Restoring
  <2> QED BY <1>2, <2>1 DEF Back, Restored
<1> QED BY <1>6, <1>7

\* Steps of a handler at work that do not leave it in a rollback.
LEMMA OtherRestoring ==
  ASSUME Typed, Alone, NEW h \in Handler, NEW i \in Row,
         \/ StartCount(h) \/ StartRelate(h) \/ StartAdd(h, i) \/ StartEnd(h)
         \/ FinishCount(h) \/ FinishRemove(h, i) \/ FinishEnd(h) \/ RollbackEnd(h)
         \/ Fails(h) /\ req[h].pc # "check"
  PROVE  Restoring'
<1>1. req[h].pc \notin {"idle", "check"} /\ req[h] \in Request
  <2>1. req[h].pc # "check"
    BY DEF StartCount, StartRelate, StartAdd, StartEnd, FinishCount, FinishRemove, FinishEnd,
           RollbackEnd
  <2>2. req[h] # Idle
    BY DEF StartCount, StartRelate, StartAdd, StartEnd, FinishCount, FinishRemove, FinishEnd,
           RollbackEnd, Fails, Idle
  <2> QED BY <2>1, <2>2, Types DEF Request
<1>2. \A g \in Handler : g # h => req'[g] = req[g]
  BY Types DEF StartCount, StartRelate, StartAdd, StartEnd, FinishCount, FinishRemove, FinishEnd,
         RollbackEnd, Fails, Go, Work, Stop
<1>3. UNCHANGED crossed
  BY DEF StartCount, StartRelate, StartAdd, StartEnd, FinishCount, FinishRemove, FinishEnd,
         RollbackEnd, Fails, history
<1>4. req'[h].pc \notin {"rollback", "uncount"}
  BY <1>1, Types DEF StartCount, StartRelate, StartAdd, StartEnd, FinishCount, FinishRemove,
         FinishEnd, RollbackEnd, Fails, Go, Work, Stop, Idle, Request
<1> QED BY <1>1, <1>2, <1>3, <1>4, MineRestoring DEF Back

\* The steps of handlers that are not at work yet, and of clients.
LEMMA FirstRestoring ==
  ASSUME Typed, Alone, Restoring, NEW h \in Handler,
         \/ \E m \in Modification : StartCheck(h, m) \/ FinishCheck(h, m)
         \/ \E n \in Targets : StartPlan(h, n)
         \/ Fails(h) /\ req[h].pc = "check"
  PROVE  Restoring'
<1>1. SameShape
  BY DEF StartCheck, FinishCheck, StartPlan, Fails, SameShape
<1>2. crossed' = {} => crossed = {}
  BY DEF StartCheck, FinishCheck, StartPlan, Fails, Crossing, history
<1>3. \A m \in Modification : mod[m] # None => mod'[m].before = mod[m].before
  BY PlanStores DEF StartCheck, FinishCheck, Fails
<1>4. \A g \in Handler : req'[g].pc \in {"rollback", "uncount"} => req'[g] = req[g]
  <2>1. CASE \E n \in Targets : StartPlan(h, n)
    BY <2>1, PlanStores DEF Request
  <2>2. CASE ~ \E n \in Targets : StartPlan(h, n)
    BY <2>2, Types DEF StartCheck, FinishCheck, Fails, Stop, Idle
  <2> QED BY <2>1, <2>2
<1> QED BY <1>1, <1>2, <1>3, <1>4, ShapeRestoring

LEMMA WriteShape ==
  ASSUME Typed, NEW c \in Client, Read(c) \/ Write(c)
  PROVE  SameShape /\ UNCHANGED <<mod, req, crossed, hands, current, planned>>
<1>1. UNCHANGED <<mod, req, crossed, hands, current, planned>>
  BY DEF Read, Write, counts, history
<1>2. CASE inst' = inst
  BY <1>1, <1>2 DEF SameShape
<1>3. CASE inst' = [inst EXCEPT ![Hub].by = c, ![Hub].version = @ + 1]
  <2>1. inst'[Hub] \in InstanceRow /\ inst'[Hub].rels = inst[Hub].rels
    BY <1>3, Types DEF InstanceRow
  <2>2. \A i \in Row : i # Hub => inst'[i] = inst[i]
    BY <1>3, Types
  <2> QED BY <1>1, <2>1, <2>2, Types DEF SameShape
<1> QED BY <1>2, <1>3 DEF Read, Write

LEMMA RestoringStep == Typed /\ Alone /\ Restoring /\ [Next]_vars => Restoring'
<1> SUFFICES ASSUME Typed, Alone, Restoring, [Next]_vars PROVE Restoring'
  OBVIOUS
<1>1. CASE UNCHANGED vars
  BY <1>1, ShapeRestoring DEF vars, SameShape
<1>2. ASSUME NEW h \in Handler, NEW m \in Modification,
             StartCheck(h, m) \/ FinishCheck(h, m) \/ RollbackCheck(h, m)
      PROVE  Restoring'
  BY <1>2, FirstRestoring, RollbackRestoring
<1>3. ASSUME NEW h \in Handler, NEW n \in Targets, StartPlan(h, n)
      PROVE  Restoring'
  BY <1>3, FirstRestoring
<1>4. ASSUME NEW h \in Handler, NEW i \in Row,
             StartAdd(h, i) \/ FinishRemove(h, i) \/ RollbackDelete(h, i) \/ RollbackReadd(h, i) \/ RollbackRestore(h, i)
      PROVE  Restoring'
  BY <1>4, OtherRestoring, DeleteRestoring, ReaddRestoring, RestoreRestoring
<1>5. ASSUME NEW h \in Handler,
             \/ StartCount(h) \/ StartRelate(h) \/ StartEnd(h) \/ FinishCount(h)
             \/ FinishEnd(h) \/ RollbackCount(h) \/ RollbackEnd(h) \/ Fails(h)
      PROVE  Restoring'
  <2>1. Hub \in Row
    BY DEF Row
  <2> QED BY <1>5, <2>1, OtherRestoring, UncountRestoring, FirstRestoring
<1>6. CASE \E c \in Client : Read(c) \/ Write(c)
  BY <1>6, WriteShape, ShapeRestoring
<1> QED BY <1>1, <1>2, <1>3, <1>4, <1>5, <1>6 DEF Next

\* Only the last commit of a rollback gives a started modification its status.
LEMMA RolledBackBy ==
  ASSUME Typed, Alone, [Next]_vars, NEW m \in Started, mod'[m].status = "rolledback"
  PROVE  \E h \in Handler : req[h].pc = "uncount" /\ req[h].mod = m
<1>1. m \in Modification /\ mod[m].status = "started" /\ mod'[m] # mod[m]
  BY DEF Started
<1>2. ASSUME NEW h \in Handler, NEW n \in Targets, StartPlan(h, n) PROVE FALSE
  BY <1>1, <1>2, PlanStores
<1>3. ASSUME NEW h \in Handler, NEW st, Ends(h, st) PROVE req[h].mod = m /\ st = "rolledback"
  <2>1. req[h].mod \in Modification /\ mod[req[h].mod] \in ModificationRow
    BY <1>3, Types DEF Ends, Request
  <2>2. req[h].mod = m
    BY <1>1, <1>3, <2>1, Types DEF Ends
  <2> QED BY <1>1, <1>3, <2>1, <2>2, Types DEF Ends, ModificationRow
<1>4. ASSUME NEW h \in Handler, FinishEnd(h) PROVE FALSE
  <2>1. Ends(h, "finished")
    BY <1>4 DEF FinishEnd, Ends, history
  <2> QED BY <1>3, <2>1
<1>5. ASSUME NEW h \in Handler, RollbackEnd(h) PROVE req[h].pc = "uncount" /\ req[h].mod = m
  <2>1. Ends(h, "rolledback")
    BY <1>5 DEF RollbackEnd, Ends, history
  <2> QED BY <1>3, <1>5, <2>1 DEF RollbackEnd
<1>6. ASSUME NEW h \in Handler, NEW i \in Row,
             \/ StartCount(h) \/ StartRelate(h) \/ StartAdd(h, i) \/ StartEnd(h)
             \/ FinishCount(h) \/ FinishRemove(h, i)
             \/ RollbackDelete(h, i) \/ RollbackReadd(h, i) \/ RollbackRestore(h, i) \/ RollbackCount(h) \/ Fails(h)
      PROVE  FALSE
  BY <1>1, <1>6, TheyWork DEF Works
<1>7. \A h \in Handler, n \in Modification :
        ~ (StartCheck(h, n) \/ FinishCheck(h, n) \/ RollbackCheck(h, n))
  BY <1>1 DEF StartCheck, FinishCheck, RollbackCheck
<1>8. \A c \in Client : ~ (Read(c) \/ Write(c))
  BY <1>1 DEF Read, Write
<1>9. Hub \in Row /\ ~ UNCHANGED vars
  BY <1>1 DEF Row, vars
<1> QED BY <1>2, <1>4, <1>5, <1>6, <1>7, <1>8, <1>9 DEF Next

\* A rollback, whatever failed before it, ends with the instances there were before,
\* related as they were, unless modifications were crossed.
THEOREM RollbacksRestore == Spec => RollbackRestores
<1>1. Init => Alone /\ Restoring
  BY DEF Init, Alone, Restoring, Back, Started, On, Idle
<1>2. ASSUME Typed, Alone, Restoring, [Next]_vars
      PROVE  [\A m \in Modification :
                crossed = {} /\ m \in Started /\ mod'[m].status = "rolledback" =>
                  Present = Before(m) /\ inst[Hub].rels = mod[m].before[Hub].rels]_vars
  <2> SUFFICES ASSUME NEW m \in Modification, crossed = {}, m \in Started,
                      mod'[m].status = "rolledback"
               PROVE  Present = Before(m) /\ inst[Hub].rels = mod[m].before[Hub].rels
    OBVIOUS
  <2>1. PICK h \in Handler : req[h].pc = "uncount" /\ req[h].mod = m
    BY <1>2, RolledBackBy
  <2>2. Restored(m, {})
    BY <1>2, <2>1 DEF Restoring, Back
  <2> QED BY <2>2 DEF Restored, Present, Before
<1> QED BY <1>1, <1>2, InitTypes, TypeStep, AloneStep, RestoringStep, PTL
        DEF Spec, RollbackRestores

-----------------------------------------------------------------------------
(* What the modifications add up to. *)

\* Histories only grow, so that what is clean after a step was clean before it.
LEMMA CleanBefore ==
  ASSUME Typed, [Next]_vars, Clean'
  PROVE  Clean
<1>1. crossed \subseteq crossed' /\ \A m \in Modification : hands[m] \subseteq hands'[m]
  <2>1. ASSUME NEW h \in Handler, FinishCount(h) \/ Fails(h)
        PROVE  crossed' = crossed /\ \A m \in Modification : hands[m] \subseteq hands'[m]
    BY <2>1 DEF FinishCount, Fails, Typed, TypeOK
  <2>2. ASSUME NEW h \in Handler, NEW m \in Modification,
               StartCheck(h, m) \/ FinishCheck(h, m) \/ RollbackCheck(h, m)
        PROVE  crossed \subseteq crossed' /\ \A n \in Modification : hands[n] \subseteq hands'[n]
    BY <2>2 DEF StartCheck, FinishCheck, RollbackCheck, Crossing, history, Typed, TypeOK
  <2>3. ASSUME NEW h \in Handler, NEW i \in Row, NEW n \in Targets,
               \/ StartPlan(h, n) \/ StartAdd(h, i) \/ FinishRemove(h, i)
               \/ RollbackDelete(h, i) \/ RollbackReadd(h, i) \/ RollbackRestore(h, i)
               \/ StartCount(h) \/ StartRelate(h) \/ StartEnd(h)
               \/ FinishEnd(h) \/ RollbackCount(h) \/ RollbackEnd(h)
        PROVE  crossed \subseteq crossed' /\ hands' = hands
    BY <2>3 DEF StartPlan, StartAdd, FinishRemove, RollbackDelete, RollbackReadd, RollbackRestore, StartCount,
           StartRelate, StartEnd, FinishEnd, RollbackCount, RollbackEnd, history
  <2>4. ASSUME NEW h \in Handler, NEW i \in Row,
               \/ StartAdd(h, i) \/ FinishRemove(h, i)
               \/ RollbackDelete(h, i) \/ RollbackReadd(h, i) \/ RollbackRestore(h, i)
               \/ StartCount(h) \/ StartRelate(h) \/ StartEnd(h)
               \/ FinishEnd(h) \/ RollbackCount(h) \/ RollbackEnd(h)
        PROVE  crossed \subseteq crossed' /\ hands' = hands
    BY <2>4 DEF StartAdd, FinishRemove, RollbackDelete, RollbackReadd, RollbackRestore, StartCount,
           StartRelate, StartEnd, FinishEnd, RollbackCount, RollbackEnd, history
  <2>5. ASSUME NEW c \in Client, Read(c) \/ Write(c)
        PROVE  crossed' = crossed /\ hands' = hands
    BY <2>5 DEF Read, Write, history
  <2>6. Hub \in Row
    BY DEF Row
  <2> QED BY <2>1, <2>2, <2>3, <2>4, <2>5, <2>6 DEF Next, vars
<1> QED BY <1>1 DEF Clean, Mixed

\* A step that keeps the shape keeps what was reached, and the counts, rows and history
\* being the same, Even.
LEMMA ShapeScaled ==
  ASSUME SameShape
  PROVE  Scaled' = Scaled /\ Present' = Present
  BY DEF SameShape, Scaled, Present

LEMMA ShapeReached ==
  ASSUME SameShape, UNCHANGED <<mod, hands, current, planned>>, NEW m, NEW r
  PROVE  /\ Reached(m, r) => Reached(m, r)'
         /\ Planned(m) => Planned(m)'
         /\ Even => Even'
<1>1. Scaled' = Scaled /\ inst'[Hub].rels = inst[Hub].rels
  BY ShapeScaled DEF SameShape
<1>2. Old(m)' = Old(m) /\ All(m)' = All(m) /\ Left(m)' = Left(m)
  BY DEF Old, All, Left, Before
<1> QED BY <1>1, <1>2 DEF Reached, Planned, Even, InPlace

\* A step that keeps the shape, and in which the handlers at a started modification
\* stay with what they do, keeps Balanced.
LEMMA ShapeBalanced ==
  ASSUME Balanced, Clean' => Clean, SameShape, UNCHANGED <<mod, hands, current, planned>>,
         \A h \in Handler, m \in Started : On(h, m)' => On(h, m) /\ req'[h] = req[h],
         \A h \in Handler, m \in Started : On(h, m) => On(h, m)'
  PROVE  Balanced'
<1> SUFFICES ASSUME Clean', Clean PROVE Balanced'
  BY DEF Balanced
<1>1. Started' = Started
  BY DEF Started
<1>2. Started' = {} => Even'
  BY <1>1, ShapeReached DEF Balanced
<1>3. \A m \in Started' : Planned(m)'
  BY <1>1, ShapeReached DEF Balanced
<1>4. ASSUME NEW m \in Started', NEW h \in Handler, On(h, m)' PROVE Reached(m, req[h])'
  <2>1. On(h, m) /\ req'[h] = req[h] /\ Reached(m, req[h])
    BY <1>1, <1>4 DEF Balanced
  <2>2. \A r : Reached(m, r) => Reached(m, r)'
    BY ShapeReached
  <2>3. \A r : r = req[h] => Reached(m, r)'
    BY <2>1, <2>2
  <2> QED BY <2>1, <2>3 DEF Reached
<1>5. ASSUME NEW m \in Started', \A h \in Handler : ~ On(h, m)' PROVE Reached(m, Idle)'
  <2>1. Reached(m, Idle)
    BY <1>1, <1>5 DEF Balanced
  <2> QED BY <2>1, ShapeReached
<1> QED BY <1>2, <1>3, <1>4, <1>5 DEF Balanced

\* A step of a handler at work on m keeps it when m has got as far as the handler's
\* request says.
LEMMA MineBalanced ==
  ASSUME Typed, Alone, NEW h \in Handler, NEW m \in Modification, crossed = {},
         req[h].pc \notin {"idle", "check"}, req[h].mod = m,
         UNCHANGED mod, Planned(m),
         \A g \in Handler : g # h => req'[g] = req[g],
         req'[h] = Idle \/ On(h, m)',
         Reached(m, req[h])'
  PROVE  Balanced'
<1>1. Started' = {m}
  BY OnlyOne DEF Started
<1>2. Planned(m)'
  BY DEF Planned, Old, All, Left, Before
<1>3. \A g \in Handler : g # h => ~ On(g, m)'
  <2> SUFFICES ASSUME NEW g \in Handler, g # h, On(g, m)' PROVE FALSE
    OBVIOUS
  <2>1. On(g, m) /\ On(h, m)
    BY OnlyOne DEF On
  <2> QED BY <2>1 DEF Alone
<1>4. \A g \in Handler : On(g, m)' => Reached(m, req[g])'
  BY <1>3
<1>5. (\A g \in Handler : ~ On(g, m)') => Reached(m, Idle)'
  <2> SUFFICES ASSUME \A g \in Handler : ~ On(g, m)' PROVE Reached(m, Idle)'
    OBVIOUS
  <2>1. req'[h] = Idle
    OBVIOUS
  <2> QED BY <2>1 DEF Reached, Idle
<1> QED BY <1>1, <1>2, <1>4, <1>5 DEF Balanced

\* What a handler at work can rely on.
LEMMA AtWork ==
  ASSUME Typed, Alone, Balanced, Clean, NEW h \in Handler, req[h].pc \notin {"idle", "check"},
         NEW m, m = req[h].mod
  PROVE  /\ m \in Modification /\ Started = {m} /\ req[h] \in Request /\ On(h, m)
         /\ mod[m] \in ModificationRow
         /\ Planned(m) /\ Reached(m, req[h])
         /\ Hub \notin Old(m) /\ Hub \notin All(m) /\ Hub \notin Scaled
<1>1. crossed = {}
  BY DEF Clean
<1>2. m \in Modification /\ Started = {m} /\ On(h, m)
  BY <1>1, OnlyOne
<1>3. req[h] \in Request /\ mod[m] \in ModificationRow
  BY Types
<1>4. Hub \notin Old(m) /\ Hub \notin All(m) /\ Hub \notin Scaled
  BY <1>3, Types DEF Old, All, Scaled, ModificationRow
<1> QED BY <1>2, <1>3, <1>4 DEF Balanced

LEMMA CountReached ==
  ASSUME Typed, Alone, Balanced, Clean, NEW h \in Handler, StartCount(h)
  PROVE  Balanced'
<1> DEFINE m0 == req[h].mod
<1>1. PICK m : m = m0
  OBVIOUS
<1>2. req[h].pc = "count" /\ crossed = {}
  BY DEF StartCount, Clean
<1>3. /\ m \in Modification /\ req[h] \in Request /\ mod[m] \in ModificationRow
      /\ Planned(m) /\ Reached(m, req[h])
  BY <1>1, <1>2, AtWork
<1>4. UNCHANGED <<inst, current, mod, hands>> /\ planned' = mod[m].target
  BY <1>1 DEF StartCount, history
<1>5. \A g \in Handler : g # h => req'[g] = req[g]
  BY Types DEF StartCount, Go
<1>6. req'[h].pc = "relate" /\ req'[h].mod = m /\ req'[h] # Idle
  BY <1>1, <1>3, Types DEF StartCount, Go, Request, Idle
<1>7. Scaled' = Scaled /\ Old(m)' = Old(m)
  BY <1>4 DEF Scaled, Present, Old, Before
<1>8. Reached(m, req[h])'
  BY <1>2, <1>3, <1>4, <1>6, <1>7 DEF Reached
<1> QED BY <1>1, <1>2, <1>3, <1>4, <1>5, <1>6, <1>8, MineBalanced DEF On

LEMMA RelateReached ==
  ASSUME Typed, Alone, Balanced, Clean, NEW h \in Handler, StartRelate(h)
  PROVE  Balanced'
<1>1. PICK m : m = req[h].mod
  OBVIOUS
<1>2. req[h].pc = "relate" /\ crossed = {}
  BY DEF StartRelate, Clean
<1>3. /\ m \in Modification /\ req[h] \in Request /\ mod[m] \in ModificationRow
      /\ Planned(m) /\ Reached(m, req[h])
  BY <1>1, <1>2, AtWork
<1>4. UNCHANGED <<current, planned, mod, hands>>
  BY DEF StartRelate, counts
<1>5. \A g \in Handler : g # h => req'[g] = req[g]
  BY Types DEF StartRelate, Work
<1>6. /\ req'[h].pc = "add" /\ req'[h].mod = m /\ req'[h].todo = mod[m].added
      /\ req'[h] # Idle
  <2>1. req'[h] = [req[h] EXCEPT !.pc = "add", !.todo = mod[m].added]
    BY <1>1, Types DEF StartRelate, Work
  <2> QED BY <1>1, <1>3, <2>1 DEF Request, Idle
<1>7. /\ inst'[Hub].rels = inst[Hub].rels \cup mod[m].added
      /\ \A i \in Row : inst'[i] = None <=> inst[i] = None
  <2>1. CASE mod[m].added = {}
    BY <1>1, <2>1 DEF StartRelate
  <2>2. CASE mod[m].added # {}
    <3>1. inst' = Update(Hub, inst[Hub].rels \cup mod[m].added)
      BY <1>1, <2>2 DEF StartRelate
    <3>2. mod[m].added \subseteq Instance
      BY <1>3 DEF ModificationRow
    <3>3. inst'[Hub] \in InstanceRow /\ inst'[Hub].rels = inst[Hub].rels \cup mod[m].added
      BY <3>1, <3>2, Types DEF Update, InstanceRow
    <3>4. \A i \in Row : i # Hub => inst'[i] = inst[i]
      BY <3>1, Types DEF Update
    <3> QED BY <3>3, <3>4, Types
  <2> QED BY <2>1, <2>2
<1>8. Scaled' = Scaled /\ Old(m)' = Old(m) /\ All(m)' = All(m)
  BY <1>4, <1>7 DEF Scaled, Present, Old, All, Before
<1>9. Scaled' = All(m) \ mod[m].added /\ inst'[Hub].rels = All(m)
  BY <1>2, <1>3, <1>7, <1>8 DEF Reached, Planned, All
<1>10. Reached(m, req[h])'
  BY <1>2, <1>3, <1>4, <1>6, <1>8, <1>9 DEF Reached
<1> QED BY <1>1, <1>2, <1>3, <1>4, <1>5, <1>6, <1>10, MineBalanced DEF On

LEMMA AddReached ==
  ASSUME Typed, Alone, Balanced, Clean, NEW h \in Handler, NEW i \in Row, StartAdd(h, i)
  PROVE  Balanced'
<1>1. PICK m : m = req[h].mod
  OBVIOUS
<1>2. req[h].pc = "add" /\ crossed = {} /\ i \in req[h].todo
  BY DEF StartAdd, Clean
<1>3. /\ m \in Modification /\ req[h] \in Request /\ mod[m] \in ModificationRow
      /\ Planned(m) /\ Reached(m, req[h])
  BY <1>1, <1>2, AtWork
<1>4. UNCHANGED <<current, planned, mod, hands>>
  BY DEF StartAdd, counts, history
<1>5. \A g \in Handler : g # h => req'[g] = req[g]
  BY Types DEF StartAdd, Work
<1>6. /\ req'[h].pc = "add" /\ req'[h].mod = m /\ req'[h].todo = req[h].todo \ {i}
      /\ req'[h] # Idle
  <2>1. req'[h] = [req[h] EXCEPT !.pc = "add", !.todo = req[h].todo \ {i}]
    BY Types DEF StartAdd, Work
  <2> QED BY <1>1, <1>3, <2>1 DEF Request, Idle
<1>7. i # Hub /\ i \in mod[m].added
  BY <1>2, <1>3, Types DEF Reached, ModificationRow
<1>8. Scaled' = Scaled \cup {i} /\ inst'[Hub] = inst[Hub]
  <2>1. \A k \in Row : inst'[k] = IF k = i THEN New ELSE inst[k]
    BY Types DEF StartAdd
  <2>2. New # None
    <3>1. New \in [version : Nat, by : Client \cup {None}, rels : SUBSET Instance]
      BY DEF New
    <3> QED BY <3>1 DEF InstanceRow
  <2> QED BY <1>7, <2>1, <2>2, Types DEF Scaled, Present
<1>9. Old(m)' = Old(m) /\ All(m)' = All(m)
  BY <1>4 DEF Old, All, Before
<1>10. Scaled' = All(m) \ req'[h].todo /\ inst'[Hub].rels = All(m)
  BY <1>2, <1>3, <1>6, <1>7, <1>8 DEF Reached, All
<1>11. Reached(m, req[h])'
  BY <1>2, <1>3, <1>4, <1>6, <1>9, <1>10 DEF Reached
<1> QED BY <1>1, <1>2, <1>3, <1>4, <1>5, <1>6, <1>11, MineBalanced DEF On

LEMMA AddedReached ==
  ASSUME Typed, Alone, Balanced, Clean, NEW h \in Handler, StartEnd(h)
  PROVE  Balanced'
<1>1. PICK m : m = req[h].mod
  OBVIOUS
<1>2. req[h].pc = "add" /\ crossed = {} /\ req[h].todo = {}
  BY DEF StartEnd, Clean
<1>3. /\ m \in Modification /\ req[h] \in Request /\ mod[m] \in ModificationRow
      /\ Planned(m) /\ Reached(m, req[h])
  BY <1>1, <1>2, AtWork
<1>4. UNCHANGED <<inst, current, planned, mod, hands>>
  BY DEF StartEnd, counts, history
<1>5. req'[h] = Idle /\ \A g \in Handler : g # h => req'[g] = req[g]
  BY Types DEF StartEnd, Stop
<1>6. InPlace(m)
  BY <1>2, <1>3 DEF InPlace, Reached, Left
<1>7. InPlace(m)' /\ Old(m)' = Old(m)
  BY <1>4, <1>6 DEF InPlace, Scaled, Present, Old, All, Left, Before
<1>8. Reached(m, req[h])'
  BY <1>2, <1>3, <1>4, <1>5, <1>7 DEF Reached, Idle
<1> QED BY <1>1, <1>2, <1>3, <1>4, <1>5, <1>8, MineBalanced

LEMMA FinishReached ==
  ASSUME Typed, Alone, Balanced, Clean, Clean', NEW h \in Handler, FinishCount(h)
  PROVE  Balanced'
<1>1. PICK m : m = req[h].mod
  OBVIOUS
<1>2. req[h].pc = "finish" /\ crossed = {}
  BY DEF FinishCount, Clean
<1>3. /\ m \in Modification /\ req[h] \in Request /\ mod[m] \in ModificationRow
      /\ Planned(m) /\ Reached(m, req[h])
  BY <1>1, <1>2, AtWork
<1>4. UNCHANGED <<inst, planned, mod>> /\ current' = mod[m].target
  BY <1>1 DEF FinishCount
<1>5. \A g \in Handler : g # h => req'[g] = req[g]
  BY Types DEF FinishCount, Work
<1>6. /\ req'[h].pc = "remove" /\ req'[h].mod = m /\ req'[h] # Idle
      /\ req'[h].todo = IF mod[m].removed = {} THEN {} ELSE mod[m].removed \cup {Hub}
  <2> DEFINE todo == IF mod[m].removed = {} THEN {} ELSE mod[m].removed \cup {Hub}
  <2>1. req'[h] = [req[h] EXCEPT !.pc = "remove", !.todo = todo]
    BY <1>1, Types DEF FinishCount, Work
  <2> HIDE DEF todo
  <2>2. req'[h].pc = "remove" /\ req'[h].mod = m /\ req'[h] # Idle /\ req'[h].todo = todo
    BY <1>1, <1>3, <2>1 DEF Request, Idle
  <2> QED BY <2>2 DEF todo
<1>7. hands'[m] = hands[m] \cup {"finish"} /\ hands[m] \subseteq {"failed", "finish", "rollback"}
  BY <1>1, <1>3 DEF FinishCount, Typed, TypeOK
<1>8. hands[m] \subseteq {"finish"}
  BY <1>3, <1>7 DEF Clean, Mixed
<1>9. InPlace(m)
  BY <1>2, <1>3, <1>8 DEF Reached
<1>10. InPlace(m)' /\ Scaled' = Scaled
  BY <1>4, <1>9 DEF InPlace, Scaled, Present, Old, All, Left, Before
<1>11. Reached(m, req[h])'
  BY <1>3, <1>4, <1>6, <1>7, <1>10 DEF Reached
<1> QED BY <1>1, <1>2, <1>3, <1>4, <1>5, <1>6, <1>11, MineBalanced DEF On

LEMMA RemoveReached ==
  ASSUME Typed, Alone, Balanced, Clean, NEW h \in Handler, NEW i \in Row, FinishRemove(h, i)
  PROVE  Balanced'
<1>1. PICK m : m = req[h].mod
  OBVIOUS
<1>2. req[h].pc = "remove" /\ crossed = {} /\ i \in req[h].todo
  BY DEF FinishRemove, Clean
<1>3. /\ m \in Modification /\ req[h] \in Request /\ mod[m] \in ModificationRow
      /\ Planned(m) /\ Reached(m, req[h])
  BY <1>1, <1>2, AtWork
<1>4. UNCHANGED <<current, planned, mod, hands>>
  BY DEF FinishRemove, counts
<1>5. \A g \in Handler : g # h => req'[g] = req[g]
  BY Types DEF FinishRemove, Work, Stop
<1>6. /\ Old(m)' = Old(m) /\ All(m)' = All(m) /\ Left(m)' = Left(m)
      /\ Hub \notin mod[m].removed
  BY <1>3, <1>4 DEF Old, All, Left, Before, ModificationRow
<1>7. /\ "finish" \in hands[m] /\ req[h].todo \subseteq mod[m].removed \cup {Hub}
      /\ Scaled \cap mod[m].removed \subseteq req[h].todo
      /\ Hub \notin req[h].todo => inst[Hub].rels \cap mod[m].removed = {}
  BY <1>2, <1>3 DEF Reached
<1>8. CASE inst[i] = None
  <2>1. req'[h] = Idle /\ UNCHANGED inst
    BY <1>8, Types DEF FinishRemove, Stop
  <2>2. Reached(m, req[h])'
    BY <1>2, <1>3, <1>4, <1>6, <2>1 DEF Reached, Idle, InPlace, Scaled, Present
  <2> QED BY <1>1, <1>2, <1>3, <1>4, <1>5, <2>1, <2>2, MineBalanced
<1>9. CASE inst[i] # None
  <2>1. /\ req'[h].pc = "remove" /\ req'[h].mod = m /\ req'[h].todo = req[h].todo \ {i}
        /\ req'[h] # Idle
    <3>1. req'[h] = [req[h] EXCEPT !.pc = "remove", !.todo = req[h].todo \ {i}]
      BY <1>9, Types DEF FinishRemove, Work
    <3> QED BY <1>1, <1>3, <3>1 DEF Request, Idle
  <2>2. /\ Scaled' = Scaled \ {i}
        /\ inst'[Hub].rels = IF i = Hub THEN inst[Hub].rels \ mod[m].removed ELSE inst[Hub].rels
    <3>1. CASE i = Hub
      <4>1. inst' = Update(Hub, inst[Hub].rels \ mod[m].removed)
        BY <1>1, <1>9, <3>1 DEF FinishRemove
      <4>2. inst'[Hub].rels = inst[Hub].rels \ mod[m].removed
        BY <4>1, Types DEF Update, InstanceRow
      <4>3. \A k \in Row : k # Hub => inst'[k] = inst[k]
        BY <4>1, Types DEF Update
      <4> QED BY <3>1, <4>2, <4>3 DEF Scaled, Present
    <3>2. CASE i # Hub
      BY <1>9, <3>2, Types DEF FinishRemove, Scaled, Present
    <3> QED BY <3>1, <3>2
  <2>3. InPlace(m)'
    <3>1. hands[m] \subseteq {"finish"}
      BY <1>3, <1>7 DEF Clean, Mixed, Typed, TypeOK
    <3>2. InPlace(m)
      BY <1>2, <1>3, <3>1 DEF Reached
    <3> QED BY <1>2, <1>4, <1>6, <1>7, <2>2, <3>2, Types DEF InPlace, Scaled
  <2>4. Scaled' \cap mod[m].removed \subseteq req'[h].todo
    BY <1>7, <2>1, <2>2
  <2>5. Hub \notin req'[h].todo => inst'[Hub].rels \cap mod[m].removed = {}
    BY <1>7, <2>1, <2>2
  <2>6. Reached(m, req[h])'
    BY <1>3, <1>4, <1>6, <1>7, <2>1, <2>3, <2>4, <2>5 DEF Reached
  <2> QED BY <1>1, <1>2, <1>3, <1>4, <1>5, <2>1, <2>6, MineBalanced DEF On
<1> QED BY <1>8, <1>9

\* The commits of a rollback change the instances, of which nothing is said until the
\* last of them.
LEMMA RollbackReached ==
  ASSUME Typed, Alone, Balanced, Clean, NEW h \in Handler, NEW i \in Row,
         RollbackDelete(h, i) \/ RollbackReadd(h, i) \/ RollbackRestore(h, i) \/ RollbackCount(h)
  PROVE  Balanced'
<1>1. PICK m : m = req[h].mod
  OBVIOUS
<1>2. req[h].pc = "rollback" /\ crossed = {}
  BY DEF RollbackDelete, RollbackReadd, RollbackRestore, RollbackCount, Clean
<1>3. /\ m \in Modification /\ req[h] \in Request /\ mod[m] \in ModificationRow
      /\ Planned(m) /\ Reached(m, req[h])
  BY <1>1, <1>2, AtWork
<1>4. UNCHANGED <<current, mod, hands>>
  BY DEF RollbackDelete, RollbackReadd, RollbackRestore, RollbackCount, counts, history
<1>5. \A g \in Handler : g # h => req'[g] = req[g]
  BY Types DEF RollbackDelete, RollbackReadd, RollbackRestore, RollbackCount, Work, Stop, Go
<1>6. \/ req'[h] = Idle
      \/ /\ req'[h] # Idle /\ req'[h].mod = m
         /\ req'[h].pc = "rollback" \/ (req'[h].pc = "uncount" /\ planned' = current)
  <2>1. CASE Stop(h)
    BY <2>1, Types DEF Stop
  <2>2. CASE Work(h, "rollback", req[h].todo \ {i})
    <3>1. req'[h] = [req[h] EXCEPT !.pc = "rollback", !.todo = req[h].todo \ {i}]
      BY <2>2, Types DEF Work
    <3> QED BY <1>1, <1>3, <3>1 DEF Request, Idle
  <2>3. CASE Go(h, "uncount") /\ planned' = current
    <3>1. req'[h] = [req[h] EXCEPT !.pc = "uncount"]
      BY <2>3, Types DEF Go
    <3> QED BY <1>1, <1>3, <2>3, <3>1 DEF Request, Idle
  <2>4. CASE req' = [req EXCEPT ![h].seen = @ \cup {i}]
    <3>1. req'[h] = [req[h] EXCEPT !.seen = req[h].seen \cup {i}]
      BY <2>4, Types
    <3> QED BY <1>1, <1>2, <1>3, <3>1 DEF Request, Idle
  <2> QED BY <2>1, <2>2, <2>3, <2>4 DEF RollbackDelete, RollbackReadd, RollbackRestore, RollbackCount
<1>7. "rollback" \in hands[m]
  BY <1>2, <1>3 DEF Reached
<1>8. Old(m)' = Old(m)
  BY <1>4 DEF Old, Before
<1>9. Reached(m, req[h])'
  BY <1>3, <1>4, <1>6, <1>7, <1>8 DEF Reached, Idle
<1> QED BY <1>1, <1>2, <1>3, <1>4, <1>5, <1>6, <1>9, MineBalanced DEF On

LEMMA FailsReached ==
  ASSUME Typed, Alone, Balanced, Clean, NEW h \in Handler, Fails(h), req[h].pc # "check"
  PROVE  Balanced'
<1>1. PICK m : m = req[h].mod
  OBVIOUS
<1>2. req[h].pc \notin {"idle", "check"} /\ crossed = {}
  BY Types DEF Fails, Clean, Request
<1>3. /\ m \in Modification /\ req[h] \in Request /\ mod[m] \in ModificationRow
      /\ Planned(m) /\ Reached(m, req[h])
  BY <1>1, <1>2, AtWork
<1>4. UNCHANGED <<inst, current, planned, mod>>
  BY DEF Fails, counts
<1>5. req'[h] = Idle /\ \A g \in Handler : g # h => req'[g] = req[g]
  BY Types DEF Fails, Stop
<1>6. Old(m)' = Old(m) /\ (InPlace(m) => InPlace(m)')
  BY <1>4 DEF InPlace, Scaled, Present, Old, All, Left, Before
<1>7. CASE req[h].pc \in {"count", "relate", "add"}
  <2>1. hands'[m] = hands[m] \cup {"failed"} /\ hands[m] = {}
    BY <1>1, <1>3, <1>7 DEF Fails, Typed, TypeOK, Reached
  <2>2. Reached(m, req[h])'
    BY <1>3, <1>4, <1>5, <1>6, <2>1 DEF Reached, Idle
  <2> QED BY <1>1, <1>2, <1>3, <1>4, <1>5, <2>2, MineBalanced
<1>8. CASE req[h].pc \notin {"count", "relate", "add"}
  <2>1. hands' = hands
    BY <1>8 DEF Fails
  <2>2. Reached(m, req[h])'
    BY <1>3, <1>4, <1>5, <1>6, <1>8, <2>1 DEF Reached, Idle
  <2> QED BY <1>1, <1>2, <1>3, <1>4, <1>5, <2>2, MineBalanced
<1> QED BY <1>7, <1>8

\* A handler that takes up a request does so when nobody else works on the modification.
LEMMA TakesReached ==
  ASSUME Typed, Alone, Balanced, Clean, Clean', NEW h \in Handler, NEW m \in Modification,
         FinishCheck(h, m) \/ RollbackCheck(h, m)
  PROVE  Balanced'
<1>1. PICK r \in Request : Takes(h, m, r)
  BY TheyTake
<1>2. \A g \in Handler : req'[g] = IF g = h THEN r ELSE req[g]
  BY <1>1, Types DEF Takes
<1>3. crossed = {} /\ \A g \in Handler : ~ On(g, m)
  BY <1>1 DEF Clean, Takes, Crossing, On
<1>4. Started = {m} /\ Started' = {m}
  BY <1>1, <1>3 DEF Takes, Alone, Started
<1>5. Planned(m) /\ Reached(m, Idle)
  BY <1>3, <1>4 DEF Balanced
<1>6. UNCHANGED <<inst, current, planned, mod>>
  BY DEF FinishCheck, RollbackCheck, counts
<1>7. \A g \in Handler : On(g, m)' <=> g = h
  <2>1. r # Idle
    BY DEF Request, Idle
  <2> QED BY <1>1, <1>2, <1>3, <2>1 DEF On, Takes
<1>8. /\ Old(m)' = Old(m) /\ (InPlace(m) => InPlace(m)') /\ Planned(m)'
  BY <1>5, <1>6 DEF InPlace, Scaled, Present, Old, All, Left, Before, Planned
<1>9. Reached(m, req[h])'
  <2>1. CASE FinishCheck(h, m)
    <3>1. req'[h].pc = "finish" /\ hands' = hands
      BY <2>1, Types DEF FinishCheck
    <3> QED BY <1>5, <1>6, <1>8, <3>1 DEF Reached, Idle
  <2>2. CASE RollbackCheck(h, m)
    <3>1. req'[h].pc = "rollback" /\ hands'[m] = hands[m] \cup {"rollback"}
      BY <2>2, Types DEF RollbackCheck, Typed, TypeOK
    <3> QED BY <1>5, <1>6, <1>8, <3>1 DEF Reached, Idle
  <2> QED BY <2>1, <2>2
<1> QED BY <1>4, <1>7, <1>8, <1>9 DEF Balanced

\* When a modification ends, the deployment is even.
LEMMA FinishEven ==
  ASSUME Typed, Alone, Balanced, Clean, NEW h \in Handler, FinishEnd(h)
  PROVE  Balanced'
<1>1. PICK m : m = req[h].mod
  OBVIOUS
<1>2. req[h].pc = "remove" /\ crossed = {} /\ req[h].todo = {}
  BY DEF FinishEnd, Clean
<1>3. /\ m \in Modification /\ Started = {m} /\ Planned(m) /\ Reached(m, req[h])
      /\ Hub \notin Scaled
  BY <1>1, <1>2, AtWork
<1>4. UNCHANGED <<inst, current, planned>>
  BY DEF FinishEnd, counts
<1>5. Started' = {}
  BY <1>1, <1>3, EndsAlone DEF FinishEnd, Ends, history
<1>6. "finish" \in hands[m] /\ hands[m] \subseteq {"finish"}
  BY <1>2, <1>3 DEF Reached, Clean, Mixed, Typed, TypeOK
<1>7. InPlace(m) /\ current = mod[m].target
  BY <1>2, <1>3, <1>6 DEF Reached
<1>8. Scaled = Left(m) /\ inst[Hub].rels = Left(m)
  BY <1>2, <1>3, <1>7 DEF InPlace, Reached
<1>9. Even
  BY <1>3, <1>7, <1>8 DEF Even, InPlace, Planned
<1>10. Even'
  BY <1>4, <1>9 DEF Even, Scaled, Present
<1> QED BY <1>5, <1>10 DEF Balanced

LEMMA RollbackEven ==
  ASSUME Typed, Alone, Restoring, Balanced, Clean, NEW h \in Handler, RollbackEnd(h)
  PROVE  Balanced'
<1>1. PICK m : m = req[h].mod
  OBVIOUS
<1>2. req[h].pc = "uncount" /\ crossed = {}
  BY DEF RollbackEnd, Clean
<1>3. m \in Modification /\ Started = {m} /\ Planned(m) /\ Reached(m, req[h])
  BY <1>1, <1>2, AtWork
<1>4. UNCHANGED <<inst, current, planned>>
  BY DEF RollbackEnd, counts
<1>5. Started' = {}
  BY <1>1, <1>3, EndsAlone DEF RollbackEnd, Ends, history
<1>6. "rollback" \in hands[m] /\ "finish" \notin hands[m]
  BY <1>2, <1>3 DEF Reached, Clean, Mixed
<1>7. Restored(m, {})
  BY <1>1, <1>2 DEF Restoring, Back
<1>8. Scaled = Old(m) /\ inst[Hub].rels = Old(m)
  BY <1>3, <1>7 DEF Restored, Scaled, Present, Old, Before, Planned
<1>9. Even
  BY <1>2, <1>3, <1>6, <1>8 DEF Even, Reached
<1>10. Even'
  BY <1>4, <1>9 DEF Even, Scaled, Present
<1> QED BY <1>5, <1>10 DEF Balanced

\* The numbers of a plan: what is left of the instances is what was asked for.
LEMMA PlanCounts ==
  ASSUME NEW S, IsFiniteSet(S), NEW A, IsFiniteSet(A), NEW R, NEW n \in Nat,
         A \cap S = {}, R \subseteq S,
         Cardinality(A) = (IF n > Cardinality(S) THEN n - Cardinality(S) ELSE 0),
         Cardinality(R) = (IF n < Cardinality(S) THEN Cardinality(S) - n ELSE 0)
  PROVE  Cardinality((S \cup A) \ R) = n
<1>1. Cardinality(S) \in Nat /\ Cardinality(A) \in Nat
  BY FS_CardinalityType
<1>2. IsFiniteSet(S \cup A) /\ Cardinality(S \cup A) = Cardinality(S) + Cardinality(A)
  <2>1. Cardinality(S \cap A) = 0
    <3>1. S \cap A = {}
      OBVIOUS
    <3> QED BY <3>1, FS_EmptySet
  <2>2. /\ IsFiniteSet(S \cup A)
        /\ Cardinality(S \cup A) = Cardinality(S) + Cardinality(A) - Cardinality(S \cap A)
    BY FS_Union
  <2> QED BY <1>1, <2>1, <2>2
<1>3. Cardinality((S \cup A) \ R) = Cardinality(S \cup A) - Cardinality(R)
  <2>1. Cardinality((S \cup A) \ R) = Cardinality(S \cup A) - Cardinality((S \cup A) \cap R)
    BY <1>2, FS_Difference
  <2>2. (S \cup A) \cap R = R
    OBVIOUS
  <2> QED BY <2>1, <2>2
<1>4. Cardinality(R) \in Nat
  BY FS_Subset, FS_CardinalityType
<1> QED BY <1>1, <1>2, <1>3, <1>4

\* A start finds an even deployment, from which its plan begins.
LEMMA PlanReached ==
  ASSUME Typed, Alone, Alone', Balanced, Clean, Clean', NEW h \in Handler, NEW n \in Targets,
         StartPlan(h, n)
  PROVE  Balanced'
<1>1. PICK m : m = req[h].mod
  OBVIOUS
<1>2. /\ m \in Modification /\ hands[m] = {} /\ Started' = Started \cup {m}
      /\ \A g \in Handler : g # h => req'[g] = req[g]
      /\ req[h] \in Request /\ req'[h] = [req[h] EXCEPT !.pc = "count"]
  BY <1>1, PlanStores
<1>3. PICK added \in SUBSET (Instance \ Scaled), removed \in SUBSET Scaled :
        /\ Cardinality(added) = (IF n > Cardinality(Scaled) THEN n - Cardinality(Scaled) ELSE 0)
        /\ Cardinality(removed) = (IF n < Cardinality(Scaled) THEN Cardinality(Scaled) - n ELSE 0)
        /\ mod'[m] = [status |-> "started", target |-> n, before |-> inst,
                      added |-> added, removed |-> removed]
  <2>1. \E added \in SUBSET (Instance \ Scaled), removed \in SUBSET Scaled :
        /\ Cardinality(added) = (IF n > Cardinality(Scaled) THEN n - Cardinality(Scaled) ELSE 0)
        /\ Cardinality(removed) = (IF n < Cardinality(Scaled) THEN Cardinality(Scaled) - n ELSE 0)
        /\ mod'[req[h].mod] = [status |-> "started", target |-> n, before |-> inst,
                               added |-> added, removed |-> removed]
    BY PlanStores, Zenon
  <2> QED BY <1>1, <2>1, Zenon
<1>4. Started = {} /\ Started' = {m}
  BY <1>2 DEF StartPlan, Clean
<1>5. Even /\ UNCHANGED <<inst, current, planned, hands>>
  BY <1>4 DEF Balanced, StartPlan, counts
<1>6. Old(m)' = Scaled /\ Scaled' = Scaled
  BY <1>3, <1>5 DEF Old, Before, Scaled, Present
<1>7. Left(m)' = (Scaled \cup added) \ removed
  BY <1>3, <1>6 DEF Left, All
<1>8. Planned(m)'
  <2>1. IsFiniteSet(Scaled) /\ IsFiniteSet(added)
    <3>1. Scaled \in SUBSET Instance /\ added \in SUBSET Instance
      BY Types DEF Scaled, Present
    <3> QED BY <3>1, FS_Subset
  <2>2. n \in Nat /\ added \cap Scaled = {}
    OBVIOUS
  <2>3. Cardinality((Scaled \cup added) \ removed) = n
    BY <1>3, <2>1, <2>2, PlanCounts
  <2> QED BY <1>3, <1>5, <1>6, <1>7, <2>2, <2>3 DEF Planned, Even
<1>9. req'[h].pc = "count" /\ req'[h] # Idle /\ req'[h].mod = m
  BY <1>1, <1>2 DEF Request, Idle
<1>10. Reached(m, req[h])'
  BY <1>2, <1>5, <1>6, <1>9 DEF Reached, Even
<1>11. \A g \in Handler : On(g, m)' <=> g = h
  <2>1. On(h, m)'
    BY <1>9 DEF On
  <2>2. \A g, k \in Handler : On(g, m)' /\ On(k, m)' => g = k
    BY <1>2 DEF Alone, Clean
  <2> QED BY <2>1, <2>2
<1> QED BY <1>4, <1>8, <1>10, <1>11 DEF Balanced

\* The check of a start, one that fails there, and clients, change nothing of this.
LEMMA FirstReached ==
  ASSUME Typed, Alone, Balanced, Clean' => Clean, NEW h \in Handler,
         \/ \E m \in Modification : StartCheck(h, m)
         \/ Fails(h) /\ req[h].pc = "check"
  PROVE  Balanced'
<1>1. SameShape /\ UNCHANGED <<mod, hands, current, planned>>
  BY DEF StartCheck, Fails, SameShape, counts, history
<1>2. PICK n \in Modification : mod[n] = None /\ (req[h] = Idle \/ req[h].mod = n)
                                /\ (req'[h] = Idle \/ req'[h].mod = n)
  <2>1. CASE \E m \in Modification : StartCheck(h, m)
    BY <2>1, Types DEF StartCheck
  <2>2. CASE Fails(h) /\ req[h].pc = "check"
    <3>1. req[h].mod \in Modification /\ mod[req[h].mod] = None /\ req'[h] = Idle
      BY <2>2, Types DEF Fails, Stop, Alone, Request
    <3> QED BY <3>1
  <2> QED BY <2>1, <2>2
<1>3. \A g \in Handler : g # h => req'[g] = req[g]
  BY Types DEF StartCheck, Fails, Stop
<1>4. \A m \in Started : ~ On(h, m) /\ ~ On(h, m)'
  BY <1>2 DEF On, Started
<1>5. \A g \in Handler, m \in Started : g # h => (On(g, m)' <=> On(g, m))
  BY <1>3 DEF On
<1> QED BY <1>1, <1>3, <1>4, <1>5, ShapeBalanced

LEMMA BalancedStep ==
  Typed /\ Alone /\ Restoring /\ Balanced /\ [Next]_vars => Balanced'
<1> SUFFICES ASSUME Typed, Alone, Restoring, Balanced, [Next]_vars, Clean' PROVE Balanced'
  BY DEF Balanced
<1>1. Clean /\ Alone'
  BY CleanBefore, AloneStep
<1>2. CASE UNCHANGED vars
  BY <1>1, <1>2, ShapeBalanced DEF vars, SameShape, On
<1>3. ASSUME NEW h \in Handler, NEW m \in Modification,
             StartCheck(h, m) \/ FinishCheck(h, m) \/ RollbackCheck(h, m)
      PROVE  Balanced'
  BY <1>1, <1>3, TakesReached, FirstReached
<1>4. ASSUME NEW h \in Handler, NEW n \in Targets, StartPlan(h, n)
      PROVE  Balanced'
  BY <1>1, <1>4, PlanReached
<1>5. ASSUME NEW h \in Handler, NEW i \in Row,
             StartAdd(h, i) \/ FinishRemove(h, i) \/ RollbackDelete(h, i) \/ RollbackReadd(h, i) \/ RollbackRestore(h, i)
      PROVE  Balanced'
  BY <1>1, <1>5, AddReached, RemoveReached, RollbackReached
<1>6. ASSUME NEW h \in Handler,
             \/ StartCount(h) \/ StartRelate(h) \/ StartEnd(h) \/ FinishCount(h)
             \/ FinishEnd(h) \/ RollbackCount(h) \/ RollbackEnd(h) \/ Fails(h)
      PROVE  Balanced'
  <2>1. Hub \in Row
    BY DEF Row
  <2> QED BY <1>1, <1>6, <2>1, CountReached, RelateReached, AddedReached, FinishReached,
          FinishEven, RollbackReached, RollbackEven, FailsReached, FirstReached
<1>7. ASSUME NEW c \in Client, Read(c) \/ Write(c)
      PROVE  Balanced'
  BY <1>1, <1>7, WriteShape, ShapeBalanced DEF On
<1> QED BY <1>2, <1>3, <1>4, <1>5, <1>6, <1>7 DEF Next

\* When every modification has ended, the deployment has the instances its node counts
\* and plans, related to the hub, also after requests that failed half way, unless
\* modifications were crossed or mixed: for any instances, targets and requests.
THEOREM DeploymentsSettle == Spec => []Settled
<1>1. Init => Alone /\ Restoring
  BY DEF Init, Alone, Restoring, Back, Started, On, Idle
<1>2. Init => Balanced
  <2> SUFFICES ASSUME Init PROVE Balanced
    OBVIOUS
  <2>1. Started = {}
    BY DEF Init, Started
  <2>2. Scaled = First
    <3>1. New # None /\ [New EXCEPT !.rels = First] # None
      <4>1. New \in InstanceRow /\ [New EXCEPT !.rels = First] \in InstanceRow
        BY DEF New, InstanceRow
      <4> QED BY <4>1
    <3> QED BY <3>1 DEF Init, Scaled, Present, Row
  <2>3. inst[Hub].rels = First
    BY DEF Init, New, Row
  <2>4. Even
    BY <2>2, <2>3 DEF Init, Even
  <2> QED BY <2>1, <2>4 DEF Balanced
<1>3. Balanced => Settled
  BY DEF Balanced, Settled, Quiet, Clean, Even
<1> QED BY <1>1, <1>2, <1>3, InitTypes, TypeStep, AloneStep, RestoringStep, BalancedStep, PTL
        DEF Spec

=============================================================================
