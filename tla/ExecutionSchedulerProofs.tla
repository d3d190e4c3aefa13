---------------------- MODULE ExecutionSchedulerProofs ----------------------
(***************************************************************************)
(* Proofs about ExecutionScheduler, for any managers, rules, slip and      *)
(* bounds: its type invariant; that no occurrence that has come runs       *)
(* twice and no two executions overlap, but for the ones the row was not   *)
(* told about; that with stop_on_fail nothing runs after a failure; and    *)
(* that the next occurrence belongs to the rule.                           *)
(***************************************************************************)
EXTENDS ExecutionScheduler, WellFoundedInduction, TLAPS

USE SchedulerAssumption

\* A manager that has computed the next occurrence.
Decided == {"create", "prepare", "commit"}

\* What the next write of a manager relies on: positions point into execs, a
\* manager that goes on to create an execution has read a row with a next occurrence, and it has an
\* execution of its own from Create on.
Coherent ==
  /\ sched.latest <= Len(execs)
  /\ \A m \in Manager :
       /\ mgr[m].row.latest <= Len(execs)
       /\ mgr[m].latest <= Len(execs)
       /\ mgr[m].new <= Len(execs)
       /\ mgr[m].pc = "create" => mgr[m].row.next # None
       /\ mgr[m].pc = "idle" => mgr[m] = Idle
       /\ mgr[m].pc = "prepare" => mgr[m].new # 0
       /\ mgr[m].pc \in {"loaded", "locked", "create"} => mgr[m].new = 0

Typed == TypeOK /\ Coherent

Execution == [status : ExecStatus, at : Time, early : BOOLEAN]
MgrState == [pc : Pcs, row : Row, next : Occurrence, latest : 0 .. MaxExecs,
             new : 0 .. MaxExecs, disable : BOOLEAN, ahead : BOOLEAN]

-----------------------------------------------------------------------------
(* The recurrence rule. *)

\* A set of natural numbers that is not empty has a least element.
LEMMA Least ==
  ASSUME NEW S \in SUBSET Nat, S # {}
  PROVE  \E x \in S : \A y \in S : x <= y
<1> DEFINE R == {p \in Nat \X Nat : p[1] < p[2]}
<1>1. IsWellFoundedOn(R, Nat)
  <2>1. R = OpToRel(<, Nat)
    BY DEF OpToRel
  <2> HIDE DEF R
  <2> QED BY <2>1, NatLessThanWellFounded, Zenon
<1>2. \E x \in S : \A y \in S : <<y, x>> \notin R
  <2> HIDE DEF R
  <2> QED BY <1>1, WFMin
<1>3. PICK x \in S : \A y \in S : <<y, x>> \notin R
  BY <1>2
<1>4. ASSUME NEW y \in S PROVE x <= y
  <2>1. y \in Nat /\ x \in Nat /\ <<y, x>> \notin R
    BY <1>3
  <2>2. ~ (y < x)
    BY <2>1
  <2> QED BY <2>1, <2>2
<1> QED BY <1>4

\* x, when there is such an occurrence, is later than t.
Later(x, t) == x = None \/ x > t

\* The occurrence after t belongs to the rule and is later than t.
LEMMA AfterIsLater ==
  ASSUME NEW rule \in Rules, NEW t \in Time
  PROVE  /\ After(rule, t) \in rule \cup {None}
         /\ After(rule, t) \in Occurrence
         /\ Later(After(rule, t), t)
<1>1. rule \subseteq Time /\ Time \subseteq Nat
  BY DEF Time
<1>2. CASE \E x \in rule : x > t
  <2> DEFINE S == {x \in rule : x > t}
  <2>1. S \in SUBSET Nat /\ S # {}
    BY <1>1, <1>2
  <2>2. PICK x \in S : \A y \in S : x <= y
    <3> HIDE DEF S
    <3> QED BY <2>1, Least
  <2>3. x \in rule /\ x > t /\ \A y \in rule : y > t => x <= y
    BY <2>2
  <2>4. /\ After(rule, t) \in rule
        /\ After(rule, t) > t
    BY <1>2, <2>3 DEF After
  <2> QED BY <1>1, <2>4 DEF Later, Occurrence
<1>3. CASE ~ \E x \in rule : x > t
  BY <1>3 DEF After, Later, Occurrence
<1> QED BY <1>2, <1>3

-----------------------------------------------------------------------------
(* Types. *)

\* An idle manager has a state.
LEMMA IdleOK == Idle \in MgrState /\ Idle.pc = "idle" /\ Idle.new = 0 /\ Idle.latest = 0
                /\ Idle.row.latest = 0
<1>1. (CHOOSE rule \in Rules : TRUE) \in Rules
  OBVIOUS
<1> QED BY <1>1 DEF Idle, NoRow, MgrState, Row, Pcs, Occurrence

\* What the variables are, at the place an action changes.
LEMMA Types ==
  ASSUME Typed
  PROVE  /\ now \in Nat /\ now \in Time
         /\ sched \in Row
         /\ execs \in Seq(Execution) /\ Len(execs) \in Nat
         /\ DOMAIN execs = 1 .. Len(execs)
         /\ mgr \in [Manager -> MgrState]
  BY DEF Typed, TypeOK, Execution, MgrState, Time

\* The types of everything but the managers and the lock,
RestOK ==
  /\ now \in Time
  /\ sched \in Row /\ sched.latest <= Len(execs)
  /\ execs \in Seq(Execution) /\ Len(execs) <= MaxExecs
  /\ patches \in 0 .. MaxPatches /\ crashes \in 0 .. MaxCrashes
  /\ unrecorded \subseteq 0 .. MaxExecs
  /\ patchedOver \in BOOLEAN

\* and what is required of a manager's state s when there are n executions.
MgrOK(s, n) ==
  /\ s \in MgrState
  /\ s.row.latest <= n /\ s.latest <= n /\ s.new <= n
  /\ s.pc = "create" => s.row.next # None
  /\ s.pc = "idle" => s = Idle
  /\ s.pc = "prepare" => s.new # 0
  /\ s.pc \in {"loaded", "locked", "create"} => s.new = 0

LEMMA TypedParts ==
  Typed <=> /\ RestOK
            /\ mgr \in [Manager -> MgrState] /\ \A m \in Manager : MgrOK(mgr[m], Len(execs))
            /\ lock \in Manager \cup {None}
            /\ \A m \in Manager : (lock = m) <=> mgr[m].pc \notin {"idle", "loaded"}
  BY DEF Typed, TypeOK, Coherent, RestOK, MgrOK, MgrState, Execution

\* Manager m goes to state s, taking, keeping or releasing the lock.
Moves(m, s) ==
  /\ MgrOK(s, Len(execs'))
  /\ mgr' = [mgr EXCEPT ![m] = s]
  /\ lock' = IF s.pc \notin {"idle", "loaded"} THEN m
             ELSE IF lock = m THEN None ELSE lock
  /\ s.pc \notin {"idle", "loaded"} => lock \in {m, None}

\* Then the types are kept.
LEMMA ManagerTypes ==
  ASSUME Typed, NEW m \in Manager, NEW s, Moves(m, s),
         RestOK', Len(execs) <= Len(execs')
  PROVE  Typed'
<1>0. lock \in Manager \cup {None}
  BY TypedParts
<1>1. s \in MgrState
  BY DEF Moves, MgrOK
<1>2. mgr' \in [Manager -> MgrState] /\ mgr'[m] = s
  BY <1>1, Types DEF Moves
<1>3. Len(execs') \in Nat
  BY DEF RestOK
<1>4. ASSUME NEW n \in Manager, n # m PROVE mgr'[n] = mgr[n] /\ MgrOK(mgr[n], Len(execs'))
  <2>1. mgr'[n] = mgr[n] /\ MgrOK(mgr[n], Len(execs))
    BY <1>4, TypedParts, Types DEF Moves
  <2>2. mgr[n].row.latest \in Nat /\ mgr[n].latest \in Nat /\ mgr[n].new \in Nat
    BY Types DEF MgrState, Row
  <2> QED BY <1>3, <2>1, <2>2, Types DEF MgrOK
<1>5. \A n \in Manager : MgrOK(mgr'[n], Len(execs'))
  BY <1>2, <1>4 DEF Moves
<1>6. \A n \in Manager : (lock' = n) <=> mgr'[n].pc \notin {"idle", "loaded"}
  BY <1>0, <1>2, <1>4, TypedParts DEF Moves
<1>7. lock' \in Manager \cup {None}
  BY <1>0 DEF Moves
<1> QED BY <1>2, <1>5, <1>6, <1>7
        DEF Typed, TypeOK, Coherent, RestOK, MgrOK, MgrState, Execution

\* Each action keeps the types.
LEMMA LoadTypes ==
  ASSUME Typed, NEW m \in Manager, Load(m)
  PROVE  Typed'
<1> DEFINE s == [mgr[m] EXCEPT !.pc = "loaded", !.row = sched]
<1>1. mgr[m] \in MgrState /\ mgr[m] = Idle
  BY Types DEF Load, Typed, Coherent
<1>2. s \in MgrState /\ s.pc = "loaded" /\ s.row = sched /\ s.new = 0 /\ s.latest = 0
  BY <1>1, IdleOK, Types DEF MgrState, Pcs
<1>3. mgr' = [mgr EXCEPT ![m] = s]
  BY Types DEF Load
<1>4. lock # m /\ lock' = lock /\ lock \in Manager \cup {None}
  BY <1>1, IdleOK DEF Load, Typed, TypeOK
<1>5. RestOK' /\ execs' = execs
  BY TypedParts DEF Load, RestOK
<1> HIDE DEF s
<1>6. MgrOK(s, Len(execs'))
  BY <1>2, <1>5, Types DEF Load, MgrOK, RestOK
<1>7. Moves(m, s)
  BY <1>2, <1>3, <1>4, <1>6 DEF Moves
<1> QED BY <1>5, <1>7, ManagerTypes, Types

LEMMA RereadTypes ==
  ASSUME Typed, NEW m \in Manager, Reread(m)
  PROVE  Typed'
<1> DEFINE s == [mgr[m] EXCEPT !.row = sched]
<1>1. mgr[m] \in MgrState /\ mgr[m].pc = "loaded"
  BY Types DEF Reread
<1>2. s \in MgrState /\ s.pc = "loaded" /\ s.row = sched /\ s.new = mgr[m].new
      /\ s.latest = mgr[m].latest
  BY <1>1, Types DEF MgrState
<1>3. mgr' = [mgr EXCEPT ![m] = s]
  BY Types DEF Reread
<1>4. lock # m /\ lock' = lock /\ lock \in Manager \cup {None}
  BY <1>1 DEF Reread, Typed, TypeOK
<1>5. RestOK' /\ execs' = execs
  BY TypedParts DEF Reread, RestOK
<1> HIDE DEF s
<1>6. MgrOK(s, Len(execs'))
  BY <1>1, <1>2, <1>5, TypedParts DEF MgrOK, RestOK
<1>7. Moves(m, s)
  BY <1>2, <1>3, <1>4, <1>6 DEF Moves
<1> QED BY <1>5, <1>7, ManagerTypes, Types

LEMMA TryLockTypes ==
  ASSUME Typed, NEW m \in Manager, TryLock(m)
  PROVE  Typed'
<1>1. mgr[m] \in MgrState
  BY Types
<1>2. lock \in Manager \cup {None} /\ lock # m
  BY DEF TryLock, Typed, TypeOK
<1>0. RestOK' /\ execs' = execs
  BY TypedParts DEF TryLock, RestOK
<1>3. CASE lock = None
  <2> DEFINE s == [mgr[m] EXCEPT !.pc = "locked"]
  <2>1. s \in MgrState /\ s.pc = "locked" /\ s.row = mgr[m].row /\ s.new = mgr[m].new
        /\ s.latest = mgr[m].latest
    BY <1>1 DEF MgrState, Pcs
  <2>2. mgr' = [mgr EXCEPT ![m] = s] /\ lock' = m
    BY <1>3, Types DEF TryLock
  <2> HIDE DEF s
  <2>3. MgrOK(s, Len(execs'))
    BY <1>0, <2>1, TypedParts DEF TryLock, MgrOK
  <2>4. Moves(m, s)
    BY <1>3, <2>1, <2>2, <2>3 DEF Moves
  <2> QED BY <1>0, <2>4, ManagerTypes, Types
<1>4. CASE lock # None
  <2>1. mgr' = [mgr EXCEPT ![m] = Idle] /\ lock' = lock
    BY <1>4, Types DEF TryLock
  <2>2. MgrOK(Idle, Len(execs'))
    BY <1>0, IdleOK, Types DEF MgrOK
  <2>3. Moves(m, Idle)
    BY <1>2, <2>1, <2>2, IdleOK DEF Moves
  <2> QED BY <1>0, <2>3, ManagerTypes, Types
<1> QED BY <1>3, <1>4

LEMMA DecideTypes ==
  ASSUME Typed, NEW m \in Manager, Decide(m)
  PROVE  Typed'
<1>1. mgr[m] \in MgrState /\ mgr[m].row \in Row
  BY Types DEF MgrState
<1> DEFINE pc == IF ShouldRun(m) THEN "create" ELSE "commit"
           dis == StopOnFail /\ LastStatus(m) = "failed"
           ah == mgr[m].row.next # None /\ mgr[m].row.next > now
           s == [mgr[m] EXCEPT
                  !.pc = pc, !.next = After(mgr[m].row.rule, now),
                  !.latest = mgr[m].row.latest, !.disable = dis, !.ahead = ah]
<1>2. pc \in {"create", "commit"} /\ (pc = "create" => mgr[m].row.next # None)
  BY DEF Decide, ShouldRun, NothingToParse
<1>9. dis \in BOOLEAN /\ ah \in BOOLEAN
  OBVIOUS
<1>3. After(mgr[m].row.rule, now) \in Occurrence
  BY <1>1, Types, AfterIsLater DEF Row
<1>4. s \in MgrState /\ s.pc = pc /\ s.row = mgr[m].row /\ s.new = mgr[m].new
      /\ s.latest = mgr[m].row.latest
  <2> HIDE DEF pc, dis, ah
  <2> QED BY <1>1, <1>2, <1>3, <1>9 DEF MgrState, Row, Pcs
<1>5. mgr' = [mgr EXCEPT ![m] = s]
  BY Types DEF Decide
<1>6. RestOK' /\ execs' = execs /\ lock' = lock /\ lock = m
  BY TypedParts DEF Decide, RestOK
<1> HIDE DEF s, pc, dis, ah
<1>7. MgrOK(s, Len(execs'))
  BY <1>2, <1>4, <1>6, TypedParts DEF Decide, MgrOK
<1>8. Moves(m, s)
  BY <1>2, <1>4, <1>5, <1>6, <1>7 DEF Moves
<1> QED BY <1>6, <1>8, ManagerTypes, Types

LEMMA CreateTypes ==
  ASSUME Typed, NEW m \in Manager, Create(m)
  PROVE  Typed'
<1> DEFINE s == [mgr[m] EXCEPT !.pc = "prepare", !.new = Len(execs) + 1]
<1>1. mgr[m] \in MgrState /\ mgr[m].row \in Row /\ mgr[m].row.next \in Time
      /\ sched.latest \in 0 .. MaxExecs /\ mgr[m].ahead \in BOOLEAN
  BY Types DEF MgrState, Row, Create, Typed, Coherent, Occurrence
<1>2. [status |-> "pending", at |-> mgr[m].row.next, early |-> mgr[m].ahead] \in Execution
  BY <1>1 DEF Execution, ExecStatus
<1>3. execs' \in Seq(Execution) /\ Len(execs') = Len(execs) + 1 /\ Len(execs') \in 1 .. MaxExecs
  BY <1>2, Types DEF Create
<1>4. s \in MgrState /\ s.pc = "prepare" /\ s.row = mgr[m].row /\ s.new = Len(execs')
      /\ s.latest = mgr[m].latest
  <2> DEFINE n == Len(execs) + 1
  <2>1. n \in 0 .. MaxExecs /\ n = Len(execs')
    BY <1>3
  <2> HIDE DEF n
  <2>2. s = [mgr[m] EXCEPT !.pc = "prepare", !.new = n]
    BY DEF n
  <2> QED BY <1>1, <2>1, <2>2 DEF MgrState, Pcs
<1>5. mgr' = [mgr EXCEPT ![m] = s]
  BY Types DEF Create
<1>6. unrecorded' \subseteq 0 .. MaxExecs
  BY <1>1, <1>3, Types DEF Create, Typed, TypeOK
<1>7. s.row.latest <= Len(execs') /\ s.latest <= Len(execs') /\ s.row.next # None
      /\ sched.latest <= Len(execs')
  BY <1>1, <1>3, <1>4, Types, SMTT(30) DEF Create, Typed, Coherent, MgrState, Row
<1>8. RestOK' /\ lock' = lock /\ lock = m
  <2>1. mgr[m].pc = "create" /\ UNCHANGED <<now, sched, lock, patches, crashes, patchedOver>>
    BY DEF Create
  <2>2. RestOK
    BY TypedParts
  <2>3. lock = m
    BY <2>1, TypedParts
  <2>4. RestOK'
    BY <1>3, <1>6, <1>7, <2>1, <2>2 DEF RestOK
  <2> QED BY <2>1, <2>3, <2>4
<1> HIDE DEF s
<1>9. MgrOK(s, Len(execs'))
  BY <1>3, <1>4, <1>7, <1>8, TypedParts DEF MgrOK, MgrState
<1>10. Moves(m, s)
  BY <1>4, <1>5, <1>8, <1>9 DEF Moves
<1> QED BY <1>3, <1>8, <1>10, ManagerTypes, Types

\* An execution gets another status.
LEMMA StatusTypes ==
  ASSUME Typed, NEW i \in DOMAIN execs, NEW st \in ExecStatus,
         execs' = [execs EXCEPT ![i].status = st]
  PROVE  /\ execs' \in Seq(Execution) /\ Len(execs') = Len(execs)
         /\ DOMAIN execs' = DOMAIN execs
         /\ \A j \in DOMAIN execs : execs'[j].at = execs[j].at
                                    /\ execs'[j].early = execs[j].early
         /\ \A j \in DOMAIN execs \ {i} : execs'[j] = execs[j]
         /\ execs'[i].status = st
<1>1. execs[i] \in Execution
  BY Types
<1>2. [execs[i] EXCEPT !.status = st] \in Execution
  BY <1>1 DEF Execution
<1>3. execs' = [execs EXCEPT ![i] = [execs[i] EXCEPT !.status = st]]
  BY Types
<1> QED BY <1>1, <1>2, <1>3, Types DEF Execution

LEMMA PrepareTypes ==
  ASSUME Typed, NEW m \in Manager, Prepared(m) \/ PrepareFails(m)
  PROVE  Typed'
<1> DEFINE n == mgr[m].new
<1>1. mgr[m] \in MgrState /\ n \in DOMAIN execs
  BY Types DEF MgrState, Prepared, PrepareFails, Typed, Coherent
<1>2. PICK st \in {"sent", "rejected"}, l \in {n, 0} :
        /\ execs' = [execs EXCEPT ![n].status = st]
        /\ mgr' = [mgr EXCEPT ![m].pc = "commit", ![m].latest = l]
  BY DEF Prepared, PrepareFails
<1> DEFINE s == [mgr[m] EXCEPT !.pc = "commit", !.latest = l]
<1>3. execs' \in Seq(Execution) /\ Len(execs') = Len(execs)
  BY <1>1, <1>2, StatusTypes DEF ExecStatus
<1>4. n \in 1 .. MaxExecs /\ l \in 0 .. MaxExecs /\ l <= Len(execs) /\ n # 0
  BY <1>1, Types DEF MgrState
<1>5. s \in MgrState /\ s.pc = "commit" /\ s.row = mgr[m].row /\ s.new = n /\ s.latest = l
  BY <1>1, <1>4 DEF MgrState, Pcs
<1>6. mgr' = [mgr EXCEPT ![m] = s]
  BY <1>2, Types
<1>7. /\ mgr[m].pc = "prepare"
      /\ UNCHANGED <<now, sched, lock, patches, crashes, unrecorded, patchedOver>>
  BY DEF Prepared, PrepareFails
<1>8. RestOK' /\ lock' = lock /\ lock = m
  BY <1>3, <1>7, TypedParts DEF RestOK
<1> HIDE DEF s, n
<1>9. MgrOK(s, Len(execs'))
  BY <1>3, <1>4, <1>5, <1>7, TypedParts DEF MgrOK, n
<1>10. Moves(m, s)
  BY <1>5, <1>6, <1>8, <1>9 DEF Moves
<1> QED BY <1>3, <1>8, <1>10, ManagerTypes, Types

\* A manager that gives up or has finished is idle again.
LEMMA IdleTypes ==
  ASSUME Typed, NEW m \in Manager, mgr' = [mgr EXCEPT ![m] = Idle],
         lock' = (IF lock = m THEN None ELSE lock),
         sched' \in Row, sched'.latest <= Len(execs),
         UNCHANGED <<now, execs, patches, patchedOver>>, crashes' \in 0 .. MaxCrashes,
         unrecorded' \subseteq 0 .. MaxExecs
  PROVE  Typed'
<1>1. RestOK'
  BY TypedParts DEF RestOK
<1>2. MgrOK(Idle, Len(execs'))
  BY IdleOK, Types DEF MgrOK
<1>3. lock \in Manager \cup {None}
  BY TypedParts
<1>4. Moves(m, Idle)
  BY <1>2, <1>3, IdleOK DEF Moves
<1> QED BY <1>1, <1>4, ManagerTypes, Types

\* The row that a manager writes.
LEMMA WrittenOK ==
  ASSUME Typed, NEW m \in Manager
  PROVE  /\ Written(m) \in Row
         /\ Written(m).next = mgr[m].next
         /\ Written(m).latest = IF mgr[m].new = 0 THEN sched.latest ELSE mgr[m].latest
         /\ Written(m).rule = sched.rule
  BY Types DEF Written, Row, MgrState

LEMMA CommitTypes ==
  ASSUME Typed, NEW m \in Manager, Commit(m)
  PROVE  Typed'
<1>1. Written(m) \in Row /\ Written(m).latest <= Len(execs)
  BY WrittenOK DEF Typed, Coherent
<1>2. lock = m
  BY DEF Commit, Typed, TypeOK
<1> QED BY <1>1, <1>2, IdleTypes DEF Commit, Typed, TypeOK

LEMMA RestartTypes ==
  ASSUME Typed, NEW m \in Manager, Raises(m) \/ Crash(m)
  PROVE  Typed'
<1>1. Restart(m) /\ crashes' \in 0 .. MaxCrashes
  BY DEF Raises, Crash, Typed, TypeOK
<1>2. unrecorded' \subseteq 0 .. MaxExecs
  <2>1. mgr[m].new \in 0 .. MaxExecs
    BY Types DEF MgrState
  <2> QED BY <1>1, <2>1 DEF Restart, Typed, TypeOK
<1> QED BY <1>1, <1>2, IdleTypes DEF Restart, Typed, TypeOK, Coherent

LEMMA PatchTypes ==
  ASSUME Typed, NEW rule \in Rules, NEW enabled \in BOOLEAN, Patch(rule, enabled)
  PROVE  Typed'
<1>1. After(rule, now) \in Occurrence
  BY Types, AfterIsLater
<1>2. Patched(rule, enabled) \in Row /\ Patched(rule, enabled).latest = sched.latest
  BY <1>1, Types DEF Patched, Row
<1> QED BY <1>2 DEF Patch, Typed, TypeOK, Coherent

LEMMA DeleteTypes ==
  ASSUME Typed, Delete
  PROVE  Typed'
<1>1. sched' \in Row /\ sched'.latest = sched.latest
  BY Types DEF Delete, Row
<1> QED BY <1>1 DEF Delete, Typed, TypeOK, Coherent

LEMMA EndTypes ==
  ASSUME Typed, NEW i \in DOMAIN execs, NEW st \in {"terminated", "failed"}, End(i, st)
  PROVE  Typed'
<1>1. execs' \in Seq(Execution) /\ Len(execs') = Len(execs)
  BY StatusTypes DEF End, ExecStatus
<1> QED BY <1>1 DEF End, Typed, TypeOK, Coherent, Execution

LEMMA TypeStep == Typed /\ [Next]_vars => Typed'
<1> SUFFICES ASSUME Typed, [Next]_vars PROVE Typed'
  OBVIOUS
<1>1. ASSUME NEW m \in Manager, Step(m) \/ Crash(m) PROVE Typed'
  BY <1>1, LoadTypes, RereadTypes, TryLockTypes, DecideTypes, CreateTypes, PrepareTypes, CommitTypes,
     RestartTypes DEF Step
<1>2. ASSUME Tick PROVE Typed'
  BY <1>2 DEF Tick, Typed, TypeOK, Coherent, Time
<1>3. CASE UNCHANGED vars
  BY <1>3 DEF vars, Typed, TypeOK, Coherent
<1> QED BY <1>1, <1>2, <1>3, PatchTypes, DeleteTypes, EndTypes DEF Next

LEMMA TypedHolds == Spec => []Typed
<1>1. Init => Typed
  <2> SUFFICES ASSUME Init PROVE Typed
    OBVIOUS
  <2>1. PICK rule \in Rules :
          sched = [exists |-> TRUE, enabled |-> TRUE, rule |-> rule,
                   next |-> After(rule, 0), latest |-> 0]
    BY DEF Init
  <2>2. sched \in Row /\ sched.latest = 0
    BY <2>1, AfterIsLater DEF Row, Time
  <2>3. execs \in Seq(Execution) /\ Len(execs) = 0
    BY DEF Init
  <2>4. RestOK
    <3>1. now = 0 /\ patches = 0 /\ crashes = 0 /\ unrecorded = {} /\ patchedOver = FALSE
      BY DEF Init
    <3>2. 0 \in Time /\ 0 <= MaxExecs /\ 0 \in 0 .. MaxPatches /\ 0 \in 0 .. MaxCrashes
      BY DEF Time
    <3>3. sched.latest <= Len(execs) /\ Len(execs) <= MaxExecs
      BY <2>2, <2>3
    <3> QED BY <2>2, <2>3, <3>1, <3>2, <3>3, Zenon DEF RestOK
  <2>5. \A m \in Manager : mgr[m] = Idle
    BY DEF Init
  <2>6. MgrOK(Idle, Len(execs))
    BY <2>3, IdleOK DEF MgrOK
  <2>7. mgr \in [Manager -> MgrState] /\ lock = None
    BY IdleOK DEF Init
  <2>8. \A m \in Manager : lock # m
    BY <2>7
  <2> QED BY <2>4, <2>5, <2>6, <2>7, <2>8, IdleOK, TypedParts
<1> QED BY <1>1, TypeStep, PTL DEF Spec

\* The variables always have their types, and only a manager that holds the
\* advisory lock is past try_run's check of it.
THEOREM TypeCorrect == Spec => []TypeOK
<1>1. Typed => TypeOK
  BY DEF Typed
<1> QED BY <1>1, TypedHolds, PTL

-----------------------------------------------------------------------------
(* What the actions do to the managers, for all the invariants below. *)

\* Everyone but manager m is where it was.
Others(m) == \A n \in Manager \ {m} : mgr'[n] = mgr[n]

LEMMA IdleAgain ==
  ASSUME Typed, NEW m \in Manager, mgr' = [mgr EXCEPT ![m] = Idle]
  PROVE  Others(m) /\ mgr'[m].pc = "idle" /\ mgr'[m].new = 0
  BY IdleOK, Types DEF Others

LEMMA LoadEffect ==
  ASSUME Typed, NEW m \in Manager, Load(m)
  PROVE  /\ Others(m) /\ mgr'[m].pc = "loaded" /\ mgr'[m].row = sched
         /\ mgr'[m].new = 0 /\ mgr[m].new = 0
         /\ sched.next \in Nat /\ sched.next < now
<1>1. mgr[m] \in MgrState /\ mgr[m].new = 0
  BY IdleOK, Types DEF Load, Typed, Coherent
<1>2. sched.next \in Nat
  BY Types DEF Load, Row, Occurrence, Time
<1> QED BY <1>1, <1>2, Types DEF Load, Others, MgrState

LEMMA RereadEffect ==
  ASSUME Typed, NEW m \in Manager, Reread(m)
  PROVE  /\ Others(m) /\ mgr[m].pc = "loaded" /\ mgr'[m].pc = "loaded"
         /\ mgr'[m].row = sched
         /\ mgr'[m].new = 0 /\ mgr[m].new = 0
<1>1. mgr[m] \in MgrState /\ mgr[m].new = 0
  BY Types DEF Reread, Typed, Coherent
<1> QED BY <1>1, Types DEF Reread, Others, MgrState

LEMMA TryLockEffect ==
  ASSUME Typed, NEW m \in Manager, TryLock(m)
  PROVE  /\ Others(m) /\ mgr[m].new = 0 /\ mgr'[m].new = 0
         /\ \/ mgr'[m].pc = "idle"
            \/ mgr'[m].pc = "locked" /\ mgr[m].pc = "loaded" /\ mgr'[m].row = mgr[m].row
<1>1. mgr[m] \in MgrState /\ mgr[m].new = 0
  BY Types DEF TryLock, Typed, Coherent
<1>2. CASE lock = None
  BY <1>1, <1>2, Types DEF TryLock, Others, MgrState
<1>3. CASE lock # None
  BY <1>1, <1>3, IdleOK, Types DEF TryLock, Others
<1> QED BY <1>2, <1>3

LEMMA DecideEffect ==
  ASSUME Typed, NEW m \in Manager, Decide(m)
  PROVE  /\ Others(m) /\ mgr'[m].row = mgr[m].row
         /\ mgr'[m].new = 0 /\ mgr[m].new = 0
         /\ mgr'[m].next = After(mgr[m].row.rule, now) /\ mgr[m].row.rule \in Rules
         /\ mgr'[m].pc = IF ShouldRun(m) THEN "create" ELSE "commit"
         /\ mgr'[m].ahead = (mgr[m].row.next # None /\ mgr[m].row.next > now)
<1>1. mgr[m] \in MgrState /\ mgr[m].new = 0
  BY Types DEF Decide, Typed, Coherent
<1> QED BY <1>1, Types DEF Decide, Others, MgrState, Row

LEMMA CreateEffect ==
  ASSUME Typed, NEW m \in Manager, Create(m)
  PROVE  /\ Others(m) /\ mgr'[m].row = mgr[m].row /\ mgr'[m].next = mgr[m].next
         /\ mgr'[m].pc = "prepare" /\ mgr'[m].new = Len(execs) + 1 /\ mgr[m].new = 0
         /\ Len(execs') = Len(execs) + 1
         /\ DOMAIN execs' = DOMAIN execs \cup {Len(execs) + 1}
         /\ \A i \in DOMAIN execs : execs'[i] = execs[i]
         /\ execs'[Len(execs) + 1] = [status |-> "pending", at |-> mgr[m].row.next, early |-> mgr[m].ahead]
         /\ mgr[m].row.next \in Nat /\ mgr'[m].ahead = mgr[m].ahead
<1>1. mgr[m] \in MgrState /\ mgr[m].new = 0
  BY Types DEF Create, Typed, Coherent
<1>2. mgr[m].row.next \in Time /\ mgr[m].ahead \in BOOLEAN
  BY <1>1 DEF Create, Typed, Coherent, MgrState, Row, Occurrence
<1>3. [status |-> "pending", at |-> mgr[m].row.next, early |-> mgr[m].ahead] \in Execution
  BY <1>2 DEF Execution, ExecStatus
<1>4. execs \in Seq(Execution)
  BY Types
<1> QED BY <1>1, <1>2, <1>3, <1>4, Types DEF Create, Others, MgrState, Time

LEMMA PrepareEffect ==
  ASSUME Typed, NEW m \in Manager, Prepared(m) \/ PrepareFails(m)
  PROVE  /\ Others(m) /\ mgr'[m].row = mgr[m].row /\ mgr'[m].next = mgr[m].next
         /\ mgr'[m].pc = "commit" /\ mgr'[m].new = mgr[m].new
         /\ mgr'[m].ahead = mgr[m].ahead
         /\ mgr[m].new \in DOMAIN execs /\ mgr[m].new # 0
         /\ DOMAIN execs' = DOMAIN execs /\ Len(execs') = Len(execs)
         /\ \A i \in DOMAIN execs : execs'[i].at = execs[i].at
                                    /\ execs'[i].early = execs[i].early
         /\ \A i \in DOMAIN execs \ {mgr[m].new} : execs'[i] = execs[i]
         /\ \/ execs'[mgr[m].new].status = "sent" /\ mgr'[m].latest = mgr[m].new
            \/ execs'[mgr[m].new].status = "rejected"
<1> DEFINE n == mgr[m].new
<1>1. mgr[m] \in MgrState /\ n \in DOMAIN execs
  BY Types DEF MgrState, Prepared, PrepareFails, Typed, Coherent
<1>2. PICK st \in {"sent", "rejected"}, l \in {n, 0} :
        /\ execs' = [execs EXCEPT ![n].status = st]
        /\ mgr' = [mgr EXCEPT ![m].pc = "commit", ![m].latest = l]
        /\ st = "sent" => l = n
  BY DEF Prepared, PrepareFails
<1>3. /\ DOMAIN execs' = DOMAIN execs /\ Len(execs') = Len(execs)
      /\ \A i \in DOMAIN execs : execs'[i].at = execs[i].at
                                 /\ execs'[i].early = execs[i].early
      /\ \A i \in DOMAIN execs \ {n} : execs'[i] = execs[i]
      /\ execs'[n].status = st
  BY <1>1, <1>2, StatusTypes DEF ExecStatus
<1>4. /\ Others(m) /\ mgr'[m].row = mgr[m].row /\ mgr'[m].next = mgr[m].next
      /\ mgr'[m].pc = "commit" /\ mgr'[m].new = n /\ mgr'[m].latest = l
      /\ mgr'[m].ahead = mgr[m].ahead
  BY <1>1, <1>2, Types DEF Others, MgrState
<1>5. n # 0
  BY DEF Typed, Coherent, Prepared, PrepareFails
<1> QED BY <1>1, <1>2, <1>3, <1>4, <1>5

LEMMA EndEffect ==
  ASSUME Typed, NEW i \in DOMAIN execs, NEW st \in {"terminated", "failed"}, End(i, st)
  PROVE  /\ DOMAIN execs' = DOMAIN execs
         /\ \A j \in DOMAIN execs : execs'[j].at = execs[j].at
                                    /\ execs'[j].early = execs[j].early
         /\ \A j \in DOMAIN execs \ {i} : execs'[j] = execs[j]
         /\ execs[i].status = "sent" /\ execs'[i].status = st
  BY StatusTypes DEF End, ExecStatus

\* Only the manager that holds the lock has created an execution.
LEMMA HolderOnly ==
  ASSUME Typed, NEW m \in Manager, mgr[m].pc \notin {"idle", "loaded"},
         NEW n \in Manager, n # m
  PROVE  mgr[n].pc \in {"idle", "loaded"} /\ mgr[n].new = 0
  BY IdleOK DEF Typed, TypeOK, Coherent

-----------------------------------------------------------------------------
(***************************************************************************)
(* No occurrence that has come runs twice.  The occurrences of the         *)
(* executions on time that the row has been told about are earlier than    *)
(* its next one; a manager that holds the lock will write one that is      *)
(* later than all of them, because it computes it from the clock, whatever *)
(* row it has read.                                                        *)
(***************************************************************************)

\* Recorded executions that no manager still has to write to the row.
Told == {i \in Recorded : \A m \in Manager : mgr[m].new # i}

TimesGrow ==
  /\ \A i \in DOMAIN execs : ~ execs[i].early => execs[i].at <= now
  /\ \A i \in Told : ~ execs[i].early => Later(sched.next, execs[i].at)
  /\ \A m \in Manager : mgr[m].pc \in Decided =>
       /\ \/ mgr[m].ahead \/ mgr[m].row.next = None
          \/ mgr[m].row.next <= now /\ Later(mgr[m].next, mgr[m].row.next)
       /\ \A i \in DOMAIN execs : ~ execs[i].early => Later(mgr[m].next, execs[i].at)

Ordered == TimesGrow /\ RunsOnce

\* The times are numbers.
LEMMA TimeTypes ==
  ASSUME Typed
  PROVE  /\ now \in Nat
         /\ \A i \in DOMAIN execs : execs[i].at \in Nat
         /\ sched.next # None => sched.next \in Nat
         /\ \A m \in Manager : mgr[m].row.next # None => mgr[m].row.next \in Nat
         /\ \A m \in Manager : mgr[m].next # None => mgr[m].next \in Nat
<1>1. \A i \in DOMAIN execs : execs[i] \in Execution
  BY Types
<1>2. \A m \in Manager : mgr[m] \in MgrState
  BY Types
<1> QED BY <1>1, <1>2, Types DEF Execution, MgrState, Row, Occurrence, Time, Typed, Coherent

\* A step that creates no execution, moves no next occurrence and does not decide.
LEMMA OrderedKept ==
  ASSUME Typed, Ordered,
         DOMAIN execs' = DOMAIN execs,
         \A i \in DOMAIN execs : execs'[i].at = execs[i].at /\ execs'[i].early = execs[i].early,
         unrecorded \subseteq unrecorded', now' \in Nat, now <= now',
         sched'.next = sched.next, Told' \subseteq Told,
         \A m \in Manager : mgr'[m].pc \in Decided =>
           /\ mgr[m].pc \in Decided /\ mgr'[m].next = mgr[m].next
           /\ mgr'[m].row = mgr[m].row /\ mgr'[m].ahead = mgr[m].ahead
  PROVE  Ordered'
<1>1. RunsOnce'
  BY DEF Ordered, RunsOnce, OnTime, Recorded
<1>2. \A i \in DOMAIN execs' : ~ execs'[i].early => execs'[i].at <= now'
  BY TimeTypes DEF Ordered, TimesGrow
<1>3. \A i \in Told' : ~ execs'[i].early => Later(sched'.next, execs'[i].at)
  BY DEF Ordered, TimesGrow, Told, Recorded
<1>4. ASSUME NEW m \in Manager, mgr'[m].pc \in Decided
      PROVE  \/ mgr'[m].ahead \/ mgr'[m].row.next = None
             \/ mgr'[m].row.next <= now' /\ Later(mgr'[m].next, mgr'[m].row.next)
  BY <1>4, TimeTypes DEF Ordered, TimesGrow
<1>5. \A m \in Manager : mgr'[m].pc \in Decided =>
        \A i \in DOMAIN execs' : ~ execs'[i].early => Later(mgr'[m].next, execs'[i].at)
  BY DEF Ordered, TimesGrow
<1> QED BY <1>1, <1>2, <1>3, <1>4, <1>5 DEF Ordered, TimesGrow

LEMMA DecideOrdered ==
  ASSUME Typed, Ordered, NEW m \in Manager, Decide(m)
  PROVE  Ordered'
<1>1. UNCHANGED <<now, sched, execs, unrecorded>> /\ mgr[m].pc = "locked"
  BY DEF Decide
<1>2. Later(mgr'[m].next, now)
  BY DecideEffect, AfterIsLater, Types
<1>3. mgr'[m].next # None => mgr'[m].next \in Nat
  BY DecideEffect, AfterIsLater, Types DEF Occurrence, Time
<1>4. /\ \/ mgr'[m].ahead \/ mgr'[m].row.next = None
         \/ mgr'[m].row.next <= now /\ Later(mgr'[m].next, mgr'[m].row.next)
      /\ \A i \in DOMAIN execs : ~ execs[i].early => Later(mgr'[m].next, execs[i].at)
  <2>1. \/ mgr'[m].ahead \/ mgr'[m].row.next = None
        \/ mgr'[m].row.next <= now /\ Later(mgr'[m].next, mgr'[m].row.next)
    <3>1. /\ mgr'[m].row = mgr[m].row
          /\ mgr'[m].ahead = (mgr[m].row.next # None /\ mgr[m].row.next > now)
      BY DecideEffect
    <3>2. CASE mgr[m].row.next = None
      BY <3>1, <3>2
    <3>3. CASE mgr[m].row.next # None
      <4>1. mgr[m].row.next \in Nat /\ now \in Nat
        BY <3>3, TimeTypes
      <4>2. CASE mgr[m].row.next > now
        BY <3>1, <3>3, <4>2
      <4>3. CASE mgr[m].row.next <= now
        BY <1>2, <1>3, <3>1, <4>1, <4>3 DEF Later
      <4> QED BY <4>1, <4>2, <4>3
    <3> QED BY <3>2, <3>3
  <2>2. \A i \in DOMAIN execs : ~ execs[i].early => Later(mgr'[m].next, execs[i].at)
    BY <1>2, <1>3, TimeTypes DEF Later, Ordered, TimesGrow
  <2> QED BY <2>1, <2>2
<1>5. Told' = Told /\ Recorded' = Recorded
  BY <1>1, DecideEffect DEF Told, Recorded, Others
<1> QED BY <1>1, <1>4, <1>5, DecideEffect
        DEF Ordered, TimesGrow, RunsOnce, OnTime, Others

LEMMA CreateOrdered ==
  ASSUME Typed, Ordered, NEW m \in Manager, Create(m)
  PROVE  Ordered'
<1> DEFINE k == Len(execs) + 1
<1>1. /\ UNCHANGED <<now, sched>> /\ mgr[m].pc = "create"
      /\ unrecorded \subseteq unrecorded'
      /\ k \in unrecorded' \/ sched = mgr[m].row
  BY DEF Create
<1>2. k \notin DOMAIN execs /\ k # 0
  BY Types
<1> HIDE DEF k
<1>3. /\ DOMAIN execs' = DOMAIN execs \cup {k}
      /\ \A i \in DOMAIN execs : execs'[i] = execs[i]
      /\ execs'[k].at = mgr[m].row.next /\ execs'[k].early = mgr[m].ahead
      /\ mgr'[m].new = k
  <2>1. /\ DOMAIN execs' = DOMAIN execs \cup {k}
        /\ \A i \in DOMAIN execs : execs'[i] = execs[i]
        /\ mgr'[m].new = k
    BY CreateEffect DEF k
  <2>2. execs'[k] = [status |-> "pending", at |-> mgr[m].row.next, early |-> mgr[m].ahead]
    BY CreateEffect DEF k
  <2> QED BY <2>1, <2>2
<1>0. mgr[m].row.next \in Nat /\ mgr[m].row.next # None
  BY CreateEffect
<1>4. ASSUME ~ mgr[m].ahead
      PROVE  mgr[m].row.next <= now /\ Later(mgr[m].next, mgr[m].row.next)
  BY <1>0, <1>1, <1>4 DEF Ordered, TimesGrow, Decided
<1>5. \A n \in Manager : mgr[n].new = 0
  BY <1>1, CreateEffect, HolderOnly
<1>6. Told = Recorded
  BY <1>5, Types DEF Told, Recorded
<1>7. Told' \subseteq Told
  BY <1>1, <1>3, <1>5, <1>6, CreateEffect DEF Told, Recorded, Others
<1>8. RunsOnce'
  <2>1. CASE sched = mgr[m].row
    <3>1. sched.next = mgr[m].row.next /\ sched.next # None
      BY <2>1, <1>0
    <3>2. \A i \in OnTime : execs[i].at < sched.next
      BY <1>0, <1>6, <3>1, TimeTypes DEF Ordered, TimesGrow, Later, OnTime, Recorded
    <3>3. \A i \in OnTime : execs[i].at # mgr[m].row.next
      BY <1>0, <3>1, <3>2, TimeTypes DEF OnTime, Recorded
    <3> QED BY <1>1, <1>2, <1>3, <3>3 DEF Ordered, RunsOnce, OnTime, Recorded
  <2>2. CASE k \in unrecorded'
    BY <2>2, <1>1, <1>3 DEF Ordered, RunsOnce, OnTime, Recorded
  <2> QED BY <1>1, <2>1, <2>2
<1>9. \A i \in DOMAIN execs' : ~ execs'[i].early => execs'[i].at <= now'
  BY <1>1, <1>3, <1>4 DEF Ordered, TimesGrow
<1>10. \A i \in Told' : ~ execs'[i].early => Later(sched'.next, execs'[i].at)
  BY <1>1, <1>3, <1>7 DEF Ordered, TimesGrow, Told, Recorded
<1>12. ASSUME NEW n \in Manager, mgr'[n].pc \in Decided
       PROVE  /\ \/ mgr'[n].ahead \/ mgr'[n].row.next = None
                 \/ mgr'[n].row.next <= now' /\ Later(mgr'[n].next, mgr'[n].row.next)
              /\ \A i \in DOMAIN execs' :
                   ~ execs'[i].early => Later(mgr'[n].next, execs'[i].at)
  <2>1. n = m
    BY <1>1, <1>12, CreateEffect, HolderOnly, ZenonT(40) DEF Others, Decided
  <2>2. mgr'[n].next = mgr[m].next /\ mgr'[n].row = mgr[m].row /\ mgr'[n].ahead = mgr[m].ahead
    BY <2>1, CreateEffect
  <2>3. \A i \in DOMAIN execs : ~ execs[i].early => Later(mgr[m].next, execs[i].at)
    BY <1>1 DEF Ordered, TimesGrow, Decided
  <2> QED BY <1>1, <1>3, <1>4, <2>2, <2>3
<1> QED BY <1>8, <1>9, <1>10, <1>12 DEF Ordered, TimesGrow

LEMMA CommitOrdered ==
  ASSUME Typed, Ordered, NEW m \in Manager, Commit(m)
  PROVE  Ordered'
<1>1. /\ UNCHANGED <<now, execs, unrecorded>> /\ mgr[m].pc = "commit"
      /\ sched'.next = mgr[m].next
  BY WrittenOK DEF Commit
<1>2. Others(m) /\ mgr'[m].pc = "idle"
  BY IdleAgain DEF Commit
<1>3. \A i \in DOMAIN execs : ~ execs[i].early => Later(mgr[m].next, execs[i].at)
  BY <1>1 DEF Ordered, TimesGrow, Decided
<1>4. \A i \in Told' : ~ execs'[i].early => Later(sched'.next, execs'[i].at)
  BY <1>1, <1>3 DEF Told, Recorded
<1> QED BY <1>1, <1>2, <1>4 DEF Ordered, TimesGrow, RunsOnce, OnTime, Recorded, Others, Decided

LEMMA PatchOrdered ==
  ASSUME Typed, Ordered, NEW rule \in Rules, NEW enabled \in BOOLEAN, Patch(rule, enabled)
  PROVE  Ordered'
<1>1. UNCHANGED <<now, execs, unrecorded, mgr>> /\ sched'.next = After(rule, now)
  BY Types DEF Patch, Patched, Row
<1>2. Later(sched'.next, now) /\ (sched'.next # None => sched'.next \in Nat)
  BY <1>1, AfterIsLater, Types DEF Occurrence, Time
<1>3. \A i \in DOMAIN execs : ~ execs[i].early => Later(sched'.next, execs[i].at)
  BY <1>2, TimeTypes DEF Later, Ordered, TimesGrow
<1> QED BY <1>1, <1>3 DEF Ordered, TimesGrow, RunsOnce, OnTime, Recorded, Told

LEMMA OrderedStep == Typed /\ Ordered /\ [Next]_vars => Ordered'
<1> SUFFICES ASSUME Typed, Ordered, [Next]_vars PROVE Ordered'
  OBVIOUS
<1>0. now \in Nat /\ now <= now
  BY TimeTypes
<1>1. ASSUME NEW m \in Manager, Load(m) PROVE Ordered'
  <2>1. UNCHANGED <<now, sched, execs, unrecorded>>
    BY <1>1 DEF Load
  <2>2. Told' \subseteq Told
    BY <1>1, <2>1, LoadEffect DEF Told, Recorded, Others
  <2> QED BY <1>0, <1>1, <2>1, <2>2, LoadEffect, OrderedKept DEF Others, Decided
<1>9. ASSUME NEW m \in Manager, Reread(m) PROVE Ordered'
  <2>1. UNCHANGED <<now, sched, execs, unrecorded>>
    BY <1>9 DEF Reread
  <2>2. Told' \subseteq Told
    BY <1>9, <2>1, RereadEffect DEF Told, Recorded, Others
  <2> QED BY <1>0, <1>9, <2>1, <2>2, RereadEffect, OrderedKept DEF Others, Decided
<1>2. ASSUME NEW m \in Manager, TryLock(m) PROVE Ordered'
  <2>1. UNCHANGED <<now, sched, execs, unrecorded>>
    BY <1>2 DEF TryLock
  <2>2. Told' \subseteq Told
    BY <1>2, <2>1, TryLockEffect DEF Told, Recorded, Others
  <2> QED BY <1>0, <1>2, <2>1, <2>2, TryLockEffect, OrderedKept DEF Others, Decided
<1>3. ASSUME NEW m \in Manager, Prepared(m) \/ PrepareFails(m) PROVE Ordered'
  <2>1. UNCHANGED <<now, sched, unrecorded>> /\ mgr[m].pc = "prepare"
    BY <1>3 DEF Prepared, PrepareFails
  <2>2. Told' \subseteq Told
    BY <1>3, <2>1, PrepareEffect DEF Told, Recorded, Others
  <2> QED BY <1>0, <1>3, <2>1, <2>2, PrepareEffect, OrderedKept DEF Others, Decided
<1>4. ASSUME NEW m \in Manager, Restart(m) PROVE Ordered'
  <2>1. UNCHANGED <<now, sched, execs>> /\ unrecorded \subseteq unrecorded'
        /\ (mgr[m].new # 0 => mgr[m].new \in unrecorded')
        /\ Others(m) /\ mgr'[m].pc = "idle" /\ mgr'[m].new = 0
    BY <1>4, IdleAgain DEF Restart
  <2>2. Told' \subseteq Told
    BY <2>1, Types DEF Told, Recorded, Others
  <2> QED BY <1>0, <2>1, <2>2, OrderedKept DEF Others, Decided
<1>5. ASSUME Delete PROVE Ordered'
  <2>1. UNCHANGED <<now, execs, mgr, unrecorded>> /\ sched'.next = sched.next
    BY <1>5, Types DEF Delete, Row
  <2>2. Told' \subseteq Told
    BY <2>1 DEF Told, Recorded
  <2> QED BY <1>0, <2>1, <2>2, OrderedKept
<1>6. ASSUME NEW i \in DOMAIN execs, NEW st \in {"terminated", "failed"}, End(i, st)
      PROVE  Ordered'
  <2>1. UNCHANGED <<now, sched, mgr, unrecorded>>
    BY <1>6 DEF End
  <2>2. Told' \subseteq Told
    BY <1>6, <2>1, EndEffect DEF Told, Recorded
  <2> QED BY <1>0, <1>6, <2>1, <2>2, EndEffect, OrderedKept
<1>7. ASSUME Tick PROVE Ordered'
  <2>1. UNCHANGED <<sched, execs, mgr, unrecorded>> /\ now' \in Nat /\ now <= now'
    BY <1>0, <1>7 DEF Tick
  <2>2. Told' \subseteq Told
    BY <2>1 DEF Told, Recorded
  <2> QED BY <2>1, <2>2, OrderedKept
<1>8. CASE UNCHANGED vars
  BY <1>8 DEF vars, Ordered, TimesGrow, RunsOnce, OnTime, Recorded, Told
<1> QED BY <1>9, <1>1, <1>2, <1>3, <1>4, <1>5, <1>6, <1>7, <1>8, DecideOrdered, CreateOrdered,
           CommitOrdered, PatchOrdered DEF Next, Step, Raises, Crash

LEMMA OrderedInit == Init => Ordered
<1> SUFFICES ASSUME Init PROVE Ordered
  OBVIOUS
<1>1. execs = <<>> /\ \A m \in Manager : mgr[m].pc = "idle"
  BY IdleOK DEF Init
<1> QED BY <1>1 DEF Ordered, TimesGrow, RunsOnce, OnTime, Recorded, Told, Decided

\* No occurrence of the schedule that has come is executed twice by executions
\* the row was told about, however many managers try to run it, and whatever the
\* rows that they have read again say.
THEOREM OccurrencesRunOnce == Spec => []RunsOnce
<1>1. Ordered => RunsOnce
  BY DEF Ordered
<1> QED BY <1>1, OrderedInit, OrderedStep, TypedHolds, PTL DEF Spec

-----------------------------------------------------------------------------
(***************************************************************************)
(* Executions do not overlap, and none follows a failed one.  An execution *)
(* in a status that keeps the next one from running is the latest one of   *)
(* the row, or the one that the holder of the lock is about to write.      *)
(***************************************************************************)

\* The statuses in which ShouldRun lets nothing run.
Blocking == IF StopOnFail THEN {"sent", "failed"} ELSE {"sent"}

OneBlocks ==
  /\ \A i \in Told : execs[i].status \in Blocking => i = sched.latest
  /\ \A m \in Manager : mgr[m].new # 0 =>
       \A i \in Recorded \ {mgr[m].new} : execs[i].status \notin Blocking
  /\ \A m \in Manager : mgr[m].pc = "create" /\ mgr[m].row.latest # 0 =>
       execs[mgr[m].row.latest].status \in END_STATES \ Blocking
  /\ \A m \in Manager : mgr[m].pc = "commit" /\ mgr[m].new # 0 =>
       mgr[m].latest = mgr[m].new \/ execs[mgr[m].new].status = "rejected"

\* The latest executions that the row and the managers know of are there.
LEMMA LatestTypes ==
  ASSUME Typed
  PROVE  /\ sched.latest # 0 => sched.latest \in DOMAIN execs
         /\ \A m \in Manager : mgr[m].row.latest # 0 => mgr[m].row.latest \in DOMAIN execs
         /\ \A m \in Manager : mgr[m].new # 0 => mgr[m].new \in DOMAIN execs
         /\ 0 \notin DOMAIN execs
<1>1. \A m \in Manager : mgr[m] \in MgrState
  BY Types
<1> QED BY <1>1, Types DEF Typed, Coherent, MgrState, Row

\* A step that makes no execution a blocking one, and in which no manager goes on
\* to create one.
LEMMA OneBlocksKept ==
  ASSUME Typed, OneBlocks,
         DOMAIN execs' = DOMAIN execs, unrecorded \subseteq unrecorded',
         \A i \in DOMAIN execs : execs[i].status \in END_STATES => execs'[i] = execs[i],
         \A i \in DOMAIN execs : execs'[i].status \in Blocking => execs[i].status \in Blocking,
         sched'.latest = sched.latest, Told' \subseteq Told,
         \A m \in Manager : \/ mgr'[m].pc = "idle" /\ mgr'[m].new = 0
                            \/ mgr'[m].new = mgr[m].new /\ mgr'[m].pc \notin {"create", "commit"}
                            \/ mgr'[m] = mgr[m]
  PROVE  OneBlocks'
<1>1. \A i \in Told' : execs'[i].status \in Blocking => i = sched'.latest
  BY DEF OneBlocks, Told, Recorded
<1>2. ASSUME NEW m \in Manager, mgr'[m].new # 0
      PROVE  \A i \in Recorded' \ {mgr'[m].new} : execs'[i].status \notin Blocking
  <2>1. mgr'[m].new = mgr[m].new
    BY <1>2
  <2> QED BY <1>2, <2>1 DEF OneBlocks, Recorded
<1>3. ASSUME NEW m \in Manager, mgr'[m].pc = "create", mgr'[m].row.latest # 0
      PROVE  execs'[mgr'[m].row.latest].status \in END_STATES \ Blocking
  BY <1>3, LatestTypes DEF OneBlocks
<1>4. ASSUME NEW m \in Manager, mgr'[m].pc = "commit", mgr'[m].new # 0
      PROVE  mgr'[m].latest = mgr'[m].new \/ execs'[mgr'[m].new].status = "rejected"
  BY <1>4, LatestTypes DEF OneBlocks, END_STATES
<1> QED BY <1>1, <1>2, <1>3, <1>4 DEF OneBlocks

LEMMA DecideBlocks ==
  ASSUME Typed, OneBlocks, NEW m \in Manager, Decide(m)
  PROVE  OneBlocks'
<1>1. UNCHANGED <<sched, execs, unrecorded>>
  BY DEF Decide
<1>2. Told' = Told /\ Recorded' = Recorded
  BY <1>1, DecideEffect DEF Told, Recorded, Others
<1>3. ASSUME mgr'[m].pc = "create", mgr'[m].row.latest # 0
      PROVE  execs[mgr'[m].row.latest].status \in END_STATES \ Blocking
  <2>1. ShouldRun(m) /\ mgr[m].row.latest # 0 /\ mgr'[m].row.latest = mgr[m].row.latest
    BY <1>3, DecideEffect
  <2>2. LastStatus(m) = execs[mgr[m].row.latest].status
    BY <2>1 DEF LastStatus
  <2>3. LastStatus(m) \in END_STATES \cup {"none"} /\ ~ (StopOnFail /\ LastStatus(m) = "failed")
    BY <2>1 DEF ShouldRun, LastBlocks
  <2>4. execs[mgr[m].row.latest] \in Execution
    BY <2>1, LatestTypes, Types
  <2>5. LastStatus(m) # "none"
    BY <2>2, <2>4 DEF Execution, ExecStatus
  <2> QED BY <2>1, <2>2, <2>3, <2>5 DEF Blocking, END_STATES
<1> QED BY <1>1, <1>2, <1>3, DecideEffect DEF OneBlocks, Others

LEMMA CreateBlocks ==
  ASSUME Typed, OneBlocks, NEW m \in Manager, Create(m)
  PROVE  /\ OneBlocks'
         /\ \A i \in DOMAIN execs \ unrecorded' : execs[i].status \notin Blocking
<1> DEFINE k == Len(execs) + 1
<1>1. /\ sched' = sched /\ mgr[m].pc = "create"
      /\ unrecorded \subseteq unrecorded'
      /\ sched.latest \in unrecorded' \/ sched.latest = mgr[m].row.latest
  BY DEF Create
<1>2. k \notin DOMAIN execs /\ k # 0
  BY Types
<1> HIDE DEF k
<1>3. /\ DOMAIN execs' = DOMAIN execs \cup {k}
      /\ \A i \in DOMAIN execs : execs'[i] = execs[i]
      /\ mgr'[m].new = k
  BY CreateEffect DEF k
<1>4. execs'[k].status \notin Blocking
  <2>1. execs'[k] = [status |-> "pending", at |-> mgr[m].row.next, early |-> mgr[m].ahead]
    BY CreateEffect DEF k
  <2> QED BY <2>1 DEF Blocking
<1>5. \A n \in Manager : mgr[n].new = 0
  BY <1>1, CreateEffect, HolderOnly
<1>6. Told = Recorded
  BY <1>5, LatestTypes DEF Told, Recorded
<1>7. ASSUME NEW i \in DOMAIN execs \ unrecorded' PROVE execs[i].status \notin Blocking
  <2>1. i \in Told
    BY <1>1, <1>6 DEF Recorded
  <2>2. CASE i = sched.latest
    <3>1. i = mgr[m].row.latest /\ mgr[m].row.latest # 0
      BY <1>1, <2>2, LatestTypes
    <3> QED BY <1>1, <3>1 DEF OneBlocks
  <2>3. CASE i # sched.latest
    BY <2>1, <2>3 DEF OneBlocks
  <2> QED BY <2>2, <2>3
<1>8. \A i \in Recorded' : execs'[i].status \notin Blocking
  BY <1>3, <1>4, <1>7 DEF Recorded
<1>9. ASSUME NEW n \in Manager PROVE mgr'[n].pc \notin {"create", "commit"}
  BY <1>1, CreateEffect, HolderOnly, ZenonT(40) DEF Others
<1> QED BY <1>7, <1>8, <1>9 DEF OneBlocks, Told

LEMMA PrepareBlocks ==
  ASSUME Typed, OneBlocks, NEW m \in Manager, Prepared(m) \/ PrepareFails(m)
  PROVE  OneBlocks'
<1> DEFINE k == mgr[m].new
<1>1. UNCHANGED <<sched, unrecorded>> /\ mgr[m].pc = "prepare"
  BY DEF Prepared, PrepareFails
<1>2. /\ k # 0 /\ k \in DOMAIN execs /\ mgr'[m].new = k /\ Recorded' = Recorded
      /\ \A i \in DOMAIN execs \ {k} : execs'[i] = execs[i]
  BY <1>1, PrepareEffect DEF Recorded
<1>3. Told' = Told /\ k \notin Told
  BY <1>1, <1>2, PrepareEffect DEF Told, Recorded, Others
<1>4. \A n \in Manager \ {m} : mgr'[n].new = 0 /\ mgr'[n].pc \notin {"create", "commit"}
  BY <1>1, HolderOnly, PrepareEffect DEF Others
<1>5. \A i \in Told' : execs'[i].status \in Blocking => i = sched'.latest
  BY <1>1, <1>2, <1>3 DEF OneBlocks, Told, Recorded
<1>6. \A i \in Recorded' \ {k} : execs'[i].status \notin Blocking
  BY <1>1, <1>2 DEF OneBlocks, Recorded
<1>7. mgr'[m].latest = k \/ execs'[k].status = "rejected"
  BY PrepareEffect
<1>8. mgr'[m].pc = "commit"
  BY PrepareEffect
<1> HIDE DEF k
<1> QED BY <1>2, <1>4, <1>5, <1>6, <1>7, <1>8 DEF OneBlocks

LEMMA CommitBlocks ==
  ASSUME Typed, OneBlocks, NEW m \in Manager, Commit(m)
  PROVE  OneBlocks'
<1> DEFINE k == mgr[m].new
<1>1. /\ UNCHANGED <<execs, unrecorded>> /\ mgr[m].pc = "commit"
      /\ sched'.latest = IF k = 0 THEN sched.latest ELSE mgr[m].latest
  BY WrittenOK DEF Commit
<1>2. Others(m) /\ mgr'[m].pc = "idle" /\ mgr'[m].new = 0
  BY IdleAgain DEF Commit
<1>3. \A n \in Manager : mgr'[n].new = 0 /\ mgr'[n].pc \notin {"create", "commit"}
  BY <1>1, <1>2, HolderOnly DEF Others
<1>4. ASSUME NEW i \in Recorded, execs[i].status \in Blocking PROVE i = sched'.latest
  <2>1. CASE k = 0
    <3>1. i \in Told
      BY <1>1, <2>1, HolderOnly, LatestTypes DEF Told, Recorded
    <3> QED BY <1>1, <1>4, <2>1, <3>1 DEF OneBlocks
  <2>2. CASE k # 0
    <3>1. i = k
      BY <1>4, <2>2 DEF OneBlocks
    <3>2. mgr[m].latest = k
      BY <1>1, <1>4, <2>2, <3>1 DEF OneBlocks, Blocking
    <3> QED BY <1>1, <2>2, <3>1, <3>2
  <2> QED BY <2>1, <2>2
<1> QED BY <1>1, <1>3, <1>4 DEF OneBlocks, Told, Recorded

LEMMA OneBlocksStep == Typed /\ OneBlocks /\ [Next]_vars => OneBlocks'
<1> SUFFICES ASSUME Typed, OneBlocks, [Next]_vars PROVE OneBlocks'
  OBVIOUS
<1>1. ASSUME NEW m \in Manager, Load(m) PROVE OneBlocks'
  <2>1. UNCHANGED <<sched, execs, unrecorded>>
    BY <1>1 DEF Load
  <2>2. Told' \subseteq Told
    BY <1>1, <2>1, LoadEffect DEF Told, Recorded, Others
  <2> QED BY <1>1, <2>1, <2>2, LoadEffect, OneBlocksKept DEF Others
<1>7. ASSUME NEW m \in Manager, Reread(m) PROVE OneBlocks'
  <2>1. UNCHANGED <<sched, execs, unrecorded>>
    BY <1>7 DEF Reread
  <2>2. Told' \subseteq Told
    BY <1>7, <2>1, RereadEffect DEF Told, Recorded, Others
  <2> QED BY <1>7, <2>1, <2>2, RereadEffect, OneBlocksKept DEF Others
<1>2. ASSUME NEW m \in Manager, TryLock(m) PROVE OneBlocks'
  <2>1. UNCHANGED <<sched, execs, unrecorded>>
    BY <1>2 DEF TryLock
  <2>2. Told' \subseteq Told
    BY <1>2, <2>1, TryLockEffect DEF Told, Recorded, Others
  <2> QED BY <1>2, <2>1, <2>2, TryLockEffect, OneBlocksKept DEF Others
<1>3. ASSUME NEW m \in Manager, Restart(m) PROVE OneBlocks'
  <2>1. UNCHANGED <<sched, execs>> /\ unrecorded \subseteq unrecorded'
        /\ (mgr[m].new # 0 => mgr[m].new \in unrecorded')
        /\ Others(m) /\ mgr'[m].pc = "idle" /\ mgr'[m].new = 0
    BY <1>3, IdleAgain DEF Restart
  <2>2. Told' \subseteq Told
    BY <2>1, LatestTypes DEF Told, Recorded, Others
  <2> QED BY <2>1, <2>2, OneBlocksKept DEF Others
<1>4. ASSUME Delete \/ \E rule \in Rules, enabled \in BOOLEAN : Patch(rule, enabled)
      PROVE  OneBlocks'
  <2>1. UNCHANGED <<execs, mgr, unrecorded>> /\ sched'.latest = sched.latest
    BY <1>4, Types DEF Delete, Patch, Patched, Row
  <2> QED BY <2>1 DEF OneBlocks, Told, Recorded
<1>5. ASSUME NEW i \in DOMAIN execs, NEW st \in {"terminated", "failed"}, End(i, st)
      PROVE  OneBlocks'
  <2>1. UNCHANGED <<sched, mgr, unrecorded>>
    BY <1>5 DEF End
  <2>2. Told' \subseteq Told
    BY <1>5, <2>1, EndEffect DEF Told, Recorded
  <2>3. \A j \in DOMAIN execs : execs[j].status \in END_STATES => execs'[j] = execs[j]
    BY <1>5, EndEffect DEF END_STATES
  <2>4. \A j \in DOMAIN execs : execs'[j].status \in Blocking => execs[j].status \in Blocking
    BY <1>5, EndEffect DEF Blocking
  <2>5. DOMAIN execs' = DOMAIN execs
    BY <1>5, EndEffect
  <2> QED BY <2>1, <2>2, <2>3, <2>4, <2>5, OneBlocksKept
<1>6. ASSUME Tick \/ UNCHANGED vars PROVE OneBlocks'
  BY <1>6 DEF Tick, vars, OneBlocks, Told, Recorded
<1> QED BY <1>1, <1>2, <1>3, <1>4, <1>5, <1>6, <1>7, DecideBlocks, CreateBlocks, PrepareBlocks,
           CommitBlocks DEF Next, Step, Raises, Crash

LEMMA OneBlocksHolds == Spec => []OneBlocks
<1>1. Init => OneBlocks
  <2> SUFFICES ASSUME Init PROVE OneBlocks
    OBVIOUS
  <2>1. execs = <<>> /\ \A m \in Manager : mgr[m].pc = "idle" /\ mgr[m].new = 0
    BY IdleOK DEF Init
  <2> QED BY <2>1 DEF OneBlocks, Recorded, Told
<1> QED BY <1>1, OneBlocksStep, TypedHolds, PTL DEF Spec

\* Executions of the schedule that the row was told about do not overlap: a
\* manager that creates one has seen that the latest one has ended.
THEOREM ExecutionsDoNotOverlap == Spec => []NoOverlap
<1>1. Typed /\ OneBlocks => NoOverlap
  <2> SUFFICES ASSUME Typed, OneBlocks, NEW i \in Recorded, NEW j \in Recorded,
                      execs[i].status = "sent", execs[j].status = "sent"
               PROVE  i = j
    BY DEF NoOverlap
  <2>1. execs[i].status \in Blocking /\ execs[j].status \in Blocking
    BY DEF Blocking
  <2>2. CASE \E m \in Manager : mgr[m].new # 0
    BY <2>1, <2>2 DEF OneBlocks
  <2>3. CASE \A m \in Manager : mgr[m].new = 0
    <3>1. i \in Told /\ j \in Told
      BY <2>3, LatestTypes DEF Told, Recorded
    <3> QED BY <2>1, <3>1 DEF OneBlocks
  <2> QED BY <2>2, <2>3
<1> QED BY <1>1, OneBlocksHolds, TypedHolds, PTL

\* With stop_on_fail, no manager creates an execution after one that has failed.
THEOREM NothingAfterFailure == Spec => StopsOnFail
<1>1. ASSUME Typed, OneBlocks, [Next]_vars
      PROVE  [StopOnFail /\ Len(execs') > Len(execs)
              => \A i \in DOMAIN execs \ unrecorded' : execs[i].status # "failed"]_vars
  <2> SUFFICES ASSUME Next, StopOnFail, Len(execs') > Len(execs)
               PROVE  \A i \in DOMAIN execs \ unrecorded' : execs[i].status # "failed"
    BY <1>1
  <2>1. \E m \in Manager : Create(m)
    <3>1. ~ UNCHANGED execs /\ ~ (Len(execs') = Len(execs))
      BY <1>1, Types
    <3>2. ASSUME NEW m \in Manager, Step(m) \/ Crash(m) PROVE Create(m)
      BY <1>1, <3>1, <3>2, PrepareEffect
         DEF Step, Crash, Raises, Restart, Load, Reread, TryLock, Decide, Commit
    <3>3. ASSUME NEW i \in DOMAIN execs, NEW st \in {"terminated", "failed"}, End(i, st)
          PROVE  FALSE
      BY <1>1, <3>1, <3>3, StatusTypes DEF End, ExecStatus
    <3> QED BY <3>1, <3>2, <3>3 DEF Next, Patch, Delete, Tick
  <2>2. \A i \in DOMAIN execs \ unrecorded' : execs[i].status \notin Blocking
    BY <1>1, <2>1, CreateBlocks
  <2> QED BY <2>2 DEF Blocking
<1> QED BY <1>1, OneBlocksHolds, TypedHolds, PTL DEF Spec, StopsOnFail

-----------------------------------------------------------------------------
(* The next occurrence.  While nobody has patched the schedule under a manager, *)
(* the managers go by the rule the row has.                                     *)

RuleKept ==
  /\ \A m \in Manager : mgr[m].pc \in Decided => mgr[m].next \in mgr[m].row.rule \cup {None}
  /\ ~ patchedOver =>
       /\ sched.next \in sched.rule \cup {None}
       /\ \A m \in Manager : mgr[m].pc # "idle" => mgr[m].row.rule = sched.rule

LEMMA RuleStep == Typed /\ RuleKept /\ [Next]_vars => RuleKept'
<1> SUFFICES ASSUME Typed, RuleKept, [Next]_vars PROVE RuleKept'
  OBVIOUS
<1>1. ASSUME NEW m \in Manager, Load(m) PROVE RuleKept'
  <2>1. UNCHANGED <<sched, patchedOver>> /\ mgr[m].pc = "idle"
    BY <1>1 DEF Load
  <2> QED BY <1>1, <2>1, LoadEffect DEF RuleKept, Others, Decided
<1>11. ASSUME NEW m \in Manager, Reread(m) PROVE RuleKept'
  <2>1. UNCHANGED <<sched, patchedOver>>
    BY <1>11 DEF Reread
  <2> QED BY <1>11, <2>1, RereadEffect DEF RuleKept, Others, Decided
<1>2. ASSUME NEW m \in Manager, TryLock(m) PROVE RuleKept'
  <2>1. UNCHANGED <<sched, patchedOver>> /\ mgr[m].pc = "loaded"
    BY <1>2 DEF TryLock
  <2> QED BY <1>2, <2>1, TryLockEffect DEF RuleKept, Others, Decided
<1>3. ASSUME NEW m \in Manager, Decide(m) PROVE RuleKept'
  <2>1. mgr'[m].next \in mgr'[m].row.rule \cup {None}
    BY <1>3, DecideEffect, AfterIsLater, Types
  <2>2. UNCHANGED <<sched, patchedOver>> /\ mgr[m].pc = "locked"
    BY <1>3 DEF Decide
  <2> QED BY <1>3, <2>1, <2>2, DecideEffect DEF RuleKept, Others, Decided
<1>4. ASSUME NEW m \in Manager, Create(m) PROVE RuleKept'
  <2>1. UNCHANGED <<sched, patchedOver>> /\ mgr[m].pc = "create"
    BY <1>4 DEF Create
  <2>2. /\ Others(m) /\ mgr'[m].row = mgr[m].row /\ mgr'[m].next = mgr[m].next
        /\ mgr'[m].pc = "prepare"
    BY <1>4, CreateEffect
  <2> QED BY <2>1, <2>2 DEF RuleKept, Others, Decided
<1>5. ASSUME NEW m \in Manager, Prepared(m) \/ PrepareFails(m) PROVE RuleKept'
  <2>1. UNCHANGED <<sched, patchedOver>> /\ mgr[m].pc = "prepare"
    BY <1>5 DEF Prepared, PrepareFails
  <2> QED BY <1>5, <2>1, PrepareEffect DEF RuleKept, Others, Decided
<1>6. ASSUME NEW m \in Manager, Commit(m) PROVE RuleKept'
  <2>1. /\ patchedOver' = patchedOver /\ mgr[m].pc = "commit"
        /\ sched'.next = mgr[m].next /\ sched'.rule = sched.rule
    BY <1>6, WrittenOK DEF Commit
  <2>2. Others(m) /\ mgr'[m].pc = "idle"
    BY <1>6, IdleAgain DEF Commit
  <2> QED BY <2>1, <2>2 DEF RuleKept, Others, Decided
<1>7. ASSUME NEW m \in Manager, Restart(m) PROVE RuleKept'
  <2>1. UNCHANGED <<sched, patchedOver>> /\ Others(m) /\ mgr'[m].pc = "idle"
    BY <1>7, IdleAgain DEF Restart
  <2> QED BY <2>1 DEF RuleKept, Others, Decided
<1>8. ASSUME NEW rule \in Rules, NEW enabled \in BOOLEAN, Patch(rule, enabled)
      PROVE  RuleKept'
  <2>1. mgr' = mgr /\ sched'.rule = rule /\ sched'.next = After(rule, now)
    BY <1>8, Types DEF Patch, Patched, Row
  <2>2. sched'.next \in sched'.rule \cup {None}
    BY <2>1, AfterIsLater, Types
  <2> QED BY <1>8, <2>1, <2>2 DEF Patch, RuleKept
<1>9. ASSUME Delete PROVE RuleKept'
  <2>1. sched'.rule = sched.rule /\ sched'.next = sched.next
    BY <1>9, Types DEF Delete, Row
  <2> QED BY <1>9, <2>1 DEF Delete, RuleKept
<1>10. ASSUME \/ \E i \in DOMAIN execs, st \in {"terminated", "failed"} : End(i, st)
              \/ Tick
              \/ UNCHANGED vars
       PROVE  RuleKept'
  <2>1. UNCHANGED <<sched, mgr, patchedOver>>
    BY <1>10 DEF End, Tick, vars
  <2> QED BY <2>1 DEF RuleKept
<1> QED BY <1>1, <1>2, <1>3, <1>4, <1>5, <1>6, <1>7, <1>8, <1>9, <1>10, <1>11
        DEF Next, Step, Raises, Crash

\* The next occurrence of the schedule is one of its rule, unless a PATCH came
\* while a manager was at the schedule.
THEOREM NextIsOfRule == Spec => []NextFollowsRule
<1>1. Init => RuleKept
  <2> SUFFICES ASSUME Init PROVE RuleKept
    OBVIOUS
  <2>1. \A m \in Manager : mgr[m].pc = "idle"
    BY IdleOK DEF Init
  <2>2. PICK rule \in Rules : sched.rule = rule /\ sched.next = After(rule, 0)
    BY DEF Init
  <2>3. sched.next \in sched.rule \cup {None}
    BY <2>2, AfterIsLater DEF Time
  <2> QED BY <2>1, <2>3 DEF RuleKept, Decided
<1>2. RuleKept => NextFollowsRule
  BY DEF RuleKept, NextFollowsRule
<1> QED BY <1>1, <1>2, RuleStep, TypedHolds, PTL DEF Spec
=============================================================================
