------------------------- MODULE TasksGraphsProofs -------------------------
(***************************************************************************)
(* Proofs about TasksGraphs, for any operations, retries and number of     *)
(* requests: its type invariant, that the counters are exact until one of  *)
(* the steps that leave them off is taken, and what a resume may and must  *)
(* do to the operations.                                                   *)
(***************************************************************************)
EXTENDS TasksGraphs, FiniteSetTheorems, TLAPS

USE OperationAssumption

-----------------------------------------------------------------------------
(* Types. *)

LEMMA IdleOK == Idle \in ClientState /\ Idle.pc = "idle" /\ Idle.ops = {} /\ Idle.due = {}
  BY DEF Idle, ClientState

LEMMA StateSets ==
  Stored \subseteq Operation /\ Terminated \subseteq Stored
  BY DEF Stored, Terminated

\* Everyone but client c is where it was.
Others(c) == \A d \in Client \ {c} : client'[d] = client[d]

\* Client c goes on to s.
LEMMA ClientTypes ==
  ASSUME TypeOK, NEW c \in Client, NEW s \in ClientState, client' = [client EXCEPT ![c] = s]
  PROVE  client' \in [Client -> ClientState] /\ client'[c] = s /\ Others(c)
  BY DEF TypeOK, Others

LEMMA GraphReadEffect ==
  ASSUME TypeOK, NEW c \in Client, NEW S \in SUBSET Operation, GraphRead(c, S)
  PROVE  /\ client' \in [Client -> ClientState] /\ Others(c)
         /\ client'[c].pc = "graph" /\ client'[c].ops = S
<1> DEFINE s == [Idle EXCEPT !.pc = "graph", !.ops = S, !.total = total, !.finished = finished]
<1>1. s \in ClientState /\ s.pc = "graph" /\ s.ops = S
  BY DEF Idle, ClientState, TypeOK
<1>2. client' = [client EXCEPT ![c] = s]
  BY DEF GraphRead
<1> HIDE DEF s
<1> QED BY <1>1, <1>2, ClientTypes

LEMMA PutEffect ==
  ASSUME TypeOK, NEW c \in Client, NEW o \in Operation, Put(c, o)
  PROVE  /\ client' \in [Client -> ClientState] /\ Others(c)
         /\ client'[c].pc = "put" /\ client'[c].ops = {o}
<1> DEFINE s == [Idle EXCEPT !.pc = "put", !.ops = {o}]
<1>0. {o} \in SUBSET Operation
  OBVIOUS
<1>1. s \in ClientState /\ s.pc = "put" /\ s.ops = {o}
  BY <1>0, IdleOK DEF ClientState
<1>2. client' = [client EXCEPT ![c] = s]
  BY DEF Put
<1> HIDE DEF s
<1> QED BY <1>1, <1>2, ClientTypes

LEMMA PutReadEffect ==
  ASSUME TypeOK, NEW c \in Client, PutRead(c)
  PROVE  /\ client' \in [Client -> ClientState] /\ Others(c)
         /\ client'[c].pc = "count" /\ client'[c].ops = client[c].ops
<1> DEFINE s == [client[c] EXCEPT !.pc = "count", !.total = total, !.finished = finished]
<1>0. client[c] \in ClientState /\ total \in Int /\ finished \in Int
  BY DEF TypeOK
<1>1. s \in ClientState /\ s.pc = "count" /\ s.ops = client[c].ops
  BY <1>0 DEF ClientState
<1>2. client' = [client EXCEPT ![c] = s]
  BY DEF PutRead, TypeOK
<1> HIDE DEF s
<1> QED BY <1>1, <1>2, ClientTypes

LEMMA IdleAgain ==
  ASSUME TypeOK, NEW c \in Client, client' = [client EXCEPT ![c] = Idle]
  PROVE  /\ client' \in [Client -> ClientState] /\ Others(c)
         /\ client'[c] = Idle /\ client'[c].pc = "idle"
  BY IdleOK, ClientTypes

LEMMA ResetReadEffect ==
  ASSUME TypeOK, NEW c \in Client, NEW force \in ForceFlags, ResetRead(c, force)
  PROVE  /\ client' \in [Client -> ClientState] /\ Others(c)
         /\ client'[c].pc = "listed" /\ client'[c].ops = Resettable
         /\ client'[c].due = {o \in Resettable : state[o] \in FromStates(force)}
<1> DEFINE D == {o \in Resettable : state[o] \in FromStates(force)}
           s == [Idle EXCEPT !.pc = "listed", !.ops = Resettable, !.force = force, !.due = D]
<1>1. Resettable \subseteq Operation /\ D \subseteq Operation
  BY StateSets DEF Resettable
<1>2. client' = [client EXCEPT ![c] = s]
  BY DEF ResetRead
<1> HIDE DEF D
<1>3. s \in ClientState /\ s.pc = "listed" /\ s.ops = Resettable /\ s.due = D
  <2>1. Idle \in ClientState /\ force \in BOOLEAN
    BY IdleOK
  <2> QED BY <1>1, <2>1 DEF ClientState
<1> HIDE DEF s
<1>4. client'[c] = s /\ client' \in [Client -> ClientState] /\ Others(c)
  BY <1>2, <1>3, ClientTypes
<1> QED BY <1>3, <1>4 DEF D

\* The operation that a resume looks at is due.
Due(c, o) == IF client[c].pc = "listed" THEN o \in client[c].due
             ELSE state[o] \in FromStates(client[c].force)

LEMMA ConsiderEffect ==
  ASSUME TypeOK, NEW c \in Client, NEW o \in Operation, Consider(c, o)
  PROVE  /\ client' \in [Client -> ClientState] /\ Others(c)
         /\ client'[c].ops = client[c].ops \ {o}
         /\ client'[c].pc = IF Due(c, o) THEN "write" ELSE client[c].pc
         /\ client'[c].due = IF Due(c, o) THEN {o} ELSE client[c].due
<1> DEFINE s == [client[c] EXCEPT !.ops = client[c].ops \ {o},
                   !.pc = IF Due(c, o) THEN "write" ELSE client[c].pc,
                   !.due = IF Due(c, o) THEN {o} ELSE client[c].due]
<1>1. client[c] \in ClientState
  BY DEF TypeOK
<1>2. /\ s \in ClientState
      /\ s.ops = client[c].ops \ {o}
      /\ s.pc = IF Due(c, o) THEN "write" ELSE client[c].pc
      /\ s.due = IF Due(c, o) THEN {o} ELSE client[c].due
  BY <1>1 DEF ClientState
<1>3. client' = [client EXCEPT ![c] = s]
  BY DEF Consider, Due, TypeOK
<1> HIDE DEF s
<1> QED BY <1>2, <1>3, ClientTypes

LEMMA ResetEffect ==
  ASSUME TypeOK, NEW c \in Client, Reset(c)
  PROVE  /\ client' \in [Client -> ClientState] /\ Others(c)
         /\ client'[c].pc = "expired" /\ client'[c].due = {} /\ client'[c].ops = client[c].ops
<1> DEFINE s == [client[c] EXCEPT !.pc = "expired", !.due = {}]
<1>0. client[c] \in ClientState /\ {} \in SUBSET Operation
  BY DEF TypeOK
<1>1. s \in ClientState /\ s.pc = "expired" /\ s.due = {} /\ s.ops = client[c].ops
  BY <1>0 DEF ClientState
<1>2. client' = [client EXCEPT ![c] = s]
  BY DEF Reset, TypeOK
<1> HIDE DEF s
<1> QED BY <1>1, <1>2, ClientTypes

\* What a step touches are operations.
LEMMA TouchOK ==
  ASSUME TypeOK, NEW S, Touch(S)
  PROVE  late' \subseteq Operation /\ late \subseteq late'
  BY DEF TypeOK, Touch

\* The numbers of operations are numbers.
LEMMA CountedOK ==
  ASSUME NEW S \in SUBSET Operation
  PROVE  IsFiniteSet(S \ Nop) /\ Counted(S) \in Nat
<1>1. IsFiniteSet(S \ Nop)
  BY FS_Subset
<1> QED BY <1>1, FS_CardinalityType DEF Counted

\* What storing a graph does.
Given(c) == [client[c].ops -> {"pending"} \cup TERMINATED_STATES]
EndedOf(c, given) == {o \in client[c].ops : given[o] # "pending"}

LEMMA GraphCommitEffect ==
  ASSUME TypeOK, NEW c \in Client, GraphCommit(c)
  PROVE  /\ \E given \in Given(c) :
              /\ \A o \in Operation : state'[o] = IF o \in client[c].ops THEN given[o] ELSE state[o]
              /\ state' \in [Operation -> OperationStates \cup {"absent", "deleted"}]
              /\ total' = client[c].total + Counted(client[c].ops)
              /\ finished' = client[c].finished + Counted(EndedOf(c, given))
         /\ client[c].ops \in SUBSET Operation
         /\ late' \subseteq Operation /\ late \subseteq late'
<1>1. PICK given \in Given(c) :
        /\ state' = [o \in Operation |-> IF o \in client[c].ops THEN given[o] ELSE state[o]]
        /\ WriteCounters(c, Counted(client[c].ops), Counted(EndedOf(c, given)))
  BY DEF GraphCommit, Given, EndedOf
<1>2. state' \in [Operation -> OperationStates \cup {"absent", "deleted"}]
  BY <1>1 DEF Given, TypeOK, OperationStates
<1>3. client[c].ops \in SUBSET Operation
  BY DEF TypeOK, ClientState
<1>4. late' \subseteq Operation /\ late \subseteq late'
  BY TouchOK DEF GraphCommit
<1> QED BY <1>1, <1>2, <1>3, <1>4 DEF WriteCounters

LEMMA TypeStep == TypeOK /\ [Next]_vars => TypeOK'
<1> SUFFICES ASSUME TypeOK, [Next]_vars PROVE TypeOK'
  OBVIOUS
<1>1. ASSUME NEW c \in Client, NEW S \in SUBSET Operation, GraphRead(c, S) PROVE TypeOK'
  BY <1>1, GraphReadEffect DEF GraphRead, TypeOK
<1>2. ASSUME NEW c \in Client, GraphCommit(c) PROVE TypeOK'
  <2>1. client[c] \in ClientState /\ client[c].ops \in SUBSET Operation
        /\ client[c].total \in Int /\ client[c].finished \in Int
    BY DEF TypeOK, ClientState
  <2>2. total' \in Int /\ finished' \in Int
    <3>1. PICK given \in Given(c) :
            /\ total' = client[c].total + Counted(client[c].ops)
            /\ finished' = client[c].finished + Counted(EndedOf(c, given))
      BY <1>2, GraphCommitEffect
    <3>2. EndedOf(c, given) \in SUBSET Operation
      BY <2>1 DEF EndedOf
    <3>3. Counted(client[c].ops) \in Nat /\ Counted(EndedOf(c, given)) \in Nat
      BY <2>1, <3>2, CountedOK
    <3> QED BY <2>1, <3>1, <3>3
  <2>3. client' \in [Client -> ClientState]
    BY <1>2, IdleAgain DEF GraphCommit
  <2>4. state' \in [Operation -> OperationStates \cup {"absent", "deleted"}]
    BY <1>2, GraphCommitEffect
  <2>5. drift' \in BOOLEAN /\ UNCHANGED <<exec, resumes>> /\ late' \subseteq Operation
    BY <1>2, GraphCommitEffect DEF GraphCommit
  <2> QED BY <2>2, <2>3, <2>4, <2>5 DEF TypeOK
<1>3. ASSUME NEW c \in Client, NEW o \in Operation, Put(c, o) PROVE TypeOK'
  <2>1. state' \in [Operation -> OperationStates \cup {"absent", "deleted"}]
    BY <1>3 DEF Put, TypeOK, OperationStates
  <2>2. late' \subseteq Operation
    BY <1>3, TouchOK DEF Put
  <2> QED BY <1>3, <2>1, <2>2, PutEffect DEF Put, TypeOK
<1>4. ASSUME NEW c \in Client, PutRead(c) PROVE TypeOK'
  BY <1>4, PutReadEffect DEF PutRead, TypeOK
<1>5. ASSUME NEW c \in Client, PutCommit(c) PROVE TypeOK'
  <2>1. total' \in Int /\ finished' \in Int
    BY <1>5 DEF PutCommit, WriteCounters, TypeOK, ClientState
  <2>2. client' \in [Client -> ClientState]
    BY <1>5, IdleAgain DEF PutCommit
  <2>3. drift' \in BOOLEAN /\ UNCHANGED <<exec, state, resumes, late>>
    BY <1>5 DEF PutCommit
  <2> QED BY <2>1, <2>2, <2>3 DEF TypeOK
<1>6. ASSUME NEW c \in Client, NEW force \in ForceFlags, ResetRead(c, force) PROVE TypeOK'
  <2>1. client' \in [Client -> ClientState]
    BY <1>6, ResetReadEffect
  <2>2. resumes' \in Nat /\ UNCHANGED <<exec, state, total, finished, drift, late>>
    BY <1>6 DEF ResetRead, TypeOK
  <2> QED BY <2>1, <2>2 DEF TypeOK
<1>7. ASSUME NEW c \in Client, NEW o \in Operation, Consider(c, o) PROVE TypeOK'
  BY <1>7, ConsiderEffect DEF Consider, TypeOK
<1>8. ASSUME NEW c \in Client, Reset(c) PROVE TypeOK'
  <2>1. state' \in [Operation -> OperationStates \cup {"absent", "deleted"}]
    BY <1>8 DEF Reset, TypeOK, OperationStates
  <2>2. drift' \in BOOLEAN /\ UNCHANGED <<exec, total, finished, resumes, late>>
    BY <1>8 DEF Reset
  <2> QED BY <1>8, <2>1, <2>2, ResetEffect DEF TypeOK
<1>9. ASSUME NEW c \in Client, ResetFail(c) \/ Resume(c) PROVE TypeOK'
  <2>1. client' \in [Client -> ClientState] /\ late' \subseteq Operation
    BY <1>9, IdleAgain DEF ResetFail, Resume, Leave, TypeOK
  <2>2. exec' \in ExecStates /\ UNCHANGED <<state, total, finished, resumes, drift>>
    BY <1>9 DEF ResetFail, Resume, TypeOK, ExecStates
  <2> QED BY <2>1, <2>2 DEF TypeOK
<1>10. ASSUME NEW o \in Operation, NEW st \in OperationStates, Patch(o, st) PROVE TypeOK'
  <2>1. finished' \in Int
    BY <1>10 DEF Patch, TypeOK
  <2>2. state' \in [Operation -> OperationStates \cup {"absent", "deleted"}]
    BY <1>10 DEF Patch, TypeOK
  <2>3. late' \subseteq Operation
    BY <1>10, TouchOK DEF Patch
  <2> QED BY <1>10, <2>1, <2>2, <2>3 DEF Patch, TypeOK
<1>11. ASSUME NEW o \in Operation, Delete(o) PROVE TypeOK'
  <2>1. Counted({o}) \in Nat /\ Counted({o} \cap Terminated) \in Nat
    BY CountedOK
  <2>2. total' \in Int /\ finished' \in Int
    BY <1>11, <2>1 DEF Delete, TypeOK
  <2>3. state' \in [Operation -> OperationStates \cup {"absent", "deleted"}]
    BY <1>11 DEF Delete, TypeOK
  <2>4. late' \subseteq Operation
    BY <1>11, TouchOK DEF Delete
  <2> QED BY <1>11, <2>2, <2>3, <2>4 DEF Delete, TypeOK
<1>12. ASSUME NEW st \in ExecStates, End(st) PROVE TypeOK'
  BY <1>12 DEF End, TypeOK
<1>13. CASE UNCHANGED vars
  BY <1>13 DEF vars, TypeOK
<1> QED BY <1>1, <1>2, <1>3, <1>4, <1>5, <1>6, <1>7, <1>8, <1>9, <1>10, <1>11, <1>12, <1>13
        DEF Next

\* The operations, the counters and the requests always have their types.
THEOREM TypeCorrect == Spec => []TypeOK
<1>1. Init => TypeOK
  <2> SUFFICES ASSUME Init PROVE TypeOK
    OBVIOUS
  <2>1. client \in [Client -> ClientState] /\ total \in Int /\ finished \in Int /\ resumes \in Nat
    BY IdleOK DEF Init
  <2>2. state \in [Operation -> OperationStates \cup {"absent", "deleted"}]
    BY DEF Init
  <2>3. exec \in ExecStates /\ drift = FALSE /\ late = {}
    BY DEF Init, ExecStates
  <2> QED BY <2>1, <2>2, <2>3, Zenon DEF TypeOK
<1> QED BY <1>1, TypeStep, PTL DEF Spec

-----------------------------------------------------------------------------
(***************************************************************************)
(* Requests that store operations.                                         *)
(***************************************************************************)

\* Clients that have read, or are about to read, the counters they will write.
Storing == {c \in Client : client[c].pc \in {"graph", "put", "count"}}

\* Requests that store operations do not get in each other's way: a graph's
\* operations stay absent, and retry nothing, until it is committed; one that was
\* put stays stored until it is counted; and no operation is stored twice.
StoringApart ==
  /\ \A c \in Client : client[c].pc = "graph" =>
       \A o \in client[c].ops : state[o] = "absent" /\ RetryOf[o] = None
  /\ \A c \in Client : client[c].pc \in {"put", "count"} =>
       \E o \in Stored : client[c].ops = {o}
  /\ \A c, d \in Storing : c # d => client[c].ops \cap client[d].ops = {}

\* A step of a client that does not store operations, if it keeps absent what is
\* absent and stored what is stored.
LEMMA ApartKept ==
  ASSUME TypeOK, StoringApart,
         \A o \in Operation : state[o] = "absent" => state'[o] = "absent",
         \A c \in Storing' : c \in Storing /\ client'[c] = client[c],
         \A c \in Client : client[c].pc \in {"put", "count"} =>
           client[c].ops \cap Stored \subseteq Stored'
  PROVE  StoringApart'
<1>1. \A c \in Client : client[c].ops \subseteq Operation
  BY DEF TypeOK, ClientState
<1>2. ASSUME NEW c \in Client, client'[c].pc = "graph", NEW o \in client'[c].ops
      PROVE  state'[o] = "absent" /\ RetryOf[o] = None
  BY <1>1, <1>2 DEF StoringApart, Storing
<1>3. ASSUME NEW c \in Client, client'[c].pc \in {"put", "count"}
      PROVE  \E o \in Stored' : client'[c].ops = {o}
  <2>1. client'[c] = client[c]
    BY <1>3 DEF Storing
  <2> QED BY <1>3, <2>1 DEF StoringApart
<1>4. \A c, d \in Storing' : c # d => client'[c].ops \cap client'[d].ops = {}
  BY DEF StoringApart
<1> QED BY <1>2, <1>3, <1>4 DEF StoringApart

LEMMA GraphReadApart ==
  ASSUME TypeOK, StoringApart, NEW c \in Client, NEW S \in SUBSET Operation, GraphRead(c, S)
  PROVE  StoringApart'
<1>1. /\ Others(c) /\ client'[c].pc = "graph" /\ client'[c].ops = S
      /\ state' = state /\ Stored' = Stored
  BY GraphReadEffect DEF GraphRead, Stored
<1>2. \A d \in Client : S \cap client[d].ops = {}
  BY DEF GraphRead
<1>3. \A o \in S : state[o] = "absent" /\ RetryOf[o] = None
  BY DEF GraphRead
<1>4. \A d \in Storing' \ {c} : d \in Storing /\ client'[d] = client[d]
  BY <1>1 DEF Storing, Others
<1>5. \A d, e \in Storing' : d # e => client'[d].ops \cap client'[e].ops = {}
  BY <1>1, <1>2, <1>4 DEF StoringApart, Storing
<1> QED BY <1>1, <1>3, <1>4, <1>5 DEF StoringApart, Storing, Others

LEMMA PutApart ==
  ASSUME TypeOK, StoringApart, NEW c \in Client, NEW o \in Operation, Put(c, o)
  PROVE  StoringApart'
<1>1. /\ Others(c) /\ client'[c].pc = "put" /\ client'[c].ops = {o}
      /\ state' = [state EXCEPT ![o] = "pending"]
  BY PutEffect DEF Put
<1>2. \A d \in Client : o \notin client[d].ops
  BY DEF Put
<1>3. Stored' = Stored \cup {o} /\ \A p \in Operation \ {o} : state'[p] = state[p]
  BY <1>1 DEF Stored, TypeOK, OperationStates
<1>4. \A d \in Storing' \ {c} : d \in Storing /\ client'[d] = client[d]
  BY <1>1 DEF Storing, Others
<1>5. \A d, e \in Storing' : d # e => client'[d].ops \cap client'[e].ops = {}
  BY <1>1, <1>2, <1>4 DEF StoringApart, Storing
<1>6. ASSUME NEW d \in Client, client'[d].pc = "graph", NEW p \in client'[d].ops
      PROVE  state'[p] = "absent" /\ RetryOf[p] = None
  <2>1. d # c /\ client'[d] = client[d] /\ p \in Operation /\ p # o
    BY <1>1, <1>2, <1>6 DEF Others, TypeOK, ClientState
  <2> QED BY <1>3, <1>6, <2>1 DEF StoringApart
<1>7. ASSUME NEW d \in Client, client'[d].pc \in {"put", "count"}
      PROVE  \E p \in Stored' : client'[d].ops = {p}
  BY <1>1, <1>3, <1>7 DEF StoringApart, Others
<1> QED BY <1>5, <1>6, <1>7 DEF StoringApart

LEMMA PutReadApart ==
  ASSUME TypeOK, StoringApart, NEW c \in Client, PutRead(c)
  PROVE  StoringApart'
<1>1. /\ Others(c) /\ client[c].pc = "put" /\ client'[c].pc = "count"
      /\ client'[c].ops = client[c].ops /\ state' = state /\ Stored' = Stored
  BY PutReadEffect DEF PutRead, Stored
<1>2. \A d \in Storing' : d \in Storing /\ client'[d].ops = client[d].ops
  BY <1>1 DEF Storing, Others
<1> QED BY <1>1, <1>2 DEF StoringApart, Others

LEMMA GraphCommitApart ==
  ASSUME TypeOK, StoringApart, NEW c \in Client, GraphCommit(c)
  PROVE  StoringApart'
<1>1. Others(c) /\ client'[c].pc = "idle" /\ c \in Storing
  BY IdleAgain DEF GraphCommit, Storing
<1>2. \A d \in Storing' : d \in Storing /\ d # c /\ client'[d] = client[d]
  BY <1>1 DEF Storing, Others
<1>3. \A o \in Operation : IF o \in client[c].ops THEN state'[o] \in OperationStates
                            ELSE state'[o] = state[o]
  BY GraphCommitEffect DEF Given, OperationStates
<1>4. Stored \subseteq Stored'
  BY <1>3 DEF Stored
<1>5. \A d \in Client : client[d].ops \subseteq Operation
  BY DEF TypeOK, ClientState
<1>6. ASSUME NEW d \in Client, client'[d].pc = "graph", NEW o \in client'[d].ops
      PROVE  state'[o] = "absent" /\ RetryOf[o] = None
  <2>1. d \in Storing /\ d # c /\ client'[d] = client[d]
    BY <1>2, <1>6 DEF Storing
  <2>2. o \notin client[c].ops
    BY <1>1, <1>6, <2>1 DEF StoringApart
  <2> QED BY <1>3, <1>5, <1>6, <2>1, <2>2 DEF StoringApart
<1>7. ASSUME NEW d \in Client, client'[d].pc \in {"put", "count"}
      PROVE  \E o \in Stored' : client'[d].ops = {o}
  <2>1. client'[d] = client[d]
    BY <1>2, <1>7 DEF Storing
  <2> QED BY <1>4, <1>7, <2>1 DEF StoringApart
<1>8. \A d, e \in Storing' : d # e => client'[d].ops \cap client'[e].ops = {}
  BY <1>2 DEF StoringApart
<1> QED BY <1>6, <1>7, <1>8 DEF StoringApart

LEMMA ApartStep == TypeOK /\ StoringApart /\ [Next]_vars => StoringApart'
<1> SUFFICES ASSUME TypeOK, StoringApart, [Next]_vars PROVE StoringApart'
  OBVIOUS
<1>1. ASSUME NEW c \in Client,
             \/ PutCommit(c) \/ ResetFail(c) \/ Resume(c)
             \/ \E force \in ForceFlags : ResetRead(c, force)
             \/ \E o \in Operation : Consider(c, o)
      PROVE  StoringApart'
  <2>1. state' = state /\ Stored' = Stored
    BY <1>1 DEF PutCommit, ResetRead, Consider, ResetFail, Resume, Stored
  <2>2. Others(c) /\ client'[c].pc \notin {"graph", "put", "count"}
    <3>1. ASSUME NEW o \in Operation, Consider(c, o)
          PROVE  Others(c) /\ client'[c].pc \notin {"graph", "put", "count"}
      <4>1. client[c].pc \in {"listed", "expired"}
        BY <3>1 DEF Consider
      <4> QED BY <3>1, <4>1, ConsiderEffect
    <3>2. ASSUME PutCommit(c) \/ ResetFail(c) \/ Resume(c)
          PROVE  Others(c) /\ client'[c].pc \notin {"graph", "put", "count"}
      BY <3>2, IdleAgain DEF PutCommit, ResetFail, Resume, Leave
    <3> QED BY <1>1, <3>1, <3>2, ResetReadEffect
  <2>3. \A d \in Storing' : d \in Storing /\ client'[d] = client[d]
    BY <2>2 DEF Storing, Others
  <2> QED BY <2>1, <2>3, ApartKept, SMTT(30)
<1>2. ASSUME NEW c \in Client, Reset(c) PROVE StoringApart'
  <2>1. \A o \in Operation : state'[o] = IF o \in client[c].due THEN "pending" ELSE state[o]
    BY <1>2 DEF Reset
  <2>2. client[c].due \subseteq Stored
    BY <1>2 DEF Reset
  <2>3. Stored' = Stored
    BY <2>1, <2>2 DEF Stored, OperationStates
  <2>4. \A o \in Operation : state[o] = "absent" => state'[o] = "absent"
    BY <2>1, <2>2 DEF Stored, OperationStates, TERMINATED_STATES
  <2>5. \A d \in Storing' : d \in Storing /\ client'[d] = client[d]
    BY <1>2, ResetEffect DEF Storing, Others
  <2> QED BY <2>3, <2>4, <2>5, ApartKept
<1>3. ASSUME NEW o \in Operation, NEW st \in OperationStates, Patch(o, st)
      PROVE  StoringApart'
  <2>1. client' = client /\ state' = [state EXCEPT ![o] = st] /\ o \in Stored
    BY <1>3 DEF Patch
  <2>2. Stored' = Stored
    BY <2>1 DEF Stored, TypeOK
  <2>3. \A p \in Operation : state[p] = "absent" => state'[p] = "absent"
    BY <2>1 DEF Stored, TypeOK, OperationStates, TERMINATED_STATES
  <2>4. Storing' = Storing
    BY <2>1 DEF Storing
  <2> QED BY <2>1, <2>2, <2>3, <2>4, ApartKept
<1>4. ASSUME NEW o \in Operation, Delete(o) PROVE StoringApart'
  <2>1. client' = client /\ state' = [state EXCEPT ![o] = "deleted"] /\ o \in Stored
        /\ \A c \in Client : client[c].pc \in {"put", "count"} => o \notin client[c].ops
    BY <1>4 DEF Delete
  <2>2. Stored' = Stored \ {o}
    BY <2>1 DEF Stored, TypeOK, OperationStates, TERMINATED_STATES
  <2>3. \A p \in Operation : state[p] = "absent" => state'[p] = "absent"
    BY <2>1 DEF Stored, TypeOK, OperationStates, TERMINATED_STATES
  <2>4. Storing' = Storing
    BY <2>1 DEF Storing
  <2>5. \A c \in Client : client[c].pc \in {"put", "count"} =>
           client[c].ops \cap Stored \subseteq Stored'
    BY <2>1, <2>2
  <2> QED BY <2>1, <2>3, <2>4, <2>5, ApartKept
<1>5. ASSUME NEW st \in ExecStates, End(st) PROVE StoringApart'
  BY <1>5 DEF End, StoringApart, Storing, Stored
<1>6. CASE UNCHANGED vars
  BY <1>6 DEF vars, StoringApart, Storing, Stored
<1> QED BY <1>1, <1>2, <1>3, <1>4, <1>5, <1>6, GraphReadApart, PutApart, PutReadApart,
           GraphCommitApart DEF Next

LEMMA ApartHolds == Spec => []StoringApart
<1>1. Init => StoringApart
  <2> SUFFICES ASSUME Init PROVE StoringApart
    OBVIOUS
  <2>1. \A c \in Client : client[c].pc = "idle"
    BY IdleOK DEF Init
  <2> QED BY <2>1 DEF StoringApart, Storing
<1> QED BY <1>1, ApartStep, TypeCorrect, PTL DEF Spec

-----------------------------------------------------------------------------
(***************************************************************************)
(* The counters.                                                           *)
(***************************************************************************)

\* Counting disjoint sets of operations,
LEMMA CountedUnion ==
  ASSUME NEW S \in SUBSET Operation, NEW T \in SUBSET Operation, S \cap T = {}
  PROVE  Counted(S \cup T) = Counted(S) + Counted(T)
<1>1. IsFiniteSet(S \ Nop) /\ IsFiniteSet(T \ Nop) /\ Counted(S) \in Nat /\ Counted(T) \in Nat
  BY CountedOK
<1>2. (S \cup T) \ Nop = (S \ Nop) \cup (T \ Nop) /\ (S \ Nop) \cap (T \ Nop) = {}
  OBVIOUS
<1>3. Cardinality((S \ Nop) \cap (T \ Nop)) = 0
  BY <1>2, FS_EmptySet
<1>4. Cardinality((S \ Nop) \cup (T \ Nop)) =
        Cardinality(S \ Nop) + Cardinality(T \ Nop) - Cardinality((S \ Nop) \cap (T \ Nop))
  BY <1>1, FS_Union
<1>5. /\ Counted(S \cup T) = Cardinality((S \ Nop) \cup (T \ Nop))
      /\ Counted(S) = Cardinality(S \ Nop) /\ Counted(T) = Cardinality(T \ Nop)
  BY <1>2 DEF Counted
<1> QED BY <1>1, <1>3, <1>4, <1>5

\* one operation,
LEMMA CountedOne ==
  ASSUME NEW o \in Operation
  PROVE  Counted({o}) = IF o \in Nop THEN 0 ELSE 1
<1>1. CASE o \in Nop
  <2>1. {o} \ Nop = {}
    BY <1>1
  <2> QED BY <1>1, <2>1, FS_EmptySet DEF Counted
<1>2. CASE o \notin Nop
  <2>1. {o} \ Nop = {o}
    BY <1>2
  <2> QED BY <1>2, <2>1, FS_Singleton DEF Counted
<1> QED BY <1>1, <1>2

\* or a set that has lost one.
LEMMA CountedLess ==
  ASSUME NEW S \in SUBSET Operation, NEW T \in SUBSET Operation
  PROVE  Counted(S \ T) = Counted(S) - Counted(S \cap T)
<1>1. S = (S \ T) \cup (S \cap T) /\ (S \ T) \cap (S \cap T) = {}
  OBVIOUS
<1>2. Counted(S) = Counted(S \ T) + Counted(S \cap T)
  BY <1>1, CountedUnion
<1>3. Counted(S \ T) \in Nat /\ Counted(S \cap T) \in Nat
  BY CountedOK
<1> QED BY <1>2, <1>3

\* Nops do not change a count.
LEMMA CountedNop ==
  ASSUME NEW S, NEW T, S \ Nop = T \ Nop
  PROVE  Counted(S) = Counted(T)
  BY DEF Counted

\* Which operations are not counted yet depends on the clients that put them.
LEMMA UncountedSame ==
  ASSUME \A c \in Client : client'[c].pc \in {"put", "count"} <=> client[c].pc \in {"put", "count"},
         \A c \in Client : client[c].pc \in {"put", "count"} => client'[c].ops = client[c].ops
  PROVE  Uncounted' = Uncounted
<1>1. {d \in Client : client'[d].pc \in {"put", "count"}} = {d \in Client : client[d].pc \in {"put", "count"}}
  OBVIOUS
<1> QED BY <1>1 DEF Uncounted

LEMMA UncountedSet == \A o : o \in Uncounted <=>
  \E c \in Client : client[c].pc \in {"put", "count"} /\ o \in client[c].ops
  BY DEF Uncounted

LEMMA GraphCommitCounts ==
  ASSUME TypeOK, StoringApart, CountersExact, NEW c \in Client, GraphCommit(c)
  PROVE  CountersExact'
<1> DEFINE S == client[c].ops
<1>1. S \in SUBSET Operation
  BY DEF TypeOK, ClientState
<1>0. PICK given \in Given(c) :
        /\ \A o \in Operation : state'[o] = IF o \in S THEN given[o] ELSE state[o]
        /\ total' = client[c].total + Counted(S)
        /\ finished' = client[c].finished + Counted(EndedOf(c, given))
  BY GraphCommitEffect
<1> DEFINE E == EndedOf(c, given)
<1>2. /\ Others(c) /\ client'[c].pc = "idle" /\ client[c].pc = "graph" /\ c \in Storing
      /\ drift' = (drift \/ Overwriting(c))
  BY IdleAgain DEF GraphCommit, Storing
<1>3. Uncounted' = Uncounted
  BY <1>2, UncountedSame DEF Others
<1>4. \A o \in S : state[o] = "absent"
  BY <1>2 DEF StoringApart
<1>5. Stored' = Stored \cup S /\ Stored \cap S = {}
  <2>1. \A o \in S : given[o] \in OperationStates
    BY DEF Given, OperationStates
  <2> QED BY <1>0, <1>1, <1>4, <2>1 DEF Stored, OperationStates, TERMINATED_STATES
<1>6. Terminated' = Terminated \cup E /\ Terminated \cap E = {} /\ E \in SUBSET Operation
  <2>1. \A o \in S : o \in E <=> given[o] \in TERMINATED_STATES
    BY DEF Given, EndedOf, TERMINATED_STATES
  <2>2. E \subseteq S
    BY DEF EndedOf
  <2>3. \A o \in Operation : o \in Terminated' <=> o \in Terminated \cup E
    BY <1>0, <1>1, <1>5, <2>1, <2>2 DEF Terminated, Stored
  <2>4. Terminated' \subseteq Operation /\ Terminated \subseteq Stored /\ Stored \subseteq Operation
    BY DEF Terminated, Stored
  <2> QED BY <1>1, <1>5, <2>2, <2>3, <2>4
<1>7. Uncounted \cap S = {}
  BY <1>2, UncountedSet DEF StoringApart, Storing
<1>8. Stored' \ Uncounted' = (Stored \ Uncounted) \cup S /\ (Stored \ Uncounted) \cap S = {}
  BY <1>3, <1>5, <1>7
<1> HIDE DEF S, E
<1>9. Counted(Stored' \ Uncounted') = Counted(Stored \ Uncounted) + Counted(S)
  BY <1>1, <1>8, CountedUnion, StateSets
<1>10. Counted(Terminated') = Counted(Terminated) + Counted(E)
  BY <1>6, CountedUnion, StateSets
<1>11. ~ drift' => ~ drift /\ client[c].total = total /\ client[c].finished = finished
  BY <1>2 DEF Overwriting
<1> QED BY <1>0, <1>9, <1>10, <1>11 DEF CountersExact, S, E

LEMMA PutCounts ==
  ASSUME TypeOK, StoringApart, CountersExact, NEW c \in Client, NEW o \in Operation, Put(c, o)
  PROVE  CountersExact'
<1>1. /\ Others(c) /\ client'[c].pc = "put" /\ client'[c].ops = {o} /\ client[c].pc = "idle"
      /\ state' = [state EXCEPT ![o] = "pending"] /\ state[o] = "absent"
      /\ UNCHANGED <<total, finished, drift>>
  BY PutEffect, IdleOK DEF Put
<1>2. \A p : p \in Uncounted' <=>
        \E d \in Client : client'[d].pc \in {"put", "count"} /\ p \in client'[d].ops
  BY DEF Uncounted
<1>3. Uncounted' = Uncounted \cup {o}
  BY <1>1, <1>2, UncountedSet DEF Others
<1>4. Stored' = Stored \cup {o} /\ o \notin Stored
  BY <1>1 DEF Stored, TypeOK, OperationStates, TERMINATED_STATES
<1>5. Terminated' = Terminated
  BY <1>1, <1>4 DEF Terminated, TypeOK, TERMINATED_STATES, Stored
<1>6. Stored' \ Uncounted' = Stored \ Uncounted
  BY <1>3, <1>4
<1>7. Counted(Stored' \ Uncounted') = Counted(Stored \ Uncounted)
      /\ Counted(Terminated') = Counted(Terminated)
  BY <1>5, <1>6
<1> QED BY <1>1, <1>7 DEF CountersExact

LEMMA PutCommitCounts ==
  ASSUME TypeOK, StoringApart, CountersExact, NEW c \in Client, PutCommit(c)
  PROVE  CountersExact'
<1>1. /\ Others(c) /\ client'[c].pc = "idle" /\ client[c].pc = "count" /\ c \in Storing
      /\ state' = state
      /\ drift' = (drift \/ Overwriting(c) \/ client[c].ops \subseteq Nop)
      /\ total' = client[c].total + 1 /\ finished' = client[c].finished
  <2>1. client[c].finished \in Int
    BY DEF TypeOK, ClientState
  <2>2. total' = client[c].total + 1 /\ finished' = client[c].finished
    BY <2>1 DEF PutCommit, WriteCounters
  <2>3. Others(c) /\ client'[c].pc = "idle"
    BY IdleAgain DEF PutCommit
  <2>4. client[c].pc = "count" /\ c \in Storing /\ state' = state
        /\ drift' = (drift \/ Overwriting(c) \/ client[c].ops \subseteq Nop)
    BY DEF PutCommit, Storing
  <2> QED BY <2>2, <2>3, <2>4
<1>2. PICK o \in Stored : client[c].ops = {o}
  BY <1>1 DEF StoringApart
<1>3. Stored' = Stored /\ Terminated' = Terminated
  BY <1>1 DEF Stored, Terminated
<1>4. \A p : p \in Uncounted' <=>
        \E d \in Client : client'[d].pc \in {"put", "count"} /\ p \in client'[d].ops
  BY DEF Uncounted
<1>5. Uncounted' = Uncounted \ {o} /\ o \in Uncounted
  <2>1. \A d \in Client \ {c} : client[d].pc \in {"put", "count"} => o \notin client[d].ops
    BY <1>1, <1>2 DEF StoringApart, Storing
  <2> QED BY <1>1, <1>2, <1>4, <2>1, UncountedSet DEF Others
<1>6. Stored' \ Uncounted' = (Stored \ Uncounted) \cup {o} /\ (Stored \ Uncounted) \cap {o} = {}
  BY <1>2, <1>3, <1>5
<1>7. Counted(Stored' \ Uncounted') = Counted(Stored \ Uncounted) + Counted({o})
  BY <1>2, <1>6, CountedUnion, StateSets
<1>8. ~ drift' => ~ drift /\ client[c].total = total /\ client[c].finished = finished /\ o \notin Nop
  BY <1>1, <1>2 DEF Overwriting
<1>9. o \notin Nop => Counted({o}) = 1
  BY CountedOne, StateSets
<1>10. Counted(Terminated') = Counted(Terminated)
  BY <1>3
<1> QED BY <1>1, <1>7, <1>8, <1>9, <1>10 DEF CountersExact

LEMMA PatchCounts ==
  ASSUME TypeOK, StoringApart, CountersExact, NEW o \in Operation, NEW st \in OperationStates,
         Patch(o, st)
  PROVE  CountersExact'
<1>1. /\ UNCHANGED <<client, total, drift>> /\ o \in Stored
      /\ st \in Follows[state[o]] /\ state' = [state EXCEPT ![o] = st]
      /\ finished' = finished + (IF NewlyFinished(o, st) THEN 1 ELSE 0)
  BY DEF Patch
<1>2. Stored' = Stored /\ Uncounted' = Uncounted
  BY <1>1 DEF Stored, TypeOK, Uncounted
<1>3. state[o] \in OperationStates
  BY <1>1 DEF Stored
<1>4. state[o] \in TERMINATED_STATES => st = state[o]
  BY <1>1, <1>3 DEF Follows
<1>5. Terminated' = IF st \in TERMINATED_STATES THEN Terminated \cup {o} ELSE Terminated
  BY <1>1, <1>2, <1>4 DEF Terminated, TypeOK, Stored
<1>6. o \in Terminated <=> state[o] \in TERMINATED_STATES
  BY <1>1 DEF Terminated
<1>7. Counted(Terminated') = Counted(Terminated) + (IF NewlyFinished(o, st) THEN 1 ELSE 0)
  <2>0. Counted(Terminated) \in Nat
    BY CountedOK, StateSets
  <2>1. CASE NewlyFinished(o, st)
    <3>1. Terminated' = Terminated \cup {o} /\ Terminated \cap {o} = {} /\ o \notin Nop
      BY <1>5, <1>6, <2>1 DEF NewlyFinished
    <3>2. Counted(Terminated') = Counted(Terminated) + Counted({o})
      BY <3>1, CountedUnion, StateSets
    <3> QED BY <2>1, <3>1, <3>2, CountedOne
  <2>2. CASE ~ NewlyFinished(o, st)
    <3>1. Terminated' \ Nop = Terminated \ Nop
      BY <1>4, <1>5, <1>6, <2>2 DEF NewlyFinished
    <3>2. Counted(Terminated') = Counted(Terminated)
      BY <3>1, CountedNop
    <3> QED BY <2>0, <2>2, <3>2
  <2> QED BY <2>1, <2>2
<1>8. Counted(Stored' \ Uncounted') = Counted(Stored \ Uncounted)
  BY <1>2
<1> QED BY <1>1, <1>7, <1>8 DEF CountersExact

LEMMA DeleteCounts ==
  ASSUME TypeOK, StoringApart, CountersExact, NEW o \in Operation, Delete(o)
  PROVE  CountersExact'
<1>1. /\ UNCHANGED <<client, drift>> /\ o \in Stored
      /\ state' = [state EXCEPT ![o] = "deleted"]
      /\ total' = total - Counted({o})
      /\ finished' = finished - Counted({o} \cap Terminated)
      /\ \A c \in Client : client[c].pc \in {"put", "count"} => o \notin client[c].ops
  BY DEF Delete
<1>2. Stored' = Stored \ {o} /\ Terminated' = Terminated \ {o} /\ Uncounted' = Uncounted
  BY <1>1 DEF Stored, TypeOK, OperationStates, TERMINATED_STATES, Terminated, Uncounted
<1>3. o \notin Uncounted
  BY <1>1, UncountedSet
<1>4. Stored' \ Uncounted' = (Stored \ Uncounted) \ {o} /\ (Stored \ Uncounted) \cap {o} = {o}
  BY <1>1, <1>2, <1>3
<1>5. Counted(Stored' \ Uncounted') = Counted(Stored \ Uncounted) - Counted({o})
  BY <1>4, CountedLess, StateSets
<1>6. Terminated \cap {o} = {o} \cap Terminated
  OBVIOUS
<1>7. Counted(Terminated') = Counted(Terminated) - Counted({o} \cap Terminated)
  <2>1. Terminated \in SUBSET Operation /\ {o} \in SUBSET Operation
    BY StateSets
  <2>2. Counted(Terminated \ {o}) = Counted(Terminated) - Counted(Terminated \cap {o})
    BY <2>1, CountedLess
  <2> QED BY <1>2, <1>6, <2>2
<1> QED BY <1>1, <1>5, <1>7 DEF CountersExact

LEMMA ResetCounts ==
  ASSUME TypeOK, StoringApart, CountersExact, NEW c \in Client, Reset(c)
  PROVE  CountersExact'
<1> DEFINE S == client[c].due
<1>1. /\ UNCHANGED <<total, finished>> /\ S \subseteq Stored /\ client[c].pc = "write"
      /\ state' = [o \in Operation |-> IF o \in S THEN "pending" ELSE state[o]]
      /\ drift' = (drift \/ ~ S \cap Terminated \subseteq Nop)
  BY DEF Reset
<1>2. Stored' = Stored /\ Terminated' = Terminated \ S
  BY <1>1 DEF Stored, Terminated, OperationStates, TERMINATED_STATES
<1>3. Uncounted' = Uncounted
  BY <1>1, ResetEffect, UncountedSame DEF Others
<1>4. ~ drift' => ~ drift /\ Terminated' \ Nop = Terminated \ Nop
  BY <1>1, <1>2
<1>5. ~ drift' => Counted(Terminated') = Counted(Terminated)
  BY <1>4, CountedNop
<1>6. Counted(Stored' \ Uncounted') = Counted(Stored \ Uncounted)
  BY <1>2, <1>3
<1> QED BY <1>1, <1>4, <1>5, <1>6 DEF CountersExact

LEMMA CountersStep ==
  TypeOK /\ StoringApart /\ CountersExact /\ [Next]_vars => CountersExact'
<1> SUFFICES ASSUME TypeOK, StoringApart, CountersExact, [Next]_vars PROVE CountersExact'
  OBVIOUS
<1>1. ASSUME NEW c \in Client,
             \/ \E S \in SUBSET Operation : GraphRead(c, S)
             \/ PutRead(c) \/ ResetFail(c) \/ Resume(c)
             \/ \E force \in ForceFlags : ResetRead(c, force)
             \/ \E o \in Operation : Consider(c, o)
      PROVE  CountersExact'
  <2>1. UNCHANGED <<state, total, finished, drift>>
    BY <1>1 DEF GraphRead, PutRead, ResetRead, Consider, ResetFail, Resume
  <2>2. /\ Others(c)
        /\ client'[c].pc \in {"put", "count"} <=> client[c].pc \in {"put", "count"}
        /\ client[c].pc \in {"put", "count"} => client'[c].ops = client[c].ops
    <3>1. ASSUME NEW o \in Operation, Consider(c, o)
          PROVE  /\ Others(c) /\ client[c].pc \in {"listed", "expired"}
                 /\ client'[c].pc \in {"listed", "expired", "write"}
      <4>1. client[c].pc \in {"listed", "expired"}
        BY <3>1 DEF Consider
      <4> QED BY <3>1, <4>1, ConsiderEffect
    <3>2. ASSUME ResetFail(c) \/ Resume(c)
          PROVE  Others(c) /\ client[c].pc \in {"listed", "expired", "write"} /\ client'[c].pc = "idle"
      BY <3>2, IdleAgain DEF ResetFail, Resume, Leave
    <3>3. ASSUME NEW force \in ForceFlags, ResetRead(c, force)
          PROVE  Others(c) /\ client[c].pc = "idle" /\ client'[c].pc = "listed"
      BY <3>3, ResetReadEffect, IdleOK DEF ResetRead
    <3>4. ASSUME NEW S \in SUBSET Operation, GraphRead(c, S)
          PROVE  Others(c) /\ client[c].pc = "idle" /\ client'[c].pc = "graph"
      BY <3>4, GraphReadEffect, IdleOK DEF GraphRead
    <3>5. ASSUME PutRead(c)
          PROVE  Others(c) /\ client[c].pc = "put" /\ client'[c].pc = "count"
                 /\ client'[c].ops = client[c].ops
      BY <3>5, PutReadEffect DEF PutRead
    <3> QED BY <1>1, <3>1, <3>2, <3>3, <3>4, <3>5
  <2>3. Uncounted' = Uncounted
    BY <2>2, UncountedSame DEF Others
  <2>4. Stored' = Stored /\ Terminated' = Terminated
    BY <2>1 DEF Stored, Terminated
  <2> QED BY <2>1, <2>3, <2>4 DEF CountersExact
<1>2. ASSUME UNCHANGED <<client, state, total, finished, drift>> PROVE CountersExact'
  <2>1. Uncounted' = Uncounted /\ Stored' = Stored /\ Terminated' = Terminated
    BY <1>2 DEF Uncounted, Stored, Terminated
  <2> QED BY <1>2, <2>1 DEF CountersExact
<1>3. ASSUME NEW st \in ExecStates, End(st) PROVE CountersExact'
  BY <1>2, <1>3 DEF End
<1>4. CASE UNCHANGED vars
  BY <1>2, <1>4 DEF vars
<1> QED BY <1>1, <1>3, <1>4, GraphCommitCounts, PutCounts, PutCommitCounts, PatchCounts,
           DeleteCounts, ResetCounts DEF Next

\* Until a request writes stale counters back, a nop is put or an operation that
\* has ended is reset, total_operations and finished_operations are the numbers of
\* the operations that are stored and of those that have ended, in any interleaving
\* of reports, deletions and requests that store operations.
THEOREM CountersAreExact == Spec => []CountersExact
<1>1. Init => CountersExact
  <2> SUFFICES ASSUME Init PROVE CountersExact
    OBVIOUS
  <2>1. Stored = {} /\ total = 0 /\ finished = 0
    BY DEF Init, Stored, OperationStates, TERMINATED_STATES
  <2>2. Stored \ Uncounted = {} /\ Terminated = {}
    BY <2>1, StateSets
  <2>3. Counted({}) = 0
    <3>1. {} \ Nop = {}
      OBVIOUS
    <3> QED BY <3>1, FS_EmptySet DEF Counted
  <2> QED BY <2>1, <2>2, <2>3 DEF CountersExact
<1> QED BY <1>1, CountersStep, ApartHolds, TypeCorrect, PTL DEF Spec

-----------------------------------------------------------------------------
(***************************************************************************)
(* Resumes.  But for the operations that changed while it was at work      *)
(* (late), a resume still has to look at, or is about to reset, every      *)
(* operation that has failed and was not retried, and it will reset none   *)
(* that has succeeded or was retried.                                      *)
(***************************************************************************)

Failed(o) == state[o] \in {"rescheduled", "failed"}

ResetsRight(c) ==
  /\ \A o \in (client[c].ops \cup client[c].due) \ late : o \notin Retried
  /\ \A o \in client[c].due \ late : state[o] # "succeeded"
  /\ \A o \in Operation \ late : Failed(o) =>
       \/ o \in Retried \/ o \in client[c].ops
       \/ client[c].pc = "write" /\ o \in client[c].due
  /\ client[c].pc = "listed" =>
       \A o \in client[c].ops \ late : Failed(o) => o \in client[c].due

ResetsHold == \A c \in Client : ResettingBy(c) => ResetsRight(c)

\* The operations of the clients are operations.
LEMMA ClientOps ==
  ASSUME TypeOK, NEW c \in Client
  PROVE  client[c].ops \subseteq Operation /\ client[c].due \subseteq Operation
  BY DEF TypeOK, ClientState

\* A resume goes on as it was: what fails, succeeds or is retried meanwhile is late.
LEMMA ResetsKept ==
  ASSUME TypeOK, NEW c \in Client, ResetsRight(c), client'[c] = client[c],
         late \subseteq late',
         \A o \in Operation \ late' : o \in Retried <=> o \in Retried',
         \A o \in Operation \ late' : Failed(o)' => Failed(o),
         \A o \in Operation \ late' : state'[o] = "succeeded" => state[o] = "succeeded"
  PROVE  ResetsRight(c)'
<1>1. client[c].ops \subseteq Operation /\ client[c].due \subseteq Operation
  BY ClientOps
<1>2. \A o \in (client[c].ops \cup client[c].due) \ late' : o \notin Retried'
  BY <1>1 DEF ResetsRight
<1>3. \A o \in client[c].due \ late' : state'[o] # "succeeded"
  BY <1>1 DEF ResetsRight
<1>4. \A o \in Operation \ late' : Failed(o)' =>
       \/ o \in Retried' \/ o \in client[c].ops
       \/ client[c].pc = "write" /\ o \in client[c].due
  BY DEF ResetsRight
<1>5. client[c].pc = "listed" =>
       \A o \in client[c].ops \ late' : Failed(o)' => o \in client[c].due
  BY <1>1 DEF ResetsRight
<1> QED BY <1>2, <1>3, <1>4, <1>5 DEF ResetsRight

\* When nothing is stored, changed or forgotten, all the others go on.
LEMMA OthersReset ==
  ASSUME TypeOK, ResetsHold, NEW c \in Client, Others(c), state' = state,
         late' = late, ResettingBy(c)' => ResetsRight(c)'
  PROVE  ResetsHold'
<1>1. ASSUME NEW d \in Client, d # c, ResettingBy(d)' PROVE ResetsRight(d)'
  <2>1. client'[d] = client[d] /\ ResetsRight(d)
    BY <1>1 DEF Others, ResettingBy, ResetsHold
  <2>2. Retried' = Retried /\ \A o \in Operation : Failed(o)' <=> Failed(o)
    BY DEF Retried, Stored, Failed
  <2> QED BY <2>1, <2>2, ResetsKept
<1> QED BY <1>1 DEF ResetsHold

LEMMA ResetReadRight ==
  ASSUME TypeOK, ResetsHold, NEW c \in Client, NEW force \in ForceFlags, ResetRead(c, force)
  PROVE  ResetsHold'
<1>1. /\ Others(c) /\ client'[c].pc = "listed" /\ client'[c].ops = Resettable
      /\ client'[c].due = {o \in Resettable : state[o] \in FromStates(force)}
      /\ state' = state /\ late' = late
  BY ResetReadEffect DEF ResetRead
<1>2. Retried' = Retried /\ \A o \in Operation : Failed(o)' <=> Failed(o)
  BY <1>1 DEF Retried, Stored, Failed
<1>3. \A o \in Operation : Failed(o) => o \in Stored /\ state[o] \in FromStates(force)
  BY DEF Failed, Stored, FromStates, OperationStates, TERMINATED_STATES
<1>4. "succeeded" \notin FromStates(force)
  BY DEF FromStates
<1>5. Resettable \subseteq Operation
  BY StateSets DEF Resettable
<1>6. \A o \in (client'[c].ops \cup client'[c].due) \ late' : o \notin Retried'
  BY <1>1, <1>2 DEF Resettable
<1>7. \A o \in client'[c].due \ late' : state'[o] # "succeeded"
  BY <1>1, <1>4
<1>8. \A o \in Operation \ late' : Failed(o)' => o \in Retried' \/ o \in client'[c].ops
  BY <1>1, <1>2, <1>3 DEF Resettable
<1>9. \A o \in client'[c].ops \ late' : Failed(o)' => o \in client'[c].due
  BY <1>1, <1>2, <1>3, <1>5
<1>10. ResetsRight(c)'
  BY <1>6, <1>7, <1>8, <1>9 DEF ResetsRight
<1> QED BY <1>1, <1>10, OthersReset, SMTT(30)

LEMMA ConsiderRight ==
  ASSUME TypeOK, ResetsHold, NEW c \in Client, NEW o \in Operation, Consider(c, o)
  PROVE  ResetsHold'
<1>1. /\ Others(c) /\ client'[c].ops = client[c].ops \ {o}
      /\ client'[c].pc = IF Due(c, o) THEN "write" ELSE client[c].pc
      /\ client'[c].due = IF Due(c, o) THEN {o} ELSE client[c].due
  BY ConsiderEffect
<1>2. /\ state' = state /\ late' = late /\ o \in client[c].ops
      /\ client[c].pc \in {"listed", "expired"}
  BY DEF Consider
<1>3. ResetsRight(c)
  BY <1>2 DEF ResetsHold, ResettingBy
<1>4. Retried' = Retried /\ \A p \in Operation : Failed(p)' <=> Failed(p)
  BY <1>2 DEF Retried, Stored, Failed
<1>5. \A p \in (client'[c].ops \cup client'[c].due) \ late' : p \notin Retried'
  BY <1>1, <1>2, <1>3, <1>4 DEF ResetsRight
<1>6. \A p \in client'[c].due \ late' : state'[p] # "succeeded"
  <2>1. Due(c, o) => o \in late \/ state[o] # "succeeded"
    BY <1>2, <1>3 DEF Due, ResetsRight, FromStates
  <2> QED BY <1>1, <1>2, <1>3, <2>1 DEF ResetsRight
<1>7. o \notin late /\ Failed(o) => Due(c, o)
  BY <1>2, <1>3 DEF Due, ResetsRight, Failed, FromStates
<1>8. \A p \in Operation \ late' : Failed(p)' =>
        \/ p \in Retried' \/ p \in client'[c].ops
        \/ client'[c].pc = "write" /\ p \in client'[c].due
  BY <1>1, <1>2, <1>3, <1>4, <1>7 DEF ResetsRight
<1>9. client'[c].pc = "listed" =>
        \A p \in client'[c].ops \ late' : Failed(p)' => p \in client'[c].due
  <2>1. client[c].ops \subseteq Operation
    BY ClientOps
  <2> QED BY <1>1, <1>2, <1>3, <1>4, <2>1 DEF ResetsRight
<1>10. ResetsRight(c)'
  BY <1>5, <1>6, <1>8, <1>9 DEF ResetsRight
<1> QED BY <1>1, <1>2, <1>10, OthersReset

LEMMA ResetRight ==
  ASSUME TypeOK, ResetsHold, NEW c \in Client, Reset(c)
  PROVE  ResetsHold'
<1>1. /\ Others(c) /\ client'[c].pc = "expired" /\ client'[c].due = {}
      /\ client'[c].ops = client[c].ops
  BY ResetEffect
<1>2. /\ late' = late /\ client[c].pc = "write" /\ client[c].due \subseteq Stored
      /\ \A o \in Operation : state'[o] = IF o \in client[c].due THEN "pending" ELSE state[o]
  BY DEF Reset
<1>3. Stored' = Stored
  BY <1>2 DEF Stored, OperationStates
<1>4. Retried' = Retried
  BY <1>3 DEF Retried
<1>5. /\ \A o \in Operation : Failed(o)' => Failed(o) /\ o \notin client[c].due
      /\ \A o \in Operation : state'[o] = "succeeded" => state[o] = "succeeded"
  BY <1>2 DEF Failed
<1>6. ASSUME NEW d \in Client, d # c, ResettingBy(d)' PROVE ResetsRight(d)'
  <2>1. client'[d] = client[d] /\ ResetsRight(d)
    BY <1>1, <1>6 DEF Others, ResettingBy, ResetsHold
  <2> QED BY <1>2, <1>4, <1>5, <2>1, ResetsKept
<1>7. ResetsRight(c)
  BY <1>2 DEF ResetsHold, ResettingBy
<1>8. ResetsRight(c)'
  BY <1>1, <1>2, <1>4, <1>5, <1>7, ClientOps DEF ResetsRight
<1> QED BY <1>6, <1>8 DEF ResetsHold

\* A step of a request that is not a resume, or of the workflow, touches what it
\* changes.
LEMMA TouchRight ==
  ASSUME TypeOK, ResetsHold, NEW S, Touch(S),
         \A c \in Client : ResettingBy(c)' => ResettingBy(c) /\ client'[c] = client[c],
         \A o \in Operation \ S : o \in Retried <=> o \in Retried',
         \A o \in Operation \ S : Failed(o)' => Failed(o),
         \A o \in Operation \ S : state'[o] = "succeeded" => state[o] = "succeeded"
  PROVE  ResetsHold'
<1> SUFFICES ASSUME NEW c \in Client, ResettingBy(c)' PROVE ResetsRight(c)'
  BY DEF ResetsHold
<1>1. ResettingBy(c) /\ ResetsRight(c) /\ client'[c] = client[c]
  BY DEF ResetsHold
<1>2. late \subseteq late' /\ Operation \ late' \subseteq Operation \ S
  BY <1>1 DEF Touch, Resetting
<1> QED BY <1>1, <1>2, ResetsKept

LEMMA ResetsStep ==
  TypeOK /\ StoringApart /\ ResetsHold /\ [Next]_vars => ResetsHold'
<1> SUFFICES ASSUME TypeOK, StoringApart, ResetsHold, [Next]_vars PROVE ResetsHold'
  OBVIOUS
<1>1. ASSUME NEW c \in Client, (\E S \in SUBSET Operation : GraphRead(c, S)) \/ PutRead(c)
             \/ PutCommit(c)
      PROVE  ResetsHold'
  <2>1. state' = state /\ late' = late
    BY <1>1 DEF GraphRead, PutRead, PutCommit
  <2>2. Others(c) /\ client'[c].pc \in {"graph", "count", "idle"}
    BY <1>1, GraphReadEffect, PutReadEffect, IdleAgain DEF PutCommit
  <2>3. ~ ResettingBy(c)'
    BY <2>2 DEF ResettingBy
  <2> QED BY <2>1, <2>2, <2>3, OthersReset
<1>2. ASSUME NEW c \in Client, GraphCommit(c) PROVE ResetsHold'
  <2>1. /\ Others(c) /\ client'[c].pc = "idle" /\ client[c].pc = "graph" /\ Touch(client[c].ops)
        /\ \A o \in Operation : IF o \in client[c].ops THEN state'[o] \in OperationStates
                               ELSE state'[o] = state[o]
    BY <1>2, IdleAgain, GraphCommitEffect DEF GraphCommit, Given, OperationStates
  <2>2. \A o \in client[c].ops : state[o] = "absent" /\ RetryOf[o] = None
    BY <2>1 DEF StoringApart
  <2>3. client[c].ops \subseteq Operation
    BY ClientOps
  <2>4. Stored' = Stored \cup client[c].ops
    BY <2>1, <2>3 DEF Stored
  <2>5. \A o \in Operation : o \in Retried <=> o \in Retried'
    BY <2>2, <2>4 DEF Retried
  <2>6. /\ \A o \in Operation \ client[c].ops : Failed(o)' => Failed(o)
        /\ \A o \in Operation \ client[c].ops : state'[o] = "succeeded" => state[o] = "succeeded"
    BY <2>1 DEF Failed
  <2>7. \A d \in Client : ResettingBy(d)' => ResettingBy(d) /\ client'[d] = client[d]
    BY <2>1 DEF Others, ResettingBy
  <2> QED BY <2>1, <2>5, <2>6, <2>7, TouchRight
<1>3. ASSUME NEW c \in Client, NEW o \in Operation, Put(c, o) PROVE ResetsHold'
  <2>1. /\ Others(c) /\ client'[c].pc = "put" /\ Touch({RetryOf[o]})
        /\ state' = [state EXCEPT ![o] = "pending"] /\ state[o] = "absent"
    BY <1>3, PutEffect DEF Put
  <2>2. Stored' = Stored \cup {o}
    BY <2>1 DEF Stored, TypeOK, OperationStates
  <2>3. Retried' = Retried \cup {RetryOf[o]}
    BY <2>2 DEF Retried
  <2>4. /\ \A p \in Operation : Failed(p)' => Failed(p)
        /\ \A p \in Operation : state'[p] = "succeeded" => state[p] = "succeeded"
    BY <2>1 DEF Failed, TypeOK
  <2>5. \A d \in Client : ResettingBy(d)' => ResettingBy(d) /\ client'[d] = client[d]
    BY <2>1 DEF ResettingBy, Others
  <2> QED BY <2>1, <2>3, <2>4, <2>5, TouchRight
<1>4. ASSUME NEW o \in Operation, NEW st \in OperationStates, Patch(o, st) PROVE ResetsHold'
  <2>1. /\ client' = client /\ Touch({o}) /\ o \in Stored
        /\ state' = [state EXCEPT ![o] = st]
    BY <1>4 DEF Patch
  <2>2. Stored' = Stored
    BY <2>1 DEF Stored, TypeOK
  <2>3. Retried' = Retried
    BY <2>2 DEF Retried
  <2>4. \A p \in Operation \ {o} : state'[p] = state[p]
    BY <2>1 DEF TypeOK
  <2> QED BY <2>1, <2>3, <2>4, TouchRight DEF Failed, ResettingBy
<1>5. ASSUME NEW o \in Operation, Delete(o) PROVE ResetsHold'
  <2>1. /\ client' = client /\ Touch({o, RetryOf[o]}) /\ o \in Stored
        /\ state' = [state EXCEPT ![o] = "deleted"]
    BY <1>5 DEF Delete
  <2>2. Stored' = Stored \ {o}
    BY <2>1 DEF Stored, TypeOK, OperationStates, TERMINATED_STATES
  <2>3. \A p \in Operation \ {o, RetryOf[o]} : p \in Retried <=> p \in Retried'
    BY <2>2 DEF Retried
  <2>4. \A p \in Operation \ {o} : state'[p] = state[p]
    BY <2>1 DEF TypeOK
  <2> QED BY <2>1, <2>3, <2>4, TouchRight DEF Failed, ResettingBy
<1>6. ASSUME NEW c \in Client, ResetFail(c) \/ Resume(c) PROVE ResetsHold'
  <2>1. state' = state /\ Leave(c)
    BY <1>6 DEF ResetFail, Resume
  <2>2. Others(c) /\ client'[c].pc = "idle"
    BY <2>1, IdleAgain DEF Leave
  <2>3. ~ ResettingBy(c)'
    BY <2>2 DEF ResettingBy
  <2>4. CASE \E d \in Client \ {c} : ResettingBy(d)
    BY <2>1, <2>2, <2>3, <2>4, OthersReset DEF Leave
  <2>5. CASE ~ \E d \in Client \ {c} : ResettingBy(d)
    BY <2>2, <2>3, <2>5 DEF ResetsHold, ResettingBy, Others
  <2> QED BY <2>4, <2>5
<1>7. ASSUME UNCHANGED <<client, state, late>> PROVE ResetsHold'
  BY <1>7 DEF ResetsHold, ResettingBy, ResetsRight, Failed, Retried, Stored
<1>8. ASSUME NEW st \in ExecStates, End(st) PROVE ResetsHold'
  BY <1>7, <1>8 DEF End
<1>9. CASE UNCHANGED vars
  BY <1>7, <1>9 DEF vars
<1> QED BY <1>1, <1>2, <1>3, <1>4, <1>5, <1>6, <1>8, <1>9, ResetReadRight, ConsiderRight,
           ResetRight DEF Next

LEMMA ResetsRightHolds == Spec => []ResetsHold
<1>1. Init => ResetsHold
  <2> SUFFICES ASSUME Init PROVE ResetsHold
    OBVIOUS
  <2>1. \A c \in Client : client[c].pc = "idle"
    BY IdleOK DEF Init
  <2> QED BY <2>1, SMTT(30) DEF ResetsHold, ResettingBy
<1> QED BY <1>1, ResetsStep, ApartHolds, TypeCorrect, PTL DEF Spec

\* An operation that has ended changes its state only by being deleted, or reset.
LEMMA EndedStays ==
  ASSUME TypeOK, StoringApart, Next, NEW o \in Terminated
  PROVE  \/ state'[o] \in {state[o], "deleted"}
         \/ \E c \in Client : Reset(c) /\ o \in client[c].due
<1>1. o \in Operation /\ state[o] \in TERMINATED_STATES /\ state[o] # "absent"
  BY StateSets DEF Terminated, TERMINATED_STATES
<1>2. ASSUME NEW c \in Client, GraphCommit(c) PROVE state'[o] = state[o]
  <2>1. o \notin client[c].ops
    BY <1>1, <1>2 DEF GraphCommit, StoringApart
  <2> QED BY <1>1, <1>2, <2>1, GraphCommitEffect
<1>3. ASSUME NEW c \in Client, NEW p \in Operation, Put(c, p) PROVE state'[o] = state[o]
  BY <1>1, <1>3 DEF Put, TypeOK
<1>4. ASSUME NEW c \in Client, Reset(c), o \notin client[c].due PROVE state'[o] = state[o]
  BY <1>1, <1>4 DEF Reset
<1>5. ASSUME NEW p \in Operation, NEW st \in OperationStates, Patch(p, st)
      PROVE  state'[o] = state[o]
  <2>1. CASE p = o
    BY <1>1, <1>5, <2>1 DEF Patch, TypeOK, Follows, OperationStates
  <2>2. CASE p # o
    BY <1>1, <1>5, <2>2 DEF Patch, TypeOK
  <2> QED BY <2>1, <2>2
<1>6. ASSUME NEW p \in Operation, Delete(p) PROVE state'[o] \in {state[o], "deleted"}
  BY <1>1, <1>6 DEF Delete, TypeOK
<1>7. state' = state => state'[o] = state[o]
  OBVIOUS
<1> QED BY <1>2, <1>3, <1>4, <1>5, <1>6, <1>7, ZenonT(40)
        DEF Next, GraphRead, PutRead, PutCommit, ResetRead, Consider, ResetFail, Resume, End

\* A resume, forced or not, does not run an operation again that had succeeded
\* when it began, however many resumes and reports there are at the same time.
THEOREM SucceededNotRerun == Spec => SucceededStays
<1>1. ASSUME TypeOK, StoringApart, ResetsHold, [Next]_vars
      PROVE  [\A o \in Operation \ late :
                state[o] = "succeeded" => state'[o] \in {"succeeded", "deleted"}]_vars
  <2> SUFFICES ASSUME Next, NEW o \in Operation \ late, state[o] = "succeeded"
               PROVE  state'[o] \in {"succeeded", "deleted"}
    BY <1>1
  <2>1. o \in Terminated
    BY DEF Terminated, Stored, OperationStates, TERMINATED_STATES
  <2>2. ASSUME NEW c \in Client, Reset(c), o \in client[c].due PROVE FALSE
    BY <1>1, <2>2 DEF Reset, ResetsHold, ResettingBy, ResetsRight
  <2> QED BY <1>1, <2>1, <2>2, EndedStays
<1> QED BY <1>1, TypeCorrect, ApartHolds, ResetsRightHolds, PTL DEF Spec, SucceededStays

\* An operation that has ended and was retried is not reset.
THEOREM RetriedNotReset == Spec => RetriedStays
<1>1. ASSUME TypeOK, StoringApart, ResetsHold, [Next]_vars
      PROVE  [\A o \in Retried \ late :
                o \in Terminated => state'[o] \in {state[o], "deleted"}]_vars
  <2> SUFFICES ASSUME Next, NEW o \in Retried \ late, o \in Terminated
               PROVE  state'[o] \in {state[o], "deleted"}
    BY <1>1
  <2>1. ASSUME NEW c \in Client, Reset(c), o \in client[c].due PROVE FALSE
    BY <1>1, <2>1 DEF Reset, ResetsHold, ResettingBy, ResetsRight
  <2> QED BY <1>1, <2>1, EndedStays
<1> QED BY <1>1, TypeCorrect, ApartHolds, ResetsRightHolds, PTL DEF Spec, RetriedStays

\* When a resume makes the execution active again, every operation that has failed
\* was retried by another one, but for the ones that changed meanwhile.
THEOREM FailedRetried == Spec => FailedAreRetried
<1>1. ASSUME TypeOK, ResetsHold, [Next]_vars
      PROVE  [\A o \in Operation \ late :
                /\ exec # "started" /\ exec' = "started"
                /\ state[o] \in {"rescheduled", "failed"}
                => o \in Retried]_vars
  <2> SUFFICES ASSUME Next, NEW o \in Operation \ late, exec # "started", exec' = "started",
                      Failed(o)
               PROVE  o \in Retried
    BY <1>1 DEF Failed
  <2>1. PICK c \in Client : Resume(c)
    BY DEF Next, GraphRead, GraphCommit, Put, PutRead, PutCommit, ResetRead, Consider, Reset,
           ResetFail, Patch, Delete, End
  <2>2. client[c].pc \in {"listed", "expired"} /\ client[c].ops = {}
    BY <2>1 DEF Resume
  <2> QED BY <1>1, <2>2 DEF ResetsHold, ResettingBy, ResetsRight
<1> QED BY <1>1, TypeCorrect, ResetsRightHolds, PTL DEF Spec, FailedAreRetried
=============================================================================
