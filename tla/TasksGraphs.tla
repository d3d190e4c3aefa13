----------------------------- MODULE TasksGraphs -----------------------------
(***************************************************************************)
(* The stored operations of one workflow execution and its counters        *)
(* total_operations and finished_operations: the workflow stores tasks     *)
(* graphs and retries, the workflow and the agents report operation states *)
(* (rest/resources_v3_1/operations.py), and resuming the execution resets  *)
(* the operations that have to run again (resource_manager.py).            *)
(*                                                                         *)
(* A report locks the operation and counts it in SQL, in one step.         *)
(* Storing operations adds to counters read before, and writes both of     *)
(* them back, so that what is counted in between is lost.                  *)
(***************************************************************************)
EXTENDS Integers, FiniteSets

CONSTANTS
  Operation,  \* operations that may be stored
  None,       \* no operation
  Nop,        \* operations of type NOPLocalWorkflowTask
  RetryOf,    \* the operation each one retries (parameters.retried_task), or None
  Client,     \* requests being handled at the same time
  ForceFlags, \* the values of the force flag of resume requests
  MaxResumes  \* bound: resume requests

ASSUME OperationAssumption ==
  /\ IsFiniteSet(Operation)
  /\ None \notin Operation
  /\ Nop \subseteq Operation
  /\ RetryOf \in [Operation -> Operation \cup {None}]
  /\ ForceFlags \subseteq BOOLEAN
  /\ MaxResumes \in Nat

\* "started" stands for sending, sent and started, which nothing here tells
\* apart.
TERMINATED_STATES == {"rescheduled", "failed", "succeeded"}
OperationStates == {"pending", "started"} \cup TERMINATED_STATES

\* The states an operation may be reported in after each one; a report that is
\* sent again finds what it reported.
Follows ==
  [s \in OperationStates |->
     IF s \in TERMINATED_STATES THEN {s} ELSE {"started"} \cup TERMINATED_STATES]

VARIABLES
  exec,      \* status of the execution
  state,     \* operations.state, "absent" before it is stored, "deleted" after
  total,     \* executions.total_operations
  finished,  \* executions.finished_operations
  client,    \* what each request is doing
  resumes,   \* resume requests so far (bounded)
  drift,     \* history: a step that leaves the counters off has been taken
  late       \* history: operations that changed while a resume was resetting

vars == <<exec, state, total, finished, client, resumes, drift, late>>

ExecStates == {"started", "cancelled", "failed"}

\* `ops' are the operations to be stored, or those a resume has not looked at
\* yet; `total' and `finished' are the counters as they were read; `due' are the
\* operations that the states in the session say are to be reset.
ClientState ==
  [pc : {"idle", "graph", "put", "count", "listed", "expired", "write"},
   ops : SUBSET Operation, due : SUBSET Operation,
   total : Int, finished : Int, force : BOOLEAN]

Idle == [pc |-> "idle", ops |-> {}, due |-> {}, total |-> 0, finished |-> 0,
         force |-> FALSE]

Stored == {o \in Operation : state[o] \in OperationStates}
Terminated == {o \in Stored : state[o] \in TERMINATED_STATES}

\* Operations that count: is_nop ones do not.
Counted(S) == Cardinality(S \ Nop)

\* Requests of the execution are accepted while it is active; a cancelled one
\* may report on the operations that are still running
\* (_is_valid_cancelled_execution).
Accepted == exec = "started" \/ (exec = "cancelled" /\ Stored # Terminated)
--------------------------------------------------------------------------
(***************************************************************************)
(* Storing operations.                                                     *)
(***************************************************************************)

\* POST /tasks_graphs with its operations: create_tasks_graph reads the
\* counters,
GraphRead(c, S) ==
  /\ client[c] = Idle /\ exec = "started"
  /\ S # {} /\ \A o \in S : state[o] = "absent"
  /\ \A o \in S : RetryOf[o] = None /\ \A d \in Client : o \notin client[d].ops
  /\ client' = [client EXCEPT ![c] = [Idle EXCEPT !.pc = "graph", !.ops = S,
                                       !.total = total, !.finished = finished]]
  /\ UNCHANGED <<exec, state, total, finished, resumes, drift, late>>

\* (mutant) finished_operations is left NULL
WriteCountersUnset(c, added, ended) ==
  /\ total' = client[c].total + added
  /\ finished' = None

\* Client c writes the counters it has read back, with `added' operations more of
\* which `ended' have ended.
WriteCounters(c, added, ended) ==
  /\ total' = client[c].total + added
  /\ finished' = client[c].finished + ended

\* What was counted since client c has read the counters will be lost.
Overwriting(c) == client[c].total # total \/ client[c].finished # finished

\* A resume request is resetting operations.
ResettingBy(c) == client[c].pc \in {"listed", "expired", "write"}
Resetting == \E c \in Client : ResettingBy(c)

\* Operations S change while a resume request is at work on them.
Touch(S) == late' = IF Resetting THEN late \cup (S \cap Operation) ELSE late

\* and stores the operations with the sum, in the states that the request gives,
\* pending unless it says that they have ended.
GraphCommit(c) ==
  LET S == client[c].ops IN
  /\ client[c].pc = "graph"
  /\ \E given \in [S -> {"pending"} \cup TERMINATED_STATES] :
       /\ state' = [o \in Operation |-> IF o \in S THEN given[o] ELSE state[o]]
       /\ WriteCounters(c, Counted(S), Counted({o \in S : given[o] # "pending"}))
  /\ drift' = (drift \/ Overwriting(c))
  /\ client' = [client EXCEPT ![c] = Idle]
  /\ Touch(S)
  /\ UNCHANGED <<exec, resumes>>

\* PUT /operations/<id> stores an operation added to a graph later, as a retry
\* is: create_operation commits the operation first,
Put(c, o) ==
  /\ client[c] = Idle /\ exec = "started"
  /\ state[o] = "absent"
  /\ \A d \in Client : o \notin client[d].ops
  /\ RetryOf[o] # None => /\ RetryOf[o] \in Stored
                          /\ state[RetryOf[o]] \in {"rescheduled", "failed"}
  /\ state' = [state EXCEPT ![o] = "pending"]
  /\ client' = [client EXCEPT ![c] = [Idle EXCEPT !.pc = "put", !.ops = {o}]]
  /\ Touch({RetryOf[o]})
  /\ UNCHANGED <<exec, total, finished, resumes, drift>>

\* reads the counters then,
PutRead(c) ==
  /\ client[c].pc = "put"
  /\ client' = [client EXCEPT ![c].pc = "count", ![c].total = total,
                              ![c].finished = finished]
  /\ UNCHANGED <<exec, state, total, finished, resumes, drift, late>>

\* and counts it, whatever its type.
PutCommit(c) ==
  /\ client[c].pc = "count"
  /\ WriteCounters(c, 1, 0)
  /\ drift' = (drift \/ Overwriting(c) \/ client[c].ops \subseteq Nop)
  /\ client' = [client EXCEPT ![c] = Idle]
  /\ UNCHANGED <<exec, state, resumes, late>>

--------------------------------------------------------------------------
(***************************************************************************)
(* Reports, and removal of operations.                                     *)
(***************************************************************************)

\* (mutant) a repeated report is counted again
NewlyFinishedAgain(o, st) == o \notin Nop /\ st \in TERMINATED_STATES

\* The report of `st' finishes operation o: it had not been finished before.
NewlyFinished(o, st) ==
  /\ o \notin Nop
  /\ state[o] \notin TERMINATED_STATES
  /\ st \in TERMINATED_STATES

\* PATCH /operations/<id>
Patch(o, st) ==
  /\ Accepted /\ o \in Stored
  /\ st \in Follows[state[o]]
  /\ state' = [state EXCEPT ![o] = st]
  /\ finished' = finished + (IF NewlyFinished(o, st) THEN 1 ELSE 0)
  /\ Touch({o})
  /\ UNCHANGED <<exec, total, client, resumes, drift>>

\* DELETE /operations/<id>
Delete(o) ==
  /\ exec = "started" /\ o \in Stored
  /\ \A c \in Client : client[c].pc \in {"graph", "put", "count"}
                       => o \notin client[c].ops
  /\ state' = [state EXCEPT ![o] = "deleted"]
  /\ total' = total - Counted({o})
  /\ finished' = finished - Counted({o} \cap Terminated)
  /\ Touch({o, RetryOf[o]})
  /\ UNCHANGED <<exec, client, resumes, drift>>

--------------------------------------------------------------------------
(***************************************************************************)
(* The execution ends before all of its operations have, and is resumed.   *)
(***************************************************************************)
End(st) ==
  /\ exec = "started" /\ st # "started"
  /\ exec' = st
  /\ UNCHANGED <<state, total, finished, client, resumes, drift, late>>

\* Operations that another stored operation retries.
Retried == {RetryOf[o] : o \in Stored}

\* (mutants) no state but failed; succeeded too
FromStatesFailed(force) ==
  {"failed"} \cup (IF force THEN {"started"} ELSE {})
FromStatesAll(force) ==
  TERMINATED_STATES \cup (IF force THEN {"started"} ELSE {})

\* States from which an operation is reset.
FromStates(force) ==
  {"rescheduled", "failed"} \cup (IF force THEN {"started"} ELSE {})

\* (mutant) operations that were retried are run again too
ResettableRetried == Stored

\* What reset_operations goes through.
Resettable == Stored \ Retried

\* POST /executions/<id> resume and force-resume: reset_operations lists the
\* operations,
ResetRead(c, force) ==
  /\ client[c] = Idle
  /\ exec \in {"cancelled", "failed"}
  /\ resumes < MaxResumes
  /\ resumes' = resumes + 1
  /\ client' = [client EXCEPT ![c] =
       [Idle EXCEPT !.pc = "listed", !.ops = Resettable, !.force = force,
          !.due = {o \in Resettable : state[o] \in FromStates(force)}]]
  /\ UNCHANGED <<exec, state, total, finished, drift, late>>

\* looks at them one after the other, in the states the list gave or, once a
\* commit has expired them, in those it reads again,
Consider(c, o) ==
  LET due == IF client[c].pc = "listed" THEN o \in client[c].due
             ELSE state[o] \in FromStates(client[c].force) IN
  /\ client[c].pc \in {"listed", "expired"} /\ o \in client[c].ops
  /\ client[c].pc = "expired" => o \in Stored
  /\ client' = [client EXCEPT ![c].ops = @ \ {o},
                              ![c].pc = IF due THEN "write" ELSE @,
                              ![c].due = IF due THEN {o} ELSE @]
  /\ UNCHANGED <<exec, state, total, finished, resumes, drift, late>>

\* and writes each one that is due by a commit of its own; finished_operations
\* stays.
Reset(c) ==
  LET S == client[c].due IN
  /\ client[c].pc = "write" /\ S \subseteq Stored
  /\ state' = [o \in Operation |-> IF o \in S THEN "pending" ELSE state[o]]
  /\ drift' = (drift \/ ~ S \cap Terminated \subseteq Nop)
  /\ client' = [client EXCEPT ![c].pc = "expired", ![c].due = {}]
  /\ UNCHANGED <<exec, total, finished, resumes, late>>

\* A resume request leaves; with the last one the history ends.
Leave(c) ==
  /\ client' = [client EXCEPT ![c] = Idle]
  /\ late' = IF \E d \in Client \ {c} : ResettingBy(d) THEN late ELSE {}

\* An operation that was deleted fails the request.
ResetFail(c) ==
  /\ \/ client[c].pc = "expired" /\ ~ client[c].ops \subseteq Stored
     \/ client[c].pc = "write" /\ ~ client[c].due \subseteq Stored
  /\ Leave(c)
  /\ UNCHANGED <<exec, state, total, finished, resumes, drift>>

\* resume_execution makes the execution active again.
Resume(c) ==
  /\ client[c].pc \in {"listed", "expired"} /\ client[c].ops = {}
  /\ exec' = "started"
  /\ Leave(c)
  /\ UNCHANGED <<state, total, finished, resumes, drift>>

--------------------------------------------------------------------------
Init ==
  /\ exec = "started"
  /\ state = [o \in Operation |-> "absent"]
  /\ total = 0 /\ finished = 0
  /\ client = [c \in Client |-> Idle]
  /\ resumes = 0
  /\ drift = FALSE /\ late = {}

Next ==
  \/ \E c \in Client :
       \/ \E S \in SUBSET Operation : GraphRead(c, S)
       \/ GraphCommit(c)
       \/ \E o \in Operation : Put(c, o)
       \/ PutRead(c) \/ PutCommit(c)
       \/ \E force \in ForceFlags : ResetRead(c, force)
       \/ \E o \in Operation : Consider(c, o)
       \/ Reset(c) \/ ResetFail(c) \/ Resume(c)
  \/ \E o \in Operation : \/ \E st \in OperationStates : Patch(o, st)
                          \/ Delete(o)
  \/ \E st \in ExecStates : End(st)

Spec == Init /\ [][Next]_vars
--------------------------------------------------------------------------
\* The variables have their types.
TypeOK ==
  /\ exec \in ExecStates
  /\ state \in [Operation -> OperationStates \cup {"absent", "deleted"}]
  /\ total \in Int /\ finished \in Int
  /\ client \in [Client -> ClientState]
  /\ resumes \in Nat
  /\ drift \in BOOLEAN
  /\ late \subseteq Operation

\* Operations stored by a request that has not counted them yet.
Uncounted ==
  UNION {client[c].ops : c \in {d \in Client : client[d].pc \in {"put", "count"}}}

\* The counters say how many operations there are and how many of them have
\* ended, until a request writes stale counters back, a retry is a nop or an
\* operation that has ended is reset.
CountersExact ==
  ~ drift =>
    /\ total = Counted(Stored \ Uncounted)
    /\ finished = Counted(Terminated)

\* An operation that has succeeded is not run again by a resume, unless its
\* report came while the resume was at work (with force).
SucceededStays ==
  [][\A o \in Operation \ late :
       state[o] = "succeeded" => state'[o] \in {"succeeded", "deleted"}]_vars

\* "All operations that were failed are going to be retried": when the
\* execution is resumed, an operation that has failed has been retried by
\* another one, or was touched while the resume was at work.
FailedAreRetried ==
  [][\A o \in Operation \ late :
       /\ exec # "started" /\ exec' = "started"
       /\ state[o] \in {"rescheduled", "failed"}
       => o \in Retried]_vars

\* "Operations that were retried by another operation, will not be reset",
\* unless the retry was stored while the resume was at work.
RetriedStays ==
  [][\A o \in Retried \ late :
       o \in Terminated => state'[o] \in {state[o], "deleted"}]_vars
=============================================================================
