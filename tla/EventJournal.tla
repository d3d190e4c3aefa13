---------------------------- MODULE EventJournal ----------------------------
(***************************************************************************)
(* What the manager promises of the logs and events that workflows and     *)
(* agents send: a message is taken off the queue only when it has been     *)
(* recorded, when it is of no use to the journal, or when the execution it *)
(* belongs to was found missing.  It may be recorded more than once.       *)
(***************************************************************************)
EXTENDS Naturals

CONSTANTS
  Message,    \* logs and events
  Execution,
  ExecOf,     \* the execution each of them belongs to
  Unwanted    \* messages that are not for the journal, or are malformed

VARIABLES
  exists,   \* executions that exist
  waiting,  \* messages sent and not yet taken off the queue
  rows,     \* how often each one has been recorded
  orphans   \* messages whose execution was found missing

journal == <<exists, waiting, rows, orphans>>

Init ==
  /\ exists \subseteq Execution
  /\ waiting = {}
  /\ rows = [m \in Message |-> 0]
  /\ orphans = {}

Send(m) ==
  /\ waiting' = waiting \cup {m}
  /\ UNCHANGED <<exists, rows, orphans>>

\* Executions come and go, and messages are found to have none.
Look ==
  /\ exists' \subseteq Execution /\ orphans \subseteq orphans'
  /\ \A m \in orphans' \ orphans : m \in waiting /\ ExecOf[m] \notin exists'
  /\ UNCHANGED <<waiting, rows>>

Record ==
  /\ \A m \in Message :
       rows'[m] # rows[m] => rows'[m] > rows[m] /\ m \in waiting
  /\ UNCHANGED <<exists, waiting, orphans>>

Settle(m) ==
  /\ m \in waiting
  /\ rows[m] > 0 \/ m \in Unwanted \cup orphans
  /\ waiting' = waiting \ {m}
  /\ UNCHANGED <<exists, rows, orphans>>

Next ==
  \/ \E m \in Message : Send(m) \/ Settle(m)
  \/ Look \/ Record

Spec == Init /\ [][Next]_journal
=============================================================================
