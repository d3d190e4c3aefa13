---------------------------- MODULE Maintenance ----------------------------
(***************************************************************************)
(* Maintenance mode (maintenance.py, rest/resources_v2_1/                  *)
(* maintenance_mode.py): it is activated once nothing runs any more, and   *)
(* until then, or when it is active, requests are refused.  Which of them  *)
(* is in the guards of the requests (Admitted, PostAdmitted and Receive).  *)
(***************************************************************************)
EXTENDS Executions

\* POST /maintenance/activate: the mode depends on what runs,
MaintenanceRead(h) ==
  /\ handler[h] = Idle
  /\ maintenance = "off"
  /\ requests < MaxRequests /\ Work < MaxWork
  /\ requests' = requests + 1
  /\ handler' = [handler EXCEPT ![h] =
                   [Idle EXCEPT !.pc = "maintain", !.seen = RunningExecutions]]
  /\ UNCHANGED <<status, token, concurrency, maintenance, mq, run, kills,
                 crashes, bypassed, overtaken, lost>>

\* and is stored after that.
MaintenanceStore(h) ==
  /\ handler[h].pc = "maintain"
  /\ maintenance' = IF handler[h].seen = {} THEN "activated" ELSE "activating"
  /\ handler' = [handler EXCEPT ![h] = Idle]
  /\ UNCHANGED <<status, token, concurrency, mq, run, kills, requests,
                 crashes, bypassed, overtaken, lost>>

\* maintenance_mode_handler, before any request (a GET will do).
MaintenanceActivated ==
  /\ \E h \in Handler : handler[h] = Idle
  /\ maintenance = "activating"
  /\ RunningExecutions = {}
  /\ maintenance' = "activated"
  /\ UNCHANGED <<status, token, concurrency, handler, mq, run, kills, requests,
                 crashes, bypassed, overtaken, lost>>

\* POST /maintenance/deactivate: what was queued is started.
MaintenanceDeactivate(h) ==
  /\ handler[h] = Idle
  /\ maintenance # "off"
  /\ maintenance' = "off"
  /\ handler' = [handler EXCEPT ![h] = [Idle EXCEPT !.pc = "list"]]
  /\ UNCHANGED <<status, token, concurrency, mq, run, kills, requests,
                 crashes, bypassed, overtaken, lost>>

\* A process that does not bypass maintenance mode is refused when it reports,
\* and ends: its execution stays as it is.
RunRefused(t) ==
  /\ t \in run /\ ~Waiting(t)
  /\ maintenance = "activated"
  /\ run' = run \ {t}
  /\ lost' = lost \cup {t.exec}
  /\ UNCHANGED <<status, token, concurrency, maintenance, handler, mq, kills,
                 requests, crashes, bypassed, overtaken>>

MaintenanceStep(h) ==
  MaintenanceRead(h) \/ MaintenanceStore(h) \/ MaintenanceDeactivate(h)
=============================================================================
