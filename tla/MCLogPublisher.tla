--------------------------- MODULE MCLogPublisher ---------------------------
(***************************************************************************)
(* Messages of every kind, for two executions.                             *)
(***************************************************************************)
EXTENDS LogPublisher

MCExecOf ==
  [m \in Message |-> IF m \in {"raises", "unstorable"} THEN "e2" ELSE "e1"]
MCKind == [m \in Message |-> IF m \in {"ok1", "ok2"} THEN "ok" ELSE m]
=============================================================================
