------------------------ MODULE MCExecutionScheduler ------------------------
(***************************************************************************)
(* Small instances of ExecutionScheduler.                                  *)
(***************************************************************************)
EXTENDS ExecutionScheduler

\* With the second rule a row that is read again has no next occurrence.
MCRules == {{1, 3}, {1}}
=============================================================================
