--------------------------- MODULE MCTasksGraphs ---------------------------
(***************************************************************************)
(* A small instance of TasksGraphs: operation "r" retries "a", and "n" is  *)
(* a nop.                                                                  *)
(***************************************************************************)
EXTENDS TasksGraphs, TLC

MCRetryOf == [o \in Operation |-> IF o = "r" THEN "a" ELSE None]
Symmetry == Permutations(Client)

\* Once the counters have drifted no guard and no property reads them: states
\* that differ only in them behave alike.
View ==
  IF drift
    THEN <<exec, state, 0, 0, resumes, drift, late,
           [c \in Client |-> [client[c] EXCEPT !.total = 0, !.finished = 0]]>>
    ELSE <<exec, state, total, finished, resumes, drift, late, client>>
=============================================================================
