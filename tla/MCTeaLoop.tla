------------------------------ MODULE MCTeaLoop ------------------------------
(***************************************************************************)
(* EffectLoop as an implementation of TeaLoop: the tasks in flight are the *)
(* ones the active evaluations were spawned with, and what an evaluation   *)
(* yields is what Runtime.runTask says of that task.                       *)
(***************************************************************************)
EXTENDS MCEffectLoop

Runtime == INSTANCE RunTask

Tea == INSTANCE TeaLoop WITH
    Outcomes <- Runtime!runTask,
    inflight <- [t \in Task |-> Cardinality({i \in Slot : evals[i].active /\ evals[i].root = t})],
    status   <- CASE outcome = "running" -> "running"
                  [] outcome \in {"done", "abandoned"} -> "done"
                  [] OTHER -> "aborted"

\* The loop with its frames, suspensions and tables is a TeaLoop: update is
\* called only with what runTask may give, one task at a time, and the loop
\* stops only with nothing in flight or after a quit.
RefinesTeaLoop == Tea!Spec
==============================================================================
