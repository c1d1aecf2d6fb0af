------------------------------- MODULE TeaLoop -------------------------------
(***************************************************************************)
(* What the effect loop promises an Elm program, without slots, frames,    *)
(* pipes or polls: a bag of tasks is in flight; some task, any task, runs  *)
(* as Runtime.runTask says and yields a message for update or is dropped;  *)
(* update's commands join the bag; the loop stops when the bag is empty or *)
(* a task has quit.  Runtime.drive is the behaviour that always picks the  *)
(* head of the command list.                                               *)
(***************************************************************************)
EXTENDS Naturals, Sequences

CONSTANTS
    Task, Model, Program,
    Update(_, _),
    Outcomes(_)         \* the [kind, val] results runTask may give a task

VARIABLES model, inflight, quit, status

teaVars == <<model, inflight, quit, status>>

Times(cmd, t) == LET f[n \in 0 .. Len(cmd)] ==
                       IF n = 0 THEN 0 ELSE f[n - 1] + (IF cmd[n] = t THEN 1 ELSE 0)
                 IN  f[Len(cmd)]

Total(bag, cmd) == [t \in Task |-> bag[t] + Times(cmd, t)]
Without(t)      == [inflight EXCEPT ![t] = @ - 1]
Empty           == \A t \in Task : inflight[t] = 0

Init ==
    /\ \E p \in Program :
          model = p.model /\ inflight = Total([t \in Task |-> 0], p.cmd)
    /\ quit = FALSE
    /\ status = "running"

\* A task succeeds: its value is the message.
Deliver(t) ==
    /\ status = "running"
    /\ inflight[t] > 0
    /\ \E o \in Outcomes(t) :
          LET pair == Update(o.val, model) IN
          /\ o.kind = "ok"
          /\ model' = pair.model
          /\ inflight' = Total(Without(t), pair.cmd)
    /\ UNCHANGED <<quit, status>>

\* A task fails, or is no task: nothing comes of it.
Drop(t) ==
    /\ status = "running"
    /\ inflight[t] > 0
    /\ \E o \in Outcomes(t) : o.kind \in {"err", "dropped"}
    /\ inflight' = Without(t)
    /\ UNCHANGED <<model, quit, status>>

Quit(t) ==
    /\ status = "running"
    /\ inflight[t] > 0
    /\ \E o \in Outcomes(t) : o.kind = "quit"
    /\ inflight' = Without(t)
    /\ quit' = TRUE
    /\ UNCHANGED <<model, status>>

Stop ==
    /\ status = "running"
    /\ quit \/ Empty
    /\ status' = "done"
    /\ UNCHANGED <<model, inflight, quit>>

\* A fixed table overflowed, or an effect could not be started.
Abort ==
    /\ status = "running"
    /\ status' = "aborted"
    /\ UNCHANGED <<model, inflight, quit>>

Next ==
    \/ \E t \in Task : Deliver(t) \/ Drop(t) \/ Quit(t)
    \/ Stop \/ Abort

Spec == Init /\ [][Next]_teaVars
==============================================================================
