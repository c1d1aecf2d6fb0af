------------------------------- MODULE RunTask -------------------------------
(***************************************************************************)
(* Runtime.runTask of elm-compiler/src/Runtime.elm: what a task yields when *)
(* it is run by recursion on the Task type, for every answer its effects   *)
(* may get.  The host's frame machine has to agree with it.                *)
(***************************************************************************)
EXTENDS Integers, Sequences

CONSTANTS Apply(_, _), Code, MAX_OUT, MAX_TIME, Size

Ok(v)  == [kind |-> "ok", val |-> v]
Err(e) == [kind |-> "err", val |-> e]

\* The answers of the leaf effects.
LeafValues(t) ==
    CASE t.tag = "sync" -> t.vals
      [] t.tag = "now" -> {<<n>> : n \in 0 .. MAX_TIME}
      [] t.tag \in {"winsize", "waitresize"} -> {<<n>> : n \in Size}
      [] t.tag = "readfile" -> {<<n>> : n \in 0 .. MAX_OUT}
      [] t.tag = "exec" -> Code \X (0 .. MAX_OUT) \X (0 .. MAX_OUT)
      [] t.tag = "sleep" -> {<<>>}

RECURSIVE runTask(_)
runTask(t) ==
    CASE t.tag = "succeed" -> {Ok(t.val)}
      [] t.tag = "fail" -> {Err(t.val)}
      [] t.tag = "andthen" ->
           UNION {IF r.kind = "ok" THEN runTask(Apply(t.cont, r.val)) ELSE {r}
                    : r \in runTask(t.inner)}
      [] t.tag = "onerror" ->
           UNION {IF r.kind = "err" THEN runTask(Apply(t.cont, r.val)) ELSE {r}
                    : r \in runTask(t.inner)}
      [] t.tag = "quit" -> {[kind |-> "quit", val |-> <<>>]}
      [] t.tag = "malformed" -> {[kind |-> "dropped", val |-> <<>>]}
      [] OTHER -> {Ok(v) : v \in LeafValues(t)}
==============================================================================
