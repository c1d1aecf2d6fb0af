-------------------------------- MODULE Zinc --------------------------------
(***************************************************************************)
(* The process zincvm: it loads a bundle into its tables, freezes them and *)
(* runs a program, whose primitives use the tables and may run a plan of   *)
(* commands.  The program is compiled from KLambda; what it should answer  *)
(* is given by an evaluator of KLambda that knows no stack and no jump.    *)
(***************************************************************************)
EXTENDS ZincVM, PlanMeaning

CONSTANTS
    Definitions,    \* from the code of a closure of a bundle to its KLambda
    Scenarios,      \* bundle, hash functions and program, run together
    NoProgram,
    RuntimeStores   \* names and values stored by direct calls, without a program

VARIABLE source     \* the program that is run

vars == <<tablesvars, vmvars, planvars, source>>

-----------------------------------------------------------------------------
(* KLambda.  A variable is the distance to its binder.                     *)

Lit(v)       == [e |-> "literal", value |-> v]
Var(n)       == [e |-> "var", n |-> n]
Glob(f)      == [e |-> "global", name |-> f]
Prim(p, xs)  == [e |-> "prim", name |-> p, args |-> xs]
Call(f, xs)  == [e |-> "call", fun |-> f, args |-> xs]
Bind(x, y)   == [e |-> "let", x |-> x, y |-> y]
If(c, t, f)  == [e |-> "if", c |-> c, t |-> t, f |-> f]
Fun(n, y)    == [e |-> "lambda", arity |-> n, body |-> y]
Raw(c)       == [e |-> "code", code |-> c]     \* written by hand

\* The emission rules of the compiler: arguments right to left, a mark under
\* those of a call, no endlet and a tail call in tail position.
RECURSIVE Compile(_, _, _)

Grabs(n) == [k \in 1 .. n - 1 |-> [op |-> "grab"]]
Cured(x) == LET g == Grabs(x.arity) IN g \o Compile(x.body, Len(g), TRUE) \o <<[op |-> "return"]>>

RECURSIVE CompileAll(_, _)
CompileAll(xs, at) ==
    IF xs = <<>> THEN <<>>
    ELSE LET last == Compile(Last(xs), at, FALSE)
         IN  last \o CompileAll(Front(xs), at + Len(last))

Compile(x, at, tail) ==
    CASE x.e = "code"    -> x.code
      [] x.e = "literal" -> <<[op |-> "const", operand |-> x.value]>>
      [] x.e = "var"     -> <<[op |-> "access", n |-> x.n]>>
      [] x.e = "global"  -> <<[op |-> "global", name |-> x.name]>>
      [] x.e = "prim"    -> CompileAll(x.args, at) \o <<[op |-> "prim", name |-> x.name]>>
      [] x.e = "lambda"  -> <<[op |-> "cur", code |-> Cured(x)]>>
      [] x.e = "call"    ->
            LET args == CompileAll(x.args, at + 1)
            IN  <<[op |-> "pushmark"]>> \o args \o Compile(x.fun, at + 1 + Len(args), FALSE)
                  \o <<[op |-> IF tail /\ x.args # <<>> THEN "appterm" ELSE "apply"]>>
      [] x.e = "let"     ->
            LET c == Compile(x.x, at, FALSE)
            IN  c \o <<[op |-> "let"]>> \o Compile(x.y, at + Len(c) + 1, tail)
                  \o (IF tail THEN <<>> ELSE <<[op |-> "endlet"]>>)
      [] x.e = "if"      ->
            LET c == Compile(x.c, at, FALSE)
                t == Compile(x.t, at + Len(c) + 1, tail)
                f == Compile(x.f, at + Len(c) + Len(t) + 2, tail)
                over == at + Len(c) + Len(t) + 3
            IN  c \o <<[op |-> "jmpf", target |-> over]>> \o t
                  \o <<[op |-> "jmp", target |-> over + Len(f)]>> \o f

-----------------------------------------------------------------------------
(* The evaluator: a value or an error, and the names that are set.         *)

Ok(v, set)   == [ok |-> TRUE, v |-> v, set |-> set]
Fail(m, set) == [ok |-> FALSE, v |-> Error(m), set |-> set]

Closure(x, env) == [tag |-> "closure", arity |-> x.arity, body |-> x.body, env |-> env]

\* What a closure is called with when it is called from the outside.
Defun(f) ==
    IF defun_get(f).tag = "lambda" THEN Closure(Definitions[defun_get(f).code], <<>>)
    ELSE defun_get(f)

Answer(p) ==
    LET m == Means(p.program)
    IN  [tag |-> "answer", code |-> m.code, out |-> m.data[Path("out")], err |-> m.data[Path("err")]]

RECURSIVE Eval(_, _, _)

Enters(f, args, set) == Eval(f.body, f.env \o args, set)

\* eval-kl answers with what its stages make of the form, with the form when
\* a stage is missing, and with the error, as a value, when one throws.
RECURSIVE EvalStages(_, _, _, _)
EvalStages(k, v, form, set) ==
    IF k > Len(Stages) THEN Ok(demarshal_from_tagged(v), set)
    ELSE IF Stage(k).tag # "lambda" THEN Ok(form, set)
    ELSE LET r == Enters(Defun(Stages[k]), <<v>>, set)
         IN  IF r.ok THEN EvalStages(k + 1, r.v, form, r.set) ELSE [r EXCEPT !.ok = TRUE]

EvalForm(form, set) == EvalStages(1, marshal_to_tagged(form), form, set)

EvalPrim(p, a, set) ==
    CASE p = "+"    -> Ok(Number(a[1].num + a[2].num), set)
      [] p = "="    -> Ok(Bool(Equal(a[1], a[2])), set)
      [] p = "cons" -> Ok(Pair(a[1], a[2]), set)
      [] p = "hd"   -> Ok(IF a[1] = Nil THEN Nil ELSE a[1].car, set)
      [] p = "set"  -> Ok(a[2], [n \in DOMAIN set \cup {a[1].name} |-> IF n = a[1].name THEN a[2] ELSE set[n]])
      [] p = "value" -> Ok(IF a[1].name \in DOMAIN set THEN set[a[1].name] ELSE a[1], set)
      [] p = "simple-error" -> Fail(a[1].str, set)
      [] p = "eval-kl"   -> EvalForm(a[1], set)
      [] p = "exec-plan" -> IF plan_decode(a[1]) THEN Ok(Answer(a[1]), set)
                            ELSE Fail("malformed plan", set)
      [] p = "trap-error" ->
            LET r == IF a[1].tag = "closure" THEN Enters(a[1], <<Nil>>, set) ELSE Ok(a[1], set)
            IN  IF r.ok THEN r ELSE Enters(a[2], <<r.v>>, r.set)

EvalCall(f, args, set) ==
    CASE f.tag = "closure" -> IF Len(args) > MaxArgs THEN Fail("too many args", set)
                              ELSE Enters(f, args, set)
      [] f.tag = "prim"    -> EvalPrim(f.name, args, set)
      [] OTHER             -> Fail("apply non-callable", set)

\* The arguments, right to left.
RECURSIVE EvalAll(_, _, _)
EvalAll(xs, env, set) ==
    IF xs = <<>> THEN Ok(<<>>, set)
    ELSE LET r == Eval(Last(xs), env, set)
         IN  IF ~r.ok THEN r
             ELSE LET rs == EvalAll(Front(xs), env, r.set)
                  IN  IF rs.ok THEN [rs EXCEPT !.v = Append(@, r.v)] ELSE rs

Eval(x, env, set) ==
    CASE x.e = "literal" -> Ok(x.value, set)
      [] x.e = "var"     -> Ok(env[Len(env) - x.n], set)
      [] x.e = "global"  -> IF defun_is_defined(x.name) THEN Ok(Defun(x.name), set)
                            ELSE Fail("global not found", set)
      [] x.e = "lambda"  -> Ok(Closure(x, env), set)
      [] x.e = "prim"    -> LET r == EvalAll(x.args, env, set)
                            IN  IF r.ok THEN EvalPrim(x.name, r.v, r.set) ELSE r
      [] x.e = "call"    ->
            LET r == EvalAll(x.args, env, set)
            IN  IF ~r.ok THEN r
                ELSE LET f == Eval(x.fun, env, r.set)
                     IN  IF f.ok THEN EvalCall(f.v, r.v, f.set) ELSE f
      [] x.e = "let"     -> LET r == Eval(x.x, env, set)
                            IN  IF r.ok THEN Eval(x.y, Append(env, r.v), r.set) ELSE r
      [] x.e = "if"      -> LET r == Eval(x.c, env, set)
                            IN  IF ~r.ok THEN r
                                ELSE Eval(IF r.v = Bool(FALSE) THEN x.f ELSE x.t, env, r.set)

-----------------------------------------------------------------------------
(* The process.                                                            *)

Init ==
    /\ TablesInit /\ VmInit /\ PlanInit
    /\ \E s \in Scenarios : bundle = s.bundle /\ hash = s.hash /\ source = s.source

\* What executing the remains of a closure does is not defined: programs are run
\* over tables that no collection has touched before the freeze.
ASSUME ScenariosAssumption ==
    \A s \in Scenarios : s.source = NoProgram \/ ~s.bundle.collects

Load == LoadStep /\ UNCHANGED <<vmvars, planvars, source>>

Start ==
    /\ source # NoProgram
    /\ RunProgram(Compile(source, 0, FALSE))
    /\ UNCHANGED <<tablesvars, planvars, source>>

Execute == plan.status = "none" /\ VmStep /\ UNCHANGED <<tablesvars, planvars, source>>

ExecuteSet == SetPrim /\ UNCHANGED <<planvars, source>>

\* exec-plan keeps the plan rooted until it answers; one that does not
\* decode opens nothing.
ExecPlanPrim ==
    /\ plan.status = "none" /\ Calls("exec-plan") /\ plan_decode(Arg(1))
    /\ run_program(Arg(1).program)
    /\ shadow' = shadow + 1
    /\ UNCHANGED <<acts, chain, vm, output, tablesvars, source>>

BadPlan ==
    /\ plan.status = "none" /\ Calls("exec-plan") /\ ~plan_decode(Arg(1))
    /\ vm_throw("malformed plan")
    /\ UNCHANGED <<planvars, tablesvars, source>>

\* The capture files cannot be had.
NoCapture ==
    /\ plan.status = "none" /\ Calls("exec-plan") /\ plan_decode(Arg(1))
    /\ Fault
    /\ vm_throw("tmpfile failed")
    /\ UNCHANGED <<plan, procs, descs, data, tablesvars, source>>

RunPlan == PlanStep /\ UNCHANGED <<tablesvars, vmvars, source>>

\* The capture files are read back and closed; a failed plan is an error.
PlanAnswers ==
    /\ Over
    /\ IF plan.code < 0 THEN PopAndThrow(1, "fork/pipe failed")
       ELSE /\ Becomes(Gives(1, [tag |-> "answer", code |-> plan.code,
                                 out |-> data[Path("out")], err |-> data[Path("err")]]))
            /\ shadow' = shadow - 1
            /\ UNCHANGED <<chain, vm, output>>
    /\ EndPlan
    /\ UNCHANGED <<tablesvars, source>>

DirectCall ==
    /\ source = NoProgram
    /\ \E s \in RuntimeStores : DefunSet(s.name, s.value) \/ ValueSet(s.name, s.value)
    /\ UNCHANGED <<vmvars, planvars, source>>

\* A collection that finds nothing to keep or to lose changes nothing.
Collect ==
    /\ CollectUnfrozen \/ (dirty \cup young # {} /\ Scavenge)
    /\ UNCHANGED <<vmvars, planvars, source>>

Next ==
    \/ Load \/ Start \/ Execute \/ ExecuteSet
    \/ ExecPlanPrim \/ BadPlan \/ NoCapture \/ RunPlan \/ PlanAnswers
    \/ DirectCall \/ Collect

\* A process that can run is run: the virtual machine, and those of a plan.
Spec == Init /\ [][Next]_vars /\ WF_vars(RunPlan)
-----------------------------------------------------------------------------
(* Properties.                                                             *)

\* A program without a bundle starts without the values that loading sets.
Initially == [n \in IF bundle.opens THEN {Startup[k].name : k \in DOMAIN Startup} ELSE {} |->
    Startup[CHOOSE k \in DOMAIN Startup : Startup[k].name = n].value]

\* A closure prints as a closure.
RECURSIVE Shown(_)
Shown(v) ==
    CASE v.tag \in {"lambda", "closure"} -> [tag |-> "closure"]
      [] v.tag = "cons" -> Pair(Shown(v.car), Shown(v.cdr))
      [] OTHER -> v

\* The types: a stack never holds what a collection left of a closure, a program
\* counter is in the code or where it falls off, no activation saves more
\* frames than it has room for, and catch frames are nested like activations.
TypeOK ==
    /\ TablesTypeOK
    /\ vm \in {"idle", "running", "ended", "failed"} /\ shadow \in Nat
    /\ \A k \in DOMAIN acts :
         /\ acts[k].pc \in Nat
         /\ Len(acts[k].frames) <= CALL_STACK_DEPTH
         /\ Stale \notin ToSet(acts[k].stack) \cup ToSet(acts[k].env) \cup {acts[k].acc}
    /\ \A c \in DOMAIN chain : chain[c].act \in 0 .. Depth
    /\ \A c, d \in DOMAIN chain : c < d => chain[c].act <= chain[d].act
    /\ plan.status \in {"none", "running", "over"} /\ faults \in 0 .. MaxFaults

\* A program prints what its KLambda evaluates to, or the error it throws:
\* whatever it nests of closures, tail calls, traps and evaluations, no call
\* sees an argument or a binding of another, and an error reaches the
\* innermost handler with the state its body left.
RunsFaithfully ==
    vm \in {"ended", "failed"} /\ faults = 0 /\ source.e # "code" =>
        \E r \in {Eval(source, <<>>, Initially)} :
            r.ok = (vm = "ended") /\ Shown(output) = Shown(r.v)

\* After any nesting of calls, errors and evaluations the shadow stack of
\* roots is as deep as the calls still open need it: no root of an abandoned
\* call stays and none of a live one is popped.  Every catch site knows its
\* depth, and a program that prints a result leaves the stack empty.
RootsBalanced ==
    /\ Running =>
         /\ shadow = RootsTo(Depth) + (IF plan.status = "none" THEN 0 ELSE 1)
         /\ \A c \in DOMAIN chain : chain[c].kind # "main" =>
               chain[c].wm = RootsTo(chain[c].act) + (IF chain[c].kind = "trap-error" THEN 2 ELSE 0)
    /\ vm = "ended" => shadow = 0

\* A plan that was started ends: no process of it waits for ever on a pipe, a
\* descriptor that was left open, or a child.
PlanEnds == plan.status = "running" ~> Over
=============================================================================
