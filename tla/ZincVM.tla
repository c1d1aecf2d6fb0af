------------------------------- MODULE ZincVM -------------------------------
(***************************************************************************)
(* The interpreter of the Zinc virtual machine (vm_exec_env in zincvm.c):  *)
(* one step is one instruction.  A primitive that runs code of its own     *)
(* (trap-error, eval-kl) calls the interpreter again, so there is a stack  *)
(* of activations; an error is a longjmp to the nearest catch site, which  *)
(* abandons the activations above it and what they left on the shadow      *)
(* stack of the collector's roots.  Code is compiled with its jumps        *)
(* resolved; a program counter past the end is where code falls off.       *)
(***************************************************************************)
EXTENDS ZincTables, SequencesExt

CONSTANTS
    CALL_STACK_DEPTH,   \* frames an activation may save
    MaxArgs             \* the size of argbuf

VARIABLES
    acts,               \* the calls of vm_exec_env, the running one last
    chain,              \* vm_catch_chain, the innermost frame last
    shadow,             \* the depth of the shadow stack of roots
    vm,                 \* what the process does with its program
    output              \* what it prints

vmvars == <<acts, chain, shadow, vm, output>>

Nil       == [tag |-> "nil"]
Mark      == [tag |-> "mark"]
Number(k) == [tag |-> "number", num |-> k]
Str(s)    == [tag |-> "string", str |-> s]
Bool(b)   == [tag |-> "boolean", bool |-> b]
Error(m)  == [tag |-> "error", message |-> m]
Pair(a, d) == [tag |-> "cons", car |-> a, cdr |-> d]
Lambda(code, env) == [tag |-> "lambda", code |-> code, env |-> env]

-----------------------------------------------------------------------------
(* Activations.                                                            *)

\* The root slots vm_exec_env pushes before it runs and pops at its end.
ExecRoots == 9

Enter(f, args, cont) ==
    [code |-> f.code, pc |-> 1, env |-> f.env \o args, stack |-> <<>>,
     frames |-> <<>>, acc |-> Nil, cont |-> cont]

Depth   == Len(acts)
Act     == acts[Depth]
Running == vm = "running" /\ ended = "no"
InCode  == Act.pc \in 1 .. Len(Act.code)
Instr   == Act.code[Act.pc]
At_(op) == Running /\ InCode /\ Instr.op = op
Becomes(a) == acts' = [acts EXCEPT ![Depth] = a]
Only(a) == Becomes(a) /\ UNCHANGED <<chain, shadow, vm, output>>

\* A load sets the accumulator and pushes it; a primitive pushes its result.
PushOn(a, s, v) == [a EXCEPT !.acc = v, !.stack = Append(s, v), !.pc = @ + 1]
Pushed(v)       == PushOn(Act, Act.stack, v)

\* The label done: the activation returns its accumulator.
Done(a) == [a EXCEPT !.pc = 0]
IsDone  == Running /\ Act.pc = 0

Restored(a, s) ==
    LET f == Last(a.frames)
    IN  [a EXCEPT !.code = f.code, !.pc = f.pc, !.env = f.env,
                  !.stack = f.stack \o s, !.frames = Front(@)]
Returned(a) == IF a.frames = <<>> THEN Done(a) ELSE Restored(a, <<a.acc>>)

\* What vm_exec_env gives back goes on the stack of the activation below.
Leave(v) ==
    acts' = [Front(acts) EXCEPT ![Depth - 1] = PushOn(@, @.stack, v)]

-----------------------------------------------------------------------------
(* Errors.                                                                 *)

CatchFrame(kind, wm, trapping, held) ==
    [kind |-> kind, act |-> Depth, wm |-> wm, in_trap_error |-> trapping, held |-> held]

Kept == SubSeq(acts, 1, Last(chain).act)

\* The program is over; what is on the shadow stack stays there.
ToMain(err, held) ==
    /\ Last(chain).kind = "main"
    /\ vm' = "failed" /\ output' = err
    /\ shadow' = shadow - held
    /\ UNCHANGED acts

\* Each definition named <of>_<change> is a changed form of <of>, which no other
\* definition uses: what the code would be with a mistake in it.
ToHandler_KeepsRoots(err) ==
    /\ Last(chain).kind = "trap-error"
    /\ acts' = Append(Kept, Enter(Last(chain).held, <<err>>, "handler"))
    /\ shadow' = shadow - 2
    /\ UNCHANGED <<vm, output>>

\* The roots above the watermark go, and the handler runs outside the trap.
ToHandler(err) ==
    /\ Last(chain).kind = "trap-error"
    /\ acts' = Append(Kept, Enter(Last(chain).held, <<err>>, "handler"))
    /\ shadow' = Last(chain).wm - 2 + ExecRoots
    /\ UNCHANGED <<vm, output>>

\* eval-kl answers with the error itself, as a value.
ToEval(err) ==
    /\ Last(chain).kind = "eval-kl"
    /\ acts' = [Kept EXCEPT ![Len(Kept)] = PushOn(@, @.stack, err)]
    /\ shadow' = Last(chain).wm
    /\ UNCHANGED <<vm, output>>

\* The thrower pops the roots it held itself, and jumps.
PopAndThrow(held, msg) ==
    /\ chain' = Front(chain)
    /\ ToMain(Error(msg), held) \/ ToHandler(Error(msg)) \/ ToEval(Error(msg))

vm_throw(msg) == PopAndThrow(0, msg)

\* Errors of the interpreter itself are thrown directly under a trap-error;
\* anywhere else they are printed and the activation ends.
SoftError(a, msg) ==
    IF Last(chain).in_trap_error THEN vm_throw(msg) ELSE Only(Done(a))

-----------------------------------------------------------------------------
(* Instructions.                                                           *)

LoadConst == At_("const") /\ Only(Pushed(Instr.operand))

PushMark == At_("pushmark") /\ Only([Act EXCEPT !.stack = Append(@, Mark), !.pc = @ + 1])

OnTop(s, v) == s # <<>> /\ Last(s) = v

\* A mark on top ends the function; an argument left over becomes a local.
Grab ==
    /\ At_("grab")
    /\ IF OnTop(Act.stack, Mark) THEN Only(Returned([Act EXCEPT !.stack = Front(@)]))
       ELSE IF Act.stack = <<>> THEN Only([Act EXCEPT !.pc = @ + 1])
       ELSE Only([Act EXCEPT !.env = Append(@, Last(Act.stack)), !.stack = Front(@), !.pc = @ + 1])

\* The lookup counts from the end; out of range it answers 0.
lookup_env(n) ==
    IF n \in 0 .. Len(Act.env) - 1 THEN Act.env[Len(Act.env) - n] ELSE Number(0)
Access == At_("access") /\ Only(Pushed(lookup_env(Instr.n)))

Global ==
    /\ At_("global")
    /\ IF defun_is_defined(Instr.name) THEN Only(Pushed(defun_get(Instr.name)))
       ELSE vm_throw("global not found")

PopOr(s, v) == IF s = <<>> THEN v ELSE Last(s)
Rest(s)     == IF s = <<>> THEN s ELSE Front(s)

Let ==
    /\ At_("let")
    /\ Only([Act EXCEPT !.env = Append(@, PopOr(Act.stack, Act.acc)),
                        !.stack = Rest(@), !.pc = @ + 1])

EndLet == At_("endlet") /\ Only([Act EXCEPT !.env = Rest(@), !.pc = @ + 1])

Jmp == At_("jmp") /\ Only([Act EXCEPT !.pc = Instr.target])

\* Only the boolean false jumps.
Jmpf ==
    /\ At_("jmpf")
    /\ Only([Act EXCEPT !.stack = Rest(@),
             !.pc = IF PopOr(Act.stack, Act.acc) = Bool(FALSE) THEN Instr.target ELSE @ + 1])

Cur == At_("cur") /\ Only(Pushed(Lambda(Instr.code, Act.env)))

Return == At_("return") /\ Only(Returned(Act))

\* Code that falls off its end restores the caller and pushes nothing.
FallOff ==
    /\ Running /\ Act.pc # 0 /\ ~InCode
    /\ Only(IF Act.frames = <<>> THEN Done(Act) ELSE Restored(Act, <<>>))

-----------------------------------------------------------------------------
(* Application: the function on top, its arguments down to the mark.       *)

Callee == PopOr(Act.stack, Act.acc)
Below  == Rest(Act.stack)
MarkAt == SelectLastInSeq(Below, LAMBDA v : v = Mark)
Args   == Reverse(SubSeq(Below, MarkAt + 1, Len(Below)))
Under  == SubSeq(Below, 1, MarkAt - 1)
Popped == [Act EXCEPT !.acc = Callee, !.stack = Below]

Applying(op, tag) == At_(op) /\ Callee.tag = tag
TooMany == Len(Args) > MaxArgs

\* The caller is saved in a frame; with no frame left the loop ends, and the
\* root of argbuf stays.
Apply ==
    /\ Applying("apply", "lambda")
    /\ IF TooMany THEN vm_throw("too many args")
       ELSE IF MarkAt = 0 THEN Only(Done([Popped EXCEPT !.stack = <<>>]))
       ELSE IF Len(Act.frames) >= CALL_STACK_DEPTH
       THEN /\ Becomes(Done([Popped EXCEPT !.stack = Under]))
            /\ shadow' = shadow + 1
            /\ UNCHANGED <<chain, vm, output>>
       ELSE Only([Popped EXCEPT
                !.frames = Append(@, [code |-> Act.code, pc |-> Act.pc + 1,
                                      env |-> Act.env, stack |-> Under]),
                !.code = Callee.code, !.pc = 1,
                !.env = Callee.env \o Args, !.stack = <<>>])

\* A tail call keeps the frame and the stack under the mark.
AppTerm ==
    /\ Applying("appterm", "lambda")
    /\ IF TooMany THEN vm_throw("too many args")
       ELSE IF MarkAt = 0 THEN Only(Done([Popped EXCEPT !.stack = <<>>]))
       ELSE IF Args = <<>> THEN Only(Done([Popped EXCEPT !.stack = Under]))
       ELSE Only([Popped EXCEPT !.code = Callee.code, !.pc = 1,
                                !.env = Callee.env \o Args, !.stack = Under])

NotCallable ==
    /\ \E op \in {"apply", "appterm"} : At_(op) /\ Callee.tag \notin {"lambda", "prim"}
    /\ SoftError(Popped, "apply non-callable")

-----------------------------------------------------------------------------
(* Primitives, called inline or applied: an applied one has its mark popped *)
(* only when the mark is on top, that is, when there is no argument.        *)

Applied  == \E op \in {"apply", "appterm"} : Applying(op, "prim")
PrimStack == IF Applied THEN (IF OnTop(Below, Mark) THEN Front(Below) ELSE Below) ELSE Act.stack
PrimName  == IF Applied THEN Callee.name ELSE Instr.name
Calls(p)  == Running /\ InCode /\ (Instr.op = "prim" \/ Applied) /\ PrimName = p
Arg(k)    == PrimStack[Len(PrimStack) + 1 - k]
Without(k) == SubSeq(PrimStack, 1, Len(PrimStack) - k)
Gives(k, v) == PushOn(Act, Without(k), v)

Pure == {"+", "=", "cons", "hd"}
Arity(p) == IF p = "hd" THEN 1 ELSE 2

\* Equality: of atoms by tag and content, of pairs deeply, of nothing else;
\* but a primitive that is compared itself equals the symbol of its name.
RECURSIVE deep_equal(_, _)
deep_equal(a, b) ==
    IF a.tag = "cons" /\ b.tag = "cons"
    THEN deep_equal(a.car, b.car) /\ deep_equal(a.cdr, b.cdr)
    ELSE a = b /\ a.tag \in {"number", "string", "symbol", "boolean", "nil"}
Equal(a, b) ==
    \/ deep_equal(a, b)
    \/ {a.tag, b.tag} = {"symbol", "prim"} /\ a.name = b.name

exec_primitive(p) ==
    CASE p = "+"    -> Number(Arg(1).num + Arg(2).num)
      [] p = "="    -> Bool(Equal(Arg(1), Arg(2)))
      [] p = "cons" -> Pair(Arg(1), Arg(2))
      [] p = "hd"   -> IF Arg(1) = Nil THEN Nil ELSE Arg(1).car

PurePrim == \E p \in Pure : Calls(p) /\ Only(Gives(Arity(p), exec_primitive(p)))

SimpleError == Calls("simple-error") /\ vm_throw(IF Arg(1).tag = "string" THEN Arg(1).str ELSE "simple-error called")

ValuePrim == Calls("value") /\ Only(Gives(1, value_get(Arg(1).name)))

SetPrim ==
    /\ Calls("set")
    /\ value_set(Arg(1).name, Arg(2))
    /\ Only(Gives(2, Arg(2)))
    /\ UNCHANGED <<loadvars, buildvars, defunvars>>

\* The caller of the interpreter waits with its arguments popped.
Waiting(k) == [Act EXCEPT !.stack = Without(k)]
Recur(a, f, args, cont) == acts' = Append([acts EXCEPT ![Depth] = a], Enter(f, args, cont))

\* The body runs under the trap with one argument; anything else is its value.
TrapError ==
    /\ Calls("trap-error")
    /\ IF Arg(1).tag = "lambda"
       THEN /\ Recur(Waiting(2), Arg(1), <<Nil>>, "trap-error")
            /\ chain' = Append(chain, CatchFrame("trap-error", shadow + 2, TRUE, Arg(2)))
            /\ shadow' = shadow + 2 + ExecRoots
            /\ UNCHANGED <<vm, output>>
       ELSE Only(Gives(2, Arg(1)))

TrapBodyEnds_StaysLinked ==
    /\ IsDone /\ Act.cont = "trap-error"
    /\ Leave(Act.acc)
    /\ shadow' = shadow - ExecRoots - 2
    /\ UNCHANGED <<chain, vm, output>>

TrapBodyEnds ==
    /\ IsDone /\ Act.cont = "trap-error"
    /\ Leave(Act.acc)
    /\ chain' = Front(chain)
    /\ shadow' = shadow - ExecRoots - 2
    /\ UNCHANGED <<vm, output>>

HandlerEnds ==
    /\ IsDone /\ Act.cont = "handler"
    /\ Leave(Act.acc)
    /\ shadow' = shadow - ExecRoots
    /\ UNCHANGED <<chain, vm, output>>

-----------------------------------------------------------------------------
(* eval-kl: three closures of the bundle, one after the other.             *)

Stages == <<"extract-kl", "kl->zinc", "toplevel-interp">>
Tagged(tag, l) == Pair([tag |-> "symbol", name |-> tag], l)

marshal_to_tagged(v) ==
    CASE v.tag \in {"number", "symbol", "string", "boolean"} -> Tagged(v.tag, Pair(v, Nil))
      [] v.tag = "cons" -> Tagged("cons", Pair(v.car, Pair(v.cdr, Nil)))
      [] v.tag = "nil"  -> Tagged("cons", Nil)
      [] OTHER -> v

RECURSIVE demarshal_from_tagged(_)
demarshal_from_tagged(v) ==
    IF v.tag # "cons" \/ v.car.tag # "symbol" THEN v
    ELSE IF v.car.name \in {"number", "symbol", "string", "boolean"} THEN v.cdr.car
    ELSE IF v.car.name # "cons" THEN v
    ELSE IF v.cdr = Nil THEN Nil
    ELSE Pair(demarshal_from_tagged(v.cdr.car), demarshal_from_tagged(v.cdr.cdr.car))

Stage(k) == defun_get(Stages[k])

\* A stage that the bundle lacks ends eval-kl with the form it was given.
EvalKl ==
    /\ Calls("eval-kl")
    /\ IF Stage(1).tag = "lambda"
       THEN /\ Recur(Waiting(1), Stage(1), <<marshal_to_tagged(Arg(1))>>, "eval-kl")
            /\ chain' = Append(chain, CatchFrame("eval-kl", shadow, FALSE,
                                                 [form |-> Arg(1), stage |-> 1]))
            /\ shadow' = shadow + 2 + ExecRoots
            /\ UNCHANGED <<vm, output>>
       ELSE Only(Gives(1, Arg(1)))

EvalStage == IsDone /\ Act.cont = "eval-kl"
Now       == Last(chain).held.stage

EvalNext ==
    /\ EvalStage /\ Now < 3 /\ Stage(Now + 1).tag = "lambda"
    /\ acts' = Append(Front(acts), Enter(Stage(Now + 1), <<Act.acc>>, "eval-kl"))
    /\ chain' = [chain EXCEPT ![Len(chain)].held.stage = @ + 1]
    /\ shadow' = shadow + 2
    /\ UNCHANGED <<vm, output>>

EvalEnds ==
    /\ EvalStage /\ (Now < 3 => Stage(Now + 1).tag # "lambda")
    /\ Leave(IF Now = 3 THEN demarshal_from_tagged(Act.acc) ELSE Last(chain).held.form)
    /\ chain' = Front(chain)
    /\ shadow' = Last(chain).wm
    /\ UNCHANGED <<vm, output>>

-----------------------------------------------------------------------------
(* The program: run_bytecode_file, after the bundle if there is one.       *)

VmInit == acts = <<>> /\ chain = <<>> /\ shadow = 0 /\ vm = "idle" /\ output = Nil

\* main runs nothing after a bundle of which no entry was read to its end.
Counted == bundle.entries # <<>> /\ bundle.entries[1].broken = "no"

RunProgram(code) ==
    /\ vm = "idle" /\ Loaded /\ (bundle.opens => Counted)
    /\ acts' = <<Enter(Lambda(code, <<>>), <<>>, "main")>>
    /\ chain' = <<CatchFrame("main", 0, FALSE, Nil)>>
    /\ shadow' = ExecRoots
    /\ vm' = "running"
    /\ UNCHANGED output

ProgramEnds ==
    /\ IsDone /\ Act.cont = "main"
    /\ acts' = <<>> /\ chain' = <<>>
    /\ shadow' = shadow - ExecRoots
    /\ vm' = "ended" /\ output' = Act.acc

VmStep ==
    \/ LoadConst \/ PushMark \/ Grab \/ Access \/ Global \/ Let \/ EndLet
    \/ Jmp \/ Jmpf \/ Cur \/ Return \/ FallOff
    \/ Apply \/ AppTerm \/ NotCallable
    \/ PurePrim \/ SimpleError \/ ValuePrim
    \/ TrapError \/ TrapBodyEnds \/ HandlerEnds
    \/ EvalKl \/ EvalNext \/ EvalEnds
    \/ ProgramEnds

-----------------------------------------------------------------------------
(* What the activations still open have on the shadow stack.               *)

\* The roots held across a call by the primitive that made it.
Held(k) ==
    CASE acts[k].cont = "trap-error" -> 2
      [] acts[k].cont = "eval-kl" ->
            LET c == CHOOSE c \in DOMAIN chain : chain[c].kind = "eval-kl" /\ chain[c].act = k - 1
            IN  2 * chain[c].held.stage
      [] OTHER -> 0

RootsTo(k) == FoldFunction(+, 0, [i \in 1 .. k |-> ExecRoots + Held(i)])
=============================================================================
