------------------------------- MODULE MCZinc -------------------------------
(* Instances of Zinc: small files of closures, programs and plans.         *)
EXTENDS Zinc

-----------------------------------------------------------------------------
(* Names, in an order that places them without a collision.                *)

Order == <<"+", "=", "cons", "hd", "simple-error", "trap-error", "set", "value", "eval-kl",
           "exec-plan", "g", "f", "r", "extract-kl", "kl->zinc", "toplevel-interp", "u", "x">>
NameV == ToSet(Order)
PrimNamesV == {Order[k] : k \in 1 .. 10}
Rank(n) == (CHOOSE k \in DOMAIN Order : Order[k] = n) - 1
KeywordsV == <<"cons", "g", "f">>

primV == [n \in NameV |-> [tag |-> "prim", name |-> n]]
symV  == [n \in NameV |-> [tag |-> "symbol", name |-> n]]
StartupV == <<Slot("x", Nil)>>

\* One that places every name at the first try; one with names that share
\* their first slot, and two whose bucket no displacement can place.
H(slot) == [h0 |-> [n \in NameV |-> Rank(n)],
            h1 |-> [n \in NameV |-> [d \in 0 .. 1 |-> slot[d + 1][Rank(n)]]],
            hv |-> [n \in NameV |-> Rank(n) + 2]]
Id == [k \in 0 .. Len(Order) - 1 |-> k]
Plain   == H(<<Id, Id>>)
Clashes == H(<<[Id EXCEPT ![6] = 0, ![7] = 1], [Id EXCEPT ![1] = 7]>>)

-----------------------------------------------------------------------------
(* Programs.                                                               *)

Num(k)     == Lit(Number(k))
Sym(n)     == Lit(symV[n])
Plus(a, b) == Prim("+", <<a, b>>)
ConsOf(a, b) == Prim("cons", <<a, b>>)
Is(a, b)   == Prim("=", <<a, b>>)
Throw(m)   == Prim("simple-error", <<Lit(Str(m))>>)
Trap(b, h) == Prim("trap-error", <<Fun(1, b), Fun(1, h)>>)
SetTo(n, v) == Prim("set", <<Sym(n), v>>)
Get(n)     == Prim("value", <<Sym(n)>>)
EvalKL(a)  == Prim("eval-kl", <<a>>)
Run(p)     == Prim("exec-plan", <<Lit([tag |-> "plan", program |-> p])>>)

PairUp == Fun(2, ConsOf(Var(1), Var(0)))
\* r n acc counts down with a tail call.
Loop == Fun(2, If(Is(Var(1), Num(0)), Var(0),
                  Call(Glob("r"), <<Plus(Var(1), Num(-1)), Plus(Var(0), Var(1))>>)))
Identity == Fun(1, Var(0))
Trapping == Fun(1, Trap(Throw("k"), Var(1)))
Raises   == Fun(1, Bind(SetTo("x", Num(3)), Throw("stage")))
Defs == {PairUp, Loop, Identity, Trapping, Raises}
DefinitionsV == [c \in {Cured(x) : x \in Defs} |-> CHOOSE x \in Defs : Cured(x) = c]
Clo(x) == Lambda(Cured(x), <<>>)

E(n, x, b) == [name |-> n, value |-> Clo(x), broken |-> b]
B(es) == [opens |-> TRUE, entries |-> es, collects |-> FALSE]
Bare == [opens |-> FALSE, entries |-> <<>>, collects |-> FALSE]
FR == <<E("f", PairUp, "no"), E("r", Loop, "no")>>
Stages3(a, b, c) == B(FR \o <<E("extract-kl", a, "no"), E("kl->zinc", b, "no"), E("toplevel-interp", c, "no")>>)
Good    == Stages3(Identity, Trapping, Identity)
Failing == Stages3(Identity, Identity, Raises)
Lacking == B(FR \o <<E("extract-kl", Identity, "no"), E("kl->zinc", Identity, "no")>>)
NoEval  == B(FR)
Doubled == B(<<E("f", Identity, "no"), E("g", PairUp, "no"), E("f", PairUp, "no")>>)
TableBundles ==
    {Bare, Doubled, B(<<E("u", Identity, "before")>>),
     B(<<E("f", Identity, "no"), E("hd", PairUp, "after"), E("f", PairUp, "no")>>)}
CollectingBundles == {[b EXCEPT !.collects = TRUE] : b \in {Bare, Doubled}}
BundlesV == TableBundles \cup CollectingBundles \cup {Good, Failing, Lacking, NoEval}

\* Errors of every origin, and what may go wrong around them.
Atoms == {Num(1), Lit(Str("a")), Throw("e"), Glob("u"), Call(Num(1), <<Num(2)>>),
          Call(Glob("f"), <<Num(1), Num(2), Num(3), Num(4)>>),
          Bind(SetTo("x", Num(4)), Throw("e")), Call(Glob("r"), <<Num(2), Num(0)>>)}
Around(x) ==
    {Trap(x, Var(0)), Trap(x, Throw("h")), Trap(Bind(Num(5), ConsOf(x, Var(0))), Get("x")),
     Bind(Num(6), ConsOf(Trap(Bind(x, Throw("late")), ConsOf(Var(0), Var(1))), Var(0))),
     Call(Glob("f"), <<Trap(x, Num(8)), Num(9)>>),
     Trap(Call(Fun(1, Call(Glob("f"), <<Var(0), x>>)), <<Num(3)>>), ConsOf(Var(0), Get("x"))),
     Trap(EvalKL(Bind(Num(7), x)), Num(2))}
Trapped == UNION {Around(x) : x \in Atoms}
Nested  == UNION {Around(x) : x \in Trapped}

\* Scopes, branches, calls through values, tail calls, no error at all.
Plain_ ==
    {Bind(Num(1), Bind(Plus(Var(0), Num(1)), Plus(Var(0), Var(1)))),
     Plus(Bind(Num(1), Var(0)), Bind(Num(2), Plus(Var(0), Var(0)))),
     Bind(Fun(1, Fun(1, ConsOf(Var(1), Var(0)))), Call(Call(Var(0), <<Num(1)>>), <<Num(2)>>)),
     Bind(Num(3), Call(Fun(2, Call(Fun(1, ConsOf(Var(0), Var(2))), <<Var(1)>>)), <<Num(1), Num(2)>>)),
     If(Is(ConsOf(Num(1), Sym("+")), ConsOf(Num(1), Glob("+"))), Num(1), If(Is(Sym("+"), Glob("+")), Num(2), Num(3))),
     Call(Glob("r"), <<Num(3), Call(Glob("r"), <<Num(2), Num(0)>>)>>),
     Call(Glob("+"), <<Num(1), Num(2)>>),
     Call(Fun(2, Call(Glob("cons"), <<Var(1), Var(0)>>)), <<Num(1), Num(2)>>),
     Call(Fun(1, Call(Fun(1, Num(4)), <<>>)), <<Num(1)>>),
     Prim("hd", <<Lit(Nil)>>), Prim("hd", <<ConsOf(Num(1), Lit(Nil))>>),
     ConsOf(SetTo("f", Num(1)), SetTo("r", Num(2))), Throw("e"), Get("u"),
     Trap(SetTo("x", Throw("e")), Get("x"))}
Evaluations == {EvalKL(x) : x \in {Num(1), Sym("f"), Lit(Nil), ConsOf(Num(1), Num(2)), Glob("f")}}
               \cup {Trap(EvalKL(Num(1)), Num(2)), EvalKL(EvalKL(Num(1))), ConsOf(Get("x"), EvalKL(Lit(Nil)))}

\* Code that no compiler writes.
Code(k) ==
    LET n1 == [op |-> "const", operand |-> Number(1)]
        n2 == [op |-> "const", operand |-> Number(2)]
        id == [op |-> "cur", code |-> <<[op |-> "access", n |-> 0], [op |-> "return"]>>]
        off == [op |-> "cur", code |-> <<[op |-> "access", n |-> 5]>>]
        mark == [op |-> "pushmark"]   grab == [op |-> "grab"]
        apply == [op |-> "apply"]     appterm == [op |-> "appterm"]
    IN  CASE k = 1 -> <<id, appterm>>
          [] k = 2 -> <<n2, id, appterm>>
          [] k = 3 -> <<mark, id, appterm>>
          [] k = 4 -> <<n1, id, apply>>
          [] k = 5 -> <<mark, n1, off, apply, n2>>
          [] k = 6 -> <<mark, n1, grab, grab, [op |-> "access", n |-> 0]>>
          [] k = 7 -> <<mark, n1, n2, apply>>
          [] k = 8 -> <<[op |-> "endlet"], n1, [op |-> "jmp", target |-> 9]>>
          [] k = 9 -> <<grab, [op |-> "let"], mark, n1, [op |-> "cur", code |-> <<mark, grab, n2>>], apply>>

-----------------------------------------------------------------------------
(* Plans.                                                                  *)

C(a)     == [argv |-> a, redirs |-> <<>>, sub |-> <<>>]
CR(a, r) == [argv |-> a, redirs |-> r, sub |-> <<>>]
Sub(p, r) == [argv |-> <<>>, redirs |-> r, sub |-> p]
Dup(fd, from) == [kind |-> "dup", fd |-> fd, from |-> from]
R(k, fd, t) == [kind |-> k, fd |-> fd, target |-> t]
Chain_(op, cs) == [op |-> op, cmds |-> cs]
One(cs)  == Chain_("seq", cs)
And_(cs) == Chain_("and", cs)
Or_(cs)  == Chain_("or", cs)
echo(x)  == <<"echo", x>>
cat      == <<"cat">>
FilesV   == [k \in {Path("f")} |-> <<"x", "y">>]

Plans == {
  <<>>,
  <<One(<<C(echo("a"))>>)>>,
  <<One(<<C(<<"false">>)>>), And_(<<C(echo("a"))>>), Or_(<<C(echo("b"))>>), And_(<<C(<<"nosuch">>)>>)>>,
  <<One(<<C(echo("a")), C(cat)>>)>>,
  <<One(<<Sub(<<One(<<C(echo("a"))>>), One(<<C(echo("b"))>>), One(<<C(echo("c"))>>)>>, <<>>), C(<<"head">>)>>)>>,
  <<One(<<Sub(<<One(<<C(<<"cd", "/tmp">>)>>), And_(<<C(<<"pwd">>)>>)>>, <<R("out", 1, "g")>>)>>),
    One(<<C(<<"pwd">>)>>), One(<<CR(cat, <<R("in", 0, "g")>>)>>)>>,
  <<One(<<CR(<<"nosuch">>, <<Dup(2, 1), R("out", 1, "g")>>)>>), Or_(<<CR(cat, <<R("in", 0, "none")>>)>>)>>,
  <<One(<<CR(cat, <<R("hdoc", 0, "h")>>), CR(cat, <<R("append", 1, "f")>>)>>), One(<<CR(cat, <<R("in", 0, "f")>>)>>)>>,
  <<One(<<Sub(<<One(<<C(<<"head">>)>>), One(<<CR(cat, <<Dup(1, 2)>>)>>)>>, <<R("in", 0, "f")>>)>>)>>,
  <<One(<<Sub(<<One(<<C(cat), C(<<"head">>)>>)>>, <<R("in", 0, "f")>>), CR(cat, <<R("out", 1, "g")>>)>>)>>,
  <<One(<<Sub(<<One(<<CR(echo("q"), <<R("hstr", 0, "h"), R("out", 1, "f")>>)>>)>>, <<>>)>>), And_(<<CR(cat, <<R("in", 0, "f")>>)>>)>>,
  <<One(<<Sub(<<One(<<CR(echo("q"), <<R("hstr", 0, "h"), R("in", 0, "none")>>)>>)>>, <<Dup(2, 1)>>)>>)>> }

\* Beyond a limit, and of a wrong shape.
BadPlans == {
  <<One(<<>>)>>, <<One(<<C(<<"echo", "a", "b">>)>>)>>, <<One(<<CR(cat, <<R("in", 1, "f")>>)>>)>>,
  <<One(<<CR(cat, <<R("in", 0, "f"), R("hstr", 0, "h")>>)>>)>>,
  <<One(<<Sub(<<One(<<Sub(<<One(<<C(cat)>>)>>, <<>>)>>)>>, <<>>)>>)>> }

Small == <<One(<<C(echo("a")), C(cat)>>)>>
PlanPrograms == {Run(p) : p \in Plans}
    \cup {Trap(Run(Small), Var(0)), ConsOf(Num(1), Run(Small)), Trap(ConsOf(Run(Small), Throw("e")), Num(2)),
          EvalKL(Run(Small))}
    \cup {Trap(Run(p), Var(0)) : p \in BadPlans} \cup {Run(p) : p \in BadPlans}
    \cup {Trap(Prim("exec-plan", <<Num(1)>>), ConsOf(Var(0), Num(1)))}

-----------------------------------------------------------------------------
(* What is run together.                                                   *)

HashesV == {Plain, Clashes}
Scenario(b, s) == [bundle |-> b, hash |-> Plain, source |-> s]

ScenariosV ==
    {[bundle |-> b, hash |-> h, source |-> NoProgram] : b \in TableBundles, h \in HashesV}
    \cup {Scenario(b, NoProgram) : b \in CollectingBundles}
    \cup {Scenario(Good, s) : s \in Trapped \cup Nested}
    \cup {Scenario(b, s) : b \in {Good, Failing, Lacking, NoEval, Bare}, s \in Evaluations}
    \cup {Scenario(NoEval, s) : s \in Plain_ \cup PlanPrograms}
    \cup {Scenario(Good, EvalKL(Run(Small)))}
    \cup {Scenario(NoEval, Raw(Code(k))) : k \in 1 .. 9}

RuntimeStoresV == {Slot("f", Clo(Identity)), Slot("u", Clo(Identity)), Slot("u", Clo(PairUp)),
                   Slot("x", Clo(Identity))}

Numbers == {Number(k) : k \in 0 .. 9}
ValueV == {primV[n] : n \in NameV} \cup {symV[n] : n \in NameV} \cup {Clo(x) : x \in Defs}
          \cup Numbers \cup {Nil}
MovingV == {Clo(x) : x \in Defs}
=============================================================================
