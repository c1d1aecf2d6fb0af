---------------------------- MODULE PlanMeaning ----------------------------
(***************************************************************************)
(* What a plan of exec-plan (ExecPlan) means, written over its syntax: its *)
(* commands one after the other, each pipeline from left to right, with no *)
(* process, no descriptor and no schedule.  It is the reference the runner *)
(* is checked against.                                                     *)
(***************************************************************************)
EXTENDS ExecPlan

Put(s, key, items) == [s EXCEPT !.data[key] = @ \o items]

MeansRedirect(s, r) ==
    CASE r.kind = "in" -> IF Path(r.target) \in DOMAIN s.data THEN [s EXCEPT !.in = s.data[Path(r.target)]]
                          ELSE [s EXCEPT !.ok = FALSE]
      [] r.kind = "out"    -> [s EXCEPT !.data = Holds(@, Path(r.target), <<>>), !.to[r.fd] = Path(r.target)]
      [] r.kind = "append" -> [s EXCEPT !.data = Created(@, Path(r.target)), !.to[r.fd] = Path(r.target)]
      [] r.kind = "dup"    -> [s EXCEPT !.to[r.fd] = s.to[r.from]]
      [] OTHER             -> [s EXCEPT !.in = <<r.target>>]

Taken(task, in) == CASE task.input = "none" -> 0
                     [] task.input = "one"  -> IF in = <<>> THEN 0 ELSE 1
                     [] task.input = "all"  -> Len(in)

MeansTask(s, task) ==
    LET n    == Taken(task, s.in)
        read == [s EXCEPT !.in = SubSeq(@, n + 1, Len(@)), !.code = task.code]
    IN  FoldLeft(LAMBDA t, w : Put(t, t.to[w[1]], <<w[2]>>),
                 Put(read, s.to[1], SubSeq(s.in, 1, n)), task.writes)

RECURSIVE MeansChains(_, _, _)

MeansCmd(c, s0) ==
    LET s == FoldLeft(LAMBDA t, r : IF t.ok THEN MeansRedirect(t, r) ELSE t, s0, c.redirs)
    IN  IF ~s.ok THEN MeansTask([s EXCEPT !.ok = TRUE], NoFile)
        ELSE IF IsSub(c) THEN MeansChains(c.sub, 1, [s EXCEPT !.code = 0, !.depth = @ + 1])
        ELSE [MeansTask(s, Runs(c, s.cwd)) EXCEPT !.cwd = NewCwd(c, @)]

MeansPipeline(cmds, s) ==
    LET n == Len(cmds)
        between == <<"between", s.depth>>
        Stage(t, j) == MeansCmd(cmds[j], [t EXCEPT
            !.data = Holds(@, between, <<>>),
            !.in = IF j = 1 THEN @ ELSE t.data[between],
            !.to = IF j = n THEN s.to ELSE [s.to EXCEPT ![1] = between],
            !.cwd = s.cwd, !.depth = s.depth])
        r == FoldLeftDomain(Stage, s, cmds)
    IN  [r EXCEPT !.to = s.to, !.depth = s.depth,
                  !.in = IF n = 1 /\ \A k \in DOMAIN cmds[1].redirs : cmds[1].redirs[k].fd # 0
                         THEN @ ELSE s.in,
                  !.cwd = IF s.depth > 0 /\ n = 1 /\ ~IsSub(cmds[1]) THEN @ ELSE s.cwd]

MeansChains(p, i, s) ==
    IF i > Len(p) THEN s
    ELSE IF i > 1 /\ ((p[i].op = "and" /\ s.code # 0) \/ (p[i].op = "or" /\ s.code = 0))
    THEN MeansChains(p, i + 1, s)
    ELSE MeansChains(p, i + 1, MeansPipeline(p[i].cmds, s))

Means(program) ==
    MeansChains(program, 1,
        [data |-> [k \in DOMAIN Files \cup StdFiles |-> IF k \in StdFiles THEN <<>> ELSE Files[k]],
         in |-> <<>>, to |-> <<Path("out"), Path("err")>>, cwd |-> "/", code |-> 0,
         ok |-> TRUE, depth |-> 0])

-----------------------------------------------------------------------------
(* Properties.                                                             *)

Content(d) == Restrict(d, {k \in DOMAIN d : Len(k) = 1})

\* A plan that was refused nothing answers, however its processes were
\* scheduled, with the exit code, the captured output and errors, and the
\* files that its commands one after the other give.
PlanFaithful ==
    Over /\ faults = 0 =>
        LET m == Means(Sh(Root).prog)
        IN  plan.code = m.code /\ Content(data) = Content(m.data)
=============================================================================
