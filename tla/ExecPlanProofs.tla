---------------------------- MODULE ExecPlanProofs ----------------------------
(* Proofs about the process runner behind exec-plan (ExecPlan).  NothingHeld is *)
(* proved for every program the decoder accepts, every set of files, and every  *)
(* limit of the decoder and of the pipes.                                       *)
(*                                                                              *)
(* The inductive invariant says which descriptors a process has open at each    *)
(* step it can be in (FdsOK), and who still waits for whom (PidsOK, Family).    *)
(* The first part rests on lemmas about the operators on tables: what the free  *)
(* descriptors are, where a here-document's descriptor is found again, and      *)
(* what the redirects of a decoded command leave open.                          *)
EXTENDS ExecPlan, NatLemmas

\* A sequence, of whatever it is that it holds.
IsSeq(s) == s \in Seq({s[x] : x \in DOMAIN s})

\* A set of programs that the decoder accepts, with the programs of their subshells.
Closed(P) ==
    \A prog \in P :
      /\ decode_chains(prog)
      /\ \A i \in DOMAIN prog : \A j \in DOMAIN prog[i].cmds :
           IsSub(prog[i].cmds[j]) => prog[i].cmds[j].sub \in P

\* What a shell may be given to run.
Runnable(prog) == \E P : Closed(P) /\ prog \in P

ProcFields == {"state", "parent", "stage", "fds", "cwd", "sh", "run", "code"}

ShFields == {"prog", "in_child", "outfd", "errfd", "i", "last", "step", "k", "pids",
             "tmp", "pipes", "saved", "failed"}

ShTyped(sh) ==
    /\ DOMAIN sh = ShFields
    /\ Runnable(sh.prog) /\ sh.outfd \in Nat /\ sh.errfd \in Nat /\ sh.i \in Nat \ {0}

\* The descriptors a shell keeps: 0, 1, 2 and the capture files.
Own(sh) == 0 .. 2 \cup {sh.outfd, sh.errfd}

CmdsOf(sh) == sh.prog[sh.i].cmds

\* The descriptors of the here-documents of the pipeline the shell is at.
Held(sh) == {sh.tmp[jk[1]][jk[2]] : jk \in Bodies(CmdsOf(sh))}

\* The descriptors of the here-documents are none of the shell's own.
TmpOK(sh) ==
    /\ sh.i \in DOMAIN sh.prog
    /\ DOMAIN sh.tmp = DOMAIN CmdsOf(sh)
    /\ \A j \in DOMAIN sh.tmp :
         /\ DOMAIN sh.tmp[j] = DOMAIN CmdsOf(sh)[j].redirs
         /\ \A k \in DOMAIN sh.tmp[j] :
              sh.tmp[j][k] \in IF <<j, k>> \in Bodies(CmdsOf(sh)) THEN Nat \ Own(sh) ELSE {-1}

PipesOK(sh) == \A m \in DOMAIN sh.pipes : sh.pipes[m] \in Nat \ Own(sh)

\* What a forked process has open until it is wired, and its parent until the last fork.
Wires(fds, sh) == /\ TmpOK(sh) /\ PipesOK(sh)
                  /\ DOMAIN fds = Own(sh) \cup PipeFds(sh) \cup Held(sh)

\* A shell that runs a builtin: one command, and descriptors to restore from.
SavedOK(sh) == /\ TmpOK(sh) /\ DOMAIN CmdsOf(sh) = {1}
               /\ IsSeq(sh.saved) /\ ToSet(sh.saved) \subseteq Nat \ Own(sh)

\* What the process q has open, step by step.
FdsOK(q) ==
    /\ q.state = "child" => Wires(q.fds, q.sh) /\ q.stage \in DOMAIN CmdsOf(q.sh)
    /\ q.state = "command" => DOMAIN q.fds = 0 .. 2
    /\ q.state = "shell" /\ q.sh.step \in {"chain", "wait", "kill", "end"} =>
         DOMAIN q.fds = Own(q.sh)
    /\ q.state = "shell" /\ q.sh.step = "fork" => Wires(q.fds, q.sh)
    /\ q.state = "shell" /\ q.sh.step = "saved" =>
         /\ SavedOK(q.sh)
         /\ DOMAIN q.fds = Own(q.sh) \cup ToSet(q.sh.saved) \cup Held(q.sh)
    /\ q.state = "shell" /\ q.sh.step = "builtin" =>
         /\ SavedOK(q.sh)
         /\ Own(q.sh) \subseteq DOMAIN q.fds
         /\ DOMAIN q.fds \subseteq Own(q.sh) \cup ToSet(q.sh.saved) \cup Held(q.sh)

Forking == {"fork", "wait", "kill"}

\* The process p of n, as q: the children it has to wait for were forked after it.
PidsOK(q, p, n, f) ==
    q.state = "shell" /\ q.sh.step \in Forking =>
      /\ q.sh.pids \in Seq(p + 1 .. n) /\ q.sh.k \in Nat \ {0}
      /\ q.sh.i \in DOMAIN q.sh.prog
      /\ q.sh.failed \in BOOLEAN /\ (q.sh.failed => f > 0)
      /\ q.sh.step = "fork" => /\ q.sh.k <= Len(CmdsOf(q.sh)) + 1
                               /\ q.sh.failed \/ Len(q.sh.pids) = q.sh.k - 1
      /\ q.sh.step = "wait" => q.sh.k <= Len(q.sh.pids)
      /\ q.sh.step = "kill" => f > 0

\* The shell q has yet to wait for c.
Awaits(q, c) ==
    /\ q.state = "shell" /\ q.sh.step \in Forking
    /\ \E m \in DOMAIN q.sh.pids :
         q.sh.pids[m] = c /\ (q.sh.step = "fork" \/ m >= q.sh.k)

\* A child is reaped or awaited by its parent, unless its parent was killed.
Family(p) ==
    p # Root =>
      /\ procs[p].parent \in 1 .. p - 1
      /\ \/ procs[p].state = "reaped"
         \/ Awaits(procs[procs[p].parent], p)
         \/ faults > 0 /\ procs[p].parent # Root

\* What holds of a process by itself.
Alone(q, p, n, f) == DOMAIN q = ProcFields /\ ShTyped(q.sh) /\ FdsOK(q) /\ PidsOK(q, p, n, f)

Status ==
    /\ plan.status \in {"none", "running", "over"}
    /\ plan.status = "over" => Root \in DOMAIN procs /\ In_(Root, "end")

\* The inductive invariant.
IInv ==
    /\ IsSeq(procs) /\ faults \in Nat
    /\ Status
    /\ \A p \in DOMAIN procs : Alone(procs[p], p, Len(procs), faults) /\ Family(p)

-----------------------------------------------------------------------------
\* Sequences.

\* A sequence over what it holds: its length and its domain.
LEMMA SeqFacts ==
    ASSUME NEW s, IsSeq(s)
    PROVE  Len(s) \in Nat /\ DOMAIN s = 1 .. Len(s)
BY DEF IsSeq

\* A sequence over a set is one over a larger set.
LEMMA SeqGrows ==
    ASSUME NEW S, NEW T, S \subseteq T, NEW s \in Seq(S)
    PROVE  s \in Seq(T)
OBVIOUS

\* What appending to a sequence leaves and adds.
LEMMA Appended ==
    ASSUME NEW s, IsSeq(s), NEW e
    PROVE  /\ IsSeq(Append(s, e)) /\ Len(Append(s, e)) = Len(s) + 1
           /\ \A x \in DOMAIN s : Append(s, e)[x] = s[x]
           /\ Append(s, e)[Len(s) + 1] = e
<1> DEFINE S == {s[x] : x \in DOMAIN s}
           t == Append(s, e)
<1>1. s \in Seq(S \cup {e}) /\ Len(s) \in Nat /\ DOMAIN s = 1 .. Len(s)
  <2>1. s \in Seq(S)
    BY DEF IsSeq
  <2> HIDE DEF S
  <2>2. QED  BY <2>1
<1> HIDE DEF S
<1>2. t \in Seq(S \cup {e}) /\ Len(t) = Len(s) + 1 /\ DOMAIN t = 1 .. Len(s) + 1
      /\ (\A x \in DOMAIN s : t[x] = s[x]) /\ t[Len(s) + 1] = e
  BY <1>1
<1>3. t \in Seq({t[x] : x \in DOMAIN t})
  <2> DEFINE n == Len(s) + 1
             T == {t[x] : x \in DOMAIN t}
  <2>1. n \in Nat /\ DOMAIN t = 1 .. n /\ t \in Seq(S \cup {e}) /\ Len(t) = n
    BY <1>1, <1>2
  <2> HIDE DEF t, n
  <2>2. t \in [1 .. n -> S \cup {e}]
    BY <2>1
  <2>3. \A x \in 1 .. n : t[x] \in T
    BY <2>1
  <2> HIDE DEF T
  <2>4. t \in [1 .. n -> T]
    BY <2>2, <2>3
  <2>5. t \in Seq(T)
    BY <2>1, <2>4
  <2>6. QED  BY <2>5 DEF T
<1>4. QED  BY <1>2, <1>3 DEF IsSeq

\* Changing one place of a sequence keeps its length.
LEMMA Updated ==
    ASSUME NEW s, IsSeq(s), NEW x \in DOMAIN s, NEW e
    PROVE  IsSeq([s EXCEPT ![x] = e]) /\ Len([s EXCEPT ![x] = e]) = Len(s)
<1> DEFINE S == {s[y] : y \in DOMAIN s}
           t == [s EXCEPT ![x] = e]
<1>1. Len(s) \in Nat /\ DOMAIN s = 1 .. Len(s)
  BY SeqFacts
<1>2. DOMAIN t = 1 .. Len(s) /\ t = [y \in 1 .. Len(s) |-> t[y]]
  BY <1>1
<1>3. t \in [1 .. Len(s) -> {t[y] : y \in DOMAIN t}]
  BY <1>2
<1> HIDE DEF t
<1>4. t \in Seq({t[y] : y \in DOMAIN t}) /\ Len(t) = Len(s)
  BY <1>1, <1>2, <1>3
<1>5. QED  BY <1>4 DEF IsSeq, t

-----------------------------------------------------------------------------
\* Descriptors.

\* dup2 opens the descriptor it binds and closes none.
LEMMA dup2Domain ==
    ASSUME NEW fds, NEW from, NEW to
    PROVE  DOMAIN dup2(fds, from, to) = DOMAIN fds \cup {to}
BY DEF dup2, Join, Bound

\* Binding 1 and 2 to something else.
LEMMA dup2Std ==
    ASSUME NEW fds, NEW a, NEW b
    PROVE  DOMAIN dup2(dup2(fds, a, 1), b, 2) = DOMAIN fds \cup {1} \cup {2}
<1> DEFINE f == dup2(fds, a, 1)
<1>1. DOMAIN f = DOMAIN fds \cup {1}
  BY dup2Domain
<1> HIDE DEF f
<1>2. DOMAIN dup2(f, b, 2) = DOMAIN f \cup {2}
  BY dup2Domain
<1>3. QED  BY <1>1, <1>2 DEF f

\* close takes away what it is given.
LEMMA closeDomain ==
    ASSUME NEW fds, NEW S
    PROVE  DOMAIN close(fds, S) = DOMAIN fds \ S
BY DEF close, Restrict

\* The k-th free descriptor exists, and is free.
LEMMA FreeIsFree ==
    ASSUME NEW fds, DOMAIN fds \subseteq Nat, IsFiniteSet(DOMAIN fds), NEW k \in Nat \ {0}
    PROVE  Free(fds, k) \in Nat \ DOMAIN fds
<1> DEFINE D == DOMAIN fds
           Below(f) == (0 .. f - 1) \ D
           Is(f, n) == f \in Nat /\ f \notin D /\ Cardinality(Below(f)) = n - 1
           S == {n \in Nat : \E f \in Nat : Is(f, n)}
<1>0. D \subseteq Nat /\ IsFiniteSet(D) /\ Cardinality(D) \in Nat
  BY FS_CardinalityType
<1> HIDE DEF D
<1>1. \A f \in Nat : IsFiniteSet(0 .. f - 1) /\ IsFiniteSet(Below(f)) /\ Cardinality(Below(f)) \in Nat
  <2> TAKE f \in Nat
  <2>1. IsFiniteSet(0 .. f - 1)
    BY FS_Interval
  <2>2. Below(f) \subseteq 0 .. f - 1
    OBVIOUS
  <2> HIDE DEF Below
  <2>3. QED  BY <2>1, <2>2, FS_Subset, FS_CardinalityType
\* Above any number there is a free descriptor, and a least one.
<1>2. \A g \in Nat : \E f \in Nat : f >= g /\ f \notin D /\ \A x \in g .. f - 1 : x \in D
  <2> TAKE g \in Nat
  <2> DEFINE c == Cardinality(D)
             A == {f \in Nat : f >= g /\ f \notin D}
  <2>1. A # {}
    <3>1. SUFFICES ASSUME A = {}
                   PROVE  FALSE
      OBVIOUS
    <3>2. g .. g + c \subseteq D
      BY <1>0, <3>1
    <3> DEFINE G == g .. g + c
    <3>3. c \in Nat /\ Cardinality(G) = (g + c) - g + 1
      <4>1. c \in Nat /\ g \in Int /\ g + c \in Int /\ ~(g > g + c)
        BY <1>0
      <4> HIDE DEF c
      <4>2. QED  BY <4>1, FS_Interval
    <3>4. Cardinality(G) <= c
      <4> HIDE DEF G
      <4>1. QED  BY <1>0, <3>2, FS_Subset DEF G
    <3> HIDE DEF G, c
    <3>5. QED  BY <3>3, <3>4
  <2>2. PICK f \in A : \A x \in A : f <= x
    <3>1. A \subseteq Nat
      OBVIOUS
    <3> HIDE DEF A
    <3>2. QED  BY <2>1, <3>1, Minimum
  <2>3. \A x \in g .. f - 1 : x \in D
    BY <2>2
  <2>4. QED  BY <2>2, <2>3
<1>3. 1 \in S
  <2>1. PICK f \in Nat : f >= 0 /\ f \notin D /\ \A x \in 0 .. f - 1 : x \in D
    BY <1>2
  <2>2. Below(f) = {}
    BY <2>1
  <2>3. Cardinality(Below(f)) = 1 - 1
    BY <2>2, FS_EmptySet
  <2> HIDE DEF Below
  <2>4. QED  BY <2>1, <2>3
<1>4. ASSUME NEW n \in 1 .. k - 1, n \in S
      PROVE  n + 1 \in S
  <2>1. PICK f \in Nat : Is(f, n)
    BY <1>4
  <2>2. PICK g \in Nat : g >= f + 1 /\ g \notin D /\ \A x \in f + 1 .. g - 1 : x \in D
    BY <1>2
  <2>3. Below(g) = Below(f) \cup {f} /\ f \notin Below(f)
    BY <2>1, <2>2
  <2>4. Cardinality(Below(g)) = Cardinality(Below(f)) + 1
    BY <1>1, <2>3, FS_AddElement
  <2>5. Cardinality(Below(g)) = (n + 1) - 1
    <3> DEFINE a == Cardinality(Below(f))
               b == Cardinality(Below(g))
    <3>1. a = n - 1 /\ b = a + 1
      BY <2>1, <2>4
    <3> HIDE DEF a, b
    <3>2. b = (n + 1) - 1
      BY <3>1
    <3>3. QED  BY <3>2 DEF b
  <2> HIDE DEF Below
  <2>6. Is(g, n + 1)
    BY <2>2, <2>5
  <2>7. QED  BY <2>6
<1>5. k \in S
  <2> HIDE DEF S
  <2>1. 1 .. k \subseteq S
    BY <1>3, <1>4, IntervalInduction
  <2>2. QED  BY <2>1
<1>6. PICK f \in Nat : Is(f, k)
  BY <1>5
\* The search bound of the definition is high enough.
<1>7. f \in 0 .. Cardinality(D) + k
  <2> DEFINE I == 0 .. f - 1
             U == D \cap I
             b == Cardinality(Below(f))
             u == Cardinality(U)
             i == Cardinality(I)
  <2>1. IsFiniteSet(I) /\ i = f
    <3>1. f = 0 => I = {}
      OBVIOUS
    <3>2. f # 0 => IsFiniteSet(I) /\ Cardinality(I) = (f - 1) - 0 + 1
      BY FS_Interval
    <3>3. QED  BY <3>1, <3>2, FS_EmptySet
  <2>2. IsFiniteSet(U) /\ u <= Cardinality(D) /\ u \in Nat
    <3>1. U \subseteq D
      OBVIOUS
    <3> HIDE DEF U
    <3>2. QED  BY <1>0, <3>1, FS_Subset, FS_CardinalityType
  <2>3. I = Below(f) \cup U /\ Below(f) \cap U = {}
    OBVIOUS
  <2>4. i = b + u - Cardinality({})
    <3> HIDE DEF I, U, Below
    <3>1. Cardinality(Below(f) \cup U) = Cardinality(Below(f)) + Cardinality(U)
                                          - Cardinality(Below(f) \cap U)
      BY <1>1, <2>2, FS_Union
    <3>2. QED  BY <2>3, <3>1
  <2>5. b = k - 1 /\ Cardinality({}) = 0
    BY <1>6, FS_EmptySet
  <2> HIDE DEF I, U, b, u, i
  <2>6. QED  BY <1>0, <2>1, <2>2, <2>4, <2>5
<1>8. Free(fds, k) = CHOOSE x \in 0 .. Cardinality(D) + k :
                        x \notin D /\ Cardinality((0 .. x - 1) \ D) = k - 1
  BY DEF Free, D
<1>9. Free(fds, k) \in 0 .. Cardinality(D) + k /\ Free(fds, k) \notin D
  BY <1>6, <1>7, <1>8
<1>10. QED  BY <1>0, <1>9 DEF D

-----------------------------------------------------------------------------
\* Here-documents.

\* Decoded commands.
Commands(cmds) ==
    /\ IsSeq(cmds)
    /\ \A j \in DOMAIN cmds : decode_cmd(cmds[j]) /\ IsSeq(cmds[j].redirs)

\* The commands of the chain a typed shell is at are decoded ones, at least one, and
\* the programs of their subshells can be run.
LEMMA DecodedCommands ==
    ASSUME NEW sh, ShTyped(sh), sh.i \in DOMAIN sh.prog
    PROVE  /\ Commands(CmdsOf(sh)) /\ Len(CmdsOf(sh)) \in Nat \ {0}
           /\ DOMAIN CmdsOf(sh) = 1 .. Len(CmdsOf(sh))
           /\ \A j \in DOMAIN CmdsOf(sh) : IsSub(CmdsOf(sh)[j]) => Runnable(CmdsOf(sh)[j].sub)
<1>1. PICK P : Closed(P) /\ sh.prog \in P
  BY DEF ShTyped, Runnable
<1>2. decode_chain(sh.prog[sh.i]) /\ IsSeq(sh.prog)
      /\ \A j \in DOMAIN CmdsOf(sh) : IsSub(CmdsOf(sh)[j]) => CmdsOf(sh)[j].sub \in P
  BY <1>1 DEF Closed, decode_chains, tdl_collect, CmdsOf, IsSeq
<1>3. IsSeq(CmdsOf(sh)) /\ CmdsOf(sh) # <<>> /\ \A j \in DOMAIN CmdsOf(sh) : decode_cmd(CmdsOf(sh)[j])
  BY <1>2 DEF decode_chain, tdl_collect, CmdsOf, IsSeq
<1>4. \A j \in DOMAIN CmdsOf(sh) : IsSeq(CmdsOf(sh)[j].redirs)
  BY <1>3 DEF decode_cmd, tdl_collect, IsSeq
<1>5. Len(CmdsOf(sh)) \in Nat /\ DOMAIN CmdsOf(sh) = 1 .. Len(CmdsOf(sh))
  BY <1>3, SeqFacts
<1>6. Len(CmdsOf(sh)) # 0
  <2> DEFINE s == CmdsOf(sh)
  <2>1. s \in Seq({s[x] : x \in DOMAIN s}) /\ s # <<>>
    BY <1>3 DEF IsSeq
  <2> HIDE DEF s
  <2>2. Len(s) # 0
    BY <2>1
  <2>3. QED  BY <2>2 DEF s
<1>7. \A j \in DOMAIN CmdsOf(sh) : IsSub(CmdsOf(sh)[j]) => Runnable(CmdsOf(sh)[j].sub)
  BY <1>1, <1>2 DEF Runnable
<1>8. QED  BY <1>3, <1>4, <1>5, <1>6, <1>7 DEF Commands

\* A pipeline has finitely many here-documents, each at a redirect of a command.
LEMMA BodiesFinite ==
    ASSUME NEW cmds, Commands(cmds)
    PROVE  /\ IsFiniteSet(Bodies(cmds)) /\ Cardinality(Bodies(cmds)) \in Nat
           /\ Bodies(cmds) \subseteq Nat \X Nat
           /\ \A jk \in Bodies(cmds) :
                /\ jk[1] \in DOMAIN cmds /\ jk[2] \in DOMAIN cmds[jk[1]].redirs
                /\ jk = <<jk[1], jk[2]>>
                /\ cmds[jk[1]].redirs[jk[2]].kind \in Here
<1> DEFINE B == Bodies(cmds)
           L == 1 .. Len(cmds)
           R == 1 .. PLAN_MAX_REDIRS
<1>1. Len(cmds) \in Nat /\ DOMAIN cmds = L
  BY SeqFacts DEF Commands
<1>2. \A j \in DOMAIN cmds : DOMAIN cmds[j].redirs \subseteq R
  <2> TAKE j \in DOMAIN cmds
  <2>1. Len(cmds[j].redirs) \in Nat /\ DOMAIN cmds[j].redirs = 1 .. Len(cmds[j].redirs)
    BY SeqFacts DEF Commands
  <2>2. Len(cmds[j].redirs) <= PLAN_MAX_REDIRS /\ PLAN_MAX_REDIRS \in Nat
    BY PlanLimits DEF Commands, decode_cmd, tdl_collect
  <2>3. QED  BY <2>1, <2>2
<1>3. \A jk \in B : /\ jk[1] \in DOMAIN cmds /\ jk[2] \in DOMAIN cmds[jk[1]].redirs
                     /\ jk = <<jk[1], jk[2]>>
                     /\ cmds[jk[1]].redirs[jk[2]].kind \in Here
  BY DEF Bodies
<1> HIDE DEF B
<1>4. B \subseteq L \X R
  BY <1>1, <1>2, <1>3
<1>5. IsFiniteSet(L) /\ IsFiniteSet(R) /\ L \subseteq Nat /\ R \subseteq Nat
  <2>1. PLAN_MAX_REDIRS \in Int /\ Len(cmds) \in Int /\ 1 \in Int
    BY <1>1, PlanLimits
  <2>2. IsFiniteSet(L) /\ IsFiniteSet(R)
    BY <2>1, FS_Interval
  <2>3. QED  BY <2>2
<1> HIDE DEF L, R
<1>6. IsFiniteSet(L \X R)
  BY <1>5, FS_Product
<1>7. IsFiniteSet(B) /\ Cardinality(B) \in Nat
  BY <1>4, <1>6, FS_Subset, FS_CardinalityType
<1>8. QED  BY <1>3, <1>4, <1>5, <1>7 DEF B

\* The here-documents are numbered in the order they are opened, without a gap.
LEMMA Places ==
    ASSUME NEW cmds, Commands(cmds)
    PROVE  /\ \A jk \in Bodies(cmds) : Place(cmds, jk) \in 1 .. Cardinality(Bodies(cmds))
           /\ \A m \in 1 .. Cardinality(Bodies(cmds)) :
                \E jk \in Bodies(cmds) : Place(cmds, jk) = m
<1> DEFINE B == Bodies(cmds)
           n == Cardinality(B)
           Before(b) == {x \in B : Sooner(x, b)}
           f == [b \in B |-> 1 + Cardinality(Before(b))]
<1>1. IsFiniteSet(B) /\ n \in Nat /\ B \subseteq Nat \X Nat
      /\ \A b \in B : b = <<b[1], b[2]>>
  BY BodiesFinite
<1>2. \A b \in B : Place(cmds, b) = f[b]
  BY DEF Place
<1> HIDE DEF B, n
<1>3. \A b \in B : IsFiniteSet(Before(b)) /\ Cardinality(Before(b)) \in Nat
  <2> TAKE b \in B
  <2>1. Before(b) \subseteq B
    OBVIOUS
  <2> HIDE DEF Before
  <2>2. QED  BY <1>1, <2>1, FS_Subset, FS_CardinalityType
\* One more than what comes before a body is at most the number of them.
<1>4. \A b \in B : Before(b) \cup {b} \subseteq B /\ b \notin Before(b)
  BY <1>1 DEF Sooner
<1>5. ASSUME NEW b \in B, NEW S, IsFiniteSet(S), Before(b) \cup {b} \subseteq S
      PROVE  1 + Cardinality(Before(b)) <= Cardinality(S) /\ Cardinality(S) \in Nat
  <2> DEFINE A == Before(b)
  <2>0. IsFiniteSet(A) /\ Cardinality(A) \in Nat /\ b \notin A /\ A \cup {b} \subseteq S
    BY <1>3, <1>4, <1>5
  <2> HIDE DEF A
  <2>1. Cardinality(A \cup {b}) = Cardinality(A) + 1
    BY <2>0, FS_AddElement
  <2>2. Cardinality(A \cup {b}) <= Cardinality(S) /\ Cardinality(S) \in Nat
    BY <1>5, <2>0, FS_Subset, FS_CardinalityType
  <2>3. 1 + Cardinality(A) <= Cardinality(S)
    <3> DEFINE a == Cardinality(A)
               s == Cardinality(S)
               u == Cardinality(A \cup {b})
    <3>1. a \in Nat /\ s \in Nat /\ u = a + 1 /\ u <= s
      BY <2>0, <2>1, <2>2
    <3> HIDE DEF a, s, u
    <3>2. 1 + a <= s
      BY <3>1
    <3>3. QED  BY <3>2 DEF a, s
  <2>4. QED  BY <2>2, <2>3 DEF A
<1>6. f \in [B -> 1 .. n]
  <2> SUFFICES ASSUME NEW b \in B
               PROVE  1 + Cardinality(Before(b)) \in 1 .. n
    OBVIOUS
  <2>1. 1 + Cardinality(Before(b)) <= n
    BY <1>1, <1>4, <1>5 DEF n
  <2>2. Cardinality(Before(b)) \in Nat
    BY <1>3
  <2> DEFINE a == Cardinality(Before(b))
  <2> HIDE DEF a
  <2>3. 1 + a \in 1 .. n
    BY <1>1, <2>1, <2>2 DEF a
  <2>4. QED  BY <2>3 DEF a
\* Of two bodies one comes before the other.
<1>7. ASSUME NEW a \in B, NEW b \in B, Sooner(a, b)
      PROVE  f[a] # f[b]
  <2>1. Before(a) \cup {a} \subseteq Before(b)
    <3>1. a[1] \in Nat /\ a[2] \in Nat /\ b[1] \in Nat /\ b[2] \in Nat
      BY <1>1
    <3>2. \A x \in B : x[1] \in Nat /\ x[2] \in Nat
      BY <1>1
    <3>3. QED  BY <1>7, <3>1, <3>2 DEF Sooner
  <2>2. 1 + Cardinality(Before(a)) <= Cardinality(Before(b)) /\ Cardinality(Before(b)) \in Nat
    BY <1>3, <1>5, <2>1
  <2> DEFINE u == Cardinality(Before(a))
             w == Cardinality(Before(b))
  <2>3. f[a] = 1 + u /\ f[b] = 1 + w /\ u \in Nat /\ w \in Nat /\ 1 + u <= w
    BY <1>3, <2>2
  <2> HIDE DEF u, w, f
  <2>4. QED  BY <2>3
<1>8. \A a, b \in B : f[a] = f[b] => a = b
  <2> SUFFICES ASSUME NEW a \in B, NEW b \in B, a # b
               PROVE  f[a] # f[b]
    OBVIOUS
  <2>1. a[1] \in Nat /\ a[2] \in Nat /\ b[1] \in Nat /\ b[2] \in Nat
        /\ a = <<a[1], a[2]>> /\ b = <<b[1], b[2]>>
    BY <1>1
  <2>2. Sooner(a, b) \/ Sooner(b, a)
    BY <2>1 DEF Sooner
  <2> HIDE DEF f
  <2>3. QED  BY <1>7, <2>2
<1> HIDE DEF f
<1>9. f \in Injection(B, 1 .. n)
  BY <1>6, <1>8 DEF Injection, IsInjective
<1>10. IsFiniteSet(1 .. n) /\ Cardinality(1 .. n) = n
  BY <1>1, FS_Interval
<1>11. f \in Surjection(B, 1 .. n)
  BY <1>9, <1>10, FS_Injection DEF n
<1>12. \A m \in 1 .. n : \E b \in B : f[b] = m
  BY <1>11 DEF Surjection
<1>13. QED  BY <1>2, <1>6, <1>12 DEF B, n

-----------------------------------------------------------------------------
\* Redirects.

WorldFields == {"fds", "descs", "data", "ok"}

\* Opening a file at a descriptor.
LEMMA OpenAtDomain ==
    ASSUME NEW w, DOMAIN w = WorldFields, NEW d, NEW fd
    PROVE  /\ DOMAIN OpenAt(w, d, fd) = WorldFields
           /\ DOMAIN OpenAt(w, d, fd).fds = DOMAIN w.fds \cup {fd}
<1> DEFINE g == OpenAt(w, d, fd)
<1>1. DOMAIN g = WorldFields /\ g.fds = Join(w.fds, Bound(fd, Len(w.descs) + 1))
  BY DEF OpenAt, WorldFields
<1>2. DOMAIN Join(w.fds, Bound(fd, Len(w.descs) + 1)) = DOMAIN w.fds \cup {fd}
  BY DEF Join, Bound
<1>3. QED  BY <1>1, <1>2

\* A here-document is dropped once it is bound to 0; no other redirect drops anything.
LEMMA RedirectDomain ==
    ASSUME NEW w, DOMAIN w = WorldFields, NEW r, decode_redir(r), NEW tmp
    PROVE  LET g == Redirect(w, r, tmp)
           IN  /\ DOMAIN g = WorldFields
               /\ r.kind \in Here => DOMAIN g.fds = (DOMAIN w.fds \cup {0}) \ {tmp}
               /\ r.kind \notin Here => /\ DOMAIN w.fds \subseteq DOMAIN g.fds
                                        /\ DOMAIN g.fds \subseteq DOMAIN w.fds \cup 0 .. 2
<1> DEFINE g == Redirect(w, r, tmp)
<1>1. CASE r.kind = "in"
  <2>1. r.fd = 0 /\ r.kind \notin Here
    BY <1>1 DEF decode_redir, Here
  <2>2. CASE Path(r.target) \in DOMAIN w.data
    <3> DEFINE d == OnFile(Path(r.target), FALSE)
               o == OpenAt(w, d, 0)
    <3>1. g = o
      BY <1>1, <2>2 DEF Redirect
    <3> HIDE DEF d, g
    <3>2. DOMAIN o = WorldFields /\ DOMAIN o.fds = DOMAIN w.fds \cup {0}
      BY OpenAtDomain
    <3> HIDE DEF g, o
    <3>3. QED  BY <2>1, <3>1, <3>2 DEF g
  <2>3. CASE Path(r.target) \notin DOMAIN w.data
    <3>1. g = [w EXCEPT !.ok = FALSE]
      BY <1>1, <2>3 DEF Redirect
    <3> HIDE DEF g
    <3>2. DOMAIN g = WorldFields /\ g.fds = w.fds
      BY <3>1 DEF WorldFields
    <3>3. QED  BY <2>1, <3>2 DEF g
  <2>4. QED  BY <2>2, <2>3
<1>2. CASE r.kind \in {"out", "append"}
  <2>1. r.fd \in 0 .. 2 /\ r.kind \notin Here /\ r.kind # "in"
    BY <1>2 DEF decode_redir, Here
  <2> DEFINE o == OpenAt(w, OnFile(Path(r.target), r.kind = "append"), r.fd)
             d == IF r.kind = "out" THEN Holds(o.data, Path(r.target), <<>>)
                                    ELSE Created(o.data, Path(r.target))
  <2>2. g = [o EXCEPT !.data = d]
    <3>1. CASE r.kind = "out"
      BY <3>1 DEF Redirect, OnFile
    <3>2. CASE r.kind = "append"
      BY <3>2 DEF Redirect, OnFile
    <3>3. QED  BY <1>2, <3>1, <3>2
  <2> HIDE DEF d
  <2>3. DOMAIN o = WorldFields /\ DOMAIN o.fds = DOMAIN w.fds \cup {r.fd}
    BY OpenAtDomain
  <2> HIDE DEF o, g
  <2>4. DOMAIN g = WorldFields /\ g.fds = o.fds
    BY <2>2, <2>3 DEF WorldFields
  <2>5. QED  BY <2>1, <2>3, <2>4 DEF g
<1>3. CASE r.kind = "dup"
  <2>1. r.fd \in 0 .. 2 /\ r.kind \notin Here
    BY <1>3 DEF decode_redir, Here
  <2>2. g = [w EXCEPT !.fds = dup2(w.fds, r.from, r.fd)]
    BY <1>3 DEF Redirect
  <2> HIDE DEF g
  <2>3. DOMAIN g = WorldFields /\ g.fds = dup2(w.fds, r.from, r.fd)
    BY <2>2 DEF WorldFields
  <2>4. DOMAIN g.fds = DOMAIN w.fds \cup {r.fd}
    BY <2>3, dup2Domain
  <2>5. QED  BY <2>1, <2>3, <2>4 DEF g
<1>4. CASE r.kind \in Here
  <2> DEFINE u == dup2(w.fds, tmp, 0)
             x == close(u, {tmp})
  <2>0. DOMAIN u = DOMAIN w.fds \cup {0} /\ DOMAIN x = DOMAIN u \ {tmp}
    BY dup2Domain, closeDomain
  <2>1. g = [w EXCEPT !.fds = x]
    BY <1>4 DEF Redirect, Here
  <2> HIDE DEF g, u, x
  <2>2. DOMAIN g = WorldFields /\ g.fds = x
    BY <2>1 DEF WorldFields
  <2>3. DOMAIN g.fds = (DOMAIN w.fds \cup {0}) \ {tmp}
    BY <2>0, <2>2
  <2>4. QED  BY <1>4, <2>2, <2>3 DEF g
<1>5. QED  BY <1>1, <1>2, <1>3, <1>4 DEF decode_redir, Here

\* f is the worlds of the first n redirects of c.
Applies(f, c, tmp, fds, n) ==
    f = [i \in 0 .. n |-> IF i = 0 THEN World(fds) ELSE Redirected(f[i - 1], c.redirs[i], tmp[i])]

\* apply_redirects is what its recursion says: there is a function whose value at n
\* is the world after the first n redirects.
LEMMA apply_redirectsSteps ==
    ASSUME NEW c, NEW tmp, NEW fds, Len(c.redirs) \in Nat
    PROVE  \E f : /\ Applies(f, c, tmp, fds, Len(c.redirs))
                 /\ apply_redirects(c, tmp, fds) = f[Len(c.redirs)]
<1> DEFINE L == Len(c.redirs)
           S == {n \in Nat : \E f : Applies(f, c, tmp, fds, n)}
<1>1. 0 \in S
  <2> DEFINE f == [i \in 0 .. 0 |-> World(fds)]
  <2>1. Applies(f, c, tmp, fds, 0)
    BY DEF Applies
  <2>2. QED  BY <2>1
<1>2. ASSUME NEW n \in 0 .. L - 1, n \in S
      PROVE  n + 1 \in S
  <2>1. PICK f : Applies(f, c, tmp, fds, n)
    BY <1>2
  <2> DEFINE g == [i \in 0 .. n + 1 |->
                     IF i = n + 1 THEN Redirected(f[n], c.redirs[n + 1], tmp[n + 1]) ELSE f[i]]
  <2>2. DOMAIN f = 0 .. n
    BY <2>1 DEF Applies
  <2>3. ASSUME NEW i \in 0 .. n + 1
        PROVE  g[i] = IF i = 0 THEN World(fds) ELSE Redirected(g[i - 1], c.redirs[i], tmp[i])
    <3>1. CASE i = n + 1
      BY <3>1
    <3>2. CASE i \in 1 .. n
      <4>1. g[i] = f[i] /\ g[i - 1] = f[i - 1]
        BY <3>2
      <4>2. f[i] = Redirected(f[i - 1], c.redirs[i], tmp[i])
        BY <2>1, <3>2 DEF Applies
      <4>3. QED  BY <3>2, <4>1, <4>2
    <3>3. CASE i = 0
      BY <2>1, <3>3 DEF Applies
    <3>4. QED  BY <3>1, <3>2, <3>3
  <2>4. Applies(g, c, tmp, fds, n + 1)
    BY <2>3 DEF Applies
  <2>5. n + 1 \in Nat
    OBVIOUS
  <2>6. QED  BY <2>4, <2>5
<1>3. 0 .. L \subseteq S
  <2> HIDE DEF S
  <2>1. \A n \in 0 .. L - 1 : n \in S => n + 1 \in S
    BY <1>2
  <2>2. QED  BY <1>1, <2>1, IntervalInduction
<1>4. \E f : Applies(f, c, tmp, fds, L)
  BY <1>3
<1> DEFINE done == CHOOSE f : Applies(f, c, tmp, fds, L)
<1>5. Applies(done, c, tmp, fds, L)
  BY <1>4
<1>6. apply_redirects(c, tmp, fds) = done[L]
  BY DEF apply_redirects, Applies
<1>7. QED  BY <1>5, <1>6

\* The redirects of a command leave what was open but the here-documents, which are
\* all dropped when every redirect works.
LEMMA apply_redirectsDomain ==
    ASSUME NEW c, decode_cmd(c), IsSeq(c.redirs), NEW tmp, NEW fds, NEW O, NEW X,
           0 .. 2 \subseteq O,
           \A k \in DOMAIN c.redirs : c.redirs[k].kind \in Here => tmp[k] \notin O,
           O \subseteq DOMAIN fds,
           DOMAIN fds \subseteq O \cup X \cup
               {tmp[k] : k \in {x \in DOMAIN c.redirs : c.redirs[x].kind \in Here}}
    PROVE  LET w == apply_redirects(c, tmp, fds)
           IN  /\ DOMAIN w = WorldFields
               /\ O \subseteq DOMAIN w.fds
               /\ DOMAIN w.fds \subseteq O \cup X \cup
                     {tmp[k] : k \in {x \in DOMAIN c.redirs : c.redirs[x].kind \in Here}}
               /\ w.ok => DOMAIN w.fds \subseteq O \cup X
<1> DEFINE L == Len(c.redirs)
           T(n) == {tmp[k] : k \in {x \in DOMAIN c.redirs : c.redirs[x].kind \in Here /\ x > n}}
           All == {tmp[k] : k \in {x \in DOMAIN c.redirs : c.redirs[x].kind \in Here}}
<1>1. L \in Nat /\ DOMAIN c.redirs = 1 .. L
  BY SeqFacts
<1>2. PICK f : Applies(f, c, tmp, fds, L) /\ apply_redirects(c, tmp, fds) = f[L]
  BY <1>1, apply_redirectsSteps
<1> DEFINE S == {n \in 0 .. L : /\ DOMAIN f[n] = WorldFields
                                /\ O \subseteq DOMAIN f[n].fds
                                /\ DOMAIN f[n].fds \subseteq O \cup X \cup All
                                /\ f[n].ok => DOMAIN f[n].fds \subseteq O \cup X \cup T(n)}
<1>3. 0 \in S
  <2>1. f[0] = World(fds)
    BY <1>1, <1>2 DEF Applies
  <2>2. DOMAIN f[0] = WorldFields /\ f[0].fds = fds
    BY <2>1 DEF World, WorldFields
  <2>3. All \subseteq T(0)
    BY <1>1
  <2> HIDE DEF T
  <2>4. QED  BY <1>1, <2>2, <2>3
<1>4. ASSUME NEW n \in 0 .. L - 1, n \in S
      PROVE  n + 1 \in S
  <2>1. n + 1 \in 1 .. L /\ n + 1 # 0 /\ (n + 1) - 1 = n /\ n + 1 \in 0 .. L
    BY <1>1
  <2> DEFINE w == f[n]
             r == c.redirs[n + 1]
             t == tmp[n + 1]
             g == Redirect(w, r, t)
  <2>2. f[n + 1] = Redirected(w, r, t)
    BY <1>2, <2>1 DEF Applies
  <2>3. DOMAIN w = WorldFields /\ O \subseteq DOMAIN w.fds /\ DOMAIN w.fds \subseteq O \cup X \cup All
        /\ (w.ok => DOMAIN w.fds \subseteq O \cup X \cup T(n))
    BY <1>4
  <2>4. decode_redir(r) /\ (r.kind \in Here => t \notin O)
    BY <1>1, <2>1 DEF decode_cmd
  <2>5. T(n) \subseteq T(n + 1) \cup (IF r.kind \in Here THEN {t} ELSE {})
    BY <1>1, <2>1
  <2>6. CASE ~w.ok
    <3>1. f[n + 1] = w
      BY <2>2, <2>6 DEF Redirected
    <3> HIDE DEF w, T, All
    <3>2. QED  BY <2>1, <2>3, <2>6, <3>1
  <2>7. CASE w.ok
    <3>1. f[n + 1] = g
      BY <2>2, <2>7 DEF Redirected
    <3> HIDE DEF w, r, t, T, All
    <3>2. /\ DOMAIN g = WorldFields
          /\ r.kind \in Here => DOMAIN g.fds = (DOMAIN w.fds \cup {0}) \ {t}
          /\ r.kind \notin Here => /\ DOMAIN w.fds \subseteq DOMAIN g.fds
                                   /\ DOMAIN g.fds \subseteq DOMAIN w.fds \cup 0 .. 2
      BY <2>3, <2>4, RedirectDomain
    <3> HIDE DEF g
    <3>3. 0 \in O
      OBVIOUS
    <3>4. O \subseteq DOMAIN g.fds /\ DOMAIN g.fds \subseteq O \cup X \cup All
      BY <2>3, <2>4, <3>2, <3>3
    <3>5. DOMAIN g.fds \subseteq O \cup X \cup T(n + 1)
      BY <2>3, <2>4, <2>5, <2>7, <3>2, <3>3
    <3>6. QED  BY <2>1, <3>1, <3>2, <3>4, <3>5
  <2>8. QED  BY <2>6, <2>7
<1>5. L \in S
  <2> HIDE DEF S
  <2>1. \A n \in 0 .. L - 1 : n \in S => n + 1 \in S
    BY <1>4
  <2>2. 0 .. L \subseteq S
    BY <1>1, <1>3, <2>1, IntervalInduction
  <2>3. QED  BY <1>1, <2>2
<1>6. T(L) = {}
  BY <1>1
<1>7. QED  BY <1>2, <1>5, <1>6

-----------------------------------------------------------------------------
\* Decoding.

\* f is the programs nested at each depth up to n, and what decoding asks of them.
Nests(f, program, n) ==
    f = [d \in 0 .. n |-> IF d = 0 THEN {program} ELSE Subshells(f[d - 1])]

Accepted(f) ==
    /\ \A d \in 0 .. PLAN_MAX_DEPTH : \A prog \in f[d] : decode_chains(prog)
    /\ f[PLAN_MAX_DEPTH + 1] = {}

\* The recursion over nested programs is what it says: there is such a function.
LEMMA decode_programSteps ==
    ASSUME NEW program, decode_program(program)
    PROVE  \E f : Nests(f, program, PLAN_MAX_DEPTH + 1) /\ Accepted(f)
<1> DEFINE L == PLAN_MAX_DEPTH + 1
           S == {n \in Nat : \E f : Nests(f, program, n)}
<1>0. L \in Nat
  BY PlanLimits
<1> HIDE DEF L
<1>1. 0 \in S
  <2> DEFINE f == [d \in 0 .. 0 |-> {program}]
  <2>1. Nests(f, program, 0)
    BY DEF Nests
  <2>2. QED  BY <2>1
<1>2. ASSUME NEW n \in 0 .. L - 1, n \in S
      PROVE  n + 1 \in S
  <2>1. PICK f : Nests(f, program, n)
    BY <1>2
  <2> DEFINE g == [d \in 0 .. n + 1 |-> IF d = n + 1 THEN Subshells(f[n]) ELSE f[d]]
  <2>2. DOMAIN f = 0 .. n /\ n \in Nat
    BY <1>0, <2>1 DEF Nests
  <2>3. ASSUME NEW d \in 0 .. n + 1
        PROVE  g[d] = IF d = 0 THEN {program} ELSE Subshells(g[d - 1])
    <3>1. CASE d = n + 1
      BY <2>2, <3>1
    <3>2. CASE d \in 1 .. n
      <4>1. g[d] = f[d] /\ g[d - 1] = f[d - 1]
        BY <2>2, <3>2
      <4>2. \A x \in 0 .. n : f[x] = IF x = 0 THEN {program} ELSE Subshells(f[x - 1])
        BY <2>1 DEF Nests
      <4>3. QED  BY <3>2, <4>1, <4>2
    <3>3. CASE d = 0
      BY <2>1, <2>2, <3>3 DEF Nests
    <3>4. QED  BY <2>2, <3>1, <3>2, <3>3
  <2>4. Nests(g, program, n + 1)
    BY <2>3 DEF Nests
  <2>5. n + 1 \in Nat
    BY <2>2
  <2>6. QED  BY <2>4, <2>5
<1>3. L \in S
  <2> HIDE DEF S
  <2>1. \A n \in 0 .. L - 1 : n \in S => n + 1 \in S
    BY <1>2
  <2>2. 0 .. L \subseteq S
    BY <1>0, <1>1, <2>1, IntervalInduction
  <2>3. QED  BY <1>0, <2>2
<1>4. \E f : Nests(f, program, L)
  BY <1>3
<1> DEFINE nested == CHOOSE f : Nests(f, program, L)
<1>5. Nests(nested, program, L)
  BY <1>4
<1>6. Accepted(nested)
  BY DEF decode_program, Nests, L, Accepted
<1>7. QED  BY <1>5, <1>6 DEF L

\* The programs of a plan that decodes are a set that is closed under subshells.
LEMMA DecodedIsRunnable ==
    ASSUME NEW program, decode_program(program)
    PROVE  Runnable(program)
<1> DEFINE M == PLAN_MAX_DEPTH
<1>0. M \in Nat
  BY PlanLimits
<1>1. PICK f : /\ Nests(f, program, M + 1)
               /\ \A d \in 0 .. M : \A prog \in f[d] : decode_chains(prog)
               /\ f[M + 1] = {}
  <2>1. PICK f : Nests(f, program, PLAN_MAX_DEPTH + 1) /\ Accepted(f)
    BY decode_programSteps
  <2>2. QED  BY <2>1 DEF Accepted
<1> DEFINE P == UNION {f[d] : d \in 0 .. M}
<1> HIDE DEF M
<1>2. f[0] = {program} /\ \A d \in 0 .. M : f[d + 1] = Subshells(f[d])
  <2>1. \A d \in 0 .. M + 1 : f[d] = IF d = 0 THEN {program} ELSE Subshells(f[d - 1])
    BY <1>1 DEF Nests
  <2>2. \A d \in 0 .. M : d + 1 \in 0 .. M + 1 /\ d + 1 # 0 /\ (d + 1) - 1 = d
    BY <1>0
  <2>3. 0 \in 0 .. M + 1
    BY <1>0
  <2>4. QED  BY <2>1, <2>2, <2>3
<1>3. program \in P
  BY <1>0, <1>2
<1>4. ASSUME NEW prog \in P, NEW i \in DOMAIN prog, NEW j \in DOMAIN prog[i].cmds, IsSub(prog[i].cmds[j])
      PROVE  prog[i].cmds[j].sub \in P
  <2>1. PICK d \in 0 .. M : prog \in f[d]
    OBVIOUS
  <2>2. prog[i] \in ToSet(prog) /\ prog[i].cmds[j] \in ToSet(prog[i].cmds)
    BY DEF ToSet
  <2>3. prog[i].cmds[j] \in CommandsOf(prog)
    BY <2>2 DEF CommandsOf
  <2>4. prog[i].cmds[j].sub \in Subshells(f[d])
    BY <1>4, <2>1, <2>3 DEF Subshells
  <2>5. prog[i].cmds[j].sub \in f[d + 1]
    BY <1>2, <2>4
  <2>6. d + 1 \in 0 .. M
    BY <1>0, <1>1, <2>5
  <2>7. QED  BY <2>5, <2>6
<1>5. \A prog \in P : decode_chains(prog)
  BY <1>1
<1>6. Closed(P)
  <2> HIDE DEF P
  <2>1. QED  BY <1>4, <1>5 DEF Closed
<1>7. QED  BY <1>3, <1>6 DEF Runnable

-----------------------------------------------------------------------------
\* What a step that changes no more than the processes there are has to show.

\* The step forks nothing: each process is typed by itself, keeps its parent, stays
\* reaped, and is still awaited by whoever awaited it, unless it was reaped or a call failed.
LEMMA SameProcesses ==
    ASSUME IInv, IsSeq(procs'), Len(procs') = Len(procs), faults' \in Nat, faults' >= faults,
           plan'.status = plan.status \/ Status', plan.status # "over",
           \A p \in DOMAIN procs : /\ Alone(procs'[p], p, Len(procs), faults')
                                   /\ procs'[p].parent = procs[p].parent
                                   /\ procs[p].state = "reaped" => procs'[p].state = "reaped",
           \A a, c \in DOMAIN procs : Awaits(procs[a], c) =>
               \/ Awaits(procs'[a], c) \/ procs'[c].state = "reaped"
               \/ faults' > 0 /\ a # Root
    PROVE  IInv'
<1>1. Len(procs) \in Nat /\ DOMAIN procs = 1 .. Len(procs) /\ faults \in Nat
  BY SeqFacts DEF IInv
<1>2. DOMAIN procs' = DOMAIN procs
  BY <1>1, SeqFacts
<1>3. Status'
  BY DEF Status, IInv
<1>4. ASSUME NEW p \in DOMAIN procs
      PROVE  Family(p)'
  <2>1. SUFFICES ASSUME p # Root
                 PROVE  /\ procs'[p].parent \in 1 .. p - 1
                        /\ \/ procs'[p].state = "reaped"
                           \/ Awaits(procs'[procs'[p].parent], p)
                           \/ faults' > 0 /\ procs'[p].parent # Root
    BY DEF Family
  <2> DEFINE a == procs[p].parent
  <2>2. /\ a \in 1 .. p - 1
        /\ procs[p].state = "reaped" \/ Awaits(procs[a], p) \/ (faults > 0 /\ a # Root)
    BY <2>1 DEF IInv, Family
  <2>3. procs'[p].parent = a
    OBVIOUS
  <2> HIDE DEF a
  <2>4. a \in DOMAIN procs
    BY <1>1, <2>2
  <2>5. QED  BY <1>1, <2>2, <2>3, <2>4
<1>5. QED  BY <1>2, <1>3, <1>4 DEF IInv

\* One process changes.
LEMMA OneProcess ==
    ASSUME IInv, plan.status = "running", NEW p \in DOMAIN procs, NEW q,
           procs' = [procs EXCEPT ![p] = q], faults' \in Nat, faults' >= faults,
           plan'.status = plan.status \/ Status',
           Alone(q, p, Len(procs), faults'), q.parent = procs[p].parent,
           procs[p].state # "reaped",
           \A c \in DOMAIN procs : Awaits(procs[p], c) => Awaits(q, c) \/ (faults' > 0 /\ p # Root)
    PROVE  IInv'
<1>1. IsSeq(procs') /\ Len(procs') = Len(procs)
  BY Updated DEF IInv
<1>2. \A x \in DOMAIN procs : procs'[x] = IF x = p THEN q ELSE procs[x]
  OBVIOUS
<1>3. \A x \in DOMAIN procs : Alone(procs[x], x, Len(procs), faults')
  <2>1. faults \in Nat /\ \A x \in DOMAIN procs : Alone(procs[x], x, Len(procs), faults)
    BY DEF IInv
  <2>2. faults > 0 => faults' > 0
    BY <2>1
  <2>3. QED  BY <2>1, <2>2 DEF Alone, PidsOK
<1>4. \A x \in DOMAIN procs : /\ Alone(procs'[x], x, Len(procs), faults')
                              /\ procs'[x].parent = procs[x].parent
                              /\ procs[x].state = "reaped" => procs'[x].state = "reaped"
  BY <1>2, <1>3
<1>5. \A a, c \in DOMAIN procs : Awaits(procs[a], c) =>
        Awaits(procs'[a], c) \/ procs'[c].state = "reaped" \/ (faults' > 0 /\ a # Root)
  BY <1>2
<1>6. QED  BY <1>1, <1>4, <1>5, SameProcesses

\* One process changes what it runs only.
LEMMA OneRun ==
    ASSUME IInv, plan.status = "running", NEW p \in DOMAIN procs, NEW q,
           procs' = [procs EXCEPT ![p] = q], UNCHANGED <<plan, faults>>,
           DOMAIN q = ProcFields, q.state = procs[p].state, q.fds = procs[p].fds,
           q.sh = procs[p].sh, q.stage = procs[p].stage, q.parent = procs[p].parent,
           q.state # "reaped"
    PROVE  IInv'
<1>1. Alone(procs[p], p, Len(procs), faults) /\ faults \in Nat
  BY DEF IInv
<1>2. FdsOK(q) /\ ShTyped(q.sh)
  BY <1>1 DEF Alone, FdsOK
<1>3. PidsOK(q, p, Len(procs), faults)
  BY <1>1 DEF Alone, PidsOK
<1>4. \A c : Awaits(procs[p], c) => Awaits(q, c)
  BY DEF Awaits
<1>5. Alone(q, p, Len(procs), faults')
  BY <1>2, <1>3 DEF Alone
<1>6. plan'.status = plan.status /\ faults' \in Nat /\ faults' >= faults /\ procs[p].state # "reaped"
  BY <1>1
<1>7. QED  BY <1>1, <1>4, <1>5, <1>6, OneProcess

\* A process ends that waits for nobody.
LEMMA OneExits ==
    ASSUME IInv, plan.status = "running", NEW p \in DOMAIN procs, NEW code,
           procs' = [procs EXCEPT ![p] = Exited(procs[p], code)],
           plan' = plan, faults' \in Nat, faults' >= faults,
           procs[p].state # "reaped",
           \A c \in DOMAIN procs : Awaits(procs[p], c) => faults' > 0 /\ p # Root
    PROVE  IInv'
<1> DEFINE q == Exited(procs[p], code)
<1>1. Alone(procs[p], p, Len(procs), faults)
  BY DEF IInv
<1>2. DOMAIN q = ProcFields /\ q.state = "zombie" /\ q.sh = procs[p].sh /\ q.parent = procs[p].parent
  BY <1>1 DEF Alone, Exited, ProcFields
<1> HIDE DEF q
<1>3. Alone(q, p, Len(procs), faults')
  BY <1>1, <1>2 DEF Alone, FdsOK, PidsOK
<1>4. procs' = [procs EXCEPT ![p] = q]
  BY DEF q
<1>5. QED  BY <1>2, <1>3, <1>4, OneProcess

-----------------------------------------------------------------------------
\* The programs of a shell.

\* The root of the plan ends it.
LEMMA RootEnds ==
    ASSUME IInv, plan.status = "running", Root \in DOMAIN procs, NEW code,
           plan' = [status |-> "over", code |-> code],
           procs' = [procs EXCEPT ![Root].sh = [Sh(Root) EXCEPT !.step = "end"]],
           faults' \in Nat, faults' >= faults,
           procs[Root].state = "shell", DOMAIN procs[Root].fds = Own(Sh(Root)),
           \A c \in DOMAIN procs : ~Awaits(procs[Root], c)
    PROVE  IInv'
<1> DEFINE sh == [Sh(Root) EXCEPT !.step = "end"]
           q == [procs[Root] EXCEPT !.sh = sh]
<1>1. Alone(procs[Root], Root, Len(procs), faults)
  BY DEF IInv
<1>2. /\ DOMAIN sh = ShFields /\ sh.prog = Sh(Root).prog /\ sh.outfd = Sh(Root).outfd
      /\ sh.errfd = Sh(Root).errfd /\ sh.i = Sh(Root).i /\ sh.step = "end"
  BY <1>1 DEF Alone, ShTyped, ShFields, Sh
<1>3. ShTyped(sh) /\ Own(sh) = Own(Sh(Root))
  BY <1>1, <1>2 DEF Alone, ShTyped, Sh, Own
<1>4. procs' = [procs EXCEPT ![Root] = q]
  OBVIOUS
<1> HIDE DEF sh
<1>5. /\ DOMAIN q = ProcFields /\ q.sh = sh /\ q.state = "shell"
      /\ q.fds = procs[Root].fds /\ q.parent = procs[Root].parent
  BY <1>1 DEF Alone, ProcFields
<1> HIDE DEF q
<1>6. Alone(q, Root, Len(procs), faults')
  BY <1>2, <1>3, <1>5 DEF Alone, FdsOK, PidsOK, Forking
<1>7. Status'
  <2>1. procs'[Root] = q /\ Root \in DOMAIN procs'
    BY <1>4
  <2>2. QED  BY <1>2, <1>5, <2>1 DEF Status, In_, Sh
<1>8. QED  BY <1>4, <1>5, <1>6, <1>7, OneProcess

\* run_pipeline returns -1: the plan is over, or the subshell exits with 255.
LEMMA FailsHolds ==
    ASSUME IInv, plan.status = "running", NEW p \in DOMAIN procs, Fails(p),
           faults' \in Nat, faults' >= faults,
           procs[p].state = "shell", DOMAIN procs[p].fds = Own(Sh(p)),
           \A c \in DOMAIN procs : ~Awaits(procs[p], c)
    PROVE  IInv'
<1>1. CASE p = Root
  BY <1>1, RootEnds DEF Fails, SetSh
<1>2. CASE p # Root
  <2>1. procs' = [procs EXCEPT ![p] = Exited(procs[p], 255)] /\ plan' = plan
    BY <1>2 DEF Fails
  <2>2. QED  BY <2>1, OneExits
<1>3. QED  BY <1>1, <1>2

\* What is known of a shell that is at a chain.
LEMMA AtChainFacts ==
    ASSUME IInv, NEW p \in DOMAIN procs, In_(p, "chain")
    PROVE  /\ Alone(procs[p], p, Len(procs), faults) /\ faults \in Nat
           /\ procs[p].state = "shell" /\ Sh(p).step = "chain"
           /\ DOMAIN procs[p].fds = Own(Sh(p))
           /\ \A c \in DOMAIN procs : ~Awaits(procs[p], c)
<1>1. procs[p].state = "shell" /\ procs[p].sh.step = "chain" /\ faults \in Nat
      /\ Alone(procs[p], p, Len(procs), faults)
  BY DEF IInv, In_, Sh
<1>2. QED  BY <1>1 DEF Alone, FdsOK, Awaits, Forking, Sh

\* A chain is skipped.
LEMMA SkipChainHolds ==
    ASSUME IInv, plan.status = "running", NEW p \in DOMAIN procs, SkipChain(p)
    PROVE  IInv'
<1> DEFINE sh == [Sh(p) EXCEPT !.i = @ + 1]
           q == [procs[p] EXCEPT !.sh = sh]
<1>0. procs' = [procs EXCEPT ![p] = q] /\ UNCHANGED <<plan, faults>> /\ In_(p, "chain")
  BY DEF SkipChain, SetSh, AtChain
<1>1. /\ Alone(procs[p], p, Len(procs), faults) /\ faults \in Nat
      /\ procs[p].state = "shell" /\ Sh(p).step = "chain"
      /\ DOMAIN procs[p].fds = Own(Sh(p))
      /\ \A c \in DOMAIN procs : ~Awaits(procs[p], c)
  BY <1>0, AtChainFacts
<1>2. /\ DOMAIN sh = ShFields /\ sh.prog = Sh(p).prog /\ sh.outfd = Sh(p).outfd
      /\ sh.errfd = Sh(p).errfd /\ sh.i = Sh(p).i + 1 /\ sh.step = "chain"
  BY <1>1 DEF Alone, ShTyped, ShFields, Sh
<1>3. ShTyped(sh) /\ Own(sh) = Own(Sh(p))
  BY <1>1, <1>2 DEF Alone, ShTyped, Sh, Own
<1> HIDE DEF sh
<1>4. /\ DOMAIN q = ProcFields /\ q.sh = sh /\ q.state = "shell"
      /\ q.fds = procs[p].fds /\ q.parent = procs[p].parent
  BY <1>1 DEF Alone, ProcFields
<1> HIDE DEF q
<1>5. Alone(q, p, Len(procs), faults')
  BY <1>1, <1>2, <1>3, <1>4 DEF Alone, FdsOK, PidsOK, Forking
<1>6. plan'.status = plan.status /\ faults' \in Nat /\ faults' >= faults
  BY <1>0, <1>1
<1>7. QED  BY <1>0, <1>1, <1>4, <1>5, <1>6, OneProcess

\* A program ends: it is at no pipeline, so it awaits nobody.
LEMMA EndProgramHolds ==
    ASSUME IInv, plan.status = "running", NEW p \in DOMAIN procs, EndProgram(p)
    PROVE  IInv'
<1>1. In_(p, "chain") /\ faults' = faults
  BY DEF EndProgram
<1>2. /\ faults' \in Nat /\ faults' >= faults
      /\ procs[p].state = "shell" /\ DOMAIN procs[p].fds = Own(Sh(p))
      /\ \A c \in DOMAIN procs : ~Awaits(procs[p], c)
  BY <1>1, AtChainFacts
<1>3. CASE p = Root
  BY <1>2, <1>3, RootEnds DEF EndProgram, SetSh
<1>4. CASE p # Root
  <2>1. procs' = [procs EXCEPT ![p] = Exited(procs[p], Sh(p).last)] /\ plan' = plan
    BY <1>4 DEF EndProgram
  <2>2. QED  BY <1>2, <2>1, OneExits
<1>5. QED  BY <1>3, <1>4

\* A call that fails is counted.
LEMMA FaultCounts ==
    ASSUME faults \in Nat, Fault
    PROVE  faults' \in Nat /\ faults' >= faults /\ faults' > 0
BY DEF Fault

\* A pipeline cannot be started.
LEMMA StartFailsHolds ==
    ASSUME IInv, plan.status = "running", NEW p \in DOMAIN procs, StartFails(p)
    PROVE  IInv'
<1>1. In_(p, "chain") /\ Fault /\ Fails(p)
  BY DEF StartFails, AtChain
<1>2. /\ faults' \in Nat /\ faults' >= faults
      /\ procs[p].state = "shell" /\ DOMAIN procs[p].fds = Own(Sh(p))
      /\ \A c \in DOMAIN procs : ~Awaits(procs[p], c)
  BY <1>1, AtChainFacts, FaultCounts
<1>3. QED  BY <1>1, <1>2, FailsHolds

-----------------------------------------------------------------------------
\* A pipeline: its children are forked, and waited for or killed.

\* What a shell has open for a pipeline does not depend on how far it has come.
LEMMA SameWires ==
    ASSUME NEW a, NEW b, b.prog = a.prog, b.i = a.i, b.outfd = a.outfd, b.errfd = a.errfd,
           b.tmp = a.tmp, b.pipes = a.pipes, NEW fds, Wires(fds, a)
    PROVE  Wires(fds, b) /\ CmdsOf(b) = CmdsOf(a) /\ Own(b) = Own(a)
<1>1. CmdsOf(b) = CmdsOf(a) /\ Own(b) = Own(a)
  BY DEF CmdsOf, Own
<1>2. Held(b) = Held(a) /\ PipeFds(b) = PipeFds(a)
  BY <1>1 DEF Held, PipeFds
<1>3. TmpOK(b) /\ PipesOK(b)
  BY <1>1 DEF Wires, TmpOK, PipesOK
<1>4. QED  BY <1>1, <1>2, <1>3 DEF Wires

\* The descriptors of here-documents and pipes are apart from the shell's own.
LEMMA Apart ==
    ASSUME NEW sh, ShTyped(sh), TmpOK(sh)
    PROVE  /\ \A j \in DOMAIN CmdsOf(sh) : TmpFds(sh.tmp, j) \cap Own(sh) = {}
           /\ Held(sh) \subseteq UNION {TmpFds(sh.tmp, j) : j \in DOMAIN CmdsOf(sh)}
           /\ Held(sh) \cap Own(sh) = {}
           /\ Own(sh) \subseteq Nat
           /\ PipesOK(sh) => PipeFds(sh) \cap Own(sh) = {}
<1>1. Own(sh) \subseteq Nat /\ -1 \notin Own(sh)
  BY DEF Own, ShTyped
<1>2. \A j \in DOMAIN CmdsOf(sh) : TmpFds(sh.tmp, j) \cap Own(sh) = {}
  <2> SUFFICES ASSUME NEW j \in DOMAIN CmdsOf(sh), NEW k \in DOMAIN sh.tmp[j]
               PROVE  sh.tmp[j][k] \notin Own(sh)
    BY DEF TmpFds
  <2>1. QED  BY <1>1 DEF TmpOK
<1>3. Held(sh) \subseteq UNION {TmpFds(sh.tmp, j) : j \in DOMAIN CmdsOf(sh)}
  <2> SUFFICES ASSUME NEW jk \in Bodies(CmdsOf(sh))
               PROVE  sh.tmp[jk[1]][jk[2]] \in UNION {TmpFds(sh.tmp, j) : j \in DOMAIN CmdsOf(sh)}
    BY DEF Held
  <2>1. Commands(CmdsOf(sh))
    BY DecodedCommands DEF TmpOK
  <2>2. jk[1] \in DOMAIN CmdsOf(sh) /\ jk[2] \in DOMAIN CmdsOf(sh)[jk[1]].redirs
    BY <2>1, BodiesFinite
  <2>3. jk[2] \in DOMAIN sh.tmp[jk[1]]
    BY <2>2 DEF TmpOK
  <2>4. sh.tmp[jk[1]][jk[2]] \in TmpFds(sh.tmp, jk[1])
    BY <2>3 DEF TmpFds
  <2>5. QED  BY <2>2, <2>4
<1>4. PipesOK(sh) => PipeFds(sh) \cap Own(sh) = {}
  BY DEF PipesOK, PipeFds
<1>5. Held(sh) \cap Own(sh) = {}
  BY <1>2, <1>3
<1>6. QED  BY <1>1, <1>2, <1>3, <1>4, <1>5

\* What is known of a shell that forks, waits or kills.
LEMMA ForkingFacts ==
    ASSUME IInv, NEW p \in DOMAIN procs, NEW s \in Forking, In_(p, s)
    PROVE  /\ Alone(procs[p], p, Len(procs), faults) /\ faults \in Nat
           /\ Len(procs) \in Nat /\ DOMAIN procs = 1 .. Len(procs) /\ p \in Nat \ {0}
           /\ procs[p].state = "shell" /\ Sh(p).step = s /\ ShTyped(Sh(p))
           /\ Cmds(p) = CmdsOf(Sh(p)) /\ Len(Cmds(p)) \in Nat \ {0}
           /\ DOMAIN Cmds(p) = 1 .. Len(Cmds(p)) /\ Sh(p).i \in DOMAIN Sh(p).prog
           /\ Sh(p).pids \in Seq(p + 1 .. Len(procs)) /\ Sh(p).k \in Nat \ {0}
           /\ Sh(p).failed \in BOOLEAN /\ (Sh(p).failed => faults > 0)
           /\ s = "fork" => /\ Wires(procs[p].fds, Sh(p))
                            /\ Sh(p).k <= Len(Cmds(p)) + 1
                            /\ Sh(p).failed \/ Len(Sh(p).pids) = Sh(p).k - 1
           /\ s # "fork" => DOMAIN procs[p].fds = Own(Sh(p))
           /\ s = "wait" => Sh(p).k <= Len(Sh(p).pids)
           /\ s = "kill" => faults > 0
<1>1. Alone(procs[p], p, Len(procs), faults) /\ faults \in Nat /\ procs[p].state = "shell"
      /\ procs[p].sh.step = s /\ IsSeq(procs)
  BY DEF IInv, In_, Sh
<1>2. Len(procs) \in Nat /\ DOMAIN procs = 1 .. Len(procs) /\ p \in Nat \ {0}
  BY <1>1, SeqFacts
<1>3. ShTyped(Sh(p)) /\ Sh(p) = procs[p].sh /\ FdsOK(procs[p]) /\ PidsOK(procs[p], p, Len(procs), faults)
  BY <1>1 DEF Alone, Sh
<1>4. Cmds(p) = CmdsOf(Sh(p))
  BY DEF Cmds, Chain, CmdsOf
<1>5. /\ Sh(p).pids \in Seq(p + 1 .. Len(procs)) /\ Sh(p).k \in Nat \ {0}
      /\ Sh(p).i \in DOMAIN Sh(p).prog
      /\ Sh(p).failed \in BOOLEAN /\ (Sh(p).failed => faults > 0)
      /\ s = "fork" => /\ Sh(p).k <= Len(Cmds(p)) + 1
                       /\ Sh(p).failed \/ Len(Sh(p).pids) = Sh(p).k - 1
      /\ s = "wait" => Sh(p).k <= Len(Sh(p).pids)
      /\ s = "kill" => faults > 0
  BY <1>1, <1>3, <1>4 DEF PidsOK
<1>6. Len(Cmds(p)) \in Nat \ {0} /\ DOMAIN Cmds(p) = 1 .. Len(Cmds(p))
  BY <1>3, <1>4, <1>5, DecodedCommands
<1>7. /\ s = "fork" => Wires(procs[p].fds, Sh(p))
      /\ s # "fork" => DOMAIN procs[p].fds = Own(Sh(p))
  BY <1>1, <1>3 DEF FdsOK, Forking
<1>8. QED  BY <1>1, <1>2, <1>3, <1>4, <1>5, <1>6, <1>7

\* fork fails: the children there are will be killed, and a call has failed.
LEMMA ForkFailsHolds ==
    ASSUME IInv, plan.status = "running", NEW p \in DOMAIN procs, ForkFails(p)
    PROVE  IInv'
<1> DEFINE n == Len(Cmds(p)) + 1
           sh == [Sh(p) EXCEPT !.k = n, !.failed = TRUE]
           q == [procs[p] EXCEPT !.sh = sh]
<1>0. procs' = [procs EXCEPT ![p] = q] /\ plan' = plan /\ Fault /\ In_(p, "fork")
  BY DEF ForkFails, SetSh
<1>1. /\ Alone(procs[p], p, Len(procs), faults) /\ faults \in Nat
      /\ procs[p].state = "shell" /\ Sh(p).step = "fork" /\ ShTyped(Sh(p))
      /\ Cmds(p) = CmdsOf(Sh(p)) /\ Len(Cmds(p)) \in Nat \ {0}
      /\ Sh(p).i \in DOMAIN Sh(p).prog
      /\ Sh(p).pids \in Seq(p + 1 .. Len(procs)) /\ Wires(procs[p].fds, Sh(p))
  BY <1>0, ForkingFacts DEF Forking
<1>2. faults' \in Nat /\ faults' >= faults /\ faults' > 0
  BY <1>0, <1>1, FaultCounts
<1>3. /\ DOMAIN sh = ShFields /\ sh.prog = Sh(p).prog /\ sh.outfd = Sh(p).outfd
      /\ sh.errfd = Sh(p).errfd /\ sh.i = Sh(p).i /\ sh.step = "fork" /\ sh.tmp = Sh(p).tmp
      /\ sh.pipes = Sh(p).pipes /\ sh.k = n /\ sh.failed = TRUE /\ sh.pids = Sh(p).pids
  BY <1>1 DEF ShTyped, ShFields
<1>4. ShTyped(sh)
  BY <1>1, <1>3 DEF ShTyped
<1> HIDE DEF sh
<1>5. Wires(procs[p].fds, sh) /\ CmdsOf(sh) = Cmds(p)
  BY <1>1, <1>3, SameWires
<1>6. /\ DOMAIN q = ProcFields /\ q.sh = sh /\ q.state = "shell"
      /\ q.fds = procs[p].fds /\ q.parent = procs[p].parent
  BY <1>1 DEF Alone, ProcFields
<1> HIDE DEF q
<1>7. FdsOK(q)
  BY <1>3, <1>5, <1>6 DEF FdsOK
<1>8. PidsOK(q, p, Len(procs), faults')
  <2>1. n \in Nat \ {0} /\ n <= Len(CmdsOf(sh)) + 1 /\ sh.i \in DOMAIN sh.prog
    BY <1>1, <1>3, <1>5
  <2> HIDE DEF n
  <2>2. QED  BY <1>1, <1>2, <1>3, <1>6, <2>1 DEF PidsOK
<1>9. \A c \in DOMAIN procs : Awaits(procs[p], c) => Awaits(q, c)
  BY <1>3, <1>6 DEF Awaits, Forking, Sh
<1>10. QED  BY <1>0, <1>1, <1>2, <1>4, <1>6, <1>7, <1>8, <1>9, OneProcess DEF Alone

\* The pids of a shell stay what they are when there are more processes.
LEMMA PidsGrow ==
    ASSUME NEW q, NEW p \in Nat, NEW n \in Nat, NEW f, PidsOK(q, p, n, f)
    PROVE  PidsOK(q, p, n + 1, f)
<1>1. p + 1 .. n \subseteq p + 1 .. n + 1
  OBVIOUS
<1>2. q.sh.pids \in Seq(p + 1 .. n) => q.sh.pids \in Seq(p + 1 .. n + 1)
  BY <1>1, SeqGrows
<1>3. QED  BY <1>2 DEF PidsOK

\* A fork: the new process is the last one, its parent awaits it, and it has the
\* parent's descriptors.
LEMMA ForkHolds ==
    ASSUME IInv, plan.status = "running", NEW p \in DOMAIN procs, Fork(p)
    PROVE  IInv'
<1>n. PICK n : n = Len(procs)
  OBVIOUS
<1> DEFINE pids == Append(Sh(p).pids, n + 1)
           sh == [Sh(p) EXCEPT !.k = @ + 1, !.pids = pids]
           q == [procs[p] EXCEPT !.sh = sh]
           P == [procs EXCEPT ![p] = q]
           c == Child(p)
<1>0. In_(p, "fork") /\ Sh(p).k <= Len(Cmds(p)) /\ UNCHANGED <<plan, faults>>
  BY DEF Fork
<1>1. procs' = Append(P, c)
  <2>1. [procs EXCEPT ![p].sh.k = @ + 1, ![p].sh.pids = Append(@, Len(procs) + 1)] = P
    BY <1>n DEF Sh
  <2>2. QED  BY <2>1 DEF Fork
<1>2. /\ Alone(procs[p], p, n, faults) /\ faults \in Nat
      /\ n \in Nat /\ DOMAIN procs = 1 .. n /\ p \in 1 .. n
      /\ procs[p].state = "shell" /\ Sh(p).step = "fork" /\ ShTyped(Sh(p))
      /\ Cmds(p) = CmdsOf(Sh(p)) /\ Len(Cmds(p)) \in Nat \ {0}
      /\ DOMAIN Cmds(p) = 1 .. Len(Cmds(p)) /\ Sh(p).i \in DOMAIN Sh(p).prog
      /\ Sh(p).pids \in Seq(p + 1 .. n) /\ Wires(procs[p].fds, Sh(p))
      /\ Sh(p).k \in Nat \ {0} /\ Sh(p).failed \in BOOLEAN /\ (Sh(p).failed => faults > 0)
      /\ Sh(p).failed \/ Len(Sh(p).pids) = Sh(p).k - 1
  BY <1>0, <1>n, ForkingFacts DEF Forking
<1>3. /\ pids \in Seq(p + 1 .. n + 1) /\ Len(pids) = Len(Sh(p).pids) + 1
      /\ Len(Sh(p).pids) \in Nat /\ DOMAIN pids = 1 .. Len(pids)
      /\ DOMAIN Sh(p).pids = 1 .. Len(Sh(p).pids)
      /\ pids[Len(Sh(p).pids) + 1] = n + 1
      /\ \A m \in DOMAIN Sh(p).pids : pids[m] = Sh(p).pids[m]
  <2> DEFINE s == Sh(p).pids
             T == p + 1 .. n + 1
  <2>1. s \in Seq(p + 1 .. n) /\ p + 1 .. n \subseteq T /\ n + 1 \in T
    BY <1>2
  <2> HIDE DEF T
  <2>2. s \in Seq(T)
    BY <2>1, SeqGrows
  <2> HIDE DEF s
  <2>3. Append(s, n + 1) \in Seq(T) /\ Len(Append(s, n + 1)) = Len(s) + 1 /\ Len(s) \in Nat
        /\ DOMAIN s = 1 .. Len(s) /\ DOMAIN Append(s, n + 1) = 1 .. Len(s) + 1
        /\ Append(s, n + 1)[Len(s) + 1] = n + 1
        /\ \A m \in DOMAIN s : Append(s, n + 1)[m] = s[m]
    BY <2>1, <2>2
  <2>4. QED  BY <2>3 DEF s, T
<1> HIDE DEF pids
<1>4. /\ DOMAIN sh = ShFields /\ sh.prog = Sh(p).prog /\ sh.outfd = Sh(p).outfd
      /\ sh.errfd = Sh(p).errfd /\ sh.i = Sh(p).i /\ sh.step = "fork" /\ sh.tmp = Sh(p).tmp
      /\ sh.pipes = Sh(p).pipes /\ sh.k = Sh(p).k + 1 /\ sh.failed = Sh(p).failed /\ sh.pids = pids
  BY <1>2 DEF ShTyped, ShFields
<1>5. ShTyped(sh)
  BY <1>2, <1>4 DEF ShTyped
<1> HIDE DEF sh
<1>6. Wires(procs[p].fds, sh) /\ CmdsOf(sh) = Cmds(p)
  BY <1>2, <1>4, SameWires
<1>7. /\ DOMAIN q = ProcFields /\ q.sh = sh /\ q.state = "shell"
      /\ q.fds = procs[p].fds /\ q.parent = procs[p].parent
  BY <1>2 DEF Alone, ProcFields
<1>8. /\ DOMAIN c = ProcFields /\ c.sh = Sh(p) /\ c.state = "child" /\ c.stage = Sh(p).k
      /\ c.fds = procs[p].fds /\ c.parent = p
  BY DEF Child, Proc, ProcFields
<1> HIDE DEF q, c
<1>9. /\ IsSeq(procs') /\ Len(procs') = n + 1
      /\ \A x \in 1 .. n : procs'[x] = IF x = p THEN q ELSE procs[x]
      /\ procs'[n + 1] = c
  <2>1. IsSeq(P) /\ Len(P) = n
    BY <1>n, Updated DEF IInv
  <2>2. /\ IsSeq(Append(P, c)) /\ Len(Append(P, c)) = Len(P) + 1
        /\ \A x \in DOMAIN P : Append(P, c)[x] = P[x]
        /\ Append(P, c)[Len(P) + 1] = c
    <3> HIDE DEF P
    <3>1. QED  BY <2>1, Appended
  <2>3. DOMAIN P = 1 .. n /\ \A x \in 1 .. n : P[x] = IF x = p THEN q ELSE procs[x]
    BY <1>2
  <2> HIDE DEF P
  <2>4. QED  BY <1>1, <2>1, <2>2, <2>3
<1>10. DOMAIN procs' = 1 .. n + 1
  BY <1>9, SeqFacts
<1>11. Alone(q, p, n + 1, faults)
  <2>1. FdsOK(q)
    BY <1>4, <1>6, <1>7 DEF FdsOK
  <2>2. sh.i \in DOMAIN sh.prog /\ sh.k \in Nat \ {0} /\ sh.k <= Len(CmdsOf(sh)) + 1
        /\ (sh.failed \/ Len(sh.pids) = sh.k - 1)
    <3> DEFINE k == Sh(p).k
               l == Len(Cmds(p))
               m == Len(Sh(p).pids)
    <3>1. /\ k \in Nat \ {0} /\ l \in Nat \ {0} /\ k <= l /\ m \in Nat
          /\ Sh(p).failed \/ m = k - 1
      BY <1>0, <1>2, <1>3
    <3>2. /\ sh.k = k + 1 /\ Len(CmdsOf(sh)) = l /\ Len(sh.pids) = m + 1
          /\ sh.failed = Sh(p).failed /\ sh.i \in DOMAIN sh.prog
      BY <1>2, <1>3, <1>4, <1>6
    <3> HIDE DEF k, l, m
    <3>3. k + 1 \in Nat \ {0} /\ k + 1 <= l + 1 /\ (Sh(p).failed \/ m + 1 = (k + 1) - 1)
      BY <3>1
    <3>4. QED  BY <3>2, <3>3
  <2>3. PidsOK(q, p, n + 1, faults)
    BY <1>2, <1>3, <1>4, <1>7, <2>2 DEF PidsOK
  <2>4. QED  BY <1>5, <1>7, <2>1, <2>3 DEF Alone
<1>12. Alone(c, n + 1, n + 1, faults)
  <2>1. Sh(p).k \in DOMAIN CmdsOf(Sh(p))
    BY <1>0, <1>2
  <2>2. FdsOK(c)
    BY <1>2, <1>8, <2>1 DEF FdsOK
  <2>3. PidsOK(c, n + 1, n + 1, faults)
    BY <1>8 DEF PidsOK
  <2>4. QED  BY <1>2, <1>8, <2>2, <2>3 DEF Alone
<1>13. ASSUME NEW x \in 1 .. n
       PROVE  Alone(procs'[x], x, n + 1, faults)
  <2>1. CASE x = p
    BY <1>9, <1>11, <2>1
  <2>2. CASE x # p
    <3>1. procs'[x] = procs[x] /\ x \in Nat
      BY <1>9, <2>2
    <3>2. Alone(procs[x], x, n, faults)
      BY <1>n, <1>2 DEF IInv
    <3>3. PidsOK(procs[x], x, n + 1, faults)
      BY <1>2, <3>1, <3>2, PidsGrow DEF Alone
    <3>4. QED  BY <3>1, <3>2, <3>3 DEF Alone
  <2>3. QED  BY <2>1, <2>2
<1>14. \A a, x \in 1 .. n : Awaits(procs[a], x) => Awaits(procs'[a], x)
  <2>1. \A x : Awaits(procs[p], x) => Awaits(q, x)
    <3>1. \A m \in DOMAIN Sh(p).pids : m \in DOMAIN pids
      BY <1>3
    <3>2. QED  BY <1>3, <1>4, <1>7, <3>1 DEF Awaits, Forking, Sh
  <2>2. QED  BY <1>9, <2>1
<1>15. ASSUME NEW x \in 1 .. n
       PROVE  Family(x)'
  <2>1. SUFFICES ASSUME x # Root
                 PROVE  /\ procs'[x].parent \in 1 .. x - 1
                        /\ \/ procs'[x].state = "reaped"
                           \/ Awaits(procs'[procs'[x].parent], x)
                           \/ faults' > 0 /\ procs'[x].parent # Root
    BY DEF Family
  <2> DEFINE a == procs[x].parent
  <2>2. /\ a \in 1 .. x - 1
        /\ procs[x].state = "reaped" \/ Awaits(procs[a], x) \/ (faults > 0 /\ a # Root)
    BY <1>2, <2>1 DEF IInv, Family
  <2>3. procs'[x].parent = a /\ (procs[x].state = "reaped" => procs'[x].state = "reaped")
    BY <1>2, <1>7, <1>9
  <2> HIDE DEF a
  <2>4. a \in 1 .. n
    BY <1>2, <2>2
  <2>5. QED  BY <1>0, <1>14, <2>2, <2>3, <2>4
<1>16. Family(n + 1)'
  <2>1. Awaits(q, n + 1)
    <3>1. Len(Sh(p).pids) + 1 \in DOMAIN pids
      BY <1>3
    <3>2. QED  BY <1>3, <1>4, <1>7, <3>1 DEF Awaits, Forking
  <2>2. procs'[n + 1].parent = p /\ procs'[p] = q /\ p \in 1 .. (n + 1) - 1
    BY <1>2, <1>8, <1>9
  <2>3. QED  BY <2>1, <2>2 DEF Family
<1>17. Status'
  BY <1>0 DEF Status
<1>18. \A x \in DOMAIN procs' : Alone(procs'[x], x, Len(procs'), faults') /\ Family(x)'
  <2> TAKE x \in DOMAIN procs'
  <2>1. CASE x \in 1 .. n
    BY <1>0, <1>9, <1>13, <1>15, <2>1
  <2>2. CASE x = n + 1
    BY <1>0, <1>9, <1>12, <1>16, <2>2
  <2>3. x \in 1 .. n \/ x = n + 1
    BY <1>2, <1>10
  <2>4. QED  BY <2>1, <2>2, <2>3
<1>19. faults' \in Nat
  BY <1>0, <1>2
<1>20. QED  BY <1>9, <1>17, <1>18, <1>19 DEF IInv

\* The parent closes the pipes and here-documents and is left with its own descriptors.
LEMMA CloseFdsHolds ==
    ASSUME IInv, plan.status = "running", NEW p \in DOMAIN procs, CloseFds(p)
    PROVE  IInv'
<1> DEFINE X == PipeFds(Sh(p)) \cup UNION {TmpFds(Sh(p).tmp, j) : j \in DOMAIN Cmds(p)}
           step == IF Sh(p).failed THEN "kill" ELSE "wait"
           sh == [Sh(p) EXCEPT !.step = step, !.k = 1]
           fds == close(procs[p].fds, X)
           q == [procs[p] EXCEPT !.fds = fds, !.sh = sh]
<1>0. procs' = [procs EXCEPT ![p] = q] /\ UNCHANGED <<plan, faults>> /\ In_(p, "fork")
      /\ Sh(p).k > Len(Cmds(p))
  BY ZenonT(60) DEF CloseFds, Sh
<1>1. /\ Alone(procs[p], p, Len(procs), faults) /\ faults \in Nat
      /\ procs[p].state = "shell" /\ Sh(p).step = "fork" /\ ShTyped(Sh(p))
      /\ Cmds(p) = CmdsOf(Sh(p)) /\ Len(Cmds(p)) \in Nat \ {0}
      /\ Sh(p).i \in DOMAIN Sh(p).prog
      /\ Sh(p).pids \in Seq(p + 1 .. Len(procs)) /\ Wires(procs[p].fds, Sh(p))
      /\ Sh(p).k \in Nat \ {0} /\ Sh(p).failed \in BOOLEAN /\ (Sh(p).failed => faults > 0)
      /\ Sh(p).k <= Len(Cmds(p)) + 1
      /\ Sh(p).failed \/ Len(Sh(p).pids) = Sh(p).k - 1
  <2> HIDE DEF X, sh, fds, q
  <2> DEFINE s == "fork"
  <2>1. s \in Forking /\ In_(p, s) /\ s = "fork"
    BY <1>0 DEF Forking
  <2> HIDE DEF s
  <2>2. QED  BY <2>1, ForkingFacts, SMTT(30)
<1>2. DOMAIN fds = Own(Sh(p))
  <2>1. DOMAIN fds = DOMAIN procs[p].fds \ X
    BY closeDomain
  <2>2. DOMAIN procs[p].fds = Own(Sh(p)) \cup PipeFds(Sh(p)) \cup Held(Sh(p))
        /\ TmpOK(Sh(p)) /\ PipesOK(Sh(p))
    BY <1>1 DEF Wires
  <2>3. Held(Sh(p)) \subseteq X /\ X \cap Own(Sh(p)) = {}
    BY <1>1, <2>2, Apart
  <2> HIDE DEF fds
  <2>4. PipeFds(Sh(p)) \subseteq X
    OBVIOUS
  <2> HIDE DEF X
  <2>5. QED  BY <2>1, <2>2, <2>3, <2>4
<1>3. step \in {"wait", "kill"} /\ (step = "kill" => faults > 0)
      /\ (step = "wait" => 1 <= Len(Sh(p).pids))
  BY <1>0, <1>1
<1> HIDE DEF fds, step
<1>4. /\ DOMAIN sh = ShFields /\ sh.prog = Sh(p).prog /\ sh.outfd = Sh(p).outfd
      /\ sh.errfd = Sh(p).errfd /\ sh.i = Sh(p).i /\ sh.step = step
      /\ sh.k = 1 /\ sh.failed = Sh(p).failed /\ sh.pids = Sh(p).pids
  BY <1>1 DEF ShTyped, ShFields
<1>5. ShTyped(sh) /\ Own(sh) = Own(Sh(p))
  BY <1>1, <1>4 DEF ShTyped, Own
<1> HIDE DEF sh
<1>6. /\ DOMAIN q = ProcFields /\ q.sh = sh /\ q.state = "shell"
      /\ q.fds = fds /\ q.parent = procs[p].parent
  BY <1>1 DEF Alone, ProcFields
<1> HIDE DEF q
<1>7. FdsOK(q)
  BY <1>2, <1>3, <1>4, <1>5, <1>6 DEF FdsOK
<1>8. PidsOK(q, p, Len(procs), faults)
  <2> DEFINE old == Sh(p)
  <2>1. /\ q.sh.pids = old.pids /\ q.sh.k = 1 /\ q.sh.i = old.i /\ q.sh.prog = old.prog
        /\ q.sh.failed = old.failed /\ q.sh.step = step
    BY <1>4, <1>6
  <2>2. /\ old.pids \in Seq(p + 1 .. Len(procs)) /\ old.i \in DOMAIN old.prog
        /\ old.failed \in BOOLEAN /\ (old.failed => faults > 0)
    BY <1>1
  <2>3. /\ step # "fork" /\ (step = "kill" => faults > 0)
        /\ (step = "wait" => 1 <= Len(old.pids))
    BY <1>3
  <2> HIDE DEF old
  <2>4. QED  BY <2>1, <2>2, <2>3 DEF PidsOK
<1>9. \A c \in DOMAIN procs : Awaits(procs[p], c) => Awaits(q, c)
  <2>1. \A m \in DOMAIN Sh(p).pids : m >= 1
    BY <1>1
  <2>2. QED  BY <1>3, <1>4, <1>6, <2>1 DEF Awaits, Forking, Sh
<1>10. plan'.status = plan.status /\ faults' \in Nat /\ faults' >= faults /\ faults' = faults
  BY <1>0, <1>1
<1>11. Alone(q, p, Len(procs), faults')
  BY <1>5, <1>6, <1>7, <1>8, <1>10 DEF Alone
<1>12. QED  BY <1>0, <1>1, <1>6, <1>9, <1>10, <1>11, OneProcess

\* A shell reaps a child; if it kills one that had children, a call has failed.
LEMMA ReapHolds ==
    ASSUME IInv, plan.status = "running", NEW p \in DOMAIN procs, NEW c \in DOMAIN procs,
           c # p, c # Root, NEW q, NEW z,
           procs' = [[procs EXCEPT ![c] = z] EXCEPT ![p] = q], UNCHANGED <<plan, faults>>,
           DOMAIN z = ProcFields, z.state = "reaped", z.sh = procs[c].sh, z.parent = procs[c].parent,
           Alone(q, p, Len(procs), faults), q.parent = procs[p].parent, procs[p].state # "reaped",
           \A x : Awaits(procs[c], x) => faults > 0,
           \A x : Awaits(procs[p], x) => Awaits(q, x) \/ x = c
    PROVE  IInv'
<1> DEFINE P == [procs EXCEPT ![c] = z]
<1>1. IsSeq(procs') /\ Len(procs') = Len(procs)
  <2>1. IsSeq(P) /\ Len(P) = Len(procs) /\ p \in DOMAIN P
    BY Updated DEF IInv
  <2> HIDE DEF P
  <2>2. IsSeq([P EXCEPT ![p] = q]) /\ Len([P EXCEPT ![p] = q]) = Len(P)
    BY <2>1, Updated
  <2>3. procs' = [P EXCEPT ![p] = q]
    BY DEF P
  <2>4. QED  BY <2>1, <2>2, <2>3
<1>2. \A x \in DOMAIN procs : procs'[x] = IF x = p THEN q ELSE IF x = c THEN z ELSE procs[x]
  OBVIOUS
<1>3. \A x \in DOMAIN procs : Alone(procs[x], x, Len(procs), faults) /\ faults \in Nat
  BY DEF IInv
<1>4. Alone(z, c, Len(procs), faults)
  BY <1>3 DEF Alone, FdsOK, PidsOK
<1>5. \A x \in DOMAIN procs : /\ Alone(procs'[x], x, Len(procs), faults')
                              /\ procs'[x].parent = procs[x].parent
                              /\ procs[x].state = "reaped" => procs'[x].state = "reaped"
  BY <1>2, <1>3, <1>4
<1>6. \A a, x \in DOMAIN procs : Awaits(procs[a], x) =>
        Awaits(procs'[a], x) \/ procs'[x].state = "reaped" \/ (faults' > 0 /\ a # Root)
  BY <1>2
<1>7. plan'.status = plan.status /\ faults' \in Nat /\ faults' >= faults /\ plan.status # "over"
  BY <1>3
<1>8. QED  BY <1>1, <1>5, <1>6, <1>7, SameProcesses

\* What a shell awaits next is a child forked after it.
LEMMA AwaitedIsLater ==
    ASSUME IInv, NEW p \in DOMAIN procs, In_(p, "wait") \/ In_(p, "kill"), Sh(p).k <= Len(Sh(p).pids)
    PROVE  /\ Awaited(p) \in DOMAIN procs /\ Awaited(p) # p /\ Awaited(p) # Root
           /\ Sh(p).k \in DOMAIN Sh(p).pids
           /\ Sh(p).pids \in Seq(p + 1 .. Len(procs))
<1>1. /\ Len(procs) \in Nat /\ DOMAIN procs = 1 .. Len(procs) /\ p \in Nat \ {0}
      /\ Sh(p).pids \in Seq(p + 1 .. Len(procs)) /\ Sh(p).k \in Nat \ {0}
  BY ForkingFacts DEF Forking
<1>2. Sh(p).k \in DOMAIN Sh(p).pids /\ Sh(p).pids[Sh(p).k] \in p + 1 .. Len(procs)
  BY <1>1
<1>3. QED  BY <1>1, <1>2 DEF Awaited, Root

\* A shell reaps the child it waits for, in the order of the pipeline.
LEMMA WaitHolds ==
    ASSUME IInv, plan.status = "running", NEW p \in DOMAIN procs, Wait(p)
    PROVE  IInv'
<1> DEFINE c == Awaited(p)
           z == [procs[c] EXCEPT !.state = "reaped"]
           last == Sh(p).k >= Len(Sh(p).pids)
           sh == IF Sh(p).k < Len(Sh(p).pids) THEN [Sh(p) EXCEPT !.k = @ + 1]
                 ELSE [Sh(p) EXCEPT !.step = "chain", !.i = @ + 1, !.last = procs[c].code]
           q == [procs[p] EXCEPT !.sh = sh]
<1>0. In_(p, "wait") /\ procs[c].state = "zombie" /\ UNCHANGED <<plan, faults>>
  BY DEF Wait
<1>1. /\ Alone(procs[p], p, Len(procs), faults) /\ faults \in Nat
      /\ procs[p].state = "shell" /\ Sh(p).step = "wait" /\ ShTyped(Sh(p))
      /\ Sh(p).i \in DOMAIN Sh(p).prog
      /\ Sh(p).pids \in Seq(p + 1 .. Len(procs)) /\ DOMAIN procs[p].fds = Own(Sh(p))
      /\ Sh(p).k \in Nat \ {0} /\ Sh(p).failed \in BOOLEAN /\ (Sh(p).failed => faults > 0)
      /\ Sh(p).k <= Len(Sh(p).pids)
  BY <1>0, ForkingFacts DEF Forking
<1>2. c \in DOMAIN procs /\ c # p /\ c # Root /\ Sh(p).k \in DOMAIN Sh(p).pids
  BY <1>0, <1>1, AwaitedIsLater
<1>3. procs' = [[procs EXCEPT ![c] = z] EXCEPT ![p] = q]
  <2>1. CASE Sh(p).k < Len(Sh(p).pids)
    <3>1. procs' = [Reaps(c) EXCEPT ![p].sh.k = @ + 1]
      BY <2>1 DEF Wait, NextPid
    <3>2. QED  BY <1>2, <2>1, <3>1 DEF Reaps, Sh
  <2>2. CASE ~(Sh(p).k < Len(Sh(p).pids))
    <3>1. procs' = [Reaps(c) EXCEPT ![p].sh.step = "chain", ![p].sh.i = @ + 1, ![p].sh.last = procs[c].code]
      BY <2>2 DEF Wait
    <3>2. QED  BY <1>2, <2>2, <3>1, ZenonT(60) DEF Reaps, Sh
  <2>3. QED  BY <2>1, <2>2
<1>4. /\ DOMAIN sh = ShFields /\ sh.prog = Sh(p).prog /\ sh.outfd = Sh(p).outfd
      /\ sh.errfd = Sh(p).errfd /\ sh.i \in Nat \ {0} /\ sh.pids = Sh(p).pids
      /\ sh.failed = Sh(p).failed
      /\ \/ /\ sh.step = "wait" /\ sh.k = Sh(p).k + 1 /\ sh.k <= Len(Sh(p).pids) /\ sh.i = Sh(p).i
         \/ sh.step = "chain" /\ Sh(p).k = Len(Sh(p).pids)
  BY <1>1 DEF ShTyped, ShFields
<1>5. ShTyped(sh) /\ Own(sh) = Own(Sh(p))
  BY <1>1, <1>4 DEF ShTyped, Own
<1> HIDE DEF sh
<1>6. /\ DOMAIN q = ProcFields /\ q.sh = sh /\ q.state = "shell"
      /\ q.fds = procs[p].fds /\ q.parent = procs[p].parent
  BY <1>1 DEF Alone, ProcFields
<1>7. /\ DOMAIN z = ProcFields /\ z.state = "reaped" /\ z.sh = procs[c].sh
      /\ z.parent = procs[c].parent
  BY <1>2 DEF IInv, Alone, ProcFields
<1> HIDE DEF q, z
<1>8. FdsOK(q)
  BY <1>1, <1>4, <1>5, <1>6 DEF FdsOK
<1>9. PidsOK(q, p, Len(procs), faults)
  <2> DEFINE old == Sh(p)
  <2>1. /\ q.sh.pids = old.pids /\ q.sh.prog = old.prog /\ q.sh.failed = old.failed
        /\ \/ /\ q.sh.step = "wait" /\ q.sh.k = old.k + 1 /\ q.sh.k <= Len(old.pids)
              /\ q.sh.i = old.i
           \/ q.sh.step = "chain"
    BY <1>4, <1>6
  <2>2. /\ old.pids \in Seq(p + 1 .. Len(procs)) /\ old.i \in DOMAIN old.prog
        /\ old.k \in Nat \ {0} /\ old.failed \in BOOLEAN /\ (old.failed => faults > 0)
    BY <1>1
  <2> HIDE DEF old
  <2>3. QED  BY <2>1, <2>2 DEF PidsOK, Forking
<1>10. \A x : Awaits(procs[p], x) => Awaits(q, x) \/ x = c
  <2>1. ASSUME NEW x, Awaits(procs[p], x)
        PROVE  Awaits(q, x) \/ x = c
    <3>1. PICK m \in DOMAIN Sh(p).pids : Sh(p).pids[m] = x /\ m >= Sh(p).k
      BY <1>1, <2>1 DEF Awaits, Sh
    <3>2. CASE m = Sh(p).k
      BY <3>1, <3>2 DEF Awaited
    <3>3. CASE m # Sh(p).k
      <4>1. m >= Sh(p).k + 1 /\ m <= Len(Sh(p).pids)
        BY <1>1, <3>1, <3>3
      <4>2. sh.step = "wait" /\ sh.k = Sh(p).k + 1
        BY <1>1, <1>4, <4>1
      <4>3. QED  BY <1>4, <1>6, <3>1, <4>1, <4>2 DEF Awaits, Forking
    <3>4. QED  BY <3>2, <3>3
  <2>2. QED  BY <2>1
<1>11. \A x : ~Awaits(procs[c], x)
  BY <1>0 DEF Awaits
<1>12. Alone(q, p, Len(procs), faults)
  BY <1>5, <1>6, <1>8, <1>9 DEF Alone
<1> HIDE DEF c
<1>13. QED  BY <1>0, <1>1, <1>2, <1>3, <1>6, <1>7, <1>10, <1>11, <1>12, ReapHolds

\* A shell kills and reaps a child after a fork failed; the child's own children are
\* then awaited by nobody.
LEMMA KillAndWaitHolds ==
    ASSUME IInv, plan.status = "running", NEW p \in DOMAIN procs, KillAndWait(p)
    PROVE  IInv'
<1> DEFINE c == Awaited(p)
           z == [Exited(procs[c], 137) EXCEPT !.state = "reaped"]
           sh == [Sh(p) EXCEPT !.k = @ + 1]
           q == [procs[p] EXCEPT !.sh = sh]
<1>0. In_(p, "kill") /\ Sh(p).k <= Len(Sh(p).pids) /\ UNCHANGED <<plan, faults>>
  BY DEF KillAndWait
<1>1. /\ Alone(procs[p], p, Len(procs), faults) /\ faults \in Nat
      /\ procs[p].state = "shell" /\ Sh(p).step = "kill" /\ ShTyped(Sh(p))
      /\ Sh(p).i \in DOMAIN Sh(p).prog
      /\ Sh(p).pids \in Seq(p + 1 .. Len(procs)) /\ DOMAIN procs[p].fds = Own(Sh(p))
      /\ Sh(p).k \in Nat \ {0} /\ Sh(p).failed \in BOOLEAN /\ faults > 0
  BY <1>0, ForkingFacts DEF Forking
<1>2. c \in DOMAIN procs /\ c # p /\ c # Root
  BY <1>0, AwaitedIsLater
<1>3. procs' = [[procs EXCEPT ![c] = z] EXCEPT ![p] = q]
  <2>1. procs' = [[procs EXCEPT ![c] = z] EXCEPT ![p].sh.k = @ + 1]
    BY DEF KillAndWait, NextPid
  <2> HIDE DEF z
  <2>2. QED  BY <1>2, <2>1 DEF Sh
<1>4. /\ DOMAIN sh = ShFields /\ sh.prog = Sh(p).prog /\ sh.outfd = Sh(p).outfd
      /\ sh.errfd = Sh(p).errfd /\ sh.i = Sh(p).i /\ sh.pids = Sh(p).pids
      /\ sh.failed = Sh(p).failed /\ sh.step = "kill" /\ sh.k = Sh(p).k + 1
  BY <1>1 DEF ShTyped, ShFields
<1>5. ShTyped(sh) /\ Own(sh) = Own(Sh(p))
  BY <1>1, <1>4 DEF ShTyped, Own
<1> HIDE DEF sh
<1>6. /\ DOMAIN q = ProcFields /\ q.sh = sh /\ q.state = "shell"
      /\ q.fds = procs[p].fds /\ q.parent = procs[p].parent
  BY <1>1 DEF Alone, ProcFields
<1>7. /\ DOMAIN z = ProcFields /\ z.state = "reaped" /\ z.sh = procs[c].sh
      /\ z.parent = procs[c].parent
  <2>1. DOMAIN procs[c] = ProcFields
    BY <1>2 DEF IInv, Alone
  <2>2. QED  BY <2>1 DEF Exited, ProcFields
<1> HIDE DEF q, z
<1>8. FdsOK(q)
  BY <1>1, <1>4, <1>5, <1>6 DEF FdsOK
<1>9. PidsOK(q, p, Len(procs), faults)
  BY <1>1, <1>4, <1>6 DEF PidsOK, Forking
<1>10. \A x : Awaits(procs[p], x) => Awaits(q, x) \/ x = c
  <2>1. ASSUME NEW x, Awaits(procs[p], x)
        PROVE  Awaits(q, x) \/ x = c
    <3>1. PICK m \in DOMAIN Sh(p).pids : Sh(p).pids[m] = x /\ m >= Sh(p).k
      BY <1>1, <2>1 DEF Awaits, Sh
    <3>2. m = Sh(p).k \/ m >= Sh(p).k + 1
      BY <1>1, <3>1
    <3>3. QED  BY <1>4, <1>6, <3>1, <3>2 DEF Awaits, Forking, Awaited
  <2>2. QED  BY <2>1
<1>11. Alone(q, p, Len(procs), faults)
  BY <1>5, <1>6, <1>8, <1>9 DEF Alone
<1> HIDE DEF c
<1>12. QED  BY <1>0, <1>1, <1>2, <1>3, <1>6, <1>7, <1>10, <1>11, ReapHolds

\* Every child of the failed pipeline has been reaped.
LEMMA AllKilledHolds ==
    ASSUME IInv, plan.status = "running", NEW p \in DOMAIN procs, AllKilled(p)
    PROVE  IInv'
<1>1. In_(p, "kill") /\ Sh(p).k > Len(Sh(p).pids) /\ Fails(p) /\ faults' = faults
  BY DEF AllKilled
<1>2. /\ faults \in Nat /\ procs[p].state = "shell" /\ Sh(p).step = "kill"
      /\ DOMAIN procs[p].fds = Own(Sh(p))
      /\ Sh(p).pids \in Seq(p + 1 .. Len(procs)) /\ Sh(p).k \in Nat \ {0}
  BY <1>1, ForkingFacts DEF Forking
<1>3. \A c \in DOMAIN procs : ~Awaits(procs[p], c)
  <2>1. \A m \in DOMAIN Sh(p).pids : ~(m >= Sh(p).k)
    BY <1>1, <1>2
  <2>2. QED  BY <1>2, <2>1 DEF Awaits, Sh
<1>4. faults' \in Nat /\ faults' >= faults
  BY <1>1, <1>2
<1>5. QED  BY <1>1, <1>2, <1>3, <1>4, FailsHolds

-----------------------------------------------------------------------------
\* A pipeline starts.

\* A function over 1..n is a sequence.
LEMMA MadeSeq ==
    ASSUME NEW n \in Nat, NEW f, f = [x \in 1 .. n |-> f[x]]
    PROVE  IsSeq(f) /\ Len(f) = n
<1> DEFINE S == {f[x] : x \in DOMAIN f}
<1>1. f \in [1 .. n -> S]
  OBVIOUS
<1> HIDE DEF S
<1>2. f \in Seq(S) /\ Len(f) = n
  BY <1>1
<1>3. QED  BY <1>2 DEF IsSeq, S

\* The length of two sequences one after the other.
LEMMA JoinedLength ==
    ASSUME NEW a, NEW b, IsSeq(a), IsSeq(b)
    PROVE  Len(a \o b) = Len(a) + Len(b)
<1> DEFINE A == {a[x] : x \in DOMAIN a}
           B == {b[x] : x \in DOMAIN b}
           S == A \cup B
<1>1. a \in Seq(A) /\ b \in Seq(B) /\ A \subseteq S /\ B \subseteq S
  BY DEF IsSeq
<1> HIDE DEF A, B, S
<1>2. a \in Seq(S) /\ b \in Seq(S)
  BY <1>1, SeqGrows
<1>3. QED  BY <1>2

\* The descriptors that are had are free, and none is counted twice.
LEMMA FreeFdsFree ==
    ASSUME NEW fds, DOMAIN fds \subseteq Nat, IsFiniteSet(DOMAIN fds), NEW n \in Nat
    PROVE  /\ FreeFds(fds, n) \in Seq(Nat \ DOMAIN fds) /\ Len(FreeFds(fds, n)) = n
           /\ DOMAIN FreeFds(fds, n) = 1 .. n
<1>1. \A k \in 1 .. n : Free(fds, k) \in Nat \ DOMAIN fds
  BY FreeIsFree
<1> DEFINE f == FreeFds(fds, n)
           S == Nat \ DOMAIN fds
<1>2. f \in [1 .. n -> S]
  BY <1>1 DEF FreeFds
<1> HIDE DEF f, S
<1>3. f \in Seq(S) /\ Len(f) = n /\ DOMAIN f = 1 .. n
  BY <1>2
<1>4. QED  BY <1>3 DEF f, S

\* What a shell has of its own is finite.
LEMMA OwnFinite ==
    ASSUME NEW sh, ShTyped(sh)
    PROVE  Own(sh) \subseteq Nat /\ IsFiniteSet(Own(sh))
<1>1. Own(sh) \subseteq Nat
  BY DEF Own, ShTyped
<1>2. IsFiniteSet(0 .. 2)
  <2>1. 0 \in Int /\ 2 \in Int
    OBVIOUS
  <2>2. QED  BY <2>1, FS_Interval
<1>3. IsFiniteSet(0 .. 2 \cup {sh.outfd})
  BY <1>2, FS_AddElement
<1>4. IsFiniteSet((0 .. 2 \cup {sh.outfd}) \cup {sh.errfd})
  BY <1>3, FS_AddElement
<1>5. Own(sh) = (0 .. 2 \cup {sh.outfd}) \cup {sh.errfd}
  BY DEF Own
<1>6. QED  BY <1>1, <1>4, <1>5

\* A shell that is at a chain it has yet to run.
LEMMA ChainFacts ==
    ASSUME IInv, NEW p \in DOMAIN procs, AtChain(p)
    PROVE  /\ Alone(procs[p], p, Len(procs), faults) /\ faults \in Nat
           /\ procs[p].state = "shell" /\ Sh(p).step = "chain" /\ ShTyped(Sh(p))
           /\ DOMAIN procs[p].fds = Own(Sh(p))
           /\ \A c \in DOMAIN procs : ~Awaits(procs[p], c)
           /\ Sh(p).i \in DOMAIN Sh(p).prog /\ Cmds(p) = CmdsOf(Sh(p)) /\ Commands(Cmds(p))
           /\ Len(Cmds(p)) \in Nat \ {0} /\ DOMAIN Cmds(p) = 1 .. Len(Cmds(p))
<1>1. In_(p, "chain") /\ Sh(p).i <= Len(Sh(p).prog)
  BY DEF AtChain
<1>2. /\ Alone(procs[p], p, Len(procs), faults) /\ faults \in Nat
      /\ procs[p].state = "shell" /\ Sh(p).step = "chain"
      /\ DOMAIN procs[p].fds = Own(Sh(p))
      /\ \A c \in DOMAIN procs : ~Awaits(procs[p], c)
  BY <1>1, AtChainFacts
<1>3. ShTyped(Sh(p))
  BY <1>2 DEF Alone, Sh
<1>4. IsSeq(Sh(p).prog)
  BY <1>3 DEF ShTyped, Runnable, Closed, decode_chains, tdl_collect, IsSeq
<1>5. Sh(p).i \in DOMAIN Sh(p).prog
  BY <1>1, <1>3, <1>4, SeqFacts DEF ShTyped
<1>6. Cmds(p) = CmdsOf(Sh(p))
  BY DEF Cmds, Chain, CmdsOf
<1>7. Commands(Cmds(p)) /\ Len(Cmds(p)) \in Nat \ {0} /\ DOMAIN Cmds(p) = 1 .. Len(Cmds(p))
  BY <1>3, <1>5, <1>6, DecodedCommands
<1>8. QED  BY <1>2, <1>3, <1>5, <1>6, <1>7

\* The descriptors of the here-documents are the first of those that are had.
LEMMA TmpHeld ==
    ASSUME NEW p, Commands(Cmds(p)), Sh(p).i \in DOMAIN Sh(p).prog, NEW new,
           NEW sh, sh.prog = Sh(p).prog, sh.i = Sh(p).i, sh.tmp = TmpOf(p, new),
           \A m \in 1 .. Cardinality(Bodies(Cmds(p))) : new[m] \in Nat \ Own(sh)
    PROVE  TmpOK(sh) /\ Held(sh) = {new[m] : m \in 1 .. Cardinality(Bodies(Cmds(p)))}
<1> DEFINE cmds == Cmds(p)
           C == Cardinality(Bodies(cmds))
<1>1. CmdsOf(sh) = cmds
  BY DEF CmdsOf, Cmds, Chain
<1>2. /\ DOMAIN sh.tmp = DOMAIN cmds
      /\ \A j \in DOMAIN cmds :
           /\ DOMAIN sh.tmp[j] = DOMAIN cmds[j].redirs
           /\ \A k \in DOMAIN cmds[j].redirs :
                sh.tmp[j][k] = IF <<j, k>> \in Bodies(cmds) THEN new[Place(cmds, <<j, k>>)] ELSE -1
  BY DEF TmpOf
<1>3. /\ \A jk \in Bodies(cmds) : Place(cmds, jk) \in 1 .. C
      /\ \A m \in 1 .. C : \E jk \in Bodies(cmds) : Place(cmds, jk) = m
  BY Places
<1>4. \A jk \in Bodies(cmds) : /\ jk[1] \in DOMAIN cmds /\ jk[2] \in DOMAIN cmds[jk[1]].redirs
                               /\ jk = <<jk[1], jk[2]>>
  BY BodiesFinite
<1>5. \A m \in 1 .. C : new[m] \in Nat \ Own(sh)
  OBVIOUS
<1> HIDE DEF C, cmds
<1>6. \A jk \in Bodies(cmds) : sh.tmp[jk[1]][jk[2]] = new[Place(cmds, jk)]
  BY <1>2, <1>4
<1>7. TmpOK(sh)
  BY <1>1, <1>2, <1>3, <1>5 DEF TmpOK
<1>8. Held(sh) = {new[m] : m \in 1 .. C}
  BY <1>1, <1>3, <1>6 DEF Held
<1>9. QED  BY <1>7, <1>8 DEF C, cmds

\* A pipeline opens as many here-documents as it has, and two ends for each pipe.
LEMMA OpensLength ==
    ASSUME NEW p, Commands(Cmds(p)), Len(Cmds(p)) \in Nat \ {0}
    PROVE  /\ Len(wire_pipe_tmpfds(p)) = Cardinality(Bodies(Cmds(p)))
           /\ Len(wire_pipe_tmpfds(p) \o Pipes(p)) =
                  Cardinality(Bodies(Cmds(p))) + 2 * (Len(Cmds(p)) - 1)
<1> DEFINE C == Cardinality(Bodies(Cmds(p)))
           N == 2 * (Len(Cmds(p)) - 1)
           a == wire_pipe_tmpfds(p)
           b == Pipes(p)
<1>1. C \in Nat /\ N \in Nat
  BY BodiesFinite
<1>2. a = [x \in 1 .. C |-> a[x]]
  BY DEF wire_pipe_tmpfds
<1>3. b = [x \in 1 .. N |-> b[x]]
  BY DEF Pipes
<1> HIDE DEF a, b, C, N
<1>4. IsSeq(a) /\ Len(a) = C /\ IsSeq(b) /\ Len(b) = N
  BY <1>1, <1>2, <1>3, MadeSeq
<1>5. Len(a \o b) = C + N
  BY <1>4, JoinedLength
<1>6. QED  BY <1>4, <1>5 DEF a, b, C, N

\* The table gains the new descriptors.
LEMMA OpenedDomain ==
    ASSUME NEW fds, NEW new
    PROVE  DOMAIN Opened(fds, new) = DOMAIN fds \cup ToSet(new)
BY DEF Opened, Join

\* What a part of a sequence holds.
LEMMA SubSeqFacts ==
    ASSUME NEW S, NEW s \in Seq(S), NEW c \in Nat \ {0}, NEW b \in Nat, c <= b + 1, b <= Len(s)
    PROVE  /\ SubSeq(s, c, b) \in Seq(S) /\ Len(SubSeq(s, c, b)) = b - c + 1
           /\ DOMAIN SubSeq(s, c, b) = 1 .. b - c + 1
           /\ \A m \in 1 .. b - c + 1 : SubSeq(s, c, b)[m] = s[c + m - 1]
           /\ ToSet(SubSeq(s, c, b)) = {s[m] : m \in c .. b}
<1> DEFINE t == SubSeq(s, c, b)
<1>1. /\ t \in Seq(S) /\ Len(t) = b - c + 1 /\ DOMAIN t = 1 .. b - c + 1
      /\ \A m \in 1 .. b - c + 1 : t[m] = s[c + m - 1]
  OBVIOUS
<1> HIDE DEF t
<1>2. ToSet(t) = {s[m] : m \in c .. b}
  <2>1. ToSet(t) = {t[m] : m \in 1 .. b - c + 1}
    BY <1>1 DEF ToSet
  <2>2. \A m \in 1 .. b - c + 1 : t[m] = s[c + m - 1] /\ c + m - 1 \in c .. b
    BY <1>1
  <2>3. \A m \in c .. b : m - c + 1 \in 1 .. b - c + 1 /\ t[m - c + 1] = s[m]
    BY <1>1
  <2>4. {t[m] : m \in 1 .. b - c + 1} \subseteq {s[m] : m \in c .. b}
    BY <2>2
  <2>5. {s[m] : m \in c .. b} \subseteq {t[m] : m \in 1 .. b - c + 1}
    BY <2>3
  <2>6. QED  BY <2>1, <2>4, <2>5
<1>3. QED  BY <1>1, <1>2 DEF t

\* What the first elements of a sequence hold.
LEMMA PrefixFacts ==
    ASSUME NEW S, NEW s \in Seq(S), NEW n \in Nat, n <= Len(s)
    PROVE  /\ \A m \in 1 .. n : SubSeq(s, 1, n)[m] = s[m]
           /\ ToSet(SubSeq(s, 1, n)) = {s[m] : m \in 1 .. n}
<1> DEFINE t == SubSeq(s, 1, n)
<1>1. DOMAIN t = 1 .. n /\ \A m \in 1 .. n : t[m] = s[m]
  OBVIOUS
<1> HIDE DEF t
<1>2. ToSet(t) = {s[m] : m \in 1 .. n}
  BY <1>1 DEF ToSet
<1>3. QED  BY <1>1, <1>2 DEF t

\* A pipeline starts: what is opened for it is apart from the shell's own descriptors,
\* and the here-documents are found at the places the sequence of opens gives them.
LEMMA StartPipelineHolds ==
    ASSUME IInv, plan.status = "running", NEW p \in DOMAIN procs, StartPipeline(p)
    PROVE  IInv'
<1> DEFINE C == Cardinality(Bodies(Cmds(p)))
           L == C + 2 * (Len(Cmds(p)) - 1)
<1>1. /\ Alone(procs[p], p, Len(procs), faults) /\ faults \in Nat
      /\ procs[p].state = "shell" /\ Sh(p).step = "chain" /\ ShTyped(Sh(p))
      /\ DOMAIN procs[p].fds = Own(Sh(p))
      /\ \A c \in DOMAIN procs : ~Awaits(procs[p], c)
      /\ Sh(p).i \in DOMAIN Sh(p).prog /\ Cmds(p) = CmdsOf(Sh(p)) /\ Commands(Cmds(p))
      /\ Len(Cmds(p)) \in Nat \ {0} /\ DOMAIN Cmds(p) = 1 .. Len(Cmds(p))
  BY ChainFacts DEF StartPipeline
<1>2. C \in Nat /\ L \in Nat /\ C <= L
  BY <1>1, BodiesFinite
<1>3. PICK new, fds, sh :
        /\ new = FreeFds(procs[p].fds, L) /\ fds = Opened(procs[p].fds, new)
        /\ sh = [Sh(p) EXCEPT !.step = "fork", !.k = 1, !.pids = <<>>, !.failed = FALSE,
                              !.tmp = TmpOf(p, new), !.pipes = SubSeq(new, C + 1, Len(new))]
        /\ procs' = [procs EXCEPT ![p].fds = fds, ![p].sh = sh]
  <2>1. PICK opens, new :
          /\ opens = wire_pipe_tmpfds(p) \o Pipes(p) /\ new = FreeFds(procs[p].fds, Len(opens))
          /\ procs' = [procs EXCEPT ![p].fds = Opened(procs[p].fds, new),
               ![p].sh = [Sh(p) EXCEPT !.step = "fork", !.k = 1, !.pids = <<>>, !.failed = FALSE,
                                !.tmp = TmpOf(p, new), !.pipes = SubSeq(new, C + 1, Len(new))]]
    BY DEF StartPipeline, Sh
  <2>2. Len(opens) = L
    BY <1>1, <2>1, OpensLength
  <2> HIDE DEF C, L
  <2>3. QED  BY <2>1, <2>2
<1>n. PICK n : n = Len(procs)
  OBVIOUS
<1> DEFINE pipes == SubSeq(new, C + 1, Len(new))
           tmp == TmpOf(p, new)
           q == [procs[p] EXCEPT !.fds = fds, !.sh = sh]
<1>4. procs' = [procs EXCEPT ![p] = q] /\ UNCHANGED <<plan, faults>>
  BY <1>3 DEF StartPipeline
<1>5. Own(Sh(p)) \subseteq Nat /\ IsFiniteSet(Own(Sh(p)))
  BY <1>1, OwnFinite
<1>6. new \in Seq(Nat \ Own(Sh(p))) /\ Len(new) = L /\ DOMAIN new = 1 .. L
  BY <1>1, <1>2, <1>3, <1>5, FreeFdsFree
<1>7. /\ DOMAIN sh = ShFields /\ sh.prog = Sh(p).prog /\ sh.outfd = Sh(p).outfd
      /\ sh.errfd = Sh(p).errfd /\ sh.i = Sh(p).i /\ sh.step = "fork" /\ sh.k = 1
      /\ sh.pids = <<>> /\ sh.failed = FALSE /\ sh.tmp = tmp /\ sh.pipes = pipes
  BY <1>1, <1>3 DEF ShTyped, ShFields
<1>8. ShTyped(sh) /\ Own(sh) = Own(Sh(p)) /\ CmdsOf(sh) = Cmds(p)
  BY <1>1, <1>7 DEF ShTyped, Own, CmdsOf
<1>9. DOMAIN fds = Own(Sh(p)) \cup ToSet(new)
  BY <1>1, <1>3, OpenedDomain
<1>10. TmpOK(sh) /\ Held(sh) = {new[m] : m \in 1 .. C}
  <2>1. \A m \in 1 .. C : new[m] \in Nat \ Own(sh)
    BY <1>2, <1>6, <1>8
  <2>2. /\ Commands(Cmds(p)) /\ Sh(p).i \in DOMAIN Sh(p).prog
        /\ sh.prog = Sh(p).prog /\ sh.i = Sh(p).i /\ sh.tmp = TmpOf(p, new)
    BY <1>1, <1>3, <1>7
  <2>3. QED  BY <2>1, <2>2, TmpHeld
<1>11. PipesOK(sh) /\ PipeFds(sh) = {new[m] : m \in C + 1 .. L}
  <2>1. /\ pipes \in Seq(Nat \ Own(Sh(p))) /\ ToSet(pipes) = {new[m] : m \in C + 1 .. L}
    <3> DEFINE S == Nat \ Own(Sh(p))
               c == C + 1
    <3>1. c \in Nat \ {0} /\ L \in Nat /\ c <= L + 1 /\ L <= Len(new) /\ new \in Seq(S)
          /\ pipes = SubSeq(new, c, L)
      <4>1. new \in Seq(S)
        BY <1>6
      <4> HIDE DEF C, L, S
      <4>2. c \in Nat \ {0} /\ c <= L + 1 /\ L <= Len(new)
        BY <1>2, <1>6
      <4>3. pipes = SubSeq(new, c, L)
        BY <1>6
      <4>4. QED  BY <1>2, <4>1, <4>2, <4>3
    <3> HIDE DEF C, L, S, c, pipes
    <3>2. SubSeq(new, c, L) \in Seq(S) /\ ToSet(SubSeq(new, c, L)) = {new[m] : m \in c .. L}
      BY <3>1, SubSeqFacts
    <3>3. QED  BY <3>1, <3>2 DEF S, c
  <2>2. PipeFds(sh) = ToSet(pipes)
    BY <1>7 DEF PipeFds, ToSet
  <2>3. PipesOK(sh)
    BY <1>7, <1>8, <2>1 DEF PipesOK
  <2>4. QED  BY <2>1, <2>2, <2>3
<1>12. ToSet(new) = Held(sh) \cup PipeFds(sh)
  <2> HIDE DEF C, L
  <2>1. ToSet(new) = {new[m] : m \in 1 .. L}
    BY <1>6 DEF ToSet
  <2>2. 1 .. L = (1 .. C) \cup (C + 1 .. L)
    BY <1>2
  <2>3. QED  BY <1>10, <1>11, <2>1, <2>2
<1>13. /\ DOMAIN q = ProcFields /\ q.sh = sh /\ q.state = "shell"
       /\ q.fds = fds /\ q.parent = procs[p].parent
  BY <1>1 DEF Alone, ProcFields
<1> HIDE DEF q
<1>14. FdsOK(q)
  <2>1. Wires(fds, sh)
    BY <1>8, <1>9, <1>10, <1>11, <1>12 DEF Wires
  <2>2. QED  BY <1>7, <1>13, <2>1 DEF FdsOK
<1>15. PidsOK(q, p, n, faults)
  <2>1. <<>> \in Seq(p + 1 .. n) /\ Len(<<>>) = 0
    OBVIOUS
  <2>2. sh.k \in Nat \ {0} /\ sh.k <= Len(CmdsOf(sh)) + 1 /\ Len(sh.pids) = sh.k - 1
    BY <1>1, <1>7, <1>8, <2>1
  <2>3. QED  BY <1>1, <1>7, <1>13, <2>1, <2>2 DEF PidsOK, Forking
<1>16. plan'.status = plan.status /\ faults' \in Nat /\ faults' >= faults /\ faults' = faults
       /\ procs[p].state # "reaped"
  BY <1>1, <1>4
<1>17. Alone(q, p, Len(procs), faults')
  BY <1>n, <1>8, <1>13, <1>14, <1>15, <1>16 DEF Alone
<1>18. QED  BY <1>1, <1>4, <1>13, <1>16, <1>17, OneProcess

-----------------------------------------------------------------------------
\* A builtin alone in a subshell, which runs in the process of the shell.

\* The descriptors of the here-documents of the j-th command.
HeldOf(sh, j) == {sh.tmp[j][k] : k \in {x \in DOMAIN CmdsOf(sh)[j].redirs :
                                            CmdsOf(sh)[j].redirs[x].kind \in Here}}

\* The here-documents of a pipeline are those of its commands.
LEMMA HeldParts ==
    ASSUME NEW sh, ShTyped(sh), TmpOK(sh)
    PROVE  /\ Held(sh) = UNION {HeldOf(sh, j) : j \in DOMAIN CmdsOf(sh)}
           /\ \A j \in DOMAIN CmdsOf(sh) : /\ HeldOf(sh, j) \subseteq TmpFds(sh.tmp, j)
                                         /\ HeldOf(sh, j) \cap Own(sh) = {}
<1> DEFINE cmds == CmdsOf(sh)
<1>1. Commands(cmds)
  BY DecodedCommands DEF TmpOK
<1>2. \A j \in DOMAIN cmds : HeldOf(sh, j) \subseteq TmpFds(sh.tmp, j)
  BY DEF HeldOf, TmpFds, TmpOK
<1>3. Held(sh) \subseteq UNION {HeldOf(sh, j) : j \in DOMAIN cmds}
  <2> SUFFICES ASSUME NEW jk \in Bodies(cmds)
               PROVE  \E j \in DOMAIN cmds : sh.tmp[jk[1]][jk[2]] \in HeldOf(sh, j)
    BY DEF Held
  <2>1. jk[1] \in DOMAIN cmds /\ jk[2] \in DOMAIN cmds[jk[1]].redirs
        /\ cmds[jk[1]].redirs[jk[2]].kind \in Here
    BY <1>1, BodiesFinite
  <2>2. QED  BY <2>1 DEF HeldOf
<1>4. ASSUME NEW j \in DOMAIN cmds
      PROVE  HeldOf(sh, j) \subseteq Held(sh)
  <2> SUFFICES ASSUME NEW k \in DOMAIN cmds[j].redirs, cmds[j].redirs[k].kind \in Here
               PROVE  sh.tmp[j][k] \in Held(sh)
    BY DEF HeldOf
  <2> DEFINE jk == <<j, k>>
  <2>1. jk \in Bodies(cmds)
    BY DEF Bodies
  <2>2. jk[1] = j /\ jk[2] = k
    OBVIOUS
  <2> HIDE DEF jk
  <2>3. QED  BY <2>1, <2>2 DEF Held
<1>5. \A j \in DOMAIN cmds : TmpFds(sh.tmp, j) \cap Own(sh) = {}
  BY Apart
<1>6. QED  BY <1>2, <1>3, <1>4, <1>5

\* A builtin alone in a subshell: its here-documents are opened and 0, 1, 2 saved.
LEMMA OpenBodiesHolds ==
    ASSUME IInv, plan.status = "running", NEW p \in DOMAIN procs, OpenBodies(p)
    PROVE  IInv'
<1> DEFINE C == Cardinality(Bodies(Cmds(p)))
<1>1. /\ Alone(procs[p], p, Len(procs), faults) /\ faults \in Nat
      /\ procs[p].state = "shell" /\ Sh(p).step = "chain" /\ ShTyped(Sh(p))
      /\ DOMAIN procs[p].fds = Own(Sh(p))
      /\ \A c \in DOMAIN procs : ~Awaits(procs[p], c)
      /\ Sh(p).i \in DOMAIN Sh(p).prog /\ Cmds(p) = CmdsOf(Sh(p)) /\ Commands(Cmds(p))
      /\ Len(Cmds(p)) \in Nat \ {0} /\ DOMAIN Cmds(p) = 1 .. Len(Cmds(p))
  BY ChainFacts DEF OpenBodies
<1>2. C \in Nat
  BY <1>1, BodiesFinite
<1>3. PICK new, body, fds, sh :
        /\ new = FreeFds(procs[p].fds, C + 3) /\ body = SubSeq(new, 1, C)
        /\ DOMAIN fds = DOMAIN procs[p].fds \cup ToSet(body) \cup (ToSet(new) \ ToSet(body))
        /\ sh = [Sh(p) EXCEPT !.step = "saved", !.tmp = TmpOf(p, body),
                              !.saved = SubSeq(new, C + 1, Len(new))]
        /\ procs' = [procs EXCEPT ![p].fds = fds, ![p].sh = sh]
  <2>1. PICK opens \in {wire_pipe_tmpfds(p)} :
          \E new \in {FreeFds(procs[p].fds, Len(opens) + 3)} :
          \E body \in {SubSeq(new, 1, Len(opens))} :
             procs' = [procs EXCEPT
               ![p].fds = Join(Opened(@, body), Copies(@, new, body)),
               ![p].sh = [@ EXCEPT !.step = "saved", !.tmp = TmpOf(p, body),
                                   !.saved = SubSeq(new, Len(opens) + 1, Len(new))]]
    BY DEF OpenBodies
  <2>2. PICK new \in {FreeFds(procs[p].fds, Len(opens) + 3)} :
          \E body \in {SubSeq(new, 1, Len(opens))} :
             procs' = [procs EXCEPT
               ![p].fds = Join(Opened(@, body), Copies(@, new, body)),
               ![p].sh = [@ EXCEPT !.step = "saved", !.tmp = TmpOf(p, body),
                                   !.saved = SubSeq(new, Len(opens) + 1, Len(new))]]
    BY <2>1
  <2>3. PICK body \in {SubSeq(new, 1, Len(opens))} :
             procs' = [procs EXCEPT
               ![p].fds = Join(Opened(@, body), Copies(@, new, body)),
               ![p].sh = [@ EXCEPT !.step = "saved", !.tmp = TmpOf(p, body),
                                   !.saved = SubSeq(new, Len(opens) + 1, Len(new))]]
    BY <2>2
  <2>4. Len(opens) = C
    BY <1>1, <2>1, OpensLength
  <2> DEFINE fds == Join(Opened(procs[p].fds, body), Copies(procs[p].fds, new, body))
             sh == [Sh(p) EXCEPT !.step = "saved", !.tmp = TmpOf(p, body),
                                 !.saved = SubSeq(new, Len(opens) + 1, Len(new))]
  <2>5. DOMAIN fds = DOMAIN procs[p].fds \cup ToSet(body) \cup (ToSet(new) \ ToSet(body))
    BY OpenedDomain DEF Join, Copies
  <2>6. procs' = [procs EXCEPT ![p].fds = fds, ![p].sh = sh]
    BY <2>3 DEF Sh
  <2> HIDE DEF C
  <2>7. sh = [Sh(p) EXCEPT !.step = "saved", !.tmp = TmpOf(p, body),
                           !.saved = SubSeq(new, C + 1, Len(new))]
    BY <2>4
  <2>8. new = FreeFds(procs[p].fds, C + 3) /\ body = SubSeq(new, 1, C)
    BY <2>2, <2>3, <2>4
  <2> HIDE DEF fds, sh
  <2>9. QED  BY <2>5, <2>6, <2>7, <2>8
<1> DEFINE L == C + 3
           saved == SubSeq(new, C + 1, Len(new))
           q == [procs[p] EXCEPT !.fds = fds, !.sh = sh]
           S == Nat \ Own(Sh(p))
<1>4. procs' = [procs EXCEPT ![p] = q] /\ UNCHANGED <<plan, faults>> /\ InProcess(p)
  BY <1>3 DEF OpenBodies
<1>5. Own(Sh(p)) \subseteq Nat /\ IsFiniteSet(Own(Sh(p)))
  BY <1>1, OwnFinite
<1>6. new \in Seq(S) /\ Len(new) = L /\ L \in Nat /\ C <= L /\ DOMAIN new = 1 .. L
  <2> DEFINE old == procs[p].fds
  <2> HIDE DEF C
  <2>1. L \in Nat /\ C <= L
    BY <1>2
  <2>2. DOMAIN old \subseteq Nat /\ IsFiniteSet(DOMAIN old) /\ DOMAIN old = Own(Sh(p)) /\ new = FreeFds(old, L)
    BY <1>1, <1>3, <1>5
  <2> HIDE DEF L, old
  <2>3. new \in Seq(Nat \ DOMAIN old) /\ Len(new) = L /\ DOMAIN new = 1 .. L
    BY <2>1, <2>2, FreeFdsFree
  <2>4. QED  BY <2>1, <2>2, <2>3
<1>7. /\ DOMAIN sh = ShFields /\ sh.prog = Sh(p).prog /\ sh.outfd = Sh(p).outfd
      /\ sh.errfd = Sh(p).errfd /\ sh.i = Sh(p).i /\ sh.step = "saved"
      /\ sh.tmp = TmpOf(p, body) /\ sh.saved = saved
  BY <1>1, <1>3 DEF ShTyped, ShFields
<1>8. ShTyped(sh) /\ Own(sh) = Own(Sh(p)) /\ CmdsOf(sh) = Cmds(p)
  BY <1>1, <1>7 DEF ShTyped, Own, CmdsOf
<1>9. /\ \A m \in 1 .. C : body[m] = new[m] /\ new[m] \in S
      /\ ToSet(body) \subseteq ToSet(new)
      /\ saved \in Seq(S) /\ ToSet(saved) = {new[m] : m \in C + 1 .. L}
  <2> DEFINE one == 1
             c == C + 1
  <2>1. saved = SubSeq(new, c, L) /\ body = SubSeq(new, one, C)
    <3> HIDE DEF C, L
    <3>1. QED  BY <1>3, <1>6
  <2> HIDE DEF C, L, S, saved
  <2>2. one \in Nat \ {0} /\ C \in Nat /\ one <= C + 1 /\ C <= Len(new)
        /\ c \in Nat \ {0} /\ L \in Nat /\ c <= L + 1 /\ L <= Len(new)
    BY <1>2, <1>6
  <2> HIDE DEF c, one
  <2>a. new \in Seq(S)
    BY <1>6
  <2>3. /\ \A m \in 1 .. C : SubSeq(new, one, C)[m] = new[m]
        /\ ToSet(SubSeq(new, one, C)) = {new[m] : m \in 1 .. C}
    <3>1. C \in Nat /\ C <= Len(new)
      BY <2>2
    <3>2. QED  BY <2>a, <3>1, PrefixFacts DEF one
  <2>4. SubSeq(new, c, L) \in Seq(S) /\ ToSet(SubSeq(new, c, L)) = {new[m] : m \in c .. L}
    <3>1. c \in Nat \ {0} /\ L \in Nat /\ c <= L + 1 /\ L <= Len(new)
      BY <2>2
    <3>2. QED  BY <2>a, <3>1, SubSeqFacts, SMTT(60)
  <2>5. \A m \in 1 .. C : m \in DOMAIN new /\ new[m] \in S
    BY <1>2, <1>6
  <2>6. \A m \in 1 .. C : body[m] = new[m]
    BY <2>1, <2>3
  <2>7. ToSet(body) \subseteq ToSet(new)
    <3>1. ToSet(body) = {new[m] : m \in 1 .. C}
      BY <2>1, <2>3
    <3>2. \A m \in 1 .. C : new[m] \in ToSet(new)
      BY <2>5 DEF ToSet
    <3>3. QED  BY <3>1, <3>2
  <2>8. QED  BY <2>1, <2>4, <2>5, <2>6, <2>7 DEF c
<1>10. TmpOK(sh) /\ Held(sh) = {body[m] : m \in 1 .. C}
  <2>1. \A m \in 1 .. C : body[m] \in Nat \ Own(sh)
    BY <1>8, <1>9
  <2>2. /\ Commands(Cmds(p)) /\ Sh(p).i \in DOMAIN Sh(p).prog
        /\ sh.prog = Sh(p).prog /\ sh.i = Sh(p).i /\ sh.tmp = TmpOf(p, body)
    BY <1>1, <1>7
  <2>3. QED  BY <2>1, <2>2, TmpHeld
<1>11. ToSet(new) = Held(sh) \cup ToSet(sh.saved)
  <2> HIDE DEF C, L, saved
  <2>1. ToSet(new) = {new[m] : m \in 1 .. L}
    BY <1>6 DEF ToSet
  <2>2. 1 .. L = (1 .. C) \cup (C + 1 .. L)
    BY <1>2, <1>6
  <2>3. Held(sh) = {new[m] : m \in 1 .. C}
    BY <1>9, <1>10
  <2>4. QED  BY <1>7, <1>9, <2>1, <2>2, <2>3
<1>12. DOMAIN fds = Own(sh) \cup ToSet(sh.saved) \cup Held(sh)
  BY <1>1, <1>3, <1>8, <1>9, <1>11
<1>13. SavedOK(sh)
  <2>1. DOMAIN CmdsOf(sh) = {1}
    BY <1>1, <1>4, <1>8 DEF InProcess
  <2> HIDE DEF saved, S, C, L
  <2>2. IsSeq(saved) /\ ToSet(saved) \subseteq S
    <3>1. saved \in Seq(S) /\ Len(saved) \in Nat /\ saved = [x \in 1 .. Len(saved) |-> saved[x]]
      BY <1>9
    <3>2. \A x \in DOMAIN saved : saved[x] \in S
      BY <3>1
    <3>3. QED  BY <3>1, <3>2, MadeSeq DEF ToSet
  <2>3. QED  BY <1>7, <1>8, <1>10, <2>1, <2>2 DEF SavedOK, S
<1>14. /\ DOMAIN q = ProcFields /\ q.sh = sh /\ q.state = "shell"
       /\ q.fds = fds /\ q.parent = procs[p].parent
  BY <1>1 DEF Alone, ProcFields
<1> HIDE DEF q
<1>15. FdsOK(q) /\ PidsOK(q, p, Len(procs), faults)
  BY <1>7, <1>12, <1>13, <1>14 DEF FdsOK, PidsOK, Forking
<1>16. plan'.status = plan.status /\ faults' \in Nat /\ faults' >= faults /\ faults' = faults
       /\ procs[p].state # "reaped"
  BY <1>1, <1>4
<1>17. Alone(q, p, Len(procs), faults')
  BY <1>8, <1>14, <1>15, <1>16 DEF Alone
<1>18. QED  BY <1>1, <1>4, <1>14, <1>16, <1>17, OneProcess

\* The redirects of the command c, at the j-th place of a shell, keep what is the
\* shell's own and drop the here-documents of c.
LEMMA RedirectsOfShell ==
    ASSUME NEW sh, ShTyped(sh), TmpOK(sh), NEW j \in DOMAIN CmdsOf(sh), NEW fds, NEW X,
           Own(sh) \subseteq DOMAIN fds, DOMAIN fds \subseteq Own(sh) \cup X \cup HeldOf(sh, j)
    PROVE  LET w == apply_redirects(CmdsOf(sh)[j], sh.tmp[j], fds)
           IN  /\ Own(sh) \subseteq DOMAIN w.fds
               /\ DOMAIN w.fds \subseteq Own(sh) \cup X \cup HeldOf(sh, j)
               /\ DOMAIN w = WorldFields
               /\ w.ok => DOMAIN w.fds \subseteq Own(sh) \cup X
<1> DEFINE c == CmdsOf(sh)[j]
           tmp == sh.tmp[j]
           O == Own(sh)
           T == {tmp[k] : k \in {x \in DOMAIN c.redirs : c.redirs[x].kind \in Here}}
<1>1. decode_cmd(c) /\ IsSeq(c.redirs)
  BY DecodedCommands DEF TmpOK, Commands
<1>2. 0 .. 2 \subseteq O
  BY DEF Own
<1>3. HeldOf(sh, j) = T /\ T \cap O = {}
  <2>1. HeldOf(sh, j) = T
    BY DEF HeldOf
  <2>2. HeldOf(sh, j) \cap Own(sh) = {}
    BY HeldParts
  <2>3. QED  BY <2>1, <2>2
<1>4. \A k \in DOMAIN c.redirs : c.redirs[k].kind \in Here => tmp[k] \notin O
  BY <1>3
<1>5. O \subseteq DOMAIN fds /\ DOMAIN fds \subseteq O \cup X \cup T
  BY <1>3
<1> HIDE DEF c, tmp, O
<1> DEFINE w == apply_redirects(c, tmp, fds)
<1>6. /\ DOMAIN w = WorldFields /\ O \subseteq DOMAIN w.fds
      /\ DOMAIN w.fds \subseteq O \cup X \cup T
      /\ w.ok => DOMAIN w.fds \subseteq O \cup X
  BY <1>1, <1>2, <1>4, <1>5, apply_redirectsDomain, ZenonT(60)
<1>7. QED  BY <1>3, <1>6 DEF c, tmp, O

\* The builtin's redirects are applied in the shell's own process.
LEMMA RunBuiltinHolds ==
    ASSUME IInv, plan.status = "running", NEW p \in DOMAIN procs, RunBuiltin(p)
    PROVE  IInv'
<1> DEFINE fds0 == dup2(dup2(procs[p].fds, Sh(p).outfd, 1), Sh(p).errfd, 2)
           sh == [Sh(p) EXCEPT !.step = "builtin"]
<1>w. PICK w, r, d :
        /\ w = apply_redirects(Cmds(p)[1], Sh(p).tmp[1], fds0)
        /\ procs' = [procs EXCEPT ![p] =
             [[procs[p] EXCEPT !.sh.step = "builtin", !.run = r, !.cwd = d] EXCEPT !.fds = w.fds]]
  <2>1. PICK c \in {Cmds(p)[1]} :
          \E w \in {apply_redirects(c, Sh(p).tmp[1],
                       dup2(dup2(procs[p].fds, Sh(p).outfd, 1), Sh(p).errfd, 2))} :
            Commit(p, w, [procs[p] EXCEPT
                  !.sh.step = "builtin",
                  !.run = IF w.ok THEN Runs(c, procs[p].cwd) ELSE NoFile,
                  !.cwd = IF w.ok THEN NewCwd(c, @) ELSE @])
    BY DEF RunBuiltin
  <2>2. PICK w \in {apply_redirects(c, Sh(p).tmp[1],
                       dup2(dup2(procs[p].fds, Sh(p).outfd, 1), Sh(p).errfd, 2))} :
            Commit(p, w, [procs[p] EXCEPT
                  !.sh.step = "builtin",
                  !.run = IF w.ok THEN Runs(c, procs[p].cwd) ELSE NoFile,
                  !.cwd = IF w.ok THEN NewCwd(c, @) ELSE @])
    BY <2>1
  <2> DEFINE r == IF w.ok THEN Runs(c, procs[p].cwd) ELSE NoFile
             d == IF w.ok THEN NewCwd(c, procs[p].cwd) ELSE procs[p].cwd
  <2>3. Commit(p, w, [procs[p] EXCEPT !.sh.step = "builtin", !.run = r, !.cwd = d])
    BY <2>2
  <2>4. w = apply_redirects(Cmds(p)[1], Sh(p).tmp[1], fds0)
    BY <2>1, <2>2
  <2> HIDE DEF r, d
  <2>5. QED  BY <2>3, <2>4 DEF Commit
<1> DEFINE q == [procs[p] EXCEPT !.sh = sh, !.run = r, !.cwd = d, !.fds = w.fds]
<1>1. procs' = [procs EXCEPT ![p] = q] /\ UNCHANGED <<plan, faults>>
      /\ procs[p].state = "shell" /\ Sh(p).step = "saved"
  <2>1. [[procs[p] EXCEPT !.sh.step = "builtin", !.run = r, !.cwd = d] EXCEPT !.fds = w.fds] = q
    BY DEF Sh
  <2> HIDE DEF q
  <2>2. QED  BY <1>w, <2>1 DEF RunBuiltin, In_
<1>2. /\ Alone(procs[p], p, Len(procs), faults) /\ faults \in Nat
      /\ ShTyped(Sh(p)) /\ FdsOK(procs[p])
  BY DEF IInv, Alone, Sh
<1>3. /\ SavedOK(Sh(p)) /\ TmpOK(Sh(p)) /\ DOMAIN CmdsOf(Sh(p)) = {1}
      /\ DOMAIN procs[p].fds = Own(Sh(p)) \cup ToSet(Sh(p).saved) \cup Held(Sh(p))
  BY <1>1, <1>2 DEF FdsOK, SavedOK, Sh
<1>4. Held(Sh(p)) = HeldOf(Sh(p), 1)
  <2>1. Held(Sh(p)) = UNION {HeldOf(Sh(p), j) : j \in DOMAIN CmdsOf(Sh(p))}
    BY <1>2, <1>3, HeldParts
  <2>2. QED  BY <1>3, <2>1
<1>5. /\ Own(Sh(p)) \subseteq DOMAIN w.fds
      /\ DOMAIN w.fds \subseteq Own(Sh(p)) \cup ToSet(Sh(p).saved) \cup Held(Sh(p))
  <2>1. DOMAIN fds0 = DOMAIN procs[p].fds \cup {1} \cup {2}
    BY dup2Std
  <2>2. 1 \in Own(Sh(p)) /\ 2 \in Own(Sh(p))
    BY DEF Own
  <2> HIDE DEF fds0
  <2>3. Own(Sh(p)) \subseteq DOMAIN fds0
        /\ DOMAIN fds0 \subseteq Own(Sh(p)) \cup ToSet(Sh(p).saved) \cup HeldOf(Sh(p), 1)
    BY <1>3, <1>4, <2>1, <2>2
  <2>4. Cmds(p) = CmdsOf(Sh(p)) /\ 1 \in DOMAIN CmdsOf(Sh(p))
    BY <1>3 DEF Cmds, Chain, CmdsOf
  <2> DEFINE v == apply_redirects(CmdsOf(Sh(p))[1], Sh(p).tmp[1], fds0)
  <2>5. /\ Own(Sh(p)) \subseteq DOMAIN v.fds
        /\ DOMAIN v.fds \subseteq Own(Sh(p)) \cup ToSet(Sh(p).saved) \cup HeldOf(Sh(p), 1)
    BY <1>2, <1>3, <2>3, <2>4, RedirectsOfShell
  <2>6. w = v
    BY <1>w, <2>4
  <2> HIDE DEF v
  <2>7. QED  BY <1>4, <2>5, <2>6
<1>6. /\ DOMAIN q = ProcFields /\ q.sh = sh /\ q.state = "shell"
      /\ q.fds = w.fds /\ q.parent = procs[p].parent
  BY <1>1, <1>2 DEF Alone, ProcFields, Sh
<1>7. /\ DOMAIN sh = ShFields /\ sh.prog = Sh(p).prog /\ sh.outfd = Sh(p).outfd
      /\ sh.errfd = Sh(p).errfd /\ sh.i = Sh(p).i /\ sh.step = "builtin"
      /\ sh.tmp = Sh(p).tmp /\ sh.saved = Sh(p).saved
  BY <1>2 DEF ShTyped, ShFields
<1> HIDE DEF q, sh
<1>8. ShTyped(sh) /\ Own(sh) = Own(Sh(p)) /\ CmdsOf(sh) = CmdsOf(Sh(p))
  BY <1>2, <1>7 DEF ShTyped, Own, CmdsOf
<1>9. Held(sh) = Held(Sh(p)) /\ SavedOK(sh)
  BY <1>3, <1>7, <1>8 DEF Held, SavedOK, TmpOK
<1>10. FdsOK(q) /\ PidsOK(q, p, Len(procs), faults)
  BY <1>5, <1>6, <1>7, <1>8, <1>9 DEF FdsOK, PidsOK, Forking
<1>11. plan'.status = plan.status /\ faults' \in Nat /\ faults' >= faults /\ faults' = faults
       /\ procs[p].state # "reaped"
  BY <1>1, <1>2
<1>12. Alone(q, p, Len(procs), faults')
  BY <1>6, <1>8, <1>10, <1>11 DEF Alone
<1>13. \A c : ~Awaits(procs[p], c)
  BY <1>1 DEF Awaits, Forking, Sh
<1>14. QED  BY <1>1, <1>6, <1>11, <1>12, <1>13, OneProcess

\* Putting 0, 1 and 2 back leaves a shell with what is its own.
LEMMA BuiltinEndsHolds ==
    ASSUME IInv, plan.status = "running", NEW p \in DOMAIN procs, BuiltinEnds(p)
    PROVE  IInv'
<1> DEFINE fds == Restored_(procs[p].fds, Sh(p).saved, Sh(p).tmp)
           sh == [Sh(p) EXCEPT !.step = "chain", !.i = @ + 1, !.last = procs[p].run.code]
           q == [procs[p] EXCEPT !.fds = fds, !.sh = sh, !.run = NoRun]
<1>1. procs' = [procs EXCEPT ![p] = q] /\ UNCHANGED <<plan, faults>>
      /\ procs[p].state = "shell" /\ Sh(p).step = "builtin"
  BY DEF BuiltinEnds, In_, Sh
<1>2. /\ Alone(procs[p], p, Len(procs), faults) /\ faults \in Nat
      /\ ShTyped(Sh(p)) /\ FdsOK(procs[p])
  BY DEF IInv, Alone, Sh
<1>3. /\ SavedOK(Sh(p)) /\ TmpOK(Sh(p)) /\ DOMAIN CmdsOf(Sh(p)) = {1}
      /\ ToSet(Sh(p).saved) \cap Own(Sh(p)) = {}
      /\ Own(Sh(p)) \subseteq DOMAIN procs[p].fds
      /\ DOMAIN procs[p].fds \subseteq Own(Sh(p)) \cup ToSet(Sh(p).saved) \cup Held(Sh(p))
  BY <1>1, <1>2 DEF FdsOK, SavedOK, Sh
<1>4. DOMAIN fds = Own(Sh(p))
  <2> DEFINE X == ToSet(Sh(p).saved) \cup TmpFds(Sh(p).tmp, 1)
             old == procs[p].fds
             s == Sh(p).saved
             mid == dup2(dup2(dup2(old, s[1], 0), s[2], 1), s[3], 2)
  <2>1. fds = close(mid, X)
    BY DEF Restored_
  <2>2. DOMAIN mid = DOMAIN old \cup {0} \cup {1} \cup {2}
    <3> DEFINE lo == dup2(old, s[1], 0)
    <3>1. DOMAIN lo = DOMAIN old \cup {0}
      BY dup2Domain
    <3> HIDE DEF lo
    <3>2. DOMAIN dup2(dup2(lo, s[2], 1), s[3], 2) = DOMAIN lo \cup {1} \cup {2}
      BY dup2Std
    <3>3. QED  BY <3>1, <3>2 DEF lo
  <2> HIDE DEF mid, fds
  <2>3. DOMAIN fds = DOMAIN mid \ X
    BY <2>1, closeDomain
  <2>4. 0 \in Own(Sh(p)) /\ 1 \in Own(Sh(p)) /\ 2 \in Own(Sh(p))
    BY DEF Own
  <2>5. Held(Sh(p)) \subseteq X /\ X \cap Own(Sh(p)) = {}
    <3>1. Held(Sh(p)) \subseteq UNION {TmpFds(Sh(p).tmp, j) : j \in DOMAIN CmdsOf(Sh(p))}
          /\ \A j \in DOMAIN CmdsOf(Sh(p)) : TmpFds(Sh(p).tmp, j) \cap Own(Sh(p)) = {}
      BY <1>2, <1>3, Apart
    <3>2. QED  BY <1>3, <3>1
  <2>6. ToSet(Sh(p).saved) \subseteq X
    OBVIOUS
  <2> HIDE DEF X
  <2>7. QED  BY <1>3, <2>2, <2>3, <2>4, <2>5, <2>6
<1> HIDE DEF fds
<1>5. /\ DOMAIN sh = ShFields /\ sh.prog = Sh(p).prog /\ sh.outfd = Sh(p).outfd
      /\ sh.errfd = Sh(p).errfd /\ sh.i = Sh(p).i + 1 /\ sh.step = "chain"
  BY <1>2 DEF ShTyped, ShFields
<1>6. ShTyped(sh) /\ Own(sh) = Own(Sh(p))
  BY <1>2, <1>5 DEF ShTyped, Own
<1> HIDE DEF sh
<1>7. /\ DOMAIN q = ProcFields /\ q.sh = sh /\ q.state = "shell"
      /\ q.fds = fds /\ q.parent = procs[p].parent
  BY <1>1, <1>2 DEF Alone, ProcFields
<1> HIDE DEF q
<1>8. FdsOK(q) /\ PidsOK(q, p, Len(procs), faults)
  BY <1>4, <1>5, <1>6, <1>7 DEF FdsOK, PidsOK, Forking
<1>9. plan'.status = plan.status /\ faults' \in Nat /\ faults' >= faults /\ faults' = faults
      /\ procs[p].state # "reaped"
  BY <1>1, <1>2
<1>10. Alone(q, p, Len(procs), faults')
  BY <1>6, <1>7, <1>8, <1>9 DEF Alone
<1>11. \A c : ~Awaits(procs[p], c)
  BY <1>1 DEF Awaits, Forking, Sh
<1>12. QED  BY <1>1, <1>7, <1>9, <1>10, <1>11, OneProcess

-----------------------------------------------------------------------------
\* The child of a fork.

\* When a child is wired it has what is the shell's own, and its here-documents.
LEMMA WiredDomain ==
    ASSUME NEW p, ShTyped(Sh(p)), Wires(procs[p].fds, Sh(p)), procs[p].stage \in DOMAIN CmdsOf(Sh(p))
    PROVE  /\ Own(Sh(p)) \subseteq DOMAIN Wired(p)
           /\ DOMAIN Wired(p) \subseteq Own(Sh(p)) \cup HeldOf(Sh(p), procs[p].stage)
<1> DEFINE sh == Sh(p)
           i == procs[p].stage
           n == Len(Cmds(p))
           f1 == dup2(dup2(procs[p].fds, sh.outfd, 1), sh.errfd, 2)
           f2 == IF i > 1 THEN dup2(f1, sh.pipes[2 * i - 3], 0) ELSE f1
           f3 == IF i < n THEN dup2(f2, sh.pipes[2 * i], 1) ELSE f2
           X == PipeFds(sh) \cup UNION {TmpFds(sh.tmp, j) : j \in DOMAIN Cmds(p) \ {i}}
<1>1. /\ TmpOK(sh) /\ PipesOK(sh) /\ i \in DOMAIN CmdsOf(sh) /\ Cmds(p) = CmdsOf(sh)
      /\ DOMAIN procs[p].fds = Own(sh) \cup PipeFds(sh) \cup Held(sh)
  BY DEF Wires, Cmds, Chain, CmdsOf
<1>2. 0 \in Own(sh) /\ 1 \in Own(sh) /\ 2 \in Own(sh)
  BY DEF Own
<1>3. DOMAIN f1 = DOMAIN procs[p].fds
  <2>1. DOMAIN f1 = DOMAIN procs[p].fds \cup {1} \cup {2}
    BY dup2Std
  <2> HIDE DEF f1
  <2>2. QED  BY <1>1, <1>2, <2>1
<1>4. DOMAIN f2 = DOMAIN procs[p].fds
  <2> DEFINE g == dup2(f1, sh.pipes[2 * i - 3], 0)
  <2>1. DOMAIN g = DOMAIN f1 \cup {0}
    BY dup2Domain
  <2>2. f2 \in {g, f1}
    OBVIOUS
  <2> HIDE DEF f1, f2, g
  <2>3. QED  BY <1>1, <1>2, <1>3, <2>1, <2>2
<1>5. DOMAIN f3 = DOMAIN procs[p].fds
  <2> DEFINE g == dup2(f2, sh.pipes[2 * i], 1)
  <2>1. DOMAIN g = DOMAIN f2 \cup {1}
    BY dup2Domain
  <2>2. f3 \in {g, f2}
    OBVIOUS
  <2> HIDE DEF f2, f3, g
  <2>3. QED  BY <1>1, <1>2, <1>4, <2>1, <2>2
<1>6. Wired(p) = close(f3, X)
  BY DEF Wired
<1> HIDE DEF f3
<1>7. DOMAIN Wired(p) = DOMAIN f3 \ X
  BY <1>6, closeDomain
<1>8. X \cap Own(sh) = {}
  <2>1. (\A j \in DOMAIN CmdsOf(sh) : TmpFds(sh.tmp, j) \cap Own(sh) = {})
        /\ PipeFds(sh) \cap Own(sh) = {}
    BY <1>1, Apart
  <2>2. QED  BY <1>1, <2>1
<1>9. Held(sh) \subseteq X \cup HeldOf(sh, i)
  <2>1. /\ Held(sh) = UNION {HeldOf(sh, j) : j \in DOMAIN CmdsOf(sh)}
        /\ \A j \in DOMAIN CmdsOf(sh) : HeldOf(sh, j) \subseteq TmpFds(sh.tmp, j)
    BY <1>1, HeldParts
  <2>2. QED  BY <1>1, <2>1
<1>10. PipeFds(sh) \subseteq X
  OBVIOUS
<1> HIDE DEF X
<1>11. QED  BY <1>1, <1>5, <1>7, <1>8, <1>9, <1>10

\* A child is wired and redirected: what it starts with is 0, 1 and 2.
LEMMA ChildStartsHolds ==
    ASSUME IInv, plan.status = "running", NEW p \in DOMAIN procs, ChildStarts(p)
    PROVE  IInv'
<1> DEFINE j == procs[p].stage
           c == Cmds(p)[j]
           new == Proc(procs[p].parent, <<>>, procs[p].cwd, Shell(c.sub, TRUE, 1, 2))
<1>w. PICK w, r :
        /\ w = apply_redirects(c, Sh(p).tmp[j], Wired(p))
        /\ IF ~w.ok THEN Commit(p, w, [procs[p] EXCEPT !.state = "dying", !.run = NoFile])
           ELSE Commit(p, [w EXCEPT !.fds = close(@, Capture(Sh(p)))],
                  IF IsSub(c) THEN new
                  ELSE [procs[p] EXCEPT !.state = "command", !.run = r])
  <2>1. PICK x \in {Cmds(p)[procs[p].stage]} :
          \E w \in {apply_redirects(x, Sh(p).tmp[procs[p].stage], Wired(p))} :
            IF ~w.ok THEN Commit(p, w, [procs[p] EXCEPT !.state = "dying", !.run = NoFile])
            ELSE Commit(p, [w EXCEPT !.fds = close(@, Capture(Sh(p)))],
                IF IsSub(x) THEN Proc(procs[p].parent, <<>>, procs[p].cwd, Shell(x.sub, TRUE, 1, 2))
                ELSE [procs[p] EXCEPT !.state = "command", !.run = Runs(x, procs[p].cwd)])
    BY DEF ChildStarts
  <2>2. x = c
    OBVIOUS
  <2> HIDE DEF c
  <2>3. PICK w \in {apply_redirects(c, Sh(p).tmp[procs[p].stage], Wired(p))} :
            IF ~w.ok THEN Commit(p, w, [procs[p] EXCEPT !.state = "dying", !.run = NoFile])
            ELSE Commit(p, [w EXCEPT !.fds = close(@, Capture(Sh(p)))],
                IF IsSub(c) THEN Proc(procs[p].parent, <<>>, procs[p].cwd, Shell(c.sub, TRUE, 1, 2))
                ELSE [procs[p] EXCEPT !.state = "command", !.run = Runs(c, procs[p].cwd)])
    BY <2>1, <2>2
  <2>4. QED  BY <2>3
<1>1. /\ Alone(procs[p], p, Len(procs), faults) /\ faults \in Nat
      /\ ShTyped(Sh(p)) /\ procs[p].state = "child" /\ UNCHANGED <<plan, faults>>
      /\ Wires(procs[p].fds, Sh(p)) /\ j \in DOMAIN CmdsOf(Sh(p)) /\ TmpOK(Sh(p))
      /\ DOMAIN procs[p] = ProcFields
  BY DEF IInv, Alone, FdsOK, ChildStarts, Wires, Sh
<1>2. c = CmdsOf(Sh(p))[j]
  BY DEF Cmds, Chain, CmdsOf
<1>3. DOMAIN w = WorldFields /\ Own(Sh(p)) \subseteq DOMAIN w.fds
      /\ (w.ok => DOMAIN w.fds \subseteq Own(Sh(p)))
  <2>1. /\ Own(Sh(p)) \subseteq DOMAIN Wired(p)
        /\ DOMAIN Wired(p) \subseteq Own(Sh(p)) \cup {} \cup HeldOf(Sh(p), j)
    BY <1>1, WiredDomain
  <2> DEFINE v == apply_redirects(CmdsOf(Sh(p))[j], Sh(p).tmp[j], Wired(p))
  <2>2. /\ DOMAIN v = WorldFields /\ Own(Sh(p)) \subseteq DOMAIN v.fds
        /\ v.ok => DOMAIN v.fds \subseteq Own(Sh(p)) \cup {}
    <3> HIDE DEF j
    <3>1. QED  BY <1>1, <2>1, RedirectsOfShell
  <2>3. w = v
    BY <1>w, <1>2
  <2> HIDE DEF v
  <2>4. QED  BY <2>2, <2>3
<1>4. \A x : ~Awaits(procs[p], x)
  BY <1>1 DEF Awaits
<1>5. plan'.status = plan.status /\ faults' \in Nat /\ faults' >= faults /\ faults' = faults
      /\ procs[p].state # "reaped"
  BY <1>1
<1>6. ASSUME NEW q, procs' = [procs EXCEPT ![p] = q], DOMAIN q = ProcFields,
             ShTyped(q.sh), FdsOK(q), PidsOK(q, p, Len(procs), faults), q.parent = procs[p].parent
      PROVE  IInv'
  <2>1. Alone(q, p, Len(procs), faults')
    BY <1>5, <1>6 DEF Alone
  <2>2. QED  BY <1>4, <1>5, <1>6, <2>1, OneProcess
<1>7. CASE ~w.ok
  <2> DEFINE q == [[procs[p] EXCEPT !.state = "dying", !.run = NoFile] EXCEPT !.fds = w.fds]
  <2>1. procs' = [procs EXCEPT ![p] = q]
    BY <1>w, <1>7 DEF Commit
  <2>2. DOMAIN q = ProcFields /\ q.state = "dying" /\ q.sh = Sh(p) /\ q.parent = procs[p].parent
    BY <1>1 DEF ProcFields, Sh
  <2> HIDE DEF q
  <2>3. FdsOK(q) /\ PidsOK(q, p, Len(procs), faults)
    BY <2>2 DEF FdsOK, PidsOK
  <2>4. QED  BY <1>1, <1>6, <2>1, <2>2, <2>3
<1>8. CASE w.ok
  <2> DEFINE v == [w EXCEPT !.fds = close(@, Capture(Sh(p)))]
  <2>1. DOMAIN v.fds = 0 .. 2
    <3>1. v.fds = close(w.fds, Capture(Sh(p)))
      BY <1>3 DEF WorldFields
    <3> HIDE DEF v
    <3>2. DOMAIN v.fds = DOMAIN w.fds \ Capture(Sh(p))
      BY <3>1, closeDomain
    <3>3. DOMAIN w.fds = Own(Sh(p))
      BY <1>3, <1>8
    <3>4. QED  BY <3>2, <3>3 DEF Own, Capture
  <2>2. CASE IsSub(c)
    <3> DEFINE q == [new EXCEPT !.fds = v.fds]
    <3>1. procs' = [procs EXCEPT ![p] = q]
      <4> HIDE DEF new, v
      <4>1. Commit(p, v, new)
        BY <1>w, <1>8, <2>2 DEF v
      <4>2. QED  BY <4>1 DEF Commit
    <3> HIDE DEF v
    <3>2. /\ DOMAIN q = ProcFields /\ q.state = "shell" /\ q.sh = Shell(c.sub, TRUE, 1, 2)
          /\ q.parent = procs[p].parent /\ q.fds = v.fds
      BY DEF Proc, ProcFields
    <3> HIDE DEF q
    <3>3. /\ DOMAIN q.sh = ShFields /\ q.sh.prog = c.sub /\ q.sh.outfd = 1 /\ q.sh.errfd = 2
          /\ q.sh.i = 1 /\ q.sh.step = "chain"
      BY <3>2 DEF Shell, ShFields
    <3>4. Runnable(c.sub)
      BY <1>1, <1>2, <2>2, DecodedCommands DEF TmpOK
    <3>5. ShTyped(q.sh)
      BY <3>3, <3>4 DEF ShTyped
    <3>6. Own(q.sh) = 0 .. 2
      BY <3>3 DEF Own
    <3>7. FdsOK(q) /\ PidsOK(q, p, Len(procs), faults)
      BY <2>1, <3>2, <3>3, <3>6 DEF FdsOK, PidsOK, Forking
    <3>8. QED  BY <1>6, <3>1, <3>2, <3>5, <3>7
  <2>3. CASE ~IsSub(c)
    <3> DEFINE q == [[procs[p] EXCEPT !.state = "command", !.run = r] EXCEPT !.fds = v.fds]
    <3>1. procs' = [procs EXCEPT ![p] = q]
      <4> HIDE DEF v
      <4>1. Commit(p, v, [procs[p] EXCEPT !.state = "command", !.run = r])
        BY <1>w, <1>8, <2>3 DEF v
      <4>2. QED  BY <4>1 DEF Commit
    <3> HIDE DEF v
    <3>2. /\ DOMAIN q = ProcFields /\ q.state = "command" /\ q.sh = Sh(p)
          /\ q.parent = procs[p].parent /\ q.fds = v.fds
      BY <1>1 DEF ProcFields, Sh
    <3> HIDE DEF q
    <3>3. FdsOK(q) /\ PidsOK(q, p, Len(procs), faults)
      BY <2>1, <3>2 DEF FdsOK, PidsOK
    <3>4. QED  BY <1>1, <1>6, <3>1, <3>2, <3>3
  <2>4. QED  BY <2>2, <2>3
<1>9. QED  BY <1>7, <1>8

-----------------------------------------------------------------------------
\* A command at work.

\* A read or a write changes what a process runs, and no table of descriptors.
LEMMA WorkHolds ==
    ASSUME IInv, plan.status = "running", NEW p \in DOMAIN procs,
           WriteFile(p) \/ WritePipe(p) \/ ReadFile(p) \/ ReadPipe(p)
    PROVE  IInv'
<1>1. DOMAIN procs[p] = ProcFields
  BY DEF IInv, Alone
<1>2. UNCHANGED <<plan, faults>> /\ procs[p].state # "reaped"
  BY DEF WriteFile, WritePipe, ReadFile, ReadPipe, Working, Reading, In_
<1>3. \E r : procs' = [procs EXCEPT ![p].run = r]
  <2>1. CASE WriteFile(p) \/ WritePipe(p)
    <3> DEFINE r == [procs[p].run EXCEPT !.writes = Tail(procs[p].run.writes)]
    <3>1. procs' = [procs EXCEPT ![p].run = r]
      BY <2>1 DEF WriteFile, WritePipe, Sent
    <3> HIDE DEF r
    <3>2. QED  BY <3>1
  <2>2. CASE ReadFile(p) \/ ReadPipe(p)
    <3>1. PICK item : Received(p, item)
      BY <2>2 DEF ReadFile, ReadPipe
    <3> DEFINE r == [procs[p].run EXCEPT !.writes = Writes(1, item),
                                         !.input = IF @ = "one" THEN "none" ELSE @]
    <3>2. procs' = [procs EXCEPT ![p].run = r]
      BY <3>1 DEF Received
    <3> HIDE DEF r
    <3>3. QED  BY <3>2
  <2>3. QED  BY <2>1, <2>2
<1>4. PICK r : procs' = [procs EXCEPT ![p].run = r]
  BY <1>3
<1> DEFINE q == [procs[p] EXCEPT !.run = r]
<1>5. procs' = [procs EXCEPT ![p] = q]
  BY <1>4
<1>6. /\ DOMAIN q = ProcFields /\ q.state = procs[p].state /\ q.fds = procs[p].fds
      /\ q.sh = procs[p].sh /\ q.stage = procs[p].stage /\ q.parent = procs[p].parent
  BY <1>1 DEF ProcFields
<1> HIDE DEF q
<1>7. QED  BY <1>2, <1>5, <1>6, OneRun

\* A command exits, or is ended by SIGPIPE.
LEMMA ExitHolds ==
    ASSUME IInv, plan.status = "running", NEW p \in DOMAIN procs, SigPipe(p) \/ CommandEnds(p)
    PROVE  IInv'
<1>1. /\ plan' = plan /\ faults' = faults
      /\ \/ procs[p].state \in {"command", "dying"}
         \/ procs[p].state = "shell" /\ procs[p].sh.step = "builtin"
  BY DEF SigPipe, CommandEnds, Working, In_, Sh
<1>2. PICK code : procs' = [procs EXCEPT ![p] = Exited(procs[p], code)]
  BY DEF SigPipe, CommandEnds
<1>3. \A c : ~Awaits(procs[p], c)
  BY <1>1 DEF Awaits, Forking
<1>4. faults' \in Nat /\ faults' >= faults /\ procs[p].state # "reaped"
  BY <1>1 DEF IInv
<1>5. QED  BY <1>1, <1>2, <1>3, <1>4, OneExits

-----------------------------------------------------------------------------
\* The plan.

\* Every step of the runner.
LEMMA PlanStepHolds ==
    ASSUME IInv, PlanStep
    PROVE  IInv'
<1>1. PICK p \in DOMAIN procs :
         \/ SkipChain(p) \/ EndProgram(p) \/ StartPipeline(p) \/ StartFails(p)
         \/ Fork(p) \/ ForkFails(p) \/ CloseFds(p) \/ Wait(p) \/ KillAndWait(p) \/ AllKilled(p)
         \/ OpenBodies(p) \/ RunBuiltin(p) \/ BuiltinEnds(p) \/ ChildStarts(p)
         \/ WriteFile(p) \/ WritePipe(p) \/ SigPipe(p) \/ ReadFile(p) \/ ReadPipe(p) \/ CommandEnds(p)
  BY DEF PlanStep
<1>2. plan.status = "running"
  BY DEF PlanStep
<1>3. CASE SkipChain(p) \/ EndProgram(p) \/ StartPipeline(p) \/ StartFails(p)
  BY <1>2, <1>3, SkipChainHolds, EndProgramHolds, StartPipelineHolds, StartFailsHolds
<1>4. CASE Fork(p) \/ ForkFails(p) \/ CloseFds(p) \/ Wait(p)
  BY <1>2, <1>4, ForkHolds, ForkFailsHolds, CloseFdsHolds, WaitHolds
<1>5. CASE KillAndWait(p) \/ AllKilled(p) \/ OpenBodies(p) \/ RunBuiltin(p)
  BY <1>2, <1>5, KillAndWaitHolds, AllKilledHolds, OpenBodiesHolds, RunBuiltinHolds
<1>6. CASE BuiltinEnds(p) \/ ChildStarts(p)
  BY <1>2, <1>6, BuiltinEndsHolds, ChildStartsHolds
<1>7. CASE WriteFile(p) \/ WritePipe(p) \/ ReadFile(p) \/ ReadPipe(p)
  BY <1>2, <1>7, WorkHolds
<1>8. CASE SigPipe(p) \/ CommandEnds(p)
  BY <1>2, <1>8, ExitHolds
<1>9. QED  BY <1>1, <1>3, <1>4, <1>5, <1>6, <1>7, <1>8

\* The virtual machine is a shell at its first chain, with 0 to 4 open.
LEMMA run_programHolds ==
    ASSUME IInv, NEW program, decode_program(program), run_program(program)
    PROVE  IInv'
<1> DEFINE sh == Shell(program, FALSE, 3, 4)
           fds == [fd \in 0 .. 4 |-> IF fd > 2 THEN fd - 1 ELSE 1]
           q == Proc(0, fds, "/", sh)
<1>1. procs' = <<q>> /\ plan' = [status |-> "running", code |-> 0] /\ faults' = faults
  BY DEF run_program
<1>2. /\ DOMAIN sh = ShFields /\ sh.prog = program /\ sh.outfd = 3 /\ sh.errfd = 4
      /\ sh.i = 1 /\ sh.step = "chain"
  BY DEF Shell, ShFields
<1>3. Runnable(program)
  BY DecodedIsRunnable
<1> HIDE DEF sh
<1>4. ShTyped(sh) /\ Own(sh) = 0 .. 4
  BY <1>2, <1>3 DEF ShTyped, Own
<1>5. DOMAIN fds = 0 .. 4
  OBVIOUS
<1> HIDE DEF fds
<1>6. DOMAIN q = ProcFields /\ q.state = "shell" /\ q.sh = sh /\ q.fds = fds
  BY DEF Proc, ProcFields
<1> HIDE DEF q
<1>7. Alone(q, 1, 1, faults)
  BY <1>2, <1>4, <1>5, <1>6 DEF Alone, FdsOK, PidsOK, Forking
<1>8. IsSeq(procs') /\ Len(procs') = 1 /\ DOMAIN procs' = 1 .. 1 /\ procs'[1] = q
  <2> DEFINE s == <<q>>
  <2>1. s = [x \in 1 .. 1 |-> s[x]] /\ DOMAIN s = 1 .. 1 /\ s[1] = q
    OBVIOUS
  <2> HIDE DEF s
  <2>2. IsSeq(s) /\ Len(s) = 1
    BY <2>1, MadeSeq
  <2>3. procs' = s
    BY <1>1 DEF s
  <2>4. QED  BY <2>1, <2>2, <2>3
<1>9. Status'
  BY <1>1 DEF Status
<1>10. \A p \in DOMAIN procs' : p = 1
  BY <1>8
<1>11. \A p \in DOMAIN procs' : Alone(procs'[p], p, Len(procs'), faults')
  BY <1>1, <1>7, <1>8, <1>10
<1>12. \A p \in DOMAIN procs' : Family(p)'
  BY <1>10 DEF Family, Root
<1>13. faults' \in Nat
  BY <1>1 DEF IInv
<1>14. QED  BY <1>8, <1>9, <1>11, <1>12, <1>13 DEF IInv

\* The empty table of processes.
LEMMA NoProcesses ==
    IsSeq(<<>>) /\ DOMAIN <<>> = {}
<1>1. <<>> \in Seq({})
  OBVIOUS
<1>2. DOMAIN <<>> = {}
  OBVIOUS
<1>3. QED  BY <1>1, <1>2 DEF IsSeq

\* The plan is forgotten.
LEMMA EndPlanHolds ==
    ASSUME IInv, EndPlan
    PROVE  IInv'
<1>1. procs' = <<>> /\ plan' = [status |-> "none", code |-> 0] /\ faults' = faults /\ faults \in Nat
  BY DEF EndPlan, IInv
<1>2. IsSeq(procs') /\ DOMAIN procs' = {}
  BY <1>1, NoProcesses
<1>3. Status'
  BY <1>1 DEF Status
<1>4. QED  BY <1>1, <1>2, <1>3 DEF IInv

\* Nothing changes but the count of failed calls.
LEMMA StutterHolds ==
    ASSUME IInv, UNCHANGED <<plan, procs>>, faults' \in Nat, faults' >= faults
    PROVE  IInv'
<1>1. faults \in Nat /\ (faults > 0 => faults' > 0)
  BY DEF IInv
<1>2. \A p \in DOMAIN procs : Alone(procs[p], p, Len(procs), faults')
  BY <1>1 DEF IInv, Alone, PidsOK
<1>3. \A p \in DOMAIN procs : Family(p)'
  BY <1>1 DEF IInv, Family
<1>4. Status'
  BY DEF IInv, Status, In_, Sh
<1>5. QED  BY <1>2, <1>3, <1>4 DEF IInv

\* Before the first plan there is no process.
LEMMA InitHolds ==
    ASSUME PlanInit
    PROVE  IInv
<1>1. procs = <<>> /\ plan = [status |-> "none", code |-> 0] /\ faults = 0
  BY DEF PlanInit
<1>2. IsSeq(procs) /\ DOMAIN procs = {}
  BY <1>1, NoProcesses
<1>3. Status
  BY <1>1 DEF Status
<1>4. QED  BY <1>1, <1>2, <1>3 DEF IInv

\* The inductive invariant IInv holds of the runner, whatever programs it is given.
THEOREM Invariance ==
    ASSUME NEW Programs
    PROVE  PlanSpec(Programs) => []IInv
<1>1. PlanInit => IInv
  BY InitHolds
<1>2. IInv /\ [PlanNext(Programs)]_planvars => IInv'
  <2> SUFFICES ASSUME IInv, [PlanNext(Programs)]_planvars
               PROVE  IInv'
    OBVIOUS
  <2>1. CASE PlanStep
    BY <2>1, PlanStepHolds
  <2>2. CASE Over /\ EndPlan
    BY <2>2, EndPlanHolds
  <2>3. CASE plan.status = "none" /\ \E program \in Programs :
                decode_program(program) /\ run_program(program)
    BY <2>3, run_programHolds
  <2>4. CASE plan.status = "none" /\ Fault /\ UNCHANGED <<plan, procs, descs, data>>
    <3>1. faults' \in Nat /\ faults' >= faults
      BY <2>4, FaultCounts DEF IInv
    <3>2. QED  BY <2>4, <3>1, StutterHolds
  <2>5. CASE UNCHANGED planvars
    <3>1. faults' \in Nat /\ faults' >= faults /\ UNCHANGED <<plan, procs>>
      BY <2>5 DEF IInv, planvars
    <3>2. QED  BY <3>1, StutterHolds
  <2>6. QED  BY <2>1, <2>2, <2>3, <2>4, <2>5 DEF PlanNext
<1>3. QED  BY <1>1, <1>2, PTL DEF PlanSpec

\* When the plan is over the root waits for nobody, so its children are reaped; with
\* no call failed every parent was reaped before, so by the least process that is not,
\* all are.
LEMMA AllReaped ==
    ASSUME IInv, Over, NEW p \in DOMAIN procs, p # Root, faults = 0 \/ procs[p].parent = Root
    PROVE  procs[p].state = "reaped"
<1>1. Len(procs) \in Nat /\ DOMAIN procs = 1 .. Len(procs)
  BY SeqFacts DEF IInv
<1>2. Root \in DOMAIN procs /\ \A c : ~Awaits(procs[Root], c)
  BY DEF IInv, Status, Over, In_, Sh, Awaits, Forking
<1>3. CASE procs[p].parent = Root
  BY <1>2, <1>3 DEF IInv, Family
<1>4. CASE faults = 0
  <2> DEFINE Left == {x \in DOMAIN procs : x # Root /\ procs[x].state # "reaped"}
  <2>1. SUFFICES ASSUME Left # {}
                 PROVE  FALSE
    OBVIOUS
  <2>2. PICK x \in Left : \A y \in Left : x <= y
    <3>1. Left \subseteq Nat
      BY <1>1
    <3> HIDE DEF Left
    <3>2. QED  BY <2>1, <3>1, Minimum
  <2> DEFINE a == procs[x].parent
  <2>3. a \in 1 .. x - 1 /\ Awaits(procs[a], x)
    BY <1>4 DEF IInv, Family
  <2> HIDE DEF a
  <2>4. a \in DOMAIN procs /\ a # Root /\ a < x
    BY <1>1, <1>2, <2>3
  <2>5. procs[a].state = "shell"
    BY <2>3 DEF Awaits
  <2>6. a \in Left
    BY <2>4, <2>5
  <2>7. QED  BY <1>1, <2>2, <2>4, <2>6
<1>5. QED  BY <1>3, <1>4

\* A command starts with descriptors 0, 1 and 2 only, a shell between two pipelines has
\* its own again, and when the plan is over every child was waited for.
THEOREM PlanHoldsNothing ==
    ASSUME NEW Programs
    PROVE  PlanSpec(Programs) => []NothingHeld
<1>1. IInv => NothingHeld
  <2> SUFFICES ASSUME IInv, NEW p \in DOMAIN procs
               PROVE  /\ procs[p].state = "command" => DOMAIN procs[p].fds = 0 .. 2
                      /\ In_(p, "chain") \/ In_(p, "end") =>
                             DOMAIN procs[p].fds = 0 .. 2 \cup {Sh(p).outfd, Sh(p).errfd}
                      /\ Over /\ p # Root /\ (faults = 0 \/ procs[p].parent = Root) =>
                             procs[p].state = "reaped"
    BY DEF NothingHeld
  <2>1. FdsOK(procs[p])
    BY DEF IInv, Alone
  <2>2. procs[p].state = "command" => DOMAIN procs[p].fds = 0 .. 2
    BY <2>1 DEF FdsOK
  <2>3. In_(p, "chain") \/ In_(p, "end") =>
           DOMAIN procs[p].fds = 0 .. 2 \cup {Sh(p).outfd, Sh(p).errfd}
    BY <2>1 DEF FdsOK, In_, Sh, Own
  <2>4. QED  BY <2>2, <2>3, AllReaped
<1>2. QED  BY <1>1, Invariance, PTL

===============================================================================
