------------------------------ MODULE ExecPlan ------------------------------
(***************************************************************************)
(* The process runner behind the primitive exec-plan (zincvm.c): a plan of *)
(* chains, pipelines, redirects and subshells is decoded and then run with *)
(* fork, pipe, dup2 and waitpid.  The virtual machine is the root process; *)
(* a subshell is a forked process that runs a nested plan.  Every process  *)
(* has its own table of file descriptors, and shares the open files behind *)
(* them.  What a process does between fork and its first read, write or    *)
(* exit touches its own table only, and is one step.                       *)
(***************************************************************************)
EXTENDS Integers, Sequences, FiniteSets, SequencesExt

CONSTANTS
    Files, Dirs,        \* initial contents of the files; the directories
    PLAN_MAX_CHAINS, PLAN_MAX_CMDS, PLAN_MAX_ARGS, PLAN_MAX_REDIRS, PLAN_MAX_DEPTH,
    PIPE_CAP,           \* bound: what a pipe holds, in writes
    MaxFaults           \* bound: calls that fail for want of a resource

ASSUME PlanLimits ==
    {PLAN_MAX_CHAINS, PLAN_MAX_CMDS, PLAN_MAX_ARGS, PLAN_MAX_REDIRS, PLAN_MAX_DEPTH,
     PIPE_CAP, MaxFaults} \subseteq Nat

VARIABLES
    plan,               \* whether a plan runs, and its exit code
    procs,              \* the processes, the root first
    descs, data,        \* open file descriptions, and what is in the files
    faults

planvars == <<plan, procs, descs, data, faults>>

-----------------------------------------------------------------------------
(* Decoding: the shapes and limits of the decode_* functions.              *)

Here == {"hdoc", "hstr"}

decode_redir(r) ==
    \/ r.kind \in {"in"} \cup Here /\ r.fd = 0
    \/ r.kind \in {"out", "append"} /\ r.fd \in {1, 2}
    \/ r.kind = "dup" /\ r.fd \in {1, 2} /\ r.from \in {1, 2}

IsSub(c) == c.sub # <<>>

\* A list, of no more than so many elements.
tdl_collect(v, limit) == v \in Seq({v[x] : x \in DOMAIN v}) /\ Len(v) <= limit

\* A command as it stands; what its subshell runs is decoded in its turn.
decode_cmd(c) ==
    /\ tdl_collect(c.argv, PLAN_MAX_ARGS) /\ tdl_collect(c.redirs, PLAN_MAX_REDIRS)
    /\ \A i \in DOMAIN c.redirs : decode_redir(c.redirs[i])
    /\ IsSub(c) <=> c.argv = <<>>
    /\ Cardinality({i \in DOMAIN c.redirs : c.redirs[i].fd = 0}) <= 1

decode_chain(ch) ==
    /\ ch.op \in {"seq", "and", "or"}
    /\ tdl_collect(ch.cmds, PLAN_MAX_CMDS) /\ ch.cmds # <<>>
    /\ \A j \in DOMAIN ch.cmds : decode_cmd(ch.cmds[j])

decode_chains(prog) ==
    /\ tdl_collect(prog, PLAN_MAX_CHAINS)
    /\ \A i \in DOMAIN prog : decode_chain(prog[i])

CommandsOf(prog) == UNION {ToSet(ch.cmds) : ch \in ToSet(prog)}
Subshells(S) == {c.sub : c \in {x \in UNION {CommandsOf(prog) : prog \in S} : IsSub(x)}}

\* The programs nested at each depth are decoded, and none lies too deep.
decode_program(program) ==
    LET nested[d \in 0 .. PLAN_MAX_DEPTH + 1] ==
            IF d = 0 THEN {program} ELSE Subshells(nested[d - 1])
    IN  /\ \A d \in 0 .. PLAN_MAX_DEPTH : \A prog \in nested[d] : decode_chains(prog)
        /\ nested[PLAN_MAX_DEPTH + 1] = {}

plan_decode(v) == v.tag = "plan" /\ decode_program(v.program)

-----------------------------------------------------------------------------
(* File descriptors: a table maps descriptors to open file descriptions.   *)

Path(name) == <<name>>     \* the key of a file; pipes and bodies have longer ones
OnFile(key, append) == [kind |-> "file", key |-> key, off |-> 0, append |-> append]
OnPipe(kind, key)   == [kind |-> kind, key |-> key]

\* The k-th lowest descriptor that is free.
Free(fds, k) == CHOOSE f \in 0 .. Cardinality(DOMAIN fds) + k :
    f \notin DOMAIN fds /\ Cardinality((0 .. f - 1) \ DOMAIN fds) = k - 1
FreeFds(fds, n) == [k \in 1 .. n |-> Free(fds, k)]

Join(f, g)         == [x \in DOMAIN f \cup DOMAIN g |-> IF x \in DOMAIN g THEN g[x] ELSE f[x]]
Bound(fd, d)       == [f \in {fd} |-> d]
dup2(fds, from, to) == Join(fds, Bound(to, fds[from]))
close(fds, S)      == Restrict(fds, DOMAIN fds \ S)
Holds(d, key, c)   == Join(d, Bound(key, c))
Created(d, key)    == IF key \in DOMAIN d THEN d ELSE Holds(d, key, <<>>)

\* What a redirect works on: a table, the descriptions and the contents.
World(fds) == [fds |-> fds, descs |-> descs, data |-> data, ok |-> TRUE]
OpenAt(w, d, fd) == [w EXCEPT !.fds = Join(@, Bound(fd, Len(w.descs) + 1)), !.descs = Append(@, d)]

\* Left to right: open, dup2 to the descriptor wanted and close.
Redirect(w, r, tmp) ==
    CASE r.kind = "in" ->
            IF Path(r.target) \in DOMAIN w.data THEN OpenAt(w, OnFile(Path(r.target), FALSE), 0)
            ELSE [w EXCEPT !.ok = FALSE]
      [] r.kind = "out"    -> [OpenAt(w, OnFile(Path(r.target), FALSE), r.fd)
                                EXCEPT !.data = Holds(@, Path(r.target), <<>>)]
      [] r.kind = "append" -> [OpenAt(w, OnFile(Path(r.target), TRUE), r.fd)
                                EXCEPT !.data = Created(@, Path(r.target))]
      [] r.kind = "dup"    -> [w EXCEPT !.fds = dup2(@, r.from, r.fd)]
      [] OTHER             -> [w EXCEPT !.fds = close(dup2(@, tmp, 0), {tmp})]

Redirected(w, r, tmp) == IF w.ok THEN Redirect(w, r, tmp) ELSE w

apply_redirects(c, tmp, fds) ==
    LET done[n \in 0 .. Len(c.redirs)] ==
            IF n = 0 THEN World(fds) ELSE Redirected(done[n - 1], c.redirs[n], tmp[n])
    IN  done[Len(c.redirs)]

Commit(p, w, q) == /\ procs' = [procs EXCEPT ![p] = [q EXCEPT !.fds = w.fds]]
                   /\ descs' = w.descs /\ data' = w.data

-----------------------------------------------------------------------------
(* Processes and what they run.                                            *)

Root == 1
NoRun == [input |-> "none", writes |-> <<>>, code |-> 0]
Task(input, writes, code) == [input |-> input, writes |-> writes, code |-> code]

Builtins == {"echo", "true", "false", "cd", "pwd"}
is_child_builtin(c) == c.argv[1] \in Builtins

Writes(fd, item) == << <<fd, item>> >>

child_builtin(argv, cwd) ==
    CASE argv[1] = "echo"  -> Task("none", Writes(1, argv[2]), 0)
      [] argv[1] = "true"  -> NoRun
      [] argv[1] = "false" -> Task("none", <<>>, 1)
      [] argv[1] = "pwd"   -> Task("none", Writes(1, cwd), 0)
      [] argv[1] = "cd"    -> IF argv[2] \in Dirs THEN NoRun ELSE Task("none", Writes(2, "cd"), 1)

\* The programs of the instances: cat, head -n1, and one that is not there.
execvp(argv) ==
    CASE argv[1] = "cat"  -> Task("all", <<>>, 0)
      [] argv[1] = "head" -> Task("one", <<>>, 0)
      [] OTHER            -> Task("none", Writes(2, "not found"), 127)

Runs(c, cwd)    == IF is_child_builtin(c) THEN child_builtin(c.argv, cwd) ELSE execvp(c.argv)
NewCwd(c, cwd)  == IF c.argv[1] = "cd" /\ c.argv[2] \in Dirs THEN c.argv[2] ELSE cwd
NoFile          == Task("none", Writes(2, "redirect"), 1)

\* run_program: the chain it is at, the step it is in, what it has open.
Shell(prog, in_child, outfd, errfd) ==
    [prog |-> prog, in_child |-> in_child, outfd |-> outfd, errfd |-> errfd,
     i |-> 1, last |-> 0, step |-> "chain", k |-> 1, pids |-> <<>>,
     tmp |-> <<>>, pipes |-> <<>>, saved |-> <<>>, failed |-> FALSE]

Proc(parent, fds, cwd, sh) ==
    [state |-> "shell", parent |-> parent, stage |-> 0, fds |-> fds, cwd |-> cwd,
     sh |-> sh, run |-> NoRun, code |-> 0]

Exited(q, code) == [q EXCEPT !.state = "zombie", !.fds = <<>>, !.code = code, !.run = NoRun]

Sh(p)     == procs[p].sh
Chain(p)  == Sh(p).prog[Sh(p).i]
Cmds(p)   == Chain(p).cmds
In_(p, s) == procs[p].state = "shell" /\ Sh(p).step = s
SetSh(p, sh) == procs' = [procs EXCEPT ![p].sh = sh]

\* run_pipeline has returned -1.
Fails(p) ==
    IF p = Root THEN /\ plan' = [status |-> "over", code |-> -1]
                     /\ SetSh(p, [Sh(p) EXCEPT !.step = "end"])
    ELSE procs' = [procs EXCEPT ![p] = Exited(@, 255)] /\ UNCHANGED plan

\* A call fails for want of a resource.
Fault == faults < MaxFaults /\ faults' = faults + 1

-----------------------------------------------------------------------------
(* run_program and run_pipeline.                                           *)

Skips(p) == /\ Sh(p).i > 1
            /\ \/ Chain(p).op = "and" /\ Sh(p).last # 0
               \/ Chain(p).op = "or" /\ Sh(p).last = 0
AtChain(p) == In_(p, "chain") /\ Sh(p).i <= Len(Sh(p).prog)

SkipChain(p) ==
    /\ AtChain(p) /\ Skips(p)
    /\ SetSh(p, [Sh(p) EXCEPT !.i = @ + 1])
    /\ UNCHANGED <<plan, descs, data, faults>>

EndProgram(p) ==
    /\ In_(p, "chain") /\ Sh(p).i > Len(Sh(p).prog)
    /\ IF p = Root THEN /\ plan' = [status |-> "over", code |-> Sh(p).last]
                        /\ SetSh(p, [Sh(p) EXCEPT !.step = "end"])
       ELSE procs' = [procs EXCEPT ![p] = Exited(@, Sh(p).last)] /\ UNCHANGED plan
    /\ UNCHANGED <<descs, data, faults>>

\* The here-documents of a pipeline, in the order they are opened.
Bodies(cmds) == {jk \in UNION {{j} \X DOMAIN cmds[j].redirs : j \in DOMAIN cmds} :
                    cmds[jk[1]].redirs[jk[2]].kind \in Here}
Sooner(a, b)      == a[1] < b[1] \/ (a[1] = b[1] /\ a[2] < b[2])
Place(cmds, jk)   == 1 + Cardinality({b \in Bodies(cmds) : Sooner(b, jk)})
BodyAt(cmds, m)   == CHOOSE b \in Bodies(cmds) : Place(cmds, b) = m

BodyKey(p, jk) == <<"body", p, Sh(p).i, jk[1], jk[2]>>
PipeKey(p, j)  == <<"pipe", p, Sh(p).i, j>>
BodyOf(p, jk)  == Cmds(p)[jk[1]].redirs[jk[2]].target

wire_pipe_tmpfds(p) == [m \in 1 .. Cardinality(Bodies(Cmds(p))) |->
    OnFile(BodyKey(p, BodyAt(Cmds(p), m)), FALSE)]

\* The read end of each pipe, and then its write end.
Pipes(p) == [m \in 1 .. 2 * (Len(Cmds(p)) - 1) |->
    OnPipe(IF m % 2 = 1 THEN "read" ELSE "write", PipeKey(p, (m + 1) \div 2))]

Contents(p) ==
    Join([key \in {BodyKey(p, jk) : jk \in Bodies(Cmds(p))} |-> <<BodyOf(p, <<key[4], key[5]>>)>>],
         [key \in {PipeKey(p, j) : j \in 1 .. Len(Cmds(p)) - 1} |-> <<>>])

\* Where the descriptor of a here-document is, per command and redirect.
TmpOf(p, new) == [j \in DOMAIN Cmds(p) |-> [k \in DOMAIN Cmds(p)[j].redirs |->
    IF <<j, k>> \in Bodies(Cmds(p))
    THEN new[Place(Cmds(p), <<j, k>>)] ELSE -1]]
TmpFds(tmp, j) == {tmp[j][k] : k \in DOMAIN tmp[j]}

\* A table with the descriptors new on the descriptions that come next.
Opened(fds, new) == Join(fds, [f \in ToSet(new) |-> Len(descs) + (CHOOSE m \in DOMAIN new : new[m] = f)])

InProcess(p) == Sh(p).in_child /\ Len(Cmds(p)) = 1 /\ ~IsSub(Cmds(p)[1]) /\ is_child_builtin(Cmds(p)[1])

StartPipeline(p) ==
    /\ AtChain(p) /\ ~Skips(p) /\ ~InProcess(p)
    /\ \E opens \in {wire_pipe_tmpfds(p) \o Pipes(p)} :
       \E new \in {FreeFds(procs[p].fds, Len(opens))} :
         /\ procs' = [procs EXCEPT
               ![p].fds = Opened(@, new),
               ![p].sh = [@ EXCEPT !.step = "fork", !.k = 1, !.pids = <<>>, !.failed = FALSE,
                   !.tmp = TmpOf(p, new),
                   !.pipes = SubSeq(new, Cardinality(Bodies(Cmds(p))) + 1, Len(new))]]
         /\ descs' = descs \o opens
    /\ data' = Join(data, Contents(p))
    /\ UNCHANGED <<plan, faults>>

\* A here-document or a pipe cannot be had, or a saved descriptor.
StartFails(p) ==
    /\ AtChain(p) /\ ~Skips(p)
    /\ InProcess(p) \/ Bodies(Cmds(p)) # {} \/ Len(Cmds(p)) > 1
    /\ Fault /\ Fails(p)
    /\ UNCHANGED <<descs, data>>

Child(p) == [Proc(p, procs[p].fds, procs[p].cwd, Sh(p)) EXCEPT !.state = "child", !.stage = Sh(p).k]

Fork(p) ==
    /\ In_(p, "fork") /\ Sh(p).k <= Len(Cmds(p))
    /\ procs' = Append([procs EXCEPT ![p].sh.k = @ + 1, ![p].sh.pids = Append(@, Len(procs) + 1)], Child(p))
    /\ UNCHANGED <<plan, descs, data, faults>>

ForkFails(p) ==
    /\ In_(p, "fork") /\ Sh(p).k <= Len(Cmds(p))
    /\ Fault
    /\ SetSh(p, [Sh(p) EXCEPT !.k = Len(Cmds(p)) + 1, !.failed = TRUE])
    /\ UNCHANGED <<plan, descs, data>>

PipeFds(sh) == {sh.pipes[m] : m \in DOMAIN sh.pipes}

\* Each definition named <of>_<change> is a changed form of <of>, which no other
\* definition uses: what the code would be with a mistake in it.
CloseFds_KeepsBodies(p) ==
    /\ In_(p, "fork") /\ Sh(p).k > Len(Cmds(p))
    /\ procs' = [procs EXCEPT
           ![p].fds = close(@, PipeFds(Sh(p))),
           ![p].sh.step = IF Sh(p).failed THEN "kill" ELSE "wait", ![p].sh.k = 1]
    /\ UNCHANGED <<plan, descs, data, faults>>

\* The parent closes every descriptor it opened, and waits or kills.
CloseFds(p) ==
    /\ In_(p, "fork") /\ Sh(p).k > Len(Cmds(p))
    /\ procs' = [procs EXCEPT
           ![p].fds = close(@, PipeFds(Sh(p)) \cup UNION {TmpFds(Sh(p).tmp, j) : j \in DOMAIN Cmds(p)}),
           ![p].sh.step = IF Sh(p).failed THEN "kill" ELSE "wait", ![p].sh.k = 1]
    /\ UNCHANGED <<plan, descs, data, faults>>

Awaited(p)    == Sh(p).pids[Sh(p).k]
Reaps(c)      == [procs EXCEPT ![c].state = "reaped"]
NextPid(p, P) == procs' = [P EXCEPT ![p].sh.k = @ + 1]

\* The exit code of a pipeline is that of its last command.
Wait(p) ==
    /\ In_(p, "wait") /\ procs[Awaited(p)].state = "zombie"
    /\ IF Sh(p).k < Len(Sh(p).pids) THEN NextPid(p, Reaps(Awaited(p)))
       ELSE procs' = [Reaps(Awaited(p)) EXCEPT ![p].sh.step = "chain", ![p].sh.i = @ + 1,
                                               ![p].sh.last = procs[Awaited(p)].code]
    /\ UNCHANGED <<plan, descs, data, faults>>

\* SIGKILL and a wait for each child there is, and then -1.
KillAndWait(p) ==
    /\ In_(p, "kill") /\ Sh(p).k <= Len(Sh(p).pids)
    /\ NextPid(p, [procs EXCEPT ![Awaited(p)] = [Exited(@, 137) EXCEPT !.state = "reaped"]])
    /\ UNCHANGED <<plan, descs, data, faults>>

AllKilled(p) ==
    /\ In_(p, "kill") /\ Sh(p).k > Len(Sh(p).pids)
    /\ Fails(p)
    /\ UNCHANGED <<descs, data, faults>>

\* Descriptors 0, 1 and 2 once more, at what new has after body.
Copies(fds, new, body) == [f \in ToSet(new) \ ToSet(body) |->
    fds[(CHOOSE m \in DOMAIN new : new[m] = f) - Len(body) - 1]]

\* A builtin alone in a subshell runs in that process, its 0, 1, 2 saved.
OpenBodies(p) ==
    /\ AtChain(p) /\ ~Skips(p) /\ InProcess(p)
    /\ \E opens \in {wire_pipe_tmpfds(p)} :
       \E new \in {FreeFds(procs[p].fds, Len(opens) + 3)} :
       \E body \in {SubSeq(new, 1, Len(opens))} :
         /\ procs' = [procs EXCEPT
               ![p].fds = Join(Opened(@, body), Copies(@, new, body)),
               ![p].sh = [@ EXCEPT !.step = "saved", !.tmp = TmpOf(p, body),
                                   !.saved = SubSeq(new, Len(opens) + 1, Len(new))]]
         /\ descs' = descs \o opens
    /\ data' = Join(data, Contents(p))
    /\ UNCHANGED <<plan, faults>>

RunBuiltin(p) ==
    /\ In_(p, "saved")
    /\ \E c \in {Cmds(p)[1]} :
       \E w \in {apply_redirects(c, Sh(p).tmp[1],
                    dup2(dup2(procs[p].fds, Sh(p).outfd, 1), Sh(p).errfd, 2))} :
         Commit(p, w, [procs[p] EXCEPT
               !.sh.step = "builtin",
               !.run = IF w.ok THEN Runs(c, procs[p].cwd) ELSE NoFile,
               !.cwd = IF w.ok THEN NewCwd(c, @) ELSE @])
    /\ UNCHANGED <<plan, faults>>

Restored_(fds, saved, tmp) ==
    close(dup2(dup2(dup2(fds, saved[1], 0), saved[2], 1), saved[3], 2),
          ToSet(saved) \cup TmpFds(tmp, 1))

BuiltinEnds(p) ==
    /\ In_(p, "builtin") /\ procs[p].run.writes = <<>>
    /\ procs' = [procs EXCEPT
           ![p].fds = Restored_(@, Sh(p).saved, Sh(p).tmp),
           ![p].sh = [Sh(p) EXCEPT !.step = "chain", !.i = @ + 1, !.last = procs[p].run.code],
           ![p].run = NoRun]
    /\ UNCHANGED <<plan, descs, data, faults>>

-----------------------------------------------------------------------------
(* The child of a fork, and a command at work.                             *)

\* The capture files are dropped once they are bound to 1 and 2.
Capture(sh) == {sh.outfd, sh.errfd} \ 0 .. 2

Wired_KeepsPipes(p) ==
    LET sh == Sh(p)
        i  == procs[p].stage
        f1 == dup2(dup2(procs[p].fds, sh.outfd, 1), sh.errfd, 2)
        f2 == IF i > 1 THEN dup2(f1, sh.pipes[2 * i - 3], 0) ELSE f1
        f3 == IF i < Len(Cmds(p)) THEN dup2(f2, sh.pipes[2 * i], 1) ELSE f2
    IN  close(f3, UNION {TmpFds(sh.tmp, j) : j \in DOMAIN Cmds(p) \ {i}})

Wired_CaptureLast(p) ==
    LET sh == Sh(p)
        i  == procs[p].stage
        f1 == IF i > 1 THEN dup2(procs[p].fds, sh.pipes[2 * i - 3], 0) ELSE procs[p].fds
        f2 == IF i < Len(Cmds(p)) THEN dup2(f1, sh.pipes[2 * i], 1) ELSE f1
        f3 == dup2(dup2(f2, sh.outfd, 1), sh.errfd, 2)
    IN  close(f3, PipeFds(sh) \cup UNION {TmpFds(sh.tmp, j) : j \in DOMAIN Cmds(p) \ {i}})

\* The order of the code: the capture, the pipes, the closes, the redirects.
Wired(p) ==
    LET sh == Sh(p)
        i  == procs[p].stage
        n  == Len(Cmds(p))
        f1 == dup2(dup2(procs[p].fds, sh.outfd, 1), sh.errfd, 2)
        f2 == IF i > 1 THEN dup2(f1, sh.pipes[2 * i - 3], 0) ELSE f1
        f3 == IF i < n THEN dup2(f2, sh.pipes[2 * i], 1) ELSE f2
    IN  close(f3, PipeFds(sh) \cup UNION {TmpFds(sh.tmp, j) : j \in DOMAIN Cmds(p) \ {i}})

ChildStarts(p) ==
    /\ procs[p].state = "child"
    /\ \E c \in {Cmds(p)[procs[p].stage]} :
       \E w \in {apply_redirects(c, Sh(p).tmp[procs[p].stage], Wired(p))} :
         IF ~w.ok THEN Commit(p, w, [procs[p] EXCEPT !.state = "dying", !.run = NoFile])
         ELSE Commit(p, [w EXCEPT !.fds = close(@, Capture(Sh(p)))],
                IF IsSub(c) THEN Proc(procs[p].parent, <<>>, procs[p].cwd, Shell(c.sub, TRUE, 1, 2))
                ELSE [procs[p] EXCEPT !.state = "command", !.run = Runs(c, procs[p].cwd)])
    /\ UNCHANGED <<plan, faults>>

Working(p) == procs[p].state \in {"command", "dying"} \/ In_(p, "builtin")
Desc(p, fd) == descs[procs[p].fds[fd]]
HeldBy(q, kind, key) == \E fd \in DOMAIN procs[q].fds :
    LET d == Desc(q, fd) IN d.kind = kind /\ d.key = key
Open(kind, key) == \E q \in DOMAIN procs : HeldBy(q, kind, key)

Written(s, d, item) ==
    IF d.append \/ d.off >= Len(s) THEN Append(s, item) ELSE [s EXCEPT ![d.off + 1] = item]

Target(p) == Desc(p, procs[p].run.writes[1][1])
Item(p)   == procs[p].run.writes[1][2]
Sent(p)   == procs' = [procs EXCEPT ![p].run.writes = Tail(@)]

WriteFile(p) ==
    /\ Working(p) /\ procs[p].run.writes # <<>> /\ Target(p).kind = "file"
    /\ data' = [data EXCEPT ![Target(p).key] = Written(@, Target(p), Item(p))]
    /\ descs' = [descs EXCEPT ![procs[p].fds[procs[p].run.writes[1][1]]].off = @ + 1]
    /\ Sent(p)
    /\ UNCHANGED <<plan, faults>>

WritePipe(p) ==
    /\ Working(p) /\ procs[p].run.writes # <<>> /\ Target(p).kind = "write"
    /\ Open("read", Target(p).key) /\ Len(data[Target(p).key]) < PIPE_CAP
    /\ data' = [data EXCEPT ![Target(p).key] = Append(@, Item(p))]
    /\ Sent(p)
    /\ UNCHANGED <<plan, descs, faults>>

\* Nobody reads the pipe any more: SIGPIPE ends the process.
SigPipe(p) ==
    /\ Working(p) /\ procs[p].run.writes # <<>> /\ Target(p).kind = "write"
    /\ ~Open("read", Target(p).key)
    /\ procs' = [procs EXCEPT ![p] = Exited(@, 141)]
    /\ UNCHANGED <<plan, descs, data, faults>>

Reading(p) == procs[p].state = "command" /\ procs[p].run.writes = <<>> /\ procs[p].run.input # "none"
Source(p)  == Desc(p, 0)
Received(p, item) ==
    procs' = [procs EXCEPT ![p].run.writes = Writes(1, item),
                           ![p].run.input = IF @ = "one" THEN "none" ELSE @]

ReadFile(p) ==
    /\ Reading(p) /\ Source(p).kind = "file" /\ Source(p).off < Len(data[Source(p).key])
    /\ Received(p, data[Source(p).key][Source(p).off + 1])
    /\ descs' = [descs EXCEPT ![procs[p].fds[0]].off = @ + 1]
    /\ UNCHANGED <<plan, data, faults>>

ReadPipe(p) ==
    /\ Reading(p) /\ Source(p).kind = "read" /\ data[Source(p).key] # <<>>
    /\ Received(p, Head(data[Source(p).key]))
    /\ data' = [data EXCEPT ![Source(p).key] = Tail(@)]
    /\ UNCHANGED <<plan, descs, faults>>

AtEof(d) == IF d.kind = "file" THEN d.off >= Len(data[d.key])
            ELSE data[d.key] = <<>> /\ ~Open("write", d.key)

CommandEnds(p) ==
    /\ procs[p].state \in {"command", "dying"} /\ procs[p].run.writes = <<>>
    /\ procs[p].run.input = "none" \/ AtEof(Source(p))
    /\ procs' = [procs EXCEPT ![p] = Exited(@, procs[p].run.code)]
    /\ UNCHANGED <<plan, descs, data, faults>>

-----------------------------------------------------------------------------
(* The plan.                                                               *)

PlanInit ==
    /\ plan = [status |-> "none", code |-> 0]
    /\ procs = <<>> /\ descs = <<>> /\ data = Files /\ faults = 0

\* The terminal of the process, and the two capture files, unlinked.
StdFiles == {Path("stdin"), Path("out"), Path("err")}
StdDescs == <<OnFile(Path("stdin"), FALSE), OnFile(Path("out"), FALSE), OnFile(Path("err"), FALSE)>>

run_program(program) ==
    /\ plan' = [status |-> "running", code |-> 0]
    /\ descs' = StdDescs
    /\ data' = [k \in DOMAIN data \cup StdFiles |-> IF k \in StdFiles THEN <<>> ELSE data[k]]
    /\ procs' = <<Proc(0, [fd \in 0 .. 4 |-> IF fd > 2 THEN fd - 1 ELSE 1], "/",
                       Shell(program, FALSE, 3, 4))>>
    /\ UNCHANGED faults

\* The capture files are closed, and the plan is forgotten.
EndPlan ==
    /\ plan' = [status |-> "none", code |-> 0] /\ procs' = <<>> /\ descs' = <<>>
    /\ data' = Restrict(data, {k \in DOMAIN data : Len(k) = 1} \ StdFiles)
    /\ UNCHANGED faults

PlanStep ==
    /\ plan.status = "running"
    /\ \E p \in DOMAIN procs :
         \/ SkipChain(p) \/ EndProgram(p) \/ StartPipeline(p) \/ StartFails(p)
         \/ Fork(p) \/ ForkFails(p) \/ CloseFds(p) \/ Wait(p) \/ KillAndWait(p) \/ AllKilled(p)
         \/ OpenBodies(p) \/ RunBuiltin(p) \/ BuiltinEnds(p) \/ ChildStarts(p)
         \/ WriteFile(p) \/ WritePipe(p) \/ SigPipe(p) \/ ReadFile(p) \/ ReadPipe(p) \/ CommandEnds(p)

Over == plan.status = "over"

\* The runner by itself, under a machine that gives it one program after another;
\* opening the capture files may fail too.
PlanNext(Programs) ==
    \/ /\ plan.status = "none"
       /\ \E program \in Programs : decode_program(program) /\ run_program(program)
    \/ plan.status = "none" /\ Fault /\ UNCHANGED <<plan, procs, descs, data>>
    \/ PlanStep
    \/ Over /\ EndPlan

PlanSpec(Programs) == PlanInit /\ [][PlanNext(Programs)]_planvars

-----------------------------------------------------------------------------
(* Properties.                                                             *)

\* No descriptor outlives its use: a command starts with 0, 1 and 2 only, a
\* shell is back to its own between two pipelines, and when the plan is over
\* no child is left running or unwaited for, unless a call failed, when the
\* children of the virtual machine itself are still all waited for.
NothingHeld ==
    \A p \in DOMAIN procs :
        /\ procs[p].state = "command" => DOMAIN procs[p].fds = 0 .. 2
        /\ In_(p, "chain") \/ In_(p, "end") =>
               DOMAIN procs[p].fds = 0 .. 2 \cup {Sh(p).outfd, Sh(p).errfd}
        /\ Over /\ p # Root /\ (faults = 0 \/ procs[p].parent = Root) => procs[p].state = "reaped"
=============================================================================
