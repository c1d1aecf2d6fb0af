----------------------------- MODULE EffectLoop -----------------------------
(***************************************************************************)
(* The host effect loop of src/effectloop.zig: `runProgramWith` interprets *)
(* the Tasks of an Elm Program natively, one evaluation per Task of a Cmd. *)
(* A pure evaluation steps to a leaf; a leaf either completes at once or   *)
(* starts an effect (a FIFO read, a child process, a sleep, a SIGWINCH     *)
(* wait) and suspends.  When nothing pure is left the loop polls, drains   *)
(* what is ready, reaps children, and resumes.                             *)
(*                                                                         *)
(* The operating system and the child processes are the environment: their *)
(* actions interleave with every step of the loop.                         *)
(*                                                                         *)
(* Abstractions.  Bytes are counted, not carried.  The GC slot block of an *)
(* evaluation is its fields task and frames.  The high-water marks nevals  *)
(* and nchildren are left out: a table index above them is a free one, and *)
(* every scan skips free ones.  stdin and GUI effects share this loop and  *)
(* are modelled apart.                                                     *)
(***************************************************************************)
EXTENDS Integers, Sequences, FiniteSets

CONSTANTS
    MAX_EVALS,      \* evaluations in flight (128 in the code)
    MAX_FRAMES,     \* continuation frames of one evaluation (256)
    GENS,           \* values of the generation token (2^64)
    Task, Cont,     \* the program's tasks, and its continuations and handlers
    Val, Model,     \* what a task can yield, and the program's models
    Program,        \* the [model, cmd] pairs that init can return
    Apply(_, _),    \* a continuation or handler applied to a value: a task
    Update(_, _),   \* update msg model: [model, cmd]
    Job, NoJob,     \* child processes and FIFOs the host has open
    Pid, NoPid,
    NoTask,         \* the nil of an idle block
    Code,           \* exit codes
    MAX_OUT,        \* bound: bytes written to one pipe
    MAX_TIME,       \* bound on the clock, above every deadline of a run
    Size,           \* terminal widths
    Failing         \* the system calls that may fail: "fork", "signalfd"

Slot == 0 .. MAX_EVALS - 1
\* Mutation: the child table is one entry short.
MAX_CHILDREN_Short == MAX_EVALS - 1
MAX_CHILDREN == MAX_EVALS
Stream == {"out", "err"}

Tag == {"succeed", "fail", "andthen", "onerror", "sync", "now", "winsize",
        "readfile", "exec", "sleep", "waitresize", "quit", "malformed"}

ASSUME BoundAssumption ==
    /\ MAX_EVALS \in Nat \ {0}
    /\ MAX_FRAMES \in Nat
    /\ GENS \in Nat \ {0, 1}
    /\ MAX_OUT \in Nat
    /\ MAX_TIME \in Nat
    /\ IsFiniteSet(Job)
    /\ Code \subseteq Nat /\ 0 \in Code
    /\ Size \subseteq Nat /\ Size # {}

ASSUME NullAssumption == NoJob \notin Job /\ NoPid \notin Pid /\ NoTask \notin Task

\* A task is a record of its constructor and the arguments that matter.
ASSUME TaskAssumption ==
    \A t \in Task :
        /\ t.tag \in Tag
        /\ t.tag \in {"succeed", "fail"} => t.val \in Val
        /\ t.tag \in {"andthen", "onerror"} => t.cont \in Cont /\ t.inner \in Task
        /\ t.tag = "sync" => t.vals \subseteq Val
        /\ t.tag = "sleep" => t.ms \in Int

\* The results the host builds: unit, a time, a width, a file, an exec triple.
ASSUME ResultAssumption ==
    /\ <<>> \in Val
    /\ \A n \in (0 .. MAX_OUT) \cup (0 .. MAX_TIME) \cup Size : <<n>> \in Val
    /\ \A c \in Code, o, e \in 0 .. MAX_OUT : <<c, o, e>> \in Val

ASSUME ProgramAssumption ==
    /\ \A c \in Cont, v \in Val : Apply(c, v) \in Task
    /\ \A v \in Val, m \in Model : Update(v, m) \in [model : Model, cmd : Seq(Task)]
    /\ \A p \in Program :
          p \in [model : Model, cmd : Seq(Task)] /\ Len(p.cmd) <= MAX_EVALS

-----------------------------------------------------------------------------
VARIABLES
    \* the loop
    evals,      \* Slot -> evaluation
    nactive,
    model,
    quit,       \* TaskQuit ran
    children,   \* the child table: index -> [pid, eval]
    pollfds,    \* the pollfd entries; after a poll, the ready ones
    winch_fd,   \* the SIGWINCH signalfd is open
    winsz,      \* the size drainWinch hands out
    tnow,       \* the clock flushExpiredSleeps read
    pc,         \* where runProgramWith is
    ret,        \* which of its call sites of stepAll / completeReady this is
    cur,        \* the index of stepAll's scan
    startGen,   \* stepEval's start_gen
    outcome,    \* how the run ended
    \* the operating system
    jobs,       \* Job -> child process or FIFO writer, with its pipes
    now,        \* CLOCK_MONOTONIC
    size,       \* the terminal's width
    sigPend     \* a SIGWINCH is queued on the signalfd

control == <<pc, ret, cur, startGen>>
table   == <<evals, nactive, model>>
loop    == <<table, quit, children, pollfds, winch_fd, winsz, tnow, control, outcome>>
os      == <<jobs, now, size, sigPend>>
vars    == <<loop, os>>

-----------------------------------------------------------------------------
(* Records *)

NoBytes == [s \in Stream |-> 0]

EffKind == {"none", "readfile", "exec", "sleep", "winch"}

Eff == [kind : EffKind, job : Job \cup {NoJob}, pid : Pid \cup {NoPid},
        open : SUBSET Stream, buf : [Stream -> 0 .. MAX_OUT],
        exited : BOOLEAN, code : Code, deadline : Int]

NoEff == [kind |-> "none", job |-> NoJob, pid |-> NoPid, open |-> {},
          buf |-> NoBytes, exited |-> FALSE, code |-> 0, deadline |-> 0]

ReadFileEff(j) == [NoEff EXCEPT !.kind = "readfile", !.job = j, !.open = {"out"}]
\* Mutation: the read end of stderr is forgotten.
ExecEff_OutOnly(j, p) == [NoEff EXCEPT !.kind = "exec", !.job = j, !.pid = p, !.open = {"out"}]
ExecEff(j, p)  == [NoEff EXCEPT !.kind = "exec", !.job = j, !.pid = p, !.open = Stream]
SleepEff(d)    == [NoEff EXCEPT !.kind = "sleep", !.deadline = d]
WinchEff       == [NoEff EXCEPT !.kind = "winch"]

Frame == [kind : {"andthen", "onerror"}, cont : Cont]

\* `root` is history: the task the evaluation was spawned with.
EvalRec == [active : BOOLEAN, gen : 0 .. GENS - 1, root : Task \cup {NoTask},
            task : Task \cup {NoTask}, frames : Seq(Frame), eff : Eff]

Eval == {e \in EvalRec : e.active => e.task \in Task}

Idle(g) == [active |-> FALSE, gen |-> g, root |-> NoTask, task |-> NoTask,
            frames |-> <<>>, eff |-> NoEff]

\* Mutation: the token is not wrapped.
Fresh_NoWrap(g, t) == [active |-> TRUE, gen |-> g + 1, root |-> t, task |-> t,
                       frames |-> <<>>, eff |-> NoEff]

Fresh(g, t) == [active |-> TRUE, gen |-> (g + 1) % GENS, root |-> t, task |-> t,
                frames |-> <<>>, eff |-> NoEff]

Child == [pid : Pid \cup {NoPid}, eval : Slot]
FreeChild == [pid |-> NoPid, eval |-> 0]

PollRole == {"readfile", "exec_out", "exec_err", "winch"}
PollFd == [eval : Slot, role : PollRole]

\* unread and written count the bytes of a pipe; wopen and ropen say which
\* pipes still have a writer and which the host still holds.
JobRec == [state : {"unused", "file", "running", "zombie", "reaped"},
           pid : Pid \cup {NoPid}, code : Code,
           wopen : SUBSET Stream, ropen : SUBSET Stream,
           unread : [Stream -> 0 .. MAX_OUT], written : [Stream -> 0 .. MAX_OUT]]

UnusedJob == [state |-> "unused", pid |-> NoPid, code |-> 0, wopen |-> {},
              ropen |-> {}, unread |-> NoBytes, written |-> NoBytes]
FifoJob    == [UnusedJob EXCEPT !.state = "file", !.wopen = {"out"}, !.ropen = {"out"}]
ChildJob(p) == [UnusedJob EXCEPT !.state = "running", !.pid = p,
                                 !.wopen = Stream, !.ropen = Stream]

-----------------------------------------------------------------------------
(* Predicates of the scans *)

Least(i, S) == i \in S /\ \A j \in S : i <= j

Runnable(e)  == e.active /\ e.eff.kind = "none"
hasRunnable  == \E i \in Slot : Runnable(evals[i])
\* Mutations: an exec is complete at EOF, or at exit, alone.
Finished_AtEof(i)  == evals[i].active /\ evals[i].eff.kind = "exec" /\ evals[i].eff.open = {}
Finished_AtExit(i) == evals[i].active /\ evals[i].eff.kind = "exec" /\ evals[i].eff.exited
Finished(i)  == /\ evals[i].active /\ evals[i].eff.kind = "exec"
                /\ evals[i].eff.exited /\ evals[i].eff.open = {}
Sleeping(i)  == evals[i].active /\ evals[i].eff.kind = "sleep"
Waiting(i)   == evals[i].active /\ evals[i].eff.kind = "winch"
PendingChildren == {k \in 0 .. MAX_CHILDREN - 1 : children[k].pid # NoPid}

StreamOf(role) == IF role = "exec_err" THEN "err" ELSE "out"

\* Mutation: stderr is never polled.
Polls_NoErr(eff, role) ==
    \/ role = "readfile" /\ eff.kind = "readfile"
    \/ role = "exec_out" /\ eff.kind = "exec" /\ "out" \in eff.open
    \/ role = "winch" /\ eff.kind = "winch" /\ winch_fd

\* rebuildPollfds: at most two entries an evaluation, so MAX_POLLFDS is safe.
Polls(eff, role) ==
    \/ role = "readfile" /\ eff.kind = "readfile"
    \/ role \in {"exec_out", "exec_err"} /\ eff.kind = "exec" /\ StreamOf(role) \in eff.open
    \/ role = "winch" /\ eff.kind = "winch" /\ winch_fd

PollSet == {e \in PollFd : evals[e.eval].active /\ Polls(evals[e.eval].eff, e.role)}

\* What poll(2) reports: bytes to read, or a hang-up.
Ready(e) ==
    IF e.role = "winch" THEN sigPend
    ELSE LET j == jobs[evals[e.eval].eff.job]
             s == StreamOf(e.role)
         IN  j.unread[s] > 0 \/ s \notin j.wopen

LivePids == {jobs[j].pid : j \in {k \in Job : jobs[k].state \in {"running", "zombie"}}}

\* waitpid(p) finds a zombie, and gives its status.
Exited(p)   == \E j \in Job : jobs[j].state = "zombie" /\ jobs[j].pid = p
StatusOf(p) == jobs[CHOOSE j \in Job : jobs[j].state = "zombie" /\ jobs[j].pid = p].code

-----------------------------------------------------------------------------
(* Spawning and deactivating evaluations *)

\* Mutation: spawn takes the first slot without looking at `active`.
Inactive_Any(evs) == Slot

Inactive(evs) == {i \in Slot : ~evs[i].active}
Rank(evs, i)  == Cardinality({j \in Inactive(evs) : j <= i})

\* Each task takes the first inactive slot left, in the order of the list.
spawnFromCmd(evs, cmd) ==
    [i \in Slot |-> IF i \in Inactive(evs) /\ Rank(evs, i) <= Len(cmd)
                    THEN Fresh(evs[i].gen, cmd[Rank(evs, i)])
                    ELSE evs[i]]

deactivate(i) == [evals EXCEPT ![i] = Idle(@.gen)]

\* Mutation: a dropped evaluation stays counted.
Drop_StillCounted(i, next) ==
    evals' = deactivate(i) /\ pc' = next /\ UNCHANGED <<nactive, model, outcome>>

Drop(i, next) ==
    /\ evals' = deactivate(i)
    /\ nactive' = nactive - 1
    /\ pc' = next
    /\ UNCHANGED <<model, outcome>>

\* std.debug.panic: the process is gone, nothing is cleaned up.
Panic ==
    /\ outcome' = "panic"
    /\ pc' = "exit"

\* update msg model, then the slot is freed before the follow-ups are spawned.
deliver(i, msg, next) ==
    LET pair == Update(msg, model)
        freed == deactivate(i)
    IN  IF Len(pair.cmd) <= Cardinality(Inactive(freed))
        THEN /\ evals' = spawnFromCmd(freed, pair.cmd)
             /\ nactive' = nactive - 1 + Len(pair.cmd)
             /\ model' = pair.model
             /\ pc' = next
             /\ UNCHANGED outcome
        ELSE Panic /\ UNCHANGED table

-----------------------------------------------------------------------------
(* Completing a task: unwind to the first frame that takes the result *)

\* Mutation: the outermost frame of a kind instead of the topmost.
TopFrame_Outermost(frames, kind) ==
    {k \in DOMAIN frames : frames[k].kind = kind /\ \A m \in 1 .. k - 1 : frames[m].kind # kind}

\* The topmost frame of a kind, if there is one.
TopFrame(frames, kind) ==
    {k \in DOMAIN frames :
        /\ frames[k].kind = kind
        /\ \A m \in DOMAIN frames : m > k => frames[m].kind # kind}

Resume(i, k, v, next) ==
    /\ evals' = [evals EXCEPT ![i].task = Apply(evals[i].frames[k].cont, v),
                              ![i].frames = SubSeq(@, 1, k - 1),
                              ![i].eff = NoEff]
    /\ pc' = next
    /\ UNCHANGED <<nactive, model, outcome>>

\* Success passes through OnError frames; with no AndThen left it is a message.
completeSuccess(i, v, next) ==
    \/ \E k \in TopFrame(evals[i].frames, "andthen") : Resume(i, k, v, next)
    \/ TopFrame(evals[i].frames, "andthen") = {} /\ deliver(i, v, next)

\* An error passes through AndThen frames; with no OnError left it is dropped.
completeError(i, e, next) ==
    \/ \E k \in TopFrame(evals[i].frames, "onerror") : Resume(i, k, e, next)
    \/ TopFrame(evals[i].frames, "onerror") = {} /\ Drop(i, next)

\* The effect of evaluation i is started: it suspends.
suspend(i, eff, next) ==
    /\ evals' = [evals EXCEPT ![i].eff = eff]
    /\ pc' = next
    /\ UNCHANGED <<nactive, model, outcome>>

-----------------------------------------------------------------------------
(* stepAll and stepEval *)

Begin ==
    /\ pc = "head"
    /\ IF nactive > 0 /\ ~quit
       THEN pc' = "step" /\ ret' = "outer" /\ UNCHANGED outcome
       ELSE pc' = "cleanup" /\ outcome' = "done" /\ UNCHANGED ret
    /\ UNCHANGED <<table, quit, children, pollfds, winch_fd, winsz, tnow, cur, startGen, os>>

BeginEval ==
    /\ pc = "step"
    /\ \E i \in Slot :
          /\ Least(i, {k \in Slot : k >= cur /\ Runnable(evals[k])})
          /\ cur' = i
          /\ startGen' = evals[i].gen
    /\ pc' = "eval"
    /\ UNCHANGED <<table, quit, children, pollfds, winch_fd, winsz, tnow, ret, outcome, os>>

\* Mutation: no generation token.
Stepping_AnyGen(e) == e.active /\ e.eff.kind = "none"

Stepping(e) == e.active /\ e.gen = startGen /\ e.eff.kind = "none"

\* One pass of stepEval's loop is one of the leaf actions below.
AtLeaf(tag) ==
    /\ pc = "eval"
    /\ Stepping(evals[cur])
    /\ evals[cur].task.tag = tag

task == evals[cur].task
LeafFrame == <<quit, children, pollfds, winch_fd, winsz, tnow, ret, cur, startGen, os>>

Succeed == AtLeaf("succeed") /\ completeSuccess(cur, task.val, "eval") /\ UNCHANGED LeafFrame
Fail    == AtLeaf("fail") /\ completeError(cur, task.val, "eval") /\ UNCHANGED LeafFrame

pushFrame(kind) ==
    /\ AtLeaf(kind)
    /\ IF Len(evals[cur].frames) < MAX_FRAMES
       THEN /\ evals' = [evals EXCEPT
                  ![cur].frames = Append(@, [kind |-> kind, cont |-> task.cont]),
                  ![cur].task = task.inner]
            /\ UNCHANGED <<nactive, model, outcome, pc>>
       ELSE Panic /\ UNCHANGED table
    /\ UNCHANGED LeafFrame

PushFrame == pushFrame("andthen") \/ pushFrame("onerror")

\* write, writeFile, readLine, the env/cwd/glob prims, listDir, stat, rawMode,
\* and an exec plan of more than one plain command: answered on the spot.
SyncLeaf ==
    /\ AtLeaf("sync")
    /\ \E v \in task.vals : completeSuccess(cur, v, "eval")
    /\ UNCHANGED LeafFrame

leafNow     == AtLeaf("now") /\ completeSuccess(cur, <<now>>, "eval") /\ UNCHANGED LeafFrame
leafWinSize == AtLeaf("winsize") /\ completeSuccess(cur, <<size>>, "eval") /\ UNCHANGED LeafFrame

\* A regular file, a failed open and a FIFO without writers end at once.
leafReadFile ==
    /\ AtLeaf("readfile")
    /\ \/ /\ \E n \in 0 .. MAX_OUT : completeSuccess(cur, <<n>>, "eval")
          /\ UNCHANGED jobs
       \/ \E j \in Job :
             /\ jobs[j].state = "unused"
             /\ jobs' = [jobs EXCEPT ![j] = FifoJob]
             /\ suspend(cur, ReadFileEff(j), "eval")
    /\ UNCHANGED <<quit, children, pollfds, winch_fd, winsz, tnow, ret, cur, startGen,
                   now, size, sigPend>>

\* Mutation: the entry of the last child is overwritten.
registerChild_Overwrite(i, p) == children' = [children EXCEPT ![0] = [pid |-> p, eval |-> i]]

\* The first free entry of the child table; registerChild panics on a full one.
registerChild(i, p) ==
    \E k \in 0 .. MAX_CHILDREN - 1 :
        /\ Least(k, (0 .. MAX_CHILDREN - 1) \ PendingChildren)
        /\ children' = [children EXCEPT ![k] = [pid |-> p, eval |-> i]]

ChildTableFull == PendingChildren = 0 .. MAX_CHILDREN - 1

leafExec ==
    /\ AtLeaf("exec")
    /\ \E j \in Job, p \in Pid :
          /\ jobs[j].state = "unused"
          /\ p \notin LivePids
          /\ jobs' = [jobs EXCEPT ![j] = ChildJob(p)]
          /\ IF ChildTableFull
             THEN Panic /\ UNCHANGED <<table, children>>
             ELSE registerChild(cur, p) /\ suspend(cur, ExecEff(j, p), "eval")
    /\ UNCHANGED <<quit, pollfds, winch_fd, winsz, tnow, ret, cur, startGen,
                   now, size, sigPend>>

\* A malformed plan, or pipe or fork failing: the VM error ends the run.
leafExecFails ==
    /\ AtLeaf("exec")
    /\ "fork" \in Failing
    /\ outcome' = "error"
    /\ pc' = "cleanup"
    /\ UNCHANGED <<table, LeafFrame>>

leafSleep ==
    /\ AtLeaf("sleep")
    /\ suspend(cur, SleepEff(now + task.ms), "eval")
    /\ UNCHANGED LeafFrame

\* The first wait opens the signalfd; if that fails the probe answers instead.
leafWaitResize ==
    /\ AtLeaf("waitresize")
    /\ \/ winch_fd' = TRUE /\ suspend(cur, WinchEff, "eval")
       \/ /\ ~winch_fd /\ "signalfd" \in Failing
          /\ completeSuccess(cur, <<size>>, "eval")
          /\ UNCHANGED winch_fd
    /\ UNCHANGED <<quit, children, pollfds, winsz, tnow, ret, cur, startGen, os>>

leafQuit ==
    /\ AtLeaf("quit")
    /\ quit' = TRUE
    /\ Drop(cur, "eval")
    /\ UNCHANGED <<children, pollfds, winch_fd, winsz, tnow, ret, cur, startGen, os>>

\* Not a task vector, wrong arity, unknown constructor.
DropMalformed == AtLeaf("malformed") /\ Drop(cur, "eval") /\ UNCHANGED LeafFrame

stepEval ==
    \/ Succeed \/ Fail \/ PushFrame \/ SyncLeaf \/ leafNow \/ leafWinSize
    \/ leafReadFile \/ leafExec \/ leafExecFails \/ leafSleep \/ leafWaitResize
    \/ leafQuit \/ DropMalformed

EndEval ==
    /\ pc = "eval"
    /\ ~Stepping(evals[cur])
    /\ cur' = cur + 1
    /\ startGen' = 0
    /\ pc' = "step"
    /\ UNCHANGED <<table, quit, children, pollfds, winch_fd, winsz, tnow, ret, outcome, os>>

\* What runProgramWith does after stepAll at each of its call sites.
EndStepAll ==
    /\ pc = "step"
    /\ \A k \in Slot : k >= cur => ~Runnable(evals[k])
    /\ cur' = 0
    /\ IF quit \/ (ret = "outer" /\ nactive = 0)
       THEN pc' = "cleanup" /\ outcome' = "done"
       ELSE pc' = (IF ret = "outer" THEN "reap" ELSE "complete") /\ UNCHANGED outcome
    /\ UNCHANGED <<table, quit, children, pollfds, winch_fd, winsz, tnow, ret, startGen, os>>
-----------------------------------------------------------------------------
(* Reaping children and completing execs *)

\* waitpid took the zombies of the table entries `dead`.
Reap(dead) ==
    LET pids == {children[k].pid : k \in dead}
        entries(i) == {k \in dead : children[k].eval = i}
    IN  /\ evals' = [i \in Slot |->
               IF entries(i) # {} /\ evals[i].active /\ evals[i].eff.kind = "exec"
               THEN LET k == CHOOSE k \in entries(i) : TRUE
                    IN  [evals[i] EXCEPT !.eff.exited = TRUE,
                                         !.eff.code = StatusOf(children[k].pid)]
               ELSE evals[i]]
        /\ children' = [k \in 0 .. MAX_CHILDREN - 1 |->
               IF k \in dead THEN FreeChild ELSE children[k]]
        /\ jobs' = [j \in Job |->
               IF jobs[j].state = "zombie" /\ jobs[j].pid \in pids
               THEN [jobs[j] EXCEPT !.state = "reaped", !.pid = NoPid]
               ELSE jobs[j]]
        /\ UNCHANGED <<nactive, model>>

\* WNOHANG over the whole table.
reapChildren == Reap({k \in PendingChildren : Exited(children[k].pid)})

ReapBeforePoll ==
    /\ pc = "reap"
    /\ reapChildren
    /\ pc' = "complete"
    /\ UNCHANGED <<quit, pollfds, winch_fd, winsz, tnow, ret, cur, startGen, outcome,
                   now, size, sigPend>>

\* execComplete: the tuple (code, out, err); pipes and process are gone.
execComplete ==
    /\ pc = "complete"
    /\ \E i \in Slot :
          LET eff == evals[i].eff IN
          /\ Least(i, {k \in Slot : Finished(k)})
          /\ jobs' = [jobs EXCEPT ![eff.job] = UnusedJob]
          /\ completeSuccess(i, <<eff.code, eff.buf["out"], eff.buf["err"]>>, "complete")
    /\ UNCHANGED <<quit, children, pollfds, winch_fd, winsz, tnow, ret, cur, startGen,
                   now, size, sigPend>>

\* Mutation: the fd tables are built before the pure work is stepped.
AfterCompleteReady_NoFixpoint ==
    CASE ret \in {"outer", "inner"} -> IF nactive = 0 THEN "runnable" ELSE "build"
      [] ret = "blocked" -> "head"
      [] ret = "polled" -> "flush"

\* What runProgramWith does after completeReady at each of its call sites.
AfterCompleteReady ==
    CASE ret \in {"outer", "inner"} -> "runnable"
      [] ret = "blocked" -> "head"
      [] ret = "polled" -> "flush"

EndCompleteReady ==
    /\ pc = "complete"
    /\ \A i \in Slot : ~Finished(i)
    /\ pc' = AfterCompleteReady
    /\ tnow' = IF ret = "polled" THEN now ELSE tnow
    /\ UNCHANGED <<table, quit, children, pollfds, winch_fd, winsz, ret, cur, startGen,
                   outcome, os>>

\* The inner fixpoint: pure work is stepped before the fd tables are built.
CheckRunnable ==
    /\ pc = "runnable"
    /\ \/ hasRunnable /\ pc' = "step" /\ ret' = "inner" /\ UNCHANGED outcome
       \/ ~hasRunnable /\ nactive = 0 /\ pc' = "cleanup" /\ outcome' = "done" /\ UNCHANGED ret
       \/ ~hasRunnable /\ nactive > 0 /\ pc' = "build" /\ UNCHANGED <<ret, outcome>>
    /\ UNCHANGED <<table, quit, children, pollfds, winch_fd, winsz, tnow, cur, startGen, os>>

rebuildPollfds ==
    /\ pc = "build"
    /\ pollfds' = PollSet
    /\ pc' = IF PollSet = {} THEN "reapblock" ELSE "poll"
    /\ UNCHANGED <<table, quit, children, winch_fd, winsz, tnow, ret, cur, startGen,
                   outcome, os>>

\* No fd is left: wait for the first pending child, however long it takes.
reapBlocking ==
    /\ pc = "reapblock"
    /\ \E k \in PendingChildren :
          /\ Least(k, PendingChildren)
          /\ Exited(children[k].pid)
          /\ Reap({k})
    /\ pc' = "complete"
    /\ ret' = "blocked"
    /\ UNCHANGED <<quit, pollfds, winch_fd, winsz, tnow, cur, startGen, outcome,
                   now, size, sigPend>>

\* No fd and no child: only sleeps may remain, else the loop gives up.
NothingToReap ==
    /\ pc = "reapblock"
    /\ PendingChildren = {}
    /\ IF \E i \in Slot : Sleeping(i)
       THEN pc' = "poll" /\ UNCHANGED outcome
       ELSE pc' = "cleanup" /\ outcome' = "abandoned"
    /\ UNCHANGED <<table, quit, children, pollfds, winch_fd, winsz, tnow, ret, cur,
                   startGen, os>>

\* poll(2) returns with the ready entries, or at the nearest sleep deadline.
Poll ==
    /\ pc = "poll"
    /\ LET ready == {e \in pollfds : Ready(e)} IN
          /\ \/ ready # {}
             \/ \E i \in Slot : Sleeping(i) /\ evals[i].eff.deadline <= now
          /\ pollfds' = ready
    /\ pc' = "wake"
    /\ UNCHANGED <<table, quit, children, winch_fd, winsz, tnow, ret, cur, startGen,
                   outcome, os>>

ReapAfterPoll ==
    /\ pc = "wake"
    /\ reapChildren
    /\ pc' = IF \E e \in pollfds : e.role = "winch" THEN "winch_read" ELSE "drain"
    /\ UNCHANGED <<quit, pollfds, winch_fd, winsz, tnow, ret, cur, startGen, outcome,
                   now, size, sigPend>>

-----------------------------------------------------------------------------
(* drainWinch: the siginfo is read first, then the size, then all are told *)

WinchRead ==
    /\ pc = "winch_read"
    /\ sigPend' = FALSE
    /\ pc' = "winch_size"
    /\ UNCHANGED <<table, quit, children, pollfds, winch_fd, winsz, tnow, ret, cur,
                   startGen, outcome, jobs, now, size>>

WinchSize ==
    /\ pc = "winch_size"
    /\ winsz' = size
    /\ pc' = "winch"
    /\ UNCHANGED <<table, quit, children, pollfds, winch_fd, tnow, ret, cur, startGen,
                   outcome, os>>

WinchComplete ==
    /\ pc = "winch"
    /\ \E i \in Slot : Least(i, {k \in Slot : Waiting(k)})
                       /\ completeSuccess(i, <<winsz>>, "winch")
    /\ UNCHANGED LeafFrame

\* Mutation: signals that arrived meanwhile are drained too.
EndDrainWinch_DrainAgain ==
    /\ pc = "winch"
    /\ \A i \in Slot : ~Waiting(i)
    /\ pc' = "drain"
    /\ sigPend' = FALSE
    /\ UNCHANGED <<table, quit, children, pollfds, winch_fd, winsz, tnow, ret, cur,
                   startGen, outcome, jobs, now, size>>

EndDrainWinch ==
    /\ pc = "winch"
    /\ \A i \in Slot : ~Waiting(i)
    /\ pc' = "drain"
    /\ UNCHANGED <<table, LeafFrame, outcome>>

-----------------------------------------------------------------------------
(* drainReady, entry by entry *)

NextReady(e) ==
    /\ e \in pollfds
    /\ \A f \in pollfds : e.eval <= f.eval
    /\ e.role = "exec_err" => [eval |-> e.eval, role |-> "exec_out"] \notin pollfds

DrainSkip ==
    /\ pc = "drain"
    /\ \E e \in pollfds :
          /\ NextReady(e)
          /\ ~evals[e.eval].active \/ e.role = "winch"
          /\ pollfds' = pollfds \ {e}
    /\ UNCHANGED <<table, quit, children, winch_fd, winsz, tnow, control, outcome, os>>

\* Read until EAGAIN: everything unread moves to the accumulator.
readFileDrain ==
    /\ pc = "drain"
    /\ \E e \in pollfds :
          LET i == e.eval
              j == evals[i].eff.job
              bytes == evals[i].eff.buf["out"] + jobs[j].unread["out"]
          IN  /\ NextReady(e)
              /\ evals[i].active /\ e.role = "readfile"
              /\ pollfds' = pollfds \ {e}
              /\ IF "out" \in jobs[j].wopen
                 THEN /\ evals' = [evals EXCEPT ![i].eff.buf["out"] = bytes]
                      /\ jobs' = [jobs EXCEPT ![j].unread["out"] = 0]
                      /\ UNCHANGED <<nactive, model, outcome, pc>>
                 ELSE /\ completeSuccess(i, <<bytes>>, "drain")
                      /\ jobs' = [jobs EXCEPT ![j] = UnusedJob]
    /\ UNCHANGED <<quit, children, winch_fd, winsz, tnow, ret, cur, startGen,
                   now, size, sigPend>>

\* On EOF the host closes its end of the pipe.
execDrain ==
    /\ pc = "drain"
    /\ \E e \in pollfds :
          LET i == e.eval
              j == evals[i].eff.job
              s == StreamOf(e.role)
              eof == s \notin jobs[j].wopen
          IN  /\ NextReady(e)
              /\ evals[i].active /\ e.role \in {"exec_out", "exec_err"}
              /\ pollfds' = pollfds \ {e}
              /\ IF s \in evals[i].eff.open
                 THEN /\ evals' = [evals EXCEPT
                            ![i].eff.buf[s] = @ + jobs[j].unread[s],
                            ![i].eff.open = IF eof THEN @ \ {s} ELSE @]
                      /\ jobs' = [jobs EXCEPT
                            ![j].unread[s] = 0,
                            ![j].ropen = IF eof THEN @ \ {s} ELSE @]
                 ELSE UNCHANGED <<evals, jobs>>
    /\ UNCHANGED <<nactive, model, quit, children, winch_fd, winsz, tnow, control,
                   outcome, now, size, sigPend>>

EndDrain ==
    /\ pc = "drain"
    /\ pollfds = {}
    /\ pc' = "complete"
    /\ ret' = "polled"
    /\ UNCHANGED <<table, quit, children, pollfds, winch_fd, winsz, tnow, cur, startGen,
                   outcome, os>>

-----------------------------------------------------------------------------
(* flushExpiredSleeps: earliest deadline first, then lowest slot *)

Expired == {i \in Slot : Sleeping(i) /\ evals[i].eff.deadline <= tnow}

\* Mutation: the first expired sleep instead of the earliest.
Earliest_First(i, S) == Least(i, S)

Earliest(i, S) ==
    /\ i \in S
    /\ \A k \in S : \/ evals[i].eff.deadline < evals[k].eff.deadline
                    \/ evals[i].eff.deadline = evals[k].eff.deadline /\ i <= k

sleepComplete ==
    /\ pc = "flush"
    /\ \E i \in Slot : Earliest(i, Expired) /\ completeSuccess(i, <<>>, "flush")
    /\ UNCHANGED LeafFrame

EndFlush ==
    /\ pc = "flush"
    /\ Expired = {}
    /\ pc' = "head"
    /\ UNCHANGED <<table, LeafFrame, outcome>>

-----------------------------------------------------------------------------
(* cleanupAll, deferred on every exit path but a panic *)

Held(j) == {i \in Slot : evals[i].eff.job = j}

CleanupEffects ==
    /\ pc = "cleanup"
    /\ evals' = [i \in Slot |-> [evals[i] EXCEPT !.eff = NoEff]]
    /\ jobs' = [j \in Job |->
           IF Held(j) = {} THEN jobs[j]
           ELSE IF jobs[j].state = "file" THEN UnusedJob
           ELSE [jobs[j] EXCEPT !.ropen = @ \ UNION {evals[i].eff.open : i \in Held(j)}]]
    /\ winch_fd' = FALSE
    /\ pc' = "cleanup_wait"
    /\ UNCHANGED <<nactive, model, quit, children, pollfds, winsz, tnow, ret, cur,
                   startGen, outcome, now, size, sigPend>>

\* Block-reap every child left, so that no zombie survives.
CleanupReap ==
    /\ pc = "cleanup_wait"
    /\ \E k \in PendingChildren :
          /\ Least(k, PendingChildren)
          /\ Exited(children[k].pid)
          /\ Reap({k})
    /\ UNCHANGED <<quit, pollfds, winch_fd, winsz, tnow, control, outcome,
                   now, size, sigPend>>

\* Mutation: the loop returns without waiting for the children.
CleanupDone_NoWait == pc = "cleanup_wait" /\ pc' = "exit" /\ UNCHANGED <<table, LeafFrame, outcome>>

CleanupDone ==
    /\ pc = "cleanup_wait"
    /\ PendingChildren = {}
    /\ pc' = "exit"
    /\ UNCHANGED <<table, LeafFrame, outcome>>

-----------------------------------------------------------------------------
(* The environment *)

\* A writer puts a byte into a pipe.
Produce(j, s) ==
    /\ s \in jobs[j].wopen
    /\ jobs[j].written[s] < MAX_OUT
    /\ jobs' = [jobs EXCEPT ![j].written[s] = @ + 1, ![j].unread[s] = @ + 1]
    /\ UNCHANGED <<loop, now, size, sigPend>>

\* The last writer of a pipe closes it: on exit, or long before or (a
\* grandchild that inherited it) long after.
CloseStream(j, s) ==
    /\ s \in jobs[j].wopen
    /\ jobs' = [jobs EXCEPT ![j].wopen = @ \ {s}]
    /\ UNCHANGED <<loop, now, size, sigPend>>

ChildExit(j) ==
    /\ jobs[j].state = "running"
    /\ \E c \in Code : jobs' = [jobs EXCEPT ![j].state = "zombie", ![j].code = c]
    /\ UNCHANGED <<loop, now, size, sigPend>>

\* Time that passes while nobody sleeps, or all deadlines are over, changes no
\* later choice of the loop: the model's clock only moves when it matters.
Tick ==
    /\ now < MAX_TIME
    /\ \E i \in Slot : Sleeping(i) /\ now <= evals[i].eff.deadline
    /\ now' = now + 1
    /\ UNCHANGED <<loop, jobs, size, sigPend>>

\* The terminal is resized; SIGWINCH queues once leafWaitResize has blocked it.
Resize ==
    /\ size' \in Size \ {size}
    /\ sigPend' = (sigPend \/ winch_fd)
    /\ UNCHANGED <<loop, jobs, now>>

-----------------------------------------------------------------------------
Init ==
    /\ \E p \in Program :
          /\ model = p.model
          /\ nactive = Len(p.cmd)
          /\ evals = spawnFromCmd([i \in Slot |-> Idle(0)], p.cmd)
    /\ quit = FALSE
    /\ children = [k \in 0 .. MAX_CHILDREN - 1 |-> FreeChild]
    /\ pollfds = {}
    /\ winch_fd = FALSE
    /\ tnow = 0
    /\ pc = "head" /\ ret = "outer" /\ cur = 0 /\ startGen = 0
    /\ outcome = "running"
    /\ jobs = [j \in Job |-> UnusedJob]
    /\ now = 0
    /\ size \in Size
    /\ winsz = size
    /\ sigPend = FALSE

HostStep ==
    \/ Begin \/ BeginEval \/ stepEval \/ EndEval \/ EndStepAll
    \/ ReapBeforePoll \/ execComplete \/ EndCompleteReady \/ CheckRunnable
    \/ rebuildPollfds \/ reapBlocking \/ NothingToReap \/ Poll \/ ReapAfterPoll
    \/ WinchRead \/ WinchSize \/ WinchComplete \/ EndDrainWinch
    \/ DrainSkip \/ readFileDrain \/ execDrain \/ EndDrain
    \/ sleepComplete \/ EndFlush
    \/ CleanupEffects \/ CleanupReap \/ CleanupDone

\* What happens outside once the host is gone is of no interest.
EnvStep ==
    /\ pc # "exit"
    /\ \/ \E j \in Job, s \in Stream : Produce(j, s) \/ CloseStream(j, s)
       \/ \E j \in Job : ChildExit(j)
       \/ Tick
       \/ Resize

Terminated == pc = "exit" /\ UNCHANGED vars

Next == HostStep \/ EnvStep \/ Terminated

Spec == Init /\ [][Next]_vars

\* The kernel runs the loop, the clock advances, and every writer and every
\* child ends at last.  Nobody has to resize the terminal.
LoopFairness   == WF_vars(HostStep)
WriterFairness == \A j \in Job, s \in Stream : WF_vars(EnvStep /\ CloseStream(j, s))
ExitFairness   == \A j \in Job : WF_vars(EnvStep /\ ChildExit(j))
ClockFairness  == WF_vars(EnvStep /\ Tick)

FairSpec == Spec /\ LoopFairness /\ WriterFairness /\ ExitFairness /\ ClockFairness

-----------------------------------------------------------------------------
(* Properties *)

\* Every variable has its type.
TypeOK ==
    /\ evals \in [Slot -> Eval]
    /\ nactive \in Int
    /\ model \in Model
    /\ quit \in BOOLEAN
    /\ children \in [0 .. MAX_CHILDREN - 1 -> Child]
    /\ pollfds \subseteq PollFd
    /\ winch_fd \in BOOLEAN
    /\ winsz \in Size
    /\ tnow \in 0 .. MAX_TIME
    /\ pc \in {"head", "step", "eval", "reap", "complete", "runnable", "build",
               "reapblock", "poll", "wake", "winch_read", "winch_size", "winch",
               "drain", "flush", "cleanup", "cleanup_wait", "exit"}
    /\ ret \in {"outer", "inner", "blocked", "polled"}
    /\ cur \in 0 .. MAX_EVALS
    /\ pc = "eval" => cur \in Slot
    /\ startGen \in 0 .. GENS - 1
    /\ outcome \in {"running", "done", "error", "abandoned", "panic"}
    /\ jobs \in [Job -> JobRec]
    /\ now \in 0 .. MAX_TIME
    /\ size \in Size
    /\ sigPend \in BOOLEAN

\* nactive, which alone decides that the loop may end, counts the active
\* evaluations: never a spawn or a deactivation missed or counted twice.
NactiveExact == nactive = Cardinality({i \in Slot : evals[i].active})

HasJob(eff)   == eff.kind \in {"readfile", "exec"}
Unreaped(eff) == eff.kind = "exec" /\ ~eff.exited
Live(j)       == jobs[j].state \in {"running", "zombie"}
AfterCleanup  == pc \in {"cleanup_wait", "exit"}

\* Until cleanup, the child table and the suspended execs name the same
\* processes one to one, though slots, table entries and pids are all reused:
\* a table entry's evaluation is the exec that forked that pid, no exec is
\* without its entry, and no two entries share an evaluation.
ChildOwned ==
    ~AfterCleanup =>
        /\ \A k \in PendingChildren :
              LET eff == evals[children[k].eval].eff
              IN  Unreaped(eff) /\ eff.pid = children[k].pid
        /\ \A i \in Slot : Unreaped(evals[i].eff) =>
              \E k \in PendingChildren : children[k].eval = i
        /\ \A k, m \in PendingChildren : children[k].eval = children[m].eval => k = m

\* No process the host forked is out of its sight: until it is reaped it is
\* in the child table, and a table entry always has a process to wait for.
NoLostChild ==
    outcome # "panic" =>
        {children[k].pid : k \in PendingChildren} = LivePids

\* Each suspended effect holds its own pipes, open exactly as the effect
\* believes, and has all their bytes but the unread ones.
PipesOwned ==
    ~AfterCleanup =>
        \A i \in Slot : HasJob(evals[i].eff) =>
            LET eff == evals[i].eff
                j == jobs[eff.job]
            IN  /\ j.ropen = eff.open
                /\ \A k \in Slot : k # i => evals[k].eff.job # eff.job
                /\ \A s \in Stream :
                      /\ j.written[s] = eff.buf[s] + j.unread[s]
                      /\ s \in Stream \ eff.open => s \notin j.wopen /\ j.unread[s] = 0

\* A drained entry finds the effect it was armed for: drainReady reads the
\* readfile and exec fields of the effect union without testing its tag.
DrainTagMatches ==
    pc \in {"wake", "winch_read", "winch_size", "winch", "drain"} =>
        \A e \in pollfds : evals[e.eval].active =>
            /\ e.role = "readfile" => evals[e.eval].eff.kind = "readfile"
            /\ e.role \in {"exec_out", "exec_err"} => evals[e.eval].eff.kind = "exec"

\* The loop never blocks in poll or waitpid over work it could do: nothing
\* runnable is left behind, and something can end the wait.
NoWorkLeftBehind ==
    /\ pc \in {"build", "reapblock", "poll"} => ~hasRunnable /\ nactive > 0
    /\ pc = "poll" => pollfds # {} \/ \E i \in Slot : Sleeping(i)
    /\ outcome # "abandoned"

\* On every exit path but a panic, nothing is left: no zombie and no running
\* child, no open pipe end, no signalfd.
NothingLeaks ==
    pc = "exit" /\ outcome # "panic" =>
        /\ LivePids = {}
        /\ \A j \in Job : jobs[j].ropen = {}
        /\ ~winch_fd

\* The child table never fills up: there is always an entry for one more exec.
ChildTableFits == AtLeaf("exec") => ~ChildTableFull

\* An exec resumes its task only with the exit code of its own child and
\* every byte that was written to its two pipes.
ExecResultFaithful ==
    [][\A i \in Slot :
          evals[i].eff.kind = "exec" /\ evals'[i].eff.kind # "exec" /\ pc # "cleanup" =>
              LET eff == evals[i].eff
                  j == jobs[eff.job]
              IN  /\ j.state = "reaped" /\ eff.code = j.code
                  /\ j.wopen = {} /\ eff.buf = j.written]_vars

\* Sleeps end in deadline order, and never early.
SleepsFireInOrder ==
    [][\A i \in Slot :
          evals[i].eff.kind = "sleep" /\ evals'[i].eff.kind # "sleep" /\ pc # "cleanup" =>
              /\ evals[i].eff.deadline <= now
              /\ \A k \in Slot : Sleeping(k) => evals[i].eff.deadline <= evals[k].eff.deadline]_vars

\* A finite program's run comes to its end.
LoopEnds == <>(pc = "exit")

Suspended(i) == evals[i].active /\ evals[i].eff.kind \in {"readfile", "exec", "sleep"}

\* Every suspended file read, exec and sleep completes, unless the program
\* quits or an effect cannot be started: no wake-up is missed, none given up.
EffectsEnd ==
    \A i \in Slot :
        Suspended(i) ~> \/ ~Suspended(i) /\ outcome \in {"running", "done"}
                        \/ quit \/ outcome = "error"

Executing(i) == evals[i].active /\ evals[i].eff.kind = "exec"

\* An exec completes once its child has ended, whatever else the loop is waiting for.
ExecsEnd ==
    \A i \in Slot : Executing(i) ~> ~Executing(i)

\* The blocking waitpid returns at once: no fd is left, so the child it waits
\* for has exited.
BlockingReapIsPrompt ==
    pc = "reapblock" =>
        \A k \in PendingChildren : Least(k, PendingChildren) => Exited(children[k].pid)

-----------------------------------------------------------------------------
(* The inductive invariant behind ChildOwned, NoLostChild and PipesOwned *)

\* Where the loop is agrees with how it ended, and with what it holds.
ControlInv ==
    /\ outcome = "panic" => pc = "exit"
    /\ pc = "exit" /\ outcome # "panic" => PendingChildren = {}
    /\ AfterCleanup /\ outcome # "panic" => ~winch_fd
    /\ tnow <= now

\* A pollfd entry of a file or of a process stands for an effect of its kind,
\* from the build of the table to the end of the drain.
PollInv ==
    pc \in {"reapblock", "poll", "wake", "winch_read", "winch_size", "winch", "drain"} =>
        \A e \in pollfds :
            /\ e.role = "readfile" => evals[e.eval].eff.kind = "readfile"
            /\ e.role \in {"exec_out", "exec_err"} => evals[e.eval].eff.kind = "exec"

\* An effect's fields are those of its kind, and only an active evaluation
\* has one.
EffShape ==
    \A i \in Slot :
        LET eff == evals[i].eff IN
        /\ ~evals[i].active => eff = NoEff
        /\ ~HasJob(eff) => eff.job = NoJob
        /\ HasJob(eff) => eff.job \in Job
        /\ eff.kind = "readfile" => eff.open = {"out"}
        /\ eff.kind = "exec" => eff.pid \in Pid

\* The kernel's side: only live processes have a pid, each its own, and what
\* is unread was written.
KernelInv ==
    /\ \A j \in Job : Live(j) <=> jobs[j].pid \in Pid
    /\ \A j, k \in Job : Live(j) /\ Live(k) /\ jobs[j].pid = jobs[k].pid => j = k
    /\ \A j \in Job, s \in Stream : jobs[j].unread[s] <= jobs[j].written[s]

\* The process or FIFO of an effect is in the state the effect is in.
JobMatches ==
    ~AfterCleanup =>
        \A i \in Slot :
            LET eff == evals[i].eff
                j == jobs[eff.job]
            IN  /\ eff.kind = "readfile" => j.state = "file" /\ j.wopen \subseteq {"out"}
                /\ Unreaped(eff) => j.state \in {"running", "zombie"} /\ j.pid = eff.pid
                /\ eff.kind = "exec" /\ eff.exited => j.state = "reaped" /\ j.code = eff.code

\* No pipe and no process is without the effect that holds it.
JobOwned ==
    ~AfterCleanup =>
        \A j \in Job : IF jobs[j].state = "unused" THEN jobs[j].ropen = {}
                       ELSE \E i \in Slot : evals[i].eff.job = j

\* From cleanup on, the child table is all that is left to wait for.
CleanupInv ==
    AfterCleanup /\ outcome # "panic" =>
        /\ \A j \in Job : jobs[j].ropen = {}
        /\ \A j \in Job : Live(j) => \E k \in PendingChildren : children[k].pid = jobs[j].pid
        /\ \A k \in PendingChildren : \E j \in Job : Live(j) /\ jobs[j].pid = children[k].pid
        /\ \A k, m \in PendingChildren : children[k].pid = children[m].pid => k = m

Ownership == /\ EffShape /\ KernelInv /\ JobMatches /\ JobOwned /\ PipesOwned
             /\ ChildOwned /\ CleanupInv

IInv == TypeOK /\ ControlInv /\ PollInv /\ Ownership
=============================================================================
