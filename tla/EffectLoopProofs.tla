-------------------------- MODULE EffectLoopProofs --------------------------
(***************************************************************************)
(* Proofs about EffectLoop, for any tables, programs and processes.  The   *)
(* inductive invariant is IInv: types, where the loop is, and who owns     *)
(* which process and pipe.                                                 *)
(***************************************************************************)
EXTENDS EffectLoop, FiniteSetTheorems, TLAPS

-----------------------------------------------------------------------------
(* Constants and records *)

LEMMA SlotFinite == IsFiniteSet(Slot) /\ Cardinality(Slot) = MAX_EVALS
<1>1. MAX_EVALS \in Nat /\ MAX_EVALS > 0
  BY BoundAssumption
<1>2. QED  BY <1>1, FS_Interval DEF Slot

LEMMA RecordTypes ==
    /\ NoEff \in Eff
    /\ WinchEff \in Eff
    /\ UnusedJob \in JobRec
    /\ FifoJob \in JobRec
    /\ FreeChild \in Child
    /\ \A j \in Job : ReadFileEff(j) \in Eff
    /\ \A j \in Job, p \in Pid : ExecEff(j, p) \in Eff
    /\ \A d \in Int : SleepEff(d) \in Eff
    /\ \A p \in Pid : ChildJob(p) \in JobRec
<1>1. 0 \in 0 .. MAX_OUT /\ 0 \in Slot /\ 0 \in Code
  BY BoundAssumption DEF Slot
<1>2. NoBytes \in [Stream -> 0 .. MAX_OUT]
  BY <1>1 DEF NoBytes
<1>3. NoEff \in Eff
  BY <1>1, <1>2 DEF NoEff, Eff, EffKind
<1>4. UnusedJob \in JobRec
  BY <1>1, <1>2 DEF UnusedJob, JobRec
<1>5. WinchEff \in Eff /\ \A d \in Int : SleepEff(d) \in Eff
  BY <1>3 DEF WinchEff, SleepEff, Eff, EffKind
<1>6. /\ \A j \in Job : ReadFileEff(j) \in Eff
      /\ \A j \in Job, p \in Pid : ExecEff(j, p) \in Eff
  BY <1>3 DEF ReadFileEff, ExecEff, Eff, EffKind, Stream
<1>7. FifoJob \in JobRec /\ \A p \in Pid : ChildJob(p) \in JobRec
  BY <1>4 DEF FifoJob, ChildJob, JobRec, Stream
<1>8. FreeChild \in Child
  BY <1>1 DEF FreeChild, Child
<1>9. QED  BY <1>3, <1>4, <1>5, <1>6, <1>7, <1>8

LEMMA NoEffFields ==
    /\ NoEff.kind = "none" /\ NoEff.job = NoJob /\ NoEff.open = {}
    /\ ~HasJob(NoEff) /\ ~Unreaped(NoEff)
  BY DEF NoEff, HasJob, Unreaped

LEMMA EvalTypes ==
    ASSUME NEW g \in 0 .. GENS - 1
    PROVE  Idle(g) \in Eval /\ \A t \in Task : Fresh(g, t) \in Eval
<1>1. GENS \in Nat /\ GENS > 1
  BY BoundAssumption
<1>2. (g + 1) % GENS \in 0 .. GENS - 1
  BY <1>1
<1>3. <<>> \in Seq(Frame)
  OBVIOUS
<1>4. QED  BY <1>2, <1>3, RecordTypes DEF Idle, Fresh, Eval, EvalRec

\* The rank of an inactive slot is a position in the list of commands.
LEMMA RankType ==
    ASSUME NEW evs, NEW i \in Inactive(evs)
    PROVE  Rank(evs, i) \in Nat \ {0}
<1> DEFINE S == {j \in Inactive(evs) : j <= i}
<1>1. Inactive(evs) \subseteq Slot
  BY DEF Inactive
<1>2. IsFiniteSet(S)
  BY <1>1, SlotFinite, FS_Subset
<1>3. i \in Int
  BY <1>1 DEF Slot
<1>4. i \in S
  BY <1>3
<1>5. Cardinality(S) \in Nat /\ Cardinality(S) # 0
  BY <1>2, <1>4, FS_CardinalityType, FS_EmptySet
<1>6. QED  BY <1>5 DEF Rank

LEMMA SpawnType ==
    ASSUME NEW evs \in [Slot -> Eval], NEW cmd \in Seq(Task)
    PROVE  /\ spawnFromCmd(evs, cmd) \in [Slot -> Eval]
           /\ \A i \in Slot :
                 \/ spawnFromCmd(evs, cmd)[i] = evs[i]
                 \/ /\ ~evs[i].active
                    /\ spawnFromCmd(evs, cmd)[i].active
                    /\ spawnFromCmd(evs, cmd)[i].eff = NoEff
<1> DEFINE new == spawnFromCmd(evs, cmd)
<1>1. SUFFICES ASSUME NEW i \in Slot
               PROVE  /\ new[i] \in Eval
                      /\ \/ new[i] = evs[i]
                         \/ ~evs[i].active /\ new[i].active /\ new[i].eff = NoEff
  BY DEF spawnFromCmd
<1>2. CASE i \in Inactive(evs) /\ Rank(evs, i) <= Len(cmd)
  <2>1. Rank(evs, i) \in DOMAIN cmd
    BY <1>2, RankType
  <2>2. cmd[Rank(evs, i)] \in Task
    BY <2>1
  <2>3. evs[i].gen \in 0 .. GENS - 1
    BY DEF Eval, EvalRec
  <2>4. Fresh(evs[i].gen, cmd[Rank(evs, i)]) \in Eval
    BY <2>2, <2>3, EvalTypes
  <2>5. new[i] = Fresh(evs[i].gen, cmd[Rank(evs, i)])
    BY <1>2 DEF spawnFromCmd
  <2>6. QED  BY <1>2, <2>4, <2>5 DEF Inactive, Fresh
<1>3. CASE ~(i \in Inactive(evs) /\ Rank(evs, i) <= Len(cmd))
  BY <1>3 DEF spawnFromCmd
<1>4. QED  BY <1>2, <1>3

-----------------------------------------------------------------------------
(* Completing a task: at most the effect of its own slot is cleared *)

Cleared(i, next) ==
    \/ outcome' = "panic" /\ pc' = "exit" /\ UNCHANGED evals
    \/ /\ outcome' = outcome
       /\ pc' = next
       /\ \A k \in Slot :
             /\ evals'[k].eff = IF k = i THEN NoEff ELSE evals[k].eff
             /\ ~evals'[k].active => evals'[k].eff = NoEff

TableOK == evals' \in [Slot -> Eval] /\ model' \in Model /\ nactive' \in Int

LEMMA DeactivateType ==
    ASSUME TypeOK, EffShape, NEW i \in Slot
    PROVE  /\ deactivate(i) \in [Slot -> Eval]
           /\ \A k \in Slot :
                 /\ deactivate(i)[k].eff = IF k = i THEN NoEff ELSE evals[k].eff
                 /\ ~deactivate(i)[k].active => deactivate(i)[k].eff = NoEff
<1>1. evals[i].gen \in 0 .. GENS - 1
  BY DEF TypeOK, Eval, EvalRec
<1>2. Idle(evals[i].gen) \in Eval
  BY <1>1, EvalTypes
<1>3. deactivate(i) = [evals EXCEPT ![i] = Idle(evals[i].gen)]
  BY DEF deactivate
<1>4. QED  BY <1>2, <1>3 DEF TypeOK, EffShape, Idle

LEMMA DropClears ==
    ASSUME TypeOK, EffShape, NEW i \in Slot, NEW next, Drop(i, next)
    PROVE  TableOK /\ Cleared(i, next)
  BY DeactivateType DEF Drop, TableOK, Cleared, TypeOK

LEMMA DeliverClears ==
    ASSUME TypeOK, EffShape, NEW i \in Slot, NEW v \in Val, NEW next, deliver(i, v, next)
    PROVE  TableOK /\ Cleared(i, next)
<1> DEFINE pair == Update(v, model)
           freed == deactivate(i)
<1>1. pair \in [model : Model, cmd : Seq(Task)]
  BY ProgramAssumption DEF TypeOK
<1>2. pair.model \in Model /\ pair.cmd \in Seq(Task) /\ Len(pair.cmd) \in Nat
  BY <1>1
<1>3. CASE Len(pair.cmd) <= Cardinality(Inactive(freed))
  <2>1. /\ evals' = spawnFromCmd(freed, pair.cmd)
        /\ nactive' = nactive - 1 + Len(pair.cmd)
        /\ model' = pair.model /\ pc' = next /\ outcome' = outcome
    BY <1>3 DEF deliver
  <2>2. freed \in [Slot -> Eval]
    BY DeactivateType
  <2>3. /\ evals' \in [Slot -> Eval]
        /\ \A k \in Slot :
              \/ evals'[k] = freed[k]
              \/ ~freed[k].active /\ evals'[k].active /\ evals'[k].eff = NoEff
    BY <1>2, <2>1, <2>2, SpawnType
  <2>4. \A k \in Slot :
           /\ evals'[k].eff = IF k = i THEN NoEff ELSE evals[k].eff
           /\ ~evals'[k].active => evals'[k].eff = NoEff
    BY <2>3, DeactivateType
  <2>5. QED  BY <1>2, <2>1, <2>3, <2>4 DEF TableOK, Cleared, TypeOK
<1>4. CASE ~(Len(pair.cmd) <= Cardinality(Inactive(freed)))
  BY <1>4 DEF deliver, Panic, table, TableOK, Cleared, TypeOK
<1>5. QED  BY <1>3, <1>4

LEMMA ResumeClears ==
    ASSUME TypeOK, EffShape, NEW i \in Slot, NEW v \in Val, NEW next,
           NEW k \in DOMAIN evals[i].frames, Resume(i, k, v, next)
    PROVE  TableOK /\ Cleared(i, next)
<1>1. evals[i].frames \in Seq(Frame)
  BY DEF TypeOK, Eval, EvalRec
<1>2. evals[i].frames[k] \in Frame
  BY <1>1
<1>3. Apply(evals[i].frames[k].cont, v) \in Task
  BY <1>2, ProgramAssumption DEF Frame
<1>4. k \in 1 .. Len(evals[i].frames)
  BY <1>1
<1>5. SubSeq(evals[i].frames, 1, k - 1) \in Seq(Frame)
  BY <1>1, <1>4
<1>6. evals' = [evals EXCEPT ![i] = [evals[i] EXCEPT
                     !.task = Apply(evals[i].frames[k].cont, v),
                     !.frames = SubSeq(evals[i].frames, 1, k - 1),
                     !.eff = NoEff]]
  BY DEF Resume, TypeOK
<1>7. evals'[i] \in Eval
  BY <1>3, <1>5, <1>6, RecordTypes DEF TypeOK, Eval, EvalRec
<1>8. QED  BY <1>6, <1>7 DEF Resume, TableOK, Cleared, TypeOK, EffShape, Eval, EvalRec

LEMMA SuccessClears ==
    ASSUME TypeOK, EffShape, NEW i \in Slot, NEW v \in Val, NEW next,
           completeSuccess(i, v, next)
    PROVE  TableOK /\ Cleared(i, next)
  BY ResumeClears, DeliverClears DEF completeSuccess, TopFrame

LEMMA ErrorClears ==
    ASSUME TypeOK, EffShape, NEW i \in Slot, NEW e \in Val, NEW next,
           completeError(i, e, next)
    PROVE  TableOK /\ Cleared(i, next)
  BY ResumeClears, DropClears DEF completeError, TopFrame

\* Starting an effect.
LEMMA SuspendType ==
    ASSUME TypeOK, NEW i \in Slot, NEW eff \in Eff, NEW next, suspend(i, eff, next)
    PROVE  /\ TableOK /\ outcome' = outcome /\ pc' = next
           /\ \A k \in Slot :
                 /\ evals'[k].eff = IF k = i THEN eff ELSE evals[k].eff
                 /\ evals'[k].active = evals[k].active
<1>1. evals' = [evals EXCEPT ![i] = [evals[i] EXCEPT !.eff = eff]]
  BY DEF suspend, TypeOK
<1>2. [evals[i] EXCEPT !.eff = eff] \in Eval
  BY DEF TypeOK, Eval, EvalRec
<1>3. QED  BY <1>1, <1>2 DEF suspend, TableOK, TypeOK, Eval, EvalRec

-----------------------------------------------------------------------------
(* Who owns which process and pipe: what each kind of step does to it *)

\* A step that leaves effects, children and processes alone.
LEMMA QuietStep ==
    ASSUME TypeOK, Ownership,
           \A k \in Slot : evals'[k].eff = evals[k].eff,
           \A k \in Slot : ~evals'[k].active => evals'[k].eff = NoEff,
           UNCHANGED <<children, jobs>>,
           AfterCleanup' <=> AfterCleanup,
           AfterCleanup => outcome' = outcome
    PROVE  Ownership'
<1> USE DEF Ownership, HasJob, Unreaped, Live, PendingChildren
<1>1. EffShape'
  BY DEF EffShape
<1>2. KernelInv'
  BY DEF KernelInv
<1>3. JobMatches'
  BY DEF JobMatches
<1>4. JobOwned'
  BY DEF JobOwned
<1>5. PipesOwned'
  BY DEF PipesOwned
<1>6. children \in [0 .. MAX_CHILDREN - 1 -> Child]
  BY DEF TypeOK
<1>7. ChildOwned'
  BY <1>6 DEF ChildOwned, Child
<1>8. CleanupInv'
  BY DEF CleanupInv
<1>9. QED  BY <1>1, <1>2, <1>3, <1>4, <1>5, <1>7, <1>8

\* A panic: only the shape of the state matters from then on.
LEMMA PanicStep ==
    ASSUME TypeOK, Ownership,
           \A k \in Slot : evals'[k].eff = evals[k].eff,
           \A k \in Slot : ~evals'[k].active => evals'[k].eff = NoEff,
           outcome' = "panic", pc' = "exit", KernelInv'
    PROVE  Ownership'
<1> USE DEF Ownership, HasJob, Unreaped, Live, AfterCleanup
<1>1. EffShape'
  BY DEF EffShape
<1>2. JobMatches' /\ JobOwned' /\ PipesOwned' /\ ChildOwned' /\ CleanupInv'
  BY DEF JobMatches, JobOwned, PipesOwned, ChildOwned, CleanupInv
<1>3. QED  BY <1>1, <1>2

\* A sleep or a resize wait ends, or a running task is done: no job is let go.
LEMMA ClearedStep ==
    ASSUME TypeOK, Ownership, ~AfterCleanup,
           NEW i \in Slot, ~HasJob(evals[i].eff),
           NEW next, next \notin {"cleanup_wait", "exit"}, Cleared(i, next),
           UNCHANGED <<children, jobs>>
    PROVE  Ownership'
<1> USE DEF Ownership, HasJob, Unreaped, Live, AfterCleanup, PendingChildren
<1>1. KernelInv'
  BY DEF KernelInv
<1>2. CASE outcome' = "panic" /\ pc' = "exit" /\ UNCHANGED evals
  <2>1. \A k \in Slot : ~evals'[k].active => evals'[k].eff = NoEff
    BY <1>2 DEF EffShape
  <2>2. QED  BY <1>1, <1>2, <2>1, PanicStep
<1>3. CASE /\ pc' = next
           /\ \A k \in Slot :
                 /\ evals'[k].eff = IF k = i THEN NoEff ELSE evals[k].eff
                 /\ ~evals'[k].active => evals'[k].eff = NoEff
  <2> USE <1>3, NoEffFields
  <2>1. EffShape'
    BY DEF EffShape
  <2>2. JobMatches'
    BY DEF JobMatches
  <2>3. JobOwned'
    <3>1. \A j \in Job : evals[i].eff.job # j
      BY NullAssumption DEF EffShape
    <3>2. QED  BY <3>1 DEF JobOwned
  <2>4. PipesOwned'
    BY NullAssumption DEF PipesOwned, EffShape
  <2>5. \A k \in 0 .. MAX_CHILDREN - 1 : children[k].eval \in Slot
    BY DEF TypeOK, Child
  <2>6. ChildOwned'
    BY <2>5 DEF ChildOwned
  <2>7. CleanupInv'
    BY DEF CleanupInv
  <2>8. QED  BY <1>1, <2>1, <2>2, <2>3, <2>4, <2>6, <2>7
<1>4. QED  BY <1>2, <1>3 DEF Cleared

\* An effect with a pipe completes: its job is closed and gone.
LEMMA ReleaseStep ==
    ASSUME TypeOK, Ownership, ~AfterCleanup,
           NEW i \in Slot, HasJob(evals[i].eff), ~Unreaped(evals[i].eff),
           NEW next, next \notin {"cleanup_wait", "exit"}, Cleared(i, next),
           jobs' = [jobs EXCEPT ![evals[i].eff.job] = UnusedJob],
           UNCHANGED children
    PROVE  Ownership'
<1> DEFINE job == evals[i].eff.job
<1> USE DEF Ownership, HasJob, Unreaped, Live, AfterCleanup, PendingChildren
<1>1. job \in Job
  BY DEF EffShape
<1>2. /\ jobs'[job] = UnusedJob
      /\ \A j \in Job : j # job => jobs'[j] = jobs[j]
  BY <1>1 DEF TypeOK
<1>3. /\ UnusedJob.state = "unused" /\ UnusedJob.pid = NoPid /\ UnusedJob.ropen = {}
      /\ \A s \in Stream : UnusedJob.unread[s] <= UnusedJob.written[s]
  BY DEF UnusedJob, NoBytes
<1>4. KernelInv'
  BY <1>2, <1>3, NullAssumption DEF KernelInv
<1>5. CASE outcome' = "panic" /\ pc' = "exit" /\ UNCHANGED evals
  <2>1. \A k \in Slot : ~evals'[k].active => evals'[k].eff = NoEff
    BY <1>5 DEF EffShape
  <2>2. QED  BY <1>4, <1>5, <2>1, PanicStep
<1>6. CASE /\ pc' = next
           /\ \A k \in Slot :
                 /\ evals'[k].eff = IF k = i THEN NoEff ELSE evals[k].eff
                 /\ ~evals'[k].active => evals'[k].eff = NoEff
  <2> USE <1>6, NoEffFields
  <2>1. EffShape'
    BY DEF EffShape
  <2>2. \A k \in Slot : k # i => evals[k].eff.job # job
    BY DEF PipesOwned
  <2>3. JobMatches'
    BY <1>2, <2>2 DEF JobMatches, EffShape
  <2>4. JobOwned'
    BY <1>2, <1>3, <2>2 DEF JobOwned
  <2>5. PipesOwned'
    BY <1>2, <2>2, NullAssumption DEF PipesOwned, EffShape
  <2>6. \A k \in 0 .. MAX_CHILDREN - 1 : children[k].eval \in Slot
    BY DEF TypeOK, Child
  <2>7. ChildOwned'
    BY <2>6 DEF ChildOwned
  <2>8. CleanupInv'
    BY DEF CleanupInv
  <2>9. QED  BY <1>4, <2>1, <2>3, <2>4, <2>5, <2>7, <2>8
<1>7. QED  BY <1>5, <1>6 DEF Cleared

\* A running task suspends on a file: the FIFO is its own.
LEMMA ReadFileStep ==
    ASSUME TypeOK, Ownership, ~AfterCleanup, ~AfterCleanup',
           NEW i \in Slot, evals[i].active, ~HasJob(evals[i].eff),
           NEW j \in Job, jobs[j].state = "unused",
           jobs' = [jobs EXCEPT ![j] = FifoJob],
           \A k \in Slot : /\ evals'[k].eff = IF k = i THEN ReadFileEff(j) ELSE evals[k].eff
                           /\ evals'[k].active = evals[k].active,
           UNCHANGED children
    PROVE  Ownership'
<1> USE DEF Ownership, HasJob, Unreaped, Live, PendingChildren
<1>1. /\ jobs'[j] = FifoJob
      /\ \A k \in Job : k # j => jobs'[k] = jobs[k]
  BY DEF TypeOK
<1>2. /\ FifoJob.state = "file" /\ FifoJob.pid = NoPid
      /\ FifoJob.ropen = {"out"} /\ FifoJob.wopen = {"out"}
      /\ \A s \in Stream : FifoJob.unread[s] = 0 /\ FifoJob.written[s] = 0
  BY DEF FifoJob, UnusedJob, NoBytes
<1>3. /\ ReadFileEff(j).kind = "readfile" /\ ReadFileEff(j).job = j
      /\ ReadFileEff(j).open = {"out"}
      /\ \A s \in Stream : ReadFileEff(j).buf[s] = 0
  BY DEF ReadFileEff, NoEff, NoBytes
<1>4. \A k \in Slot : evals[k].eff.job # j
  BY NullAssumption DEF JobMatches, EffShape
<1>5. EffShape'
  BY <1>3 DEF EffShape
<1>6. KernelInv'
  BY <1>1, <1>2, NullAssumption DEF KernelInv
<1>7. JobMatches'
  BY <1>1, <1>2, <1>3, <1>4 DEF JobMatches, EffShape
<1>8. evals[i].eff.job = NoJob
  BY DEF EffShape
<1>9. JobOwned'
  <2>1. SUFFICES ASSUME NEW m \in Job, jobs'[m].state # "unused"
                 PROVE  \E k \in Slot : evals'[k].eff.job = m
    BY <1>1, <1>2 DEF JobOwned
  <2>2. CASE m = j
    BY <1>3, <2>2
  <2>3. CASE m # j
    <3>1. PICK k \in Slot : evals[k].eff.job = m
      BY <1>1, <2>1, <2>3 DEF JobOwned
    <3>2. k # i
      BY <1>8, <3>1, NullAssumption
    <3>3. QED  BY <3>1, <3>2
  <2>4. QED  BY <2>2, <2>3
<1>10. PipesOwned'
  <2>1. SUFFICES ASSUME NEW k \in Slot, HasJob(evals'[k].eff)
                 PROVE  LET eff == evals'[k].eff
                            job == jobs'[eff.job]
                        IN  /\ job.ropen = eff.open
                            /\ \A m \in Slot : m # k => evals'[m].eff.job # eff.job
                            /\ \A s \in Stream :
                                  /\ job.written[s] = eff.buf[s] + job.unread[s]
                                  /\ s \in Stream \ eff.open => s \notin job.wopen /\ job.unread[s] = 0
    BY DEF PipesOwned
  <2>2. CASE k = i
    <3>1. /\ evals'[k].eff.job = j /\ evals'[k].eff.open = {"out"}
          /\ \A s \in Stream : evals'[k].eff.buf[s] = 0
      BY <1>3, <2>2
    <3>2. \A m \in Slot : m # k => evals'[m].eff.job # j
      BY <1>4, <2>2
    <3>3. \A s \in Stream : /\ FifoJob.written[s] = evals'[k].eff.buf[s] + FifoJob.unread[s]
                            /\ s \in Stream \ {"out"} => s \notin FifoJob.wopen
      BY <1>2, <3>1
    <3>4. QED  BY <1>1, <1>2, <3>1, <3>2, <3>3
  <2>3. CASE k # i
    <3>1. evals'[k].eff = evals[k].eff /\ jobs'[evals[k].eff.job] = jobs[evals[k].eff.job]
      BY <1>1, <1>4, <2>1, <2>3 DEF EffShape
    <3>2. \A m \in Slot : m # k => evals'[m].eff.job # evals[k].eff.job
      BY <1>3, <1>4, <2>1, <2>3, <3>1 DEF PipesOwned
    <3>3. QED  BY <2>1, <3>1, <3>2 DEF PipesOwned
  <2>4. QED  BY <2>2, <2>3
<1>11. \A k \in 0 .. MAX_CHILDREN - 1 : children[k].eval \in Slot
  BY DEF TypeOK, Child
<1>12. ChildOwned'
  BY <1>3, <1>11 DEF ChildOwned
<1>13. CleanupInv'
  BY DEF CleanupInv
<1>14. QED  BY <1>5, <1>6, <1>7, <1>9, <1>10, <1>12, <1>13

\* A running task suspends on a child: job, pid and table entry are its own.
LEMMA ExecStep ==
    ASSUME TypeOK, Ownership, ~AfterCleanup, ~AfterCleanup',
           NEW i \in Slot, evals[i].active, ~HasJob(evals[i].eff),
           NEW j \in Job, jobs[j].state = "unused",
           NEW p \in Pid, p \notin LivePids,
           jobs' = [jobs EXCEPT ![j] = ChildJob(p)],
           \A k \in Slot : /\ evals'[k].eff = IF k = i THEN ExecEff(j, p) ELSE evals[k].eff
                           /\ evals'[k].active = evals[k].active,
           NEW n \in (0 .. MAX_CHILDREN - 1) \ PendingChildren,
           children' = [children EXCEPT ![n] = [pid |-> p, eval |-> i]]
    PROVE  Ownership'
<1> USE DEF Ownership, HasJob, Unreaped, Live
<1>1. /\ jobs'[j] = ChildJob(p)
      /\ \A k \in Job : k # j => jobs'[k] = jobs[k]
  BY DEF TypeOK
<1>2. /\ ChildJob(p).state = "running" /\ ChildJob(p).pid = p
      /\ ChildJob(p).ropen = Stream /\ ChildJob(p).wopen = Stream
      /\ \A s \in Stream : ChildJob(p).unread[s] = 0 /\ ChildJob(p).written[s] = 0
  BY DEF ChildJob, UnusedJob, NoBytes
<1>3. /\ ExecEff(j, p).kind = "exec" /\ ExecEff(j, p).job = j
      /\ ExecEff(j, p).open = Stream /\ ExecEff(j, p).pid = p /\ ~ExecEff(j, p).exited
      /\ \A s \in Stream : ExecEff(j, p).buf[s] = 0
  BY DEF ExecEff, NoEff, NoBytes
<1>4. \A k \in Slot : evals[k].eff.job # j
  BY NullAssumption DEF JobMatches, EffShape
<1>5. EffShape'
  BY <1>3 DEF EffShape
<1>6. \A k \in Job : Live(k) => jobs[k].pid # p
  BY DEF LivePids
<1>7. KernelInv'
  BY <1>1, <1>2, <1>6, NullAssumption DEF KernelInv
<1>8. JobMatches'
  <2>1. \A k \in Slot : k # i /\ HasJob(evals[k].eff) =>
           jobs'[evals[k].eff.job] = jobs[evals[k].eff.job]
    BY <1>1, <1>4 DEF EffShape
  <2>2. SUFFICES ASSUME NEW k \in Slot
                 PROVE  LET eff == evals'[k].eff
                            job == jobs'[eff.job]
                        IN  /\ eff.kind = "readfile" => job.state = "file" /\ job.wopen \subseteq {"out"}
                            /\ Unreaped(eff) => job.state \in {"running", "zombie"} /\ job.pid = eff.pid
                            /\ eff.kind = "exec" /\ eff.exited => job.state = "reaped" /\ job.code = eff.code
    BY DEF JobMatches
  <2>3. CASE k = i
    BY <1>1, <1>2, <1>3, <2>3
  <2>4. CASE k # i
    BY <2>1, <2>4 DEF JobMatches
  <2>5. QED  BY <2>3, <2>4
<1>9. evals[i].eff.job = NoJob
  BY DEF EffShape
<1>10. JobOwned'
  <2>1. SUFFICES ASSUME NEW m \in Job, jobs'[m].state # "unused"
                 PROVE  \E k \in Slot : evals'[k].eff.job = m
    BY <1>1, <1>2 DEF JobOwned
  <2>2. CASE m = j
    BY <1>3, <2>2
  <2>3. CASE m # j
    <3>1. PICK k \in Slot : evals[k].eff.job = m
      BY <1>1, <2>1, <2>3 DEF JobOwned
    <3>2. k # i
      BY <1>9, <3>1, NullAssumption
    <3>3. QED  BY <3>1, <3>2
  <2>4. QED  BY <2>2, <2>3
<1>11. PipesOwned'
  <2>1. SUFFICES ASSUME NEW k \in Slot, HasJob(evals'[k].eff)
                 PROVE  LET eff == evals'[k].eff
                            job == jobs'[eff.job]
                        IN  /\ job.ropen = eff.open
                            /\ \A m \in Slot : m # k => evals'[m].eff.job # eff.job
                            /\ \A s \in Stream :
                                  /\ job.written[s] = eff.buf[s] + job.unread[s]
                                  /\ s \in Stream \ eff.open => s \notin job.wopen /\ job.unread[s] = 0
    BY DEF PipesOwned
  <2>2. CASE k = i
    <3>1. /\ evals'[k].eff.job = j /\ evals'[k].eff.open = Stream
          /\ \A s \in Stream : evals'[k].eff.buf[s] = 0
      BY <1>3, <2>2
    <3>2. \A m \in Slot : m # k => evals'[m].eff.job # j
      BY <1>4, <2>2
    <3>3. \A s \in Stream : ChildJob(p).written[s] = evals'[k].eff.buf[s] + ChildJob(p).unread[s]
      BY <1>2, <3>1
    <3>4. QED  BY <1>1, <1>2, <3>1, <3>2, <3>3
  <2>3. CASE k # i
    <3>1. evals'[k].eff = evals[k].eff /\ jobs'[evals[k].eff.job] = jobs[evals[k].eff.job]
      BY <1>1, <1>4, <2>1, <2>3 DEF EffShape
    <3>2. \A m \in Slot : m # k => evals'[m].eff.job # evals[k].eff.job
      BY <1>3, <1>4, <2>1, <2>3, <3>1 DEF PipesOwned
    <3>3. QED  BY <2>1, <3>1, <3>2 DEF PipesOwned
  <2>4. QED  BY <2>2, <2>3
<1>12. ChildOwned'
  <2>1. children \in [0 .. MAX_CHILDREN - 1 -> Child] /\ NoPid # p
    BY NullAssumption DEF TypeOK
  <2>2. /\ children'[n].pid = p /\ children'[n].eval = i
        /\ \A k \in 0 .. MAX_CHILDREN - 1 : k # n => children'[k] = children[k]
    BY <2>1
  <2>3. PendingChildren' = PendingChildren \cup {n}
    BY <2>1, <2>2 DEF PendingChildren
  <2>4. \A k \in PendingChildren : /\ children'[k] = children[k] /\ children[k].eval \in Slot
                                   /\ children[k].eval # i
    BY <2>1, <2>2 DEF PendingChildren, Child, ChildOwned
  <2>5. \A k \in PendingChildren' : Unreaped(evals'[children'[k].eval].eff)
                                    /\ evals'[children'[k].eval].eff.pid = children'[k].pid
    BY <1>3, <2>2, <2>3, <2>4 DEF ChildOwned
  <2>6. \A k \in Slot : Unreaped(evals'[k].eff) => \E m \in PendingChildren' : children'[m].eval = k
    BY <1>3, <2>2, <2>3, <2>4 DEF ChildOwned
  <2>7. \A k, m \in PendingChildren' : children'[k].eval = children'[m].eval => k = m
    BY <2>2, <2>3, <2>4 DEF ChildOwned
  <2>8. QED  BY <2>5, <2>6, <2>7 DEF ChildOwned
<1>13. CleanupInv'
  BY DEF CleanupInv
<1>14. QED  BY <1>5, <1>7, <1>8, <1>10, <1>11, <1>12, <1>13

\* A drain moves what is unread into the accumulator, and at EOF closes the pipe.
DrainedEff(old, new, s, bytes, gone) ==
    /\ new.kind = old.kind /\ new.job = old.job /\ new.pid = old.pid
    /\ new.exited = old.exited /\ new.code = old.code
    /\ new.open = old.open \ gone
    /\ \A u \in Stream : new.buf[u] = IF u = s THEN old.buf[u] + bytes ELSE old.buf[u]

DrainedJob(old, new, s, gone) ==
    /\ new.state = old.state /\ new.pid = old.pid /\ new.code = old.code
    /\ new.wopen = old.wopen /\ new.written = old.written
    /\ new.ropen = old.ropen \ gone
    /\ \A u \in Stream : new.unread[u] = IF u = s THEN 0 ELSE old.unread[u]

Drained(i, job, s, gone) ==
    /\ \A k \in Slot : k # i => evals'[k].active = evals[k].active /\ evals'[k].eff = evals[k].eff
    /\ \A k \in Job : k # job => jobs'[k] = jobs[k]
    /\ evals'[i].active = evals[i].active
    /\ DrainedEff(evals[i].eff, evals'[i].eff, s, jobs[job].unread[s], gone)
    /\ DrainedJob(jobs[job], jobs'[job], s, gone)
    /\ children' = children

LEMMA DrainStep ==
    ASSUME TypeOK, Ownership, ~AfterCleanup, ~AfterCleanup',
           NEW i \in Slot, HasJob(evals[i].eff),
           NEW s \in Stream, NEW gone \in SUBSET {s},
           gone # {} => evals[i].eff.kind = "exec",
           NEW job, job = evals[i].eff.job, jobs[job].wopen \cap gone = {},
           Drained(i, job, s, gone)
    PROVE  Ownership'
<1> USE DEF HasJob, Unreaped
<1>1. job \in Job /\ evals[i].active /\ EffShape /\ PipesOwned
  BY NoEffFields DEF Ownership, EffShape
<1>2. jobs[job] \in JobRec /\ evals[i].eff \in Eff
  BY <1>1 DEF TypeOK, Eval, EvalRec
<1>3. /\ jobs'[job].state = jobs[job].state /\ jobs'[job].pid = jobs[job].pid
      /\ jobs'[job].code = jobs[job].code /\ jobs'[job].wopen = jobs[job].wopen
      /\ \A k \in Job : k # job => jobs'[k] = jobs[k]
  BY DEF Drained, DrainedJob
<1>4. /\ evals'[i].eff.kind = evals[i].eff.kind /\ evals'[i].eff.job = job
      /\ evals'[i].eff.pid = evals[i].eff.pid /\ evals'[i].eff.exited = evals[i].eff.exited
      /\ evals'[i].eff.code = evals[i].eff.code /\ evals'[i].active
      /\ \A k \in Slot : k # i => /\ evals'[k].eff = evals[k].eff
                                  /\ evals'[k].active = evals[k].active
  BY <1>1 DEF Drained, DrainedEff
<1>5. evals[i].eff.kind = "readfile" => evals'[i].eff.open = {"out"}
  <2>1. SUFFICES ASSUME evals[i].eff.kind = "readfile"
                 PROVE  evals'[i].eff.open = {"out"}
    OBVIOUS
  <2>2. gone = {} /\ evals[i].eff.open = {"out"}
    BY <1>1, <2>1 DEF EffShape
  <2>3. QED  BY <2>2 DEF Drained, DrainedEff
<1>6. EffShape'
  BY <1>1, <1>4, <1>5 DEF EffShape
<1>7. KernelInv'
  <2>1. \A u \in Stream : jobs[job].unread[u] <= jobs[job].written[u]
    BY <1>1 DEF Ownership, KernelInv
  <2>2. \A u \in Stream : jobs'[job].unread[u] <= jobs'[job].written[u]
    <3>1. \A u \in Stream : /\ jobs'[job].unread[u] = IF u = s THEN 0 ELSE jobs[job].unread[u]
                            /\ jobs'[job].written[u] = jobs[job].written[u]
      BY DEF Drained, DrainedJob
    <3>2. \A u \in Stream : jobs[job].written[u] \in Int /\ jobs[job].written[u] >= 0
      BY <1>2 DEF JobRec
    <3>3. QED  BY <2>1, <3>1, <3>2
  <2>3. QED  BY <1>1, <1>3, <2>2 DEF Ownership, KernelInv, Live
<1>8. JobMatches'
  <2>1. \A k \in Slot : k # i /\ HasJob(evals[k].eff) =>
           jobs'[evals[k].eff.job] = jobs[evals[k].eff.job]
    BY <1>1, <1>3 DEF PipesOwned, EffShape
  <2>2. JobMatches
    BY DEF Ownership
  <2>3. SUFFICES ASSUME NEW k \in Slot
                 PROVE  LET eff == evals'[k].eff
                            j == jobs'[eff.job]
                        IN  /\ eff.kind = "readfile" => j.state = "file" /\ j.wopen \subseteq {"out"}
                            /\ Unreaped(eff) => j.state \in {"running", "zombie"} /\ j.pid = eff.pid
                            /\ eff.kind = "exec" /\ eff.exited => j.state = "reaped" /\ j.code = eff.code
    BY DEF JobMatches
  <2>4. CASE k = i
    <3>1. LET eff == evals[i].eff
              j == jobs[job]
          IN  /\ eff.kind = "readfile" => j.state = "file" /\ j.wopen \subseteq {"out"}
              /\ Unreaped(eff) => j.state \in {"running", "zombie"} /\ j.pid = eff.pid
              /\ eff.kind = "exec" /\ eff.exited => j.state = "reaped" /\ j.code = eff.code
      BY <2>2 DEF JobMatches
    <3>2. QED  BY <1>3, <1>4, <2>4, <3>1
  <2>5. CASE k # i
    BY <1>4, <2>1, <2>2, <2>5 DEF JobMatches
  <2>6. QED  BY <2>4, <2>5
<1>9. JobOwned'
  BY <1>1, <1>3, <1>4 DEF Ownership, JobOwned, JobMatches
<1>10. PipesOwned'
  <2>1. SUFFICES ASSUME NEW k \in Slot, HasJob(evals'[k].eff)
                 PROVE  LET eff == evals'[k].eff
                            j == jobs'[eff.job]
                        IN  /\ j.ropen = eff.open
                            /\ \A m \in Slot : m # k => evals'[m].eff.job # eff.job
                            /\ \A u \in Stream :
                                  /\ j.written[u] = eff.buf[u] + j.unread[u]
                                  /\ u \in Stream \ eff.open => u \notin j.wopen /\ j.unread[u] = 0
    BY DEF PipesOwned
  <2>2. \A m \in Slot : m # k => evals'[m].eff.job # evals'[k].eff.job
    BY <1>1, <1>4, <2>1 DEF PipesOwned
  <2>3. CASE k = i
    <3>1. jobs[job].ropen = evals[i].eff.open
      BY <1>1 DEF PipesOwned
    <3>2. jobs'[job].ropen = evals'[i].eff.open
      BY <3>1 DEF Drained, DrainedEff, DrainedJob
    <3>3. \A u \in Stream : jobs[job].written[u] = evals[i].eff.buf[u] + jobs[job].unread[u]
      BY <1>1 DEF PipesOwned
    <3>4. \A u \in Stream : jobs'[job].written[u] = evals'[i].eff.buf[u] + jobs'[job].unread[u]
      <4>1. \A u \in Stream : jobs[job].unread[u] \in Int /\ evals[i].eff.buf[u] \in Int
        BY <1>2 DEF JobRec, Eff
      <4>2. \A u \in Stream :
               evals'[i].eff.buf[u] = IF u = s THEN evals[i].eff.buf[u] + jobs[job].unread[s]
                                               ELSE evals[i].eff.buf[u]
        BY DEF Drained, DrainedEff
      <4>3. \A u \in Stream : /\ jobs'[job].unread[u] = IF u = s THEN 0 ELSE jobs[job].unread[u]
                              /\ jobs'[job].written[u] = jobs[job].written[u]
        BY DEF Drained, DrainedJob
      <4>4. QED  BY <3>3, <4>1, <4>2, <4>3
    <3>5. \A u \in Stream \ evals[i].eff.open : u \notin jobs[job].wopen /\ jobs[job].unread[u] = 0
      BY <1>1 DEF PipesOwned
    <3>6. \A u \in Stream \ evals'[i].eff.open : u \notin jobs'[job].wopen /\ jobs'[job].unread[u] = 0
      BY <3>5 DEF Drained, DrainedEff, DrainedJob
    <3>7. QED  BY <1>4, <2>2, <2>3, <3>2, <3>4, <3>6
  <2>4. CASE k # i
    <3>1. evals'[k].eff = evals[k].eff /\ jobs'[evals[k].eff.job] = jobs[evals[k].eff.job]
      BY <1>1, <1>3, <1>4, <2>1, <2>4 DEF EffShape, PipesOwned
    <3>2. QED  BY <1>1, <2>1, <2>2, <3>1 DEF PipesOwned
  <2>5. QED  BY <2>3, <2>4
<1>11. ChildOwned'
  <2>1. \A k \in 0 .. MAX_CHILDREN - 1 : children[k].eval \in Slot
    BY DEF TypeOK, Child
  <2>2. children' = children /\ PendingChildren' = PendingChildren
    BY DEF Drained, PendingChildren
  <2>3. QED  BY <1>4, <2>1, <2>2 DEF Ownership, ChildOwned, PendingChildren
<1>12. CleanupInv'
  BY DEF CleanupInv
<1>13. QED  BY <1>6, <1>7, <1>8, <1>9, <1>10, <1>11, <1>12 DEF Ownership

\* waitpid finds one zombie of a pid: StatusOf is its exit code.
LEMMA ZombieStatus ==
    ASSUME TypeOK, KernelInv, NEW p \in Pid, Exited(p)
    PROVE  \E j \in Job : /\ jobs[j].state = "zombie" /\ jobs[j].pid = p
                          /\ StatusOf(p) = jobs[j].code /\ StatusOf(p) \in Code
<1>1. \E j \in Job : jobs[j].state = "zombie" /\ jobs[j].pid = p
  BY DEF Exited
<1> DEFINE z == CHOOSE j \in Job : jobs[j].state = "zombie" /\ jobs[j].pid = p
<1>2. z \in Job /\ jobs[z].state = "zombie" /\ jobs[z].pid = p
  BY <1>1
<1>3. StatusOf(p) = jobs[z].code
  BY DEF StatusOf
<1>4. jobs[z].code \in Code
  BY <1>2 DEF TypeOK, JobRec
<1>5. QED  BY <1>2, <1>3, <1>4

\* The types of a reap, wherever it happens.
LEMMA ReapType ==
    ASSUME TypeOK, KernelInv, NEW dead \in SUBSET PendingChildren,
           \A k \in dead : Exited(children[k].pid), Reap(dead)
    PROVE  /\ evals' \in [Slot -> Eval]
           /\ children' \in [0 .. MAX_CHILDREN - 1 -> Child]
           /\ jobs' \in [Job -> JobRec]
           /\ \A i \in Slot :
                 /\ evals'[i].active = evals[i].active
                 /\ \/ evals'[i] = evals[i]
                    \/ /\ evals[i].eff.kind = "exec"
                       /\ \E k \in dead : children[k].eval = i
                 /\ evals'[i].eff.kind = evals[i].eff.kind
                 /\ evals'[i].eff.job = evals[i].eff.job
                 /\ evals'[i].eff.pid = evals[i].eff.pid
                 /\ evals'[i].eff.open = evals[i].eff.open
                 /\ evals'[i].eff.buf = evals[i].eff.buf
           /\ UNCHANGED <<nactive, model>>
<1>1. \A k \in dead : children[k].pid \in Pid
  BY DEF TypeOK, Child, PendingChildren
<1>2. \A k \in dead : StatusOf(children[k].pid) \in Code
  BY <1>1, ZombieStatus
<1>3. ASSUME NEW i \in Slot
      PROVE  /\ evals'[i] \in Eval
             /\ evals'[i].active = evals[i].active
             /\ \/ evals'[i] = evals[i]
                \/ /\ evals[i].eff.kind = "exec"
                   /\ \E k \in dead : children[k].eval = i
             /\ evals'[i].eff.kind = evals[i].eff.kind
             /\ evals'[i].eff.job = evals[i].eff.job
             /\ evals'[i].eff.pid = evals[i].eff.pid
             /\ evals'[i].eff.open = evals[i].eff.open
             /\ evals'[i].eff.buf = evals[i].eff.buf
  <2> DEFINE entries == {k \in dead : children[k].eval = i}
             c == StatusOf(children[CHOOSE k \in entries : TRUE].pid)
  <2>1. evals[i] \in Eval
    BY DEF TypeOK
  <2>2. CASE entries # {} /\ evals[i].active /\ evals[i].eff.kind = "exec"
    <3>1. c \in Code
      BY <1>2, <2>2
    <3>2. evals'[i] = [evals[i] EXCEPT !.eff.exited = TRUE, !.eff.code = c]
      BY <2>2 DEF Reap
    <3>3. [evals[i] EXCEPT !.eff.exited = TRUE, !.eff.code = c] \in Eval
      BY <2>1, <3>1 DEF Eval, EvalRec, Eff
    <3>4. /\ evals'[i].active = evals[i].active
          /\ evals'[i].eff.kind = evals[i].eff.kind
          /\ evals'[i].eff.job = evals[i].eff.job
          /\ evals'[i].eff.pid = evals[i].eff.pid
          /\ evals'[i].eff.open = evals[i].eff.open
          /\ evals'[i].eff.buf = evals[i].eff.buf
      <4>1. evals[i].eff \in Eff
        BY <2>1 DEF Eval, EvalRec
      <4>2. evals'[i] = [evals[i] EXCEPT !.eff = [evals[i].eff EXCEPT !.exited = TRUE, !.code = c]]
        BY <2>1, <3>2 DEF Eval, EvalRec
      <4>3. /\ evals'[i].active = evals[i].active
            /\ evals'[i].eff = [evals[i].eff EXCEPT !.exited = TRUE, !.code = c]
        BY <2>1, <4>2 DEF Eval, EvalRec
      <4>4. QED  BY <4>1, <4>3 DEF Eff
    <3>5. \E k \in dead : children[k].eval = i
      BY <2>2
    <3>6. QED  BY <2>2, <3>2, <3>3, <3>4, <3>5
  <2>3. CASE ~(entries # {} /\ evals[i].active /\ evals[i].eff.kind = "exec")
    <3>1. evals'[i] = evals[i]
      BY <2>3 DEF Reap
    <3>2. QED  BY <2>1, <3>1
  <2>4. QED  BY <2>2, <2>3
<1>4. evals' \in [Slot -> Eval]
  BY <1>3 DEF Reap
<1>5. children' \in [0 .. MAX_CHILDREN - 1 -> Child]
  BY RecordTypes DEF Reap, TypeOK
<1>6. jobs' \in [Job -> JobRec]
  <2>1. SUFFICES ASSUME NEW j \in Job
                 PROVE  IF jobs[j].state = "zombie" /\ jobs[j].pid \in {children[k].pid : k \in dead}
                        THEN [jobs[j] EXCEPT !.state = "reaped", !.pid = NoPid] \in JobRec
                        ELSE jobs[j] \in JobRec
    BY DEF Reap
  <2>2. QED  BY DEF TypeOK, JobRec
<1>7. QED  BY <1>3, <1>4, <1>5, <1>6 DEF Reap

\* A reap: each exec whose child is taken has its status, and nothing else moves.
LEMMA ReapStep ==
    ASSUME TypeOK, Ownership, ~AfterCleanup, ~AfterCleanup',
           NEW dead \in SUBSET PendingChildren,
           \A k \in dead : Exited(children[k].pid), Reap(dead)
    PROVE  Ownership'
<1> DEFINE reaped == {children[k].eval : k \in dead}
           jobOf(i) == evals[i].eff.job
<1> USE DEF HasJob, Unreaped
<1>1. EffShape /\ KernelInv /\ JobMatches /\ JobOwned /\ PipesOwned /\ ChildOwned
  BY DEF Ownership
<1>2. \A k \in PendingChildren :
         /\ k \in 0 .. MAX_CHILDREN - 1 /\ children[k].eval \in Slot /\ children[k].pid \in Pid
         /\ Unreaped(evals[children[k].eval].eff)
         /\ evals[children[k].eval].eff.pid = children[k].pid
  BY <1>1 DEF PendingChildren, TypeOK, Child, ChildOwned
<1>3. \A k \in dead :
         LET i == children[k].eval
         IN  /\ jobOf(i) \in Job /\ jobs[jobOf(i)].state = "zombie"
             /\ jobs[jobOf(i)].pid = children[k].pid
             /\ StatusOf(children[k].pid) = jobs[jobOf(i)].code
  <2>1. SUFFICES ASSUME NEW k \in dead, NEW i, i = children[k].eval
                 PROVE  /\ jobOf(i) \in Job /\ jobs[jobOf(i)].state = "zombie"
                        /\ jobs[jobOf(i)].pid = children[k].pid
                        /\ StatusOf(children[k].pid) = jobs[jobOf(i)].code
    OBVIOUS
  <2>2. /\ i \in Slot /\ children[k].pid \in Pid
        /\ Unreaped(evals[i].eff) /\ evals[i].eff.pid = children[k].pid
    BY <1>2, <2>1
  <2>3. jobOf(i) \in Job /\ Live(jobOf(i)) /\ jobs[jobOf(i)].pid = children[k].pid
    BY <1>1, <2>2 DEF EffShape, JobMatches, Live
  <2>4. PICK j \in Job : /\ jobs[j].state = "zombie" /\ jobs[j].pid = children[k].pid
                         /\ StatusOf(children[k].pid) = jobs[j].code
    BY <1>1, <2>2, ZombieStatus
  <2>5. j = jobOf(i)
    BY <1>1, <2>3, <2>4 DEF KernelInv, Live
  <2>6. QED  BY <2>3, <2>4, <2>5
<1>4. ASSUME NEW i \in reaped
      PROVE  /\ i \in Slot /\ Unreaped(evals[i].eff) /\ evals[i].active
             /\ jobOf(i) \in Job /\ jobs[jobOf(i)].state = "zombie"
             /\ evals'[i].eff.exited /\ evals'[i].eff.code = jobs[jobOf(i)].code
  <2> DEFINE entries == {k \in dead : children[k].eval = i}
             c == StatusOf(children[CHOOSE k \in entries : TRUE].pid)
  <2>1. entries # {} /\ \A k \in entries : k \in dead /\ children[k].eval = i
    OBVIOUS
  <2>2. i \in Slot /\ Unreaped(evals[i].eff) /\ jobOf(i) \in Job /\ jobs[jobOf(i)].state = "zombie"
    BY <1>2, <1>3, <2>1
  <2>3. evals[i].active
    BY <1>1, <2>2, NoEffFields DEF EffShape
  <2>4. c = jobs[jobOf(i)].code
    BY <1>3, <2>1
  <2>5. evals'[i] = [evals[i] EXCEPT !.eff.exited = TRUE, !.eff.code = c]
    BY <2>1, <2>2, <2>3 DEF Reap
  <2>6. evals'[i] = [evals[i] EXCEPT !.eff = [evals[i].eff EXCEPT !.exited = TRUE, !.code = c]]
    BY <2>2, <2>5 DEF Eval, EvalRec, TypeOK
  <2>7. evals'[i].active = evals[i].active
        /\ evals'[i].eff = [evals[i].eff EXCEPT !.exited = TRUE, !.code = c]
    BY <2>2, <2>6 DEF Eval, EvalRec, TypeOK
  <2>8. evals[i].eff \in Eff
    BY <2>2 DEF TypeOK, Eval, EvalRec
  <2>9. evals'[i].eff.exited /\ evals'[i].eff.code = c
    BY <2>7, <2>8 DEF Eff
  <2>10. QED  BY <2>2, <2>3, <2>4, <2>9
<1>5. \A i \in Slot \ reaped : evals'[i] = evals[i]
  BY DEF Reap
<1>6. \A i \in Slot :
         /\ evals'[i].active = evals[i].active /\ evals'[i].eff.kind = evals[i].eff.kind
         /\ evals'[i].eff.job = jobOf(i) /\ evals'[i].eff.pid = evals[i].eff.pid
         /\ evals'[i].eff.open = evals[i].eff.open /\ evals'[i].eff.buf = evals[i].eff.buf
  BY <1>1, ReapType
<1>7. \A i \in reaped : /\ jobs'[jobOf(i)].state = "reaped" /\ jobs'[jobOf(i)].pid = NoPid
                        /\ jobs'[jobOf(i)].code = jobs[jobOf(i)].code
  <2>1. SUFFICES ASSUME NEW k \in dead, NEW i, i = children[k].eval
                 PROVE  /\ jobs'[jobOf(i)].state = "reaped" /\ jobs'[jobOf(i)].pid = NoPid
                        /\ jobs'[jobOf(i)].code = jobs[jobOf(i)].code
    OBVIOUS
  <2>2. jobs'[jobOf(i)] = [jobs[jobOf(i)] EXCEPT !.state = "reaped", !.pid = NoPid]
    BY <1>3, <2>1 DEF Reap
  <2>3. jobs[jobOf(i)] \in JobRec
    BY <1>3, <2>1 DEF TypeOK
  <2>4. QED  BY <2>2, <2>3 DEF JobRec
<1>8. \A j \in Job : (\A i \in reaped : j # jobOf(i)) => jobs'[j] = jobs[j]
  <2>1. SUFFICES ASSUME NEW j \in Job, \A i \in reaped : j # jobOf(i)
                 PROVE  ~(jobs[j].state = "zombie" /\ jobs[j].pid \in {children[k].pid : k \in dead})
    BY DEF Reap
  <2>2. SUFFICES ASSUME NEW k \in dead, jobs[j].state = "zombie", jobs[j].pid = children[k].pid
                 PROVE  FALSE
    OBVIOUS
  <2>3. j = jobOf(children[k].eval)
    BY <1>1, <1>3, <2>2 DEF KernelInv, Live
  <2>4. QED  BY <2>1, <2>3
<1>9. \A j \in Job : /\ jobs'[j].ropen = jobs[j].ropen /\ jobs'[j].wopen = jobs[j].wopen
                      /\ jobs'[j].unread = jobs[j].unread /\ jobs'[j].written = jobs[j].written
  <2>1. SUFFICES ASSUME NEW j \in Job
                 PROVE  /\ jobs'[j].ropen = jobs[j].ropen /\ jobs'[j].wopen = jobs[j].wopen
                        /\ jobs'[j].unread = jobs[j].unread /\ jobs'[j].written = jobs[j].written
    OBVIOUS
  <2>2. jobs'[j] = [jobs[j] EXCEPT !.state = "reaped", !.pid = NoPid] \/ jobs'[j] = jobs[j]
    BY DEF Reap
  <2>3. QED  BY <2>2 DEF TypeOK, JobRec
<1>10. EffShape'
  <2>1. \A i \in Slot : ~evals'[i].active => evals'[i] = evals[i]
    BY <1>4, <1>5, <1>6
  <2>2. QED  BY <1>1, <1>6, <2>1 DEF EffShape
<1>11. KernelInv'
  <2>1. \A j \in Job : Live(j)' => Live(j) /\ jobs'[j].pid = jobs[j].pid
    BY <1>7, <1>8 DEF Live
  <2>2. \A j \in Job : Live(j)' <=> jobs'[j].pid \in Pid
    BY <1>1, <1>7, <1>8, NullAssumption DEF KernelInv, Live
  <2>3. QED  BY <1>1, <1>9, <2>1, <2>2 DEF KernelInv
<1>12. JobMatches'
  <2>1. \A i \in Slot \ reaped : HasJob(evals[i].eff) => jobs'[jobOf(i)] = jobs[jobOf(i)]
    BY <1>1, <1>4, <1>8 DEF EffShape, PipesOwned
  <2>2. SUFFICES ASSUME NEW i \in Slot
                 PROVE  LET eff == evals'[i].eff
                            j == jobs'[eff.job]
                        IN  /\ eff.kind = "readfile" => j.state = "file" /\ j.wopen \subseteq {"out"}
                            /\ Unreaped(eff) => j.state \in {"running", "zombie"} /\ j.pid = eff.pid
                            /\ eff.kind = "exec" /\ eff.exited => j.state = "reaped" /\ j.code = eff.code
    BY DEF JobMatches
  <2>3. CASE i \in reaped
    BY <1>4, <1>6, <1>7, <2>3
  <2>4. CASE i \notin reaped
    BY <1>1, <1>5, <2>1, <2>4 DEF JobMatches
  <2>5. QED  BY <2>3, <2>4
<1>13. JobOwned'
  <2>1. SUFFICES ASSUME NEW j \in Job
                 PROVE  IF jobs'[j].state = "unused" THEN jobs'[j].ropen = {}
                        ELSE \E i \in Slot : evals'[i].eff.job = j
    BY DEF JobOwned
  <2>2. jobs'[j].state = "unused" => jobs[j].state = "unused"
    BY <1>7, <1>8
  <2>3. jobs'[j].state # "unused" => jobs[j].state # "unused"
    BY <1>4, <1>7, <1>8
  <2>4. QED  BY <1>1, <1>6, <1>9, <2>2, <2>3 DEF JobOwned
<1>14. PipesOwned'
  BY <1>1, <1>6, <1>9 DEF PipesOwned, EffShape
<1>15. ChildOwned'
  <2>1. \A k \in 0 .. MAX_CHILDREN - 1 : children'[k] = IF k \in dead THEN FreeChild ELSE children[k]
    BY DEF Reap
  <2>2. PendingChildren' = PendingChildren \ dead
    BY <2>1 DEF PendingChildren, FreeChild
  <2>3. \A k \in PendingChildren' : /\ k \in PendingChildren /\ children'[k] = children[k]
                                    /\ children[k].eval \in Slot \ reaped
    BY <1>1, <1>2, <2>1, <2>2 DEF ChildOwned
  <2>4. \A k \in PendingChildren' : Unreaped(evals'[children'[k].eval].eff)
                                    /\ evals'[children'[k].eval].eff.pid = children'[k].pid
    BY <1>2, <1>5, <2>3
  <2>5. \A i \in Slot : Unreaped(evals'[i].eff) => \E k \in PendingChildren' : children'[k].eval = i
    <3>1. SUFFICES ASSUME NEW i \in Slot, Unreaped(evals'[i].eff)
                   PROVE  \E k \in PendingChildren' : children'[k].eval = i
      OBVIOUS
    <3>2. i \notin reaped
      BY <1>4, <3>1
    <3>3. PICK k \in PendingChildren : children[k].eval = i
      BY <1>1, <1>5, <3>1, <3>2 DEF ChildOwned
    <3>4. k \in PendingChildren'
      BY <2>2, <3>2, <3>3
    <3>5. QED  BY <2>3, <3>3, <3>4
  <2>6. \A k, m \in PendingChildren' : children'[k].eval = children'[m].eval => k = m
    BY <1>1, <2>3 DEF ChildOwned
  <2>7. QED  BY <2>4, <2>5, <2>6 DEF ChildOwned
<1>16. CleanupInv'
  BY DEF CleanupInv
<1>17. QED
  BY <1>10, <1>11, <1>12, <1>13, <1>14, <1>15, <1>16 DEF Ownership

\* Once everything is closed, the table is all that is left to reap.
LEMMA CleanupReapStep ==
    ASSUME TypeOK, Ownership, AfterCleanup, AfterCleanup', outcome # "panic", outcome' = outcome,
           NEW n \in PendingChildren, Exited(children[n].pid), Reap({n})
    PROVE  Ownership'
<1> DEFINE p == children[n].pid
<1>1. EffShape /\ KernelInv /\ CleanupInv
  BY DEF Ownership
<1>2. p \in Pid /\ n \in 0 .. MAX_CHILDREN - 1
  BY DEF PendingChildren, TypeOK, Child
<1>3. \A j \in Job : jobs'[j] = IF jobs[j].state = "zombie" /\ jobs[j].pid = p
                                THEN [jobs[j] EXCEPT !.state = "reaped", !.pid = NoPid]
                                ELSE jobs[j]
  BY DEF Reap
<1>4. \A k \in 0 .. MAX_CHILDREN - 1 : children'[k] = IF k = n THEN FreeChild ELSE children[k]
  BY DEF Reap
<1>5. PendingChildren' = PendingChildren \ {n}
  BY <1>4 DEF PendingChildren, FreeChild
<1>6. \A j \in Job :
         /\ jobs'[j].ropen = jobs[j].ropen
         /\ jobs'[j].unread = jobs[j].unread /\ jobs'[j].written = jobs[j].written
         /\ IF jobs[j].state = "zombie" /\ jobs[j].pid = p
            THEN jobs'[j].state = "reaped" /\ jobs'[j].pid = NoPid
            ELSE jobs'[j] = jobs[j]
  BY <1>3 DEF TypeOK, JobRec
<1>7. \A i \in Slot :
         /\ evals'[i].active = evals[i].active /\ evals'[i].eff.kind = evals[i].eff.kind
         /\ evals'[i].eff.job = evals[i].eff.job /\ evals'[i].eff.pid = evals[i].eff.pid
         /\ evals'[i].eff.open = evals[i].eff.open
         /\ evals[i].eff.kind # "exec" => evals'[i] = evals[i]
  BY <1>1, ReapType
<1>8. EffShape'
  <2>1. \A i \in Slot : ~evals'[i].active => evals'[i] = evals[i]
    BY <1>1, <1>7, NoEffFields DEF EffShape
  <2>2. QED  BY <1>1, <1>7, <2>1 DEF EffShape, HasJob
<1>9. KernelInv'
  <2>1. \A j \in Job : Live(j)' => Live(j) /\ jobs'[j].pid = jobs[j].pid
    BY <1>6 DEF Live
  <2>2. \A j \in Job : Live(j)' <=> jobs'[j].pid \in Pid
    BY <1>1, <1>6, NullAssumption DEF KernelInv, Live
  <2>3. QED  BY <1>1, <1>6, <2>1, <2>2 DEF KernelInv
<1>10. CleanupInv'
  <2>1. PICK z \in Job : jobs[z].state = "zombie" /\ jobs[z].pid = p
    BY DEF Exited
  <2>2. ASSUME NEW j \in Job
        PROVE  Live(j)' <=> Live(j) /\ jobs[j].pid # p
    BY <1>1, <1>6, <2>1 DEF KernelInv, Live
  <2>3. ASSUME NEW j \in Job, Live(j)'
        PROVE  \E k \in PendingChildren' : children'[k].pid = jobs'[j].pid
    <3>1. PICK k \in PendingChildren : children[k].pid = jobs[j].pid
      BY <1>1, <2>2, <2>3 DEF CleanupInv
    <3>2. k # n /\ k \in 0 .. MAX_CHILDREN - 1
      BY <2>2, <2>3, <3>1 DEF PendingChildren
    <3>3. QED  BY <1>4, <1>5, <1>6, <2>2, <2>3, <3>1, <3>2
  <2>4. ASSUME NEW k \in PendingChildren'
        PROVE  \E j \in Job : Live(j)' /\ jobs'[j].pid = children'[k].pid
    <3>1. k \in PendingChildren /\ k # n /\ children'[k] = children[k]
      BY <1>4, <1>5, <2>4 DEF PendingChildren
    <3>2. PICK j \in Job : Live(j) /\ jobs[j].pid = children[k].pid
      BY <1>1, <3>1 DEF CleanupInv
    <3>3. jobs[j].pid # p
      BY <1>1, <3>1, <3>2 DEF CleanupInv
    <3>4. QED  BY <1>6, <2>2, <3>1, <3>2, <3>3
  <2>5. \A k, m \in PendingChildren' : children'[k].pid = children'[m].pid => k = m
    BY <1>1, <1>4, <1>5 DEF CleanupInv, PendingChildren
  <2>6. \A j \in Job : jobs'[j].ropen = {}
    BY <1>1, <1>6 DEF CleanupInv
  <2>7. QED  BY <2>3, <2>4, <2>5, <2>6 DEF CleanupInv
<1>11. JobMatches' /\ JobOwned' /\ PipesOwned' /\ ChildOwned'
  BY DEF JobMatches, JobOwned, PipesOwned, ChildOwned
<1>12. QED  BY <1>8, <1>9, <1>10, <1>11 DEF Ownership

\* A child or a writer does something: what is its own changes, not whose it is.
OneJobMoves(j) ==
    /\ \A k \in Job : k # j => jobs'[k] = jobs[k]
    /\ jobs'[j].pid = jobs[j].pid /\ jobs'[j].ropen = jobs[j].ropen
    /\ \/ jobs'[j].state = jobs[j].state /\ jobs'[j].code = jobs[j].code
       \/ jobs[j].state = "running" /\ jobs'[j].state = "zombie"
    /\ jobs'[j].wopen \subseteq jobs[j].wopen
    /\ \A s \in Stream :
          \/ /\ jobs'[j].unread[s] = jobs[j].unread[s]
             /\ jobs'[j].written[s] = jobs[j].written[s]
          \/ /\ s \in jobs[j].wopen
             /\ jobs'[j].unread[s] = jobs[j].unread[s] + 1
             /\ jobs'[j].written[s] = jobs[j].written[s] + 1

LEMMA OneJobStep ==
    ASSUME TypeOK, Ownership, NEW j \in Job, OneJobMoves(j), UNCHANGED loop
    PROVE  Ownership'
<1> USE DEF HasJob, Unreaped
<1>1. evals' = evals /\ children' = children /\ pc' = pc /\ outcome' = outcome
  BY DEF loop, table, control
<1>2. EffShape /\ KernelInv /\ JobMatches /\ JobOwned /\ PipesOwned /\ ChildOwned /\ CleanupInv
  BY DEF Ownership
<1>3. EffShape'
  BY <1>1, <1>2 DEF EffShape
<1>4. \A k \in Job : jobs[k] \in JobRec
  BY DEF TypeOK
<1>5. KernelInv'
  <2>1. \A k \in Job : jobs'[k].pid = jobs[k].pid /\ (Live(k)' <=> Live(k))
    BY DEF OneJobMoves, Live
  <2>2. \A k \in Job, s \in Stream : jobs[k].unread[s] \in Int /\ jobs[k].written[s] \in Int
    BY <1>4 DEF JobRec
  <2>3. \A s \in Stream : jobs'[j].unread[s] <= jobs'[j].written[s]
    BY <1>2, <2>2 DEF OneJobMoves, KernelInv
  <2>4. \A k \in Job, s \in Stream : jobs'[k].unread[s] <= jobs'[k].written[s]
    BY <1>2, <2>3 DEF OneJobMoves, KernelInv
  <2>5. QED  BY <1>2, <2>1, <2>4 DEF KernelInv
<1>6. JobMatches'
  <2>1. \A k \in Job : /\ jobs'[k].pid = jobs[k].pid /\ jobs'[k].wopen \subseteq jobs[k].wopen
                       /\ \/ jobs'[k].state = jobs[k].state /\ jobs'[k].code = jobs[k].code
                          \/ jobs[k].state = "running" /\ jobs'[k].state = "zombie"
    BY DEF OneJobMoves
  <2>2. SUFFICES ASSUME ~AfterCleanup, NEW i \in Slot, HasJob(evals[i].eff)
                 PROVE  LET eff == evals[i].eff
                            job == jobs'[eff.job]
                        IN  /\ eff.kind = "readfile" => job.state = "file" /\ job.wopen \subseteq {"out"}
                            /\ Unreaped(eff) => job.state \in {"running", "zombie"} /\ job.pid = eff.pid
                            /\ eff.kind = "exec" /\ eff.exited => job.state = "reaped" /\ job.code = eff.code
    BY <1>1 DEF JobMatches, AfterCleanup
  <2>3. evals[i].eff.job \in Job
    BY <1>2, <2>2 DEF EffShape
  <2>4. QED  BY <1>2, <2>1, <2>2, <2>3 DEF JobMatches
<1>7. JobOwned'
  <2>1. \A k \in Job : /\ jobs'[k].ropen = jobs[k].ropen
                       /\ jobs'[k].state = "unused" <=> jobs[k].state = "unused"
    BY DEF OneJobMoves
  <2>2. QED  BY <1>1, <1>2, <2>1 DEF JobOwned, AfterCleanup
<1>8. PipesOwned'
  <2>1. SUFFICES ASSUME ~AfterCleanup, NEW i \in Slot, HasJob(evals[i].eff), NEW job, job = evals[i].eff.job
                 PROVE  /\ jobs'[job].ropen = evals[i].eff.open
                        /\ \A k \in Slot : k # i => evals[k].eff.job # job
                        /\ \A s \in Stream :
                              /\ jobs'[job].written[s] = evals[i].eff.buf[s] + jobs'[job].unread[s]
                              /\ s \in Stream \ evals[i].eff.open =>
                                    s \notin jobs'[job].wopen /\ jobs'[job].unread[s] = 0
    BY <1>1 DEF PipesOwned, AfterCleanup
  <2>2. job \in Job
    BY <1>2, <2>1 DEF EffShape
  <2>3. /\ jobs[job].ropen = evals[i].eff.open
        /\ \A k \in Slot : k # i => evals[k].eff.job # job
        /\ \A s \in Stream :
              /\ jobs[job].written[s] = evals[i].eff.buf[s] + jobs[job].unread[s]
              /\ s \in Stream \ evals[i].eff.open =>
                    s \notin jobs[job].wopen /\ jobs[job].unread[s] = 0
    BY <1>2, <2>1 DEF PipesOwned
  <2>4. \A s \in Stream : jobs[job].unread[s] \in Int /\ evals[i].eff.buf[s] \in Int
    BY <1>4, <2>2 DEF JobRec, TypeOK, Eval, EvalRec, Eff
  <2>5. CASE job = j
    BY <2>3, <2>4, <2>5 DEF OneJobMoves
  <2>6. CASE job # j
    BY <2>2, <2>3, <2>6 DEF OneJobMoves
  <2>7. QED  BY <2>5, <2>6
<1>9. ChildOwned'
  BY <1>1, <1>2 DEF ChildOwned, AfterCleanup, PendingChildren
<1>10. CleanupInv'
  <2>1. \A k \in Job : /\ jobs'[k].pid = jobs[k].pid /\ jobs'[k].ropen = jobs[k].ropen
                       /\ Live(k)' <=> Live(k)
    BY DEF OneJobMoves, Live
  <2>2. PendingChildren' = PendingChildren
    BY <1>1 DEF PendingChildren
  <2>3. QED  BY <1>1, <1>2, <2>1, <2>2 DEF CleanupInv, AfterCleanup
<1>11. QED  BY <1>3, <1>5, <1>6, <1>7, <1>8, <1>9, <1>10 DEF Ownership

\* cleanupAll closes every pipe; the table keeps the children still to be waited for.
LEMMA CleanupEffectsStep ==
    ASSUME TypeOK, ControlInv, Ownership, CleanupEffects
    PROVE  Ownership'
<1> USE DEF HasJob, Unreaped
<1>1. EffShape /\ KernelInv /\ JobMatches /\ JobOwned /\ PipesOwned /\ ChildOwned
  BY DEF Ownership
<1>2. ~AfterCleanup /\ AfterCleanup' /\ children' = children
  BY DEF CleanupEffects, AfterCleanup
<1>3. \A i \in Slot : evals'[i].eff = NoEff
  BY DEF CleanupEffects, TypeOK, Eval, EvalRec
<1>4. EffShape'
  BY <1>3, NoEffFields DEF EffShape
<1>5. ASSUME NEW j \in Job, NEW i \in Slot, evals[i].eff.job = j, HasJob(evals[i].eff)
      PROVE  IF evals[i].eff.kind = "readfile" THEN jobs'[j] = UnusedJob
             ELSE /\ jobs'[j] = [jobs[j] EXCEPT !.ropen = {}]
                  /\ jobs[j].state # "file"
  <2>1. Held(j) = {i}
    BY <1>1, <1>2, <1>5 DEF Held, PipesOwned
  <2>2. UNION {evals[k].eff.open : k \in Held(j)} = evals[i].eff.open
    BY <2>1
  <2>3. jobs[j].ropen \ evals[i].eff.open = {}
    BY <1>1, <1>2, <1>5 DEF PipesOwned
  <2>4. (evals[i].eff.kind = "readfile") <=> jobs[j].state = "file"
    BY <1>1, <1>2, <1>5 DEF JobMatches
  <2>5. jobs'[j] = IF jobs[j].state = "file" THEN UnusedJob
                   ELSE [jobs[j] EXCEPT !.ropen = @ \ UNION {evals[k].eff.open : k \in Held(j)}]
    BY <2>1 DEF CleanupEffects
  <2>6. QED  BY <2>2, <2>3, <2>4, <2>5
<1>6. ASSUME NEW j \in Job, \A i \in Slot : evals[i].eff.job # j
      PROVE  jobs'[j] = jobs[j] /\ jobs[j].state = "unused" /\ jobs[j].ropen = {}
  BY <1>1, <1>2, <1>6 DEF CleanupEffects, Held, JobOwned
<1>7. \A i \in Slot : evals[i].eff.job \in Job => HasJob(evals[i].eff)
  BY <1>1, NullAssumption DEF EffShape
<1>8. ASSUME NEW j \in Job
      PROVE  /\ jobs'[j].ropen = {}
             /\ \A s \in Stream : jobs'[j].unread[s] <= jobs'[j].written[s]
             /\ jobs'[j].pid = jobs[j].pid
             /\ Live(j)' <=> Live(j)
             /\ Live(j) => \E i \in Slot : evals[i].eff.job = j /\ Unreaped(evals[i].eff)
  <2>1. CASE \A i \in Slot : evals[i].eff.job # j
    BY <1>1, <1>6, <2>1 DEF KernelInv, Live
  <2>2. CASE \E i \in Slot : evals[i].eff.job = j
    <3>1. PICK i \in Slot : evals[i].eff.job = j
      BY <2>2
    <3>2. HasJob(evals[i].eff)
      BY <1>7, <3>1
    <3>3. jobs[j] \in JobRec
      BY DEF TypeOK
    <3>4. CASE evals[i].eff.kind = "readfile"
      <4>1. jobs'[j] = UnusedJob /\ jobs[j].state = "file"
        BY <1>1, <1>2, <1>5, <3>1, <3>2, <3>4 DEF JobMatches
      <4>2. jobs[j].pid = NoPid
        BY <1>1, <3>3, <4>1 DEF KernelInv, Live, JobRec
      <4>3. QED  BY <4>1, <4>2 DEF UnusedJob, NoBytes, Live
    <3>5. CASE evals[i].eff.kind = "exec"
      <4>1. jobs'[j] = [jobs[j] EXCEPT !.ropen = {}]
        BY <1>5, <3>1, <3>2, <3>5
      <4>2. /\ jobs'[j].ropen = {} /\ jobs'[j].pid = jobs[j].pid /\ jobs'[j].state = jobs[j].state
            /\ jobs'[j].unread = jobs[j].unread /\ jobs'[j].written = jobs[j].written
        BY <3>3, <4>1 DEF JobRec
      <4>3. Live(j) => ~evals[i].eff.exited
        BY <1>1, <1>2, <3>1, <3>5 DEF JobMatches, Live
      <4>4. QED  BY <1>1, <3>1, <3>5, <4>2, <4>3 DEF KernelInv, Live
    <3>6. QED  BY <3>2, <3>4, <3>5
  <2>3. QED  BY <2>1, <2>2
<1>9. KernelInv'
  BY <1>1, <1>8 DEF KernelInv
<1>10. PendingChildren' = PendingChildren
  BY <1>2 DEF PendingChildren
<1>11. \A k \in PendingChildren :
          /\ children[k].eval \in Slot
          /\ LET eff == evals[children[k].eval].eff
             IN  Unreaped(eff) /\ eff.pid = children[k].pid
  BY <1>1, <1>2 DEF ChildOwned, PendingChildren, TypeOK, Child
<1>12. ASSUME NEW k \in PendingChildren
       PROVE  LET j == evals[children[k].eval].eff.job
              IN  j \in Job /\ Live(j) /\ jobs[j].pid = children[k].pid
  BY <1>1, <1>2, <1>11 DEF EffShape, JobMatches, Live
<1>13. \A j \in Job : Live(j) => \E k \in PendingChildren : children[k].pid = jobs[j].pid
  <2>1. SUFFICES ASSUME NEW j \in Job, Live(j)
                 PROVE  \E k \in PendingChildren : children[k].pid = jobs[j].pid
    OBVIOUS
  <2>2. PICK i \in Slot : evals[i].eff.job = j /\ Unreaped(evals[i].eff)
    BY <1>8, <2>1
  <2>3. PICK k \in PendingChildren : children[k].eval = i
    BY <1>1, <1>2, <2>2 DEF ChildOwned
  <2>4. QED  BY <1>12, <2>2, <2>3
<1>14. \A k, m \in PendingChildren : children[k].pid = children[m].pid => k = m
  <2>1. SUFFICES ASSUME NEW k \in PendingChildren, NEW m \in PendingChildren,
                        children[k].pid = children[m].pid
                 PROVE  k = m
    OBVIOUS
  <2>2. evals[children[k].eval].eff.job = evals[children[m].eval].eff.job
    BY <1>1, <1>12, <2>1 DEF KernelInv
  <2>3. children[k].eval = children[m].eval
    BY <1>1, <1>2, <1>11, <2>2 DEF PipesOwned
  <2>4. QED  BY <1>1, <1>2, <2>3 DEF ChildOwned
<1>15. CleanupInv'
  BY <1>2, <1>8, <1>10, <1>12, <1>13, <1>14 DEF CleanupInv
<1>16. JobMatches' /\ JobOwned' /\ PipesOwned' /\ ChildOwned'
  BY <1>2 DEF JobMatches, JobOwned, PipesOwned, ChildOwned
<1>17. QED  BY <1>4, <1>9, <1>15, <1>16 DEF Ownership

-----------------------------------------------------------------------------
(* The steps that leave effects, children and processes alone *)

Quiet ==
    /\ UNCHANGED <<evals, children, jobs>>
    /\ AfterCleanup' <=> AfterCleanup
    /\ AfterCleanup => outcome' = outcome

LEMMA QuietOwnership ==
    ASSUME TypeOK, Ownership, Quiet
    PROVE  Ownership'
  BY QuietStep DEF Quiet, Ownership, EffShape

QuietStepOfLoop ==
    \/ Begin \/ BeginEval \/ EndEval \/ EndStepAll \/ EndCompleteReady \/ CheckRunnable
    \/ rebuildPollfds \/ NothingToReap \/ Poll \/ WinchRead \/ WinchSize \/ EndDrainWinch
    \/ DrainSkip \/ EndDrain \/ EndFlush \/ leafExecFails \/ CleanupDone

LEMMA QuietActions ==
    ASSUME IInv, QuietStepOfLoop
    PROVE  IInv'
<1> USE DEF table, loop, os, control, LeafFrame
<1>1. TypeOK /\ ControlInv /\ PollInv /\ Ownership
  BY DEF IInv
<1>2. MAX_EVALS \in Nat /\ MAX_EVALS > 0 /\ GENS \in Nat /\ GENS > 1
  BY BoundAssumption
<1>3. SUFFICES TypeOK' /\ ControlInv' /\ PollInv' /\ Quiet
  BY <1>1, QuietOwnership DEF IInv
<1>4. CASE Begin
  <2>1. TypeOK'
    BY <1>1, <1>2, <1>4 DEF TypeOK, Slot, Begin
  <2>2. ControlInv'
    BY <1>1, <1>4 DEF ControlInv, TypeOK, AfterCleanup, PendingChildren, Begin
  <2>3. PollInv'
    BY <1>1, <1>4 DEF PollInv, TypeOK, Begin
  <2>4. Quiet
    BY <1>1, <1>4 DEF Quiet, TypeOK, AfterCleanup, Begin
  <2>5. QED  BY <2>1, <2>2, <2>3, <2>4
<1>5. CASE BeginEval
  <2>1. TypeOK'
    BY <1>1, <1>2, <1>5 DEF TypeOK, Slot, BeginEval, Eval, EvalRec
  <2>2. ControlInv'
    BY <1>1, <1>5 DEF ControlInv, TypeOK, AfterCleanup, PendingChildren, BeginEval, Eval, EvalRec
  <2>3. PollInv'
    BY <1>1, <1>5 DEF PollInv, TypeOK, BeginEval, Eval, EvalRec
  <2>4. Quiet
    BY <1>1, <1>5 DEF Quiet, TypeOK, AfterCleanup, BeginEval, Eval, EvalRec
  <2>5. QED  BY <2>1, <2>2, <2>3, <2>4
<1>6. CASE EndEval
  <2>1. TypeOK'
    BY <1>1, <1>2, <1>6 DEF TypeOK, Slot, EndEval
  <2>2. ControlInv'
    BY <1>1, <1>6 DEF ControlInv, TypeOK, AfterCleanup, PendingChildren, EndEval
  <2>3. PollInv'
    BY <1>1, <1>6 DEF PollInv, TypeOK, EndEval
  <2>4. Quiet
    BY <1>1, <1>6 DEF Quiet, TypeOK, AfterCleanup, EndEval
  <2>5. QED  BY <2>1, <2>2, <2>3, <2>4
<1>7. CASE EndStepAll
  <2>1. TypeOK'
    BY <1>1, <1>2, <1>7 DEF TypeOK, Slot, EndStepAll
  <2>2. ControlInv'
    BY <1>1, <1>7 DEF ControlInv, TypeOK, AfterCleanup, PendingChildren, EndStepAll
  <2>3. PollInv'
    BY <1>1, <1>7 DEF PollInv, TypeOK, EndStepAll
  <2>4. Quiet
    BY <1>1, <1>7 DEF Quiet, TypeOK, AfterCleanup, EndStepAll
  <2>5. QED  BY <2>1, <2>2, <2>3, <2>4
<1>8. CASE EndCompleteReady
  <2>1. TypeOK'
    BY <1>1, <1>2, <1>8 DEF TypeOK, Slot, EndCompleteReady, AfterCompleteReady
  <2>2. ControlInv'
    BY <1>1, <1>8 DEF ControlInv, TypeOK, AfterCleanup, PendingChildren, EndCompleteReady, AfterCompleteReady
  <2>3. PollInv'
    BY <1>1, <1>8 DEF PollInv, TypeOK, EndCompleteReady, AfterCompleteReady
  <2>4. Quiet
    BY <1>1, <1>8 DEF Quiet, TypeOK, AfterCleanup, EndCompleteReady, AfterCompleteReady
  <2>5. QED  BY <2>1, <2>2, <2>3, <2>4
<1>9. CASE CheckRunnable
  <2>1. TypeOK'
    BY <1>1, <1>2, <1>9 DEF TypeOK, Slot, CheckRunnable
  <2>2. ControlInv'
    BY <1>1, <1>9 DEF ControlInv, TypeOK, AfterCleanup, PendingChildren, CheckRunnable
  <2>3. PollInv'
    BY <1>1, <1>9 DEF PollInv, TypeOK, CheckRunnable
  <2>4. Quiet
    BY <1>1, <1>9 DEF Quiet, TypeOK, AfterCleanup, CheckRunnable
  <2>5. QED  BY <2>1, <2>2, <2>3, <2>4
<1>10. CASE rebuildPollfds
  <2>1. TypeOK'
    BY <1>1, <1>2, <1>10 DEF TypeOK, Slot, rebuildPollfds, PollSet, Polls
  <2>2. ControlInv'
    BY <1>1, <1>10 DEF ControlInv, TypeOK, AfterCleanup, PendingChildren, rebuildPollfds, PollSet, Polls
  <2>3. PollInv'
    BY <1>1, <1>10 DEF PollInv, TypeOK, rebuildPollfds, PollSet, Polls
  <2>4. Quiet
    BY <1>1, <1>10 DEF Quiet, TypeOK, AfterCleanup, rebuildPollfds, PollSet, Polls
  <2>5. QED  BY <2>1, <2>2, <2>3, <2>4
<1>11. CASE NothingToReap
  <2>1. TypeOK'
    BY <1>1, <1>2, <1>11 DEF TypeOK, Slot, NothingToReap
  <2>2. ControlInv'
    BY <1>1, <1>11 DEF ControlInv, TypeOK, AfterCleanup, PendingChildren, NothingToReap
  <2>3. PollInv'
    BY <1>1, <1>11 DEF PollInv, TypeOK, NothingToReap
  <2>4. Quiet
    BY <1>1, <1>11 DEF Quiet, TypeOK, AfterCleanup, NothingToReap
  <2>5. QED  BY <2>1, <2>2, <2>3, <2>4
<1>12. CASE Poll
  <2>1. TypeOK'
    BY <1>1, <1>2, <1>12 DEF TypeOK, Slot, Poll
  <2>2. ControlInv'
    BY <1>1, <1>12 DEF ControlInv, TypeOK, AfterCleanup, PendingChildren, Poll
  <2>3. PollInv'
    BY <1>1, <1>12 DEF PollInv, TypeOK, Poll
  <2>4. Quiet
    BY <1>1, <1>12 DEF Quiet, TypeOK, AfterCleanup, Poll
  <2>5. QED  BY <2>1, <2>2, <2>3, <2>4
<1>13. CASE WinchRead
  <2>1. TypeOK'
    BY <1>1, <1>2, <1>13 DEF TypeOK, Slot, WinchRead
  <2>2. ControlInv'
    BY <1>1, <1>13 DEF ControlInv, TypeOK, AfterCleanup, PendingChildren, WinchRead
  <2>3. PollInv'
    BY <1>1, <1>13 DEF PollInv, TypeOK, WinchRead
  <2>4. Quiet
    BY <1>1, <1>13 DEF Quiet, TypeOK, AfterCleanup, WinchRead
  <2>5. QED  BY <2>1, <2>2, <2>3, <2>4
<1>14. CASE WinchSize
  <2>1. TypeOK'
    BY <1>1, <1>2, <1>14 DEF TypeOK, Slot, WinchSize
  <2>2. ControlInv'
    BY <1>1, <1>14 DEF ControlInv, TypeOK, AfterCleanup, PendingChildren, WinchSize
  <2>3. PollInv'
    BY <1>1, <1>14 DEF PollInv, TypeOK, WinchSize
  <2>4. Quiet
    BY <1>1, <1>14 DEF Quiet, TypeOK, AfterCleanup, WinchSize
  <2>5. QED  BY <2>1, <2>2, <2>3, <2>4
<1>15. CASE EndDrainWinch
  <2>1. TypeOK'
    BY <1>1, <1>2, <1>15 DEF TypeOK, Slot, EndDrainWinch
  <2>2. ControlInv'
    BY <1>1, <1>15 DEF ControlInv, TypeOK, AfterCleanup, PendingChildren, EndDrainWinch
  <2>3. PollInv'
    BY <1>1, <1>15 DEF PollInv, TypeOK, EndDrainWinch
  <2>4. Quiet
    BY <1>1, <1>15 DEF Quiet, TypeOK, AfterCleanup, EndDrainWinch
  <2>5. QED  BY <2>1, <2>2, <2>3, <2>4
<1>16. CASE DrainSkip
  <2>1. TypeOK'
    BY <1>1, <1>2, <1>16 DEF TypeOK, Slot, DrainSkip
  <2>2. ControlInv'
    BY <1>1, <1>16 DEF ControlInv, TypeOK, AfterCleanup, PendingChildren, DrainSkip
  <2>3. PollInv'
    BY <1>1, <1>16 DEF PollInv, TypeOK, DrainSkip
  <2>4. Quiet
    BY <1>1, <1>16 DEF Quiet, TypeOK, AfterCleanup, DrainSkip
  <2>5. QED  BY <2>1, <2>2, <2>3, <2>4
<1>17. CASE EndDrain
  <2>1. TypeOK'
    BY <1>1, <1>2, <1>17 DEF TypeOK, Slot, EndDrain
  <2>2. ControlInv'
    BY <1>1, <1>17 DEF ControlInv, TypeOK, AfterCleanup, PendingChildren, EndDrain
  <2>3. PollInv'
    BY <1>1, <1>17 DEF PollInv, TypeOK, EndDrain
  <2>4. Quiet
    BY <1>1, <1>17 DEF Quiet, TypeOK, AfterCleanup, EndDrain
  <2>5. QED  BY <2>1, <2>2, <2>3, <2>4
<1>18. CASE EndFlush
  <2>1. TypeOK'
    BY <1>1, <1>2, <1>18 DEF TypeOK, Slot, EndFlush
  <2>2. ControlInv'
    BY <1>1, <1>18 DEF ControlInv, TypeOK, AfterCleanup, PendingChildren, EndFlush
  <2>3. PollInv'
    BY <1>1, <1>18 DEF PollInv, TypeOK, EndFlush
  <2>4. Quiet
    BY <1>1, <1>18 DEF Quiet, TypeOK, AfterCleanup, EndFlush
  <2>5. QED  BY <2>1, <2>2, <2>3, <2>4
<1>19. CASE leafExecFails
  <2>1. TypeOK'
    BY <1>1, <1>2, <1>19 DEF TypeOK, Slot, leafExecFails, AtLeaf
  <2>2. ControlInv'
    BY <1>1, <1>19 DEF ControlInv, TypeOK, AfterCleanup, PendingChildren, leafExecFails, AtLeaf
  <2>3. PollInv'
    BY <1>1, <1>19 DEF PollInv, TypeOK, leafExecFails, AtLeaf
  <2>4. Quiet
    BY <1>1, <1>19 DEF Quiet, TypeOK, AfterCleanup, leafExecFails, AtLeaf
  <2>5. QED  BY <2>1, <2>2, <2>3, <2>4
<1>20. CASE CleanupDone
  <2>1. TypeOK'
    BY <1>1, <1>2, <1>20 DEF TypeOK, Slot, CleanupDone
  <2>2. ControlInv'
    BY <1>1, <1>20 DEF ControlInv, TypeOK, AfterCleanup, PendingChildren, CleanupDone
  <2>3. PollInv'
    BY <1>1, <1>20 DEF PollInv, TypeOK, CleanupDone
  <2>4. Quiet
    BY <1>1, <1>20 DEF Quiet, TypeOK, AfterCleanup, CleanupDone
  <2>5. QED  BY <2>1, <2>2, <2>3, <2>4
<1>21. QED
  BY <1>4, <1>5, <1>6, <1>7, <1>8, <1>9, <1>10, <1>11, <1>12, <1>13, <1>14, <1>15, <1>16, <1>17, <1>18, <1>19, <1>20 DEF QuietStepOfLoop

-----------------------------------------------------------------------------
(* The steps that complete a task *)

LEMMA ClearedInv ==
    ASSUME IInv, ~AfterCleanup, NEW i \in Slot,
           NEW next \in {"eval", "complete", "winch", "drain", "flush"}, pc = next,
           TableOK, Cleared(i, next),
           quit' \in BOOLEAN, winch_fd' \in BOOLEAN, jobs' \in [Job -> JobRec],
           pollfds' \subseteq pollfds,
           next \in {"winch", "drain"} => \A e \in pollfds' : e.eval = i => e.role = "winch",
           UNCHANGED <<children, winsz, tnow, ret, cur, startGen, now, size, sigPend>>
    PROVE  TypeOK' /\ ControlInv' /\ PollInv'
<1>1. TypeOK /\ ControlInv /\ PollInv
  BY DEF IInv
<1>2. \/ outcome' = "panic" /\ pc' = "exit"
      \/ outcome' = outcome /\ pc' = next
  BY DEF Cleared
<1>3. TypeOK'
  BY <1>1, <1>2 DEF TypeOK, TableOK
<1>4. ControlInv'
  BY <1>1, <1>2 DEF ControlInv, AfterCleanup
<1>5. PollInv'
  <2>1. SUFFICES ASSUME pc' \in {"winch", "drain"}, NEW e \in pollfds'
                 PROVE  /\ e.role = "readfile" => evals'[e.eval].eff.kind = "readfile"
                        /\ e.role \in {"exec_out", "exec_err"} => evals'[e.eval].eff.kind = "exec"
    BY <1>2 DEF PollInv
  <2>2. pc' = next /\ outcome' # "panic"
    BY <1>1, <1>2, <2>1 DEF ControlInv, AfterCleanup
  <2>3. e \in pollfds /\ e.eval \in Slot
    BY <1>1, <2>1 DEF TypeOK, PollFd
  <2>4. e.eval = i => e.role = "winch"
    BY <2>1, <2>2
  <2>5. e.eval # i => evals'[e.eval].eff = evals[e.eval].eff
    BY <2>2, <2>3 DEF Cleared
  <2>6. QED  BY <1>1, <2>1, <2>2, <2>3, <2>4, <2>5 DEF PollInv
<1>6. QED  BY <1>3, <1>4, <1>5

\* A task that ends on the spot: the running evaluation has no job.
LEMMA LeafCompletes ==
    ASSUME IInv, pc = "eval", Stepping(evals[cur]), TableOK, Cleared(cur, "eval"),
           quit' \in BOOLEAN,
           UNCHANGED <<children, pollfds, winch_fd, winsz, tnow, ret, cur, startGen, os>>
    PROVE  IInv'
<1>1. TypeOK /\ Ownership /\ ~AfterCleanup /\ cur \in Slot
  BY DEF IInv, TypeOK, AfterCleanup
<1>2. ~HasJob(evals[cur].eff)
  BY DEF Stepping, HasJob
<1>3. Ownership'
  BY <1>1, <1>2, ClearedStep DEF os
<1>4. TypeOK' /\ ControlInv' /\ PollInv'
  BY <1>1, ClearedInv DEF os, TypeOK
<1>5. QED  BY <1>3, <1>4 DEF IInv

\* What the tasks of a program and the host may yield.
LEMMA ValTypes ==
    ASSUME TypeOK
    PROVE  /\ <<>> \in Val /\ <<now>> \in Val /\ <<size>> \in Val /\ <<winsz>> \in Val
           /\ \A n \in 0 .. MAX_OUT : <<n>> \in Val
           /\ \A i \in Slot : <<evals[i].eff.code, evals[i].eff.buf["out"], evals[i].eff.buf["err"]>> \in Val
<1>1. /\ <<>> \in Val /\ <<now>> \in Val /\ <<size>> \in Val /\ <<winsz>> \in Val
      /\ \A n \in 0 .. MAX_OUT : <<n>> \in Val
  BY ResultAssumption DEF TypeOK
<1>2. ASSUME NEW i \in Slot
      PROVE  <<evals[i].eff.code, evals[i].eff.buf["out"], evals[i].eff.buf["err"]>> \in Val
  <2>1. evals[i].eff.code \in Code /\ evals[i].eff.buf["out"] \in 0 .. MAX_OUT
        /\ evals[i].eff.buf["err"] \in 0 .. MAX_OUT
    BY DEF TypeOK, Eval, EvalRec, Eff, Stream
  <2>2. QED  BY <2>1, ResultAssumption
<1>3. QED  BY <1>1, <1>2

\* The task at a leaf is a task of the program.
LEMMA LeafTask ==
    ASSUME TypeOK, NEW tag \in Tag, AtLeaf(tag)
    PROVE  /\ pc = "eval" /\ cur \in Slot /\ Stepping(evals[cur]) /\ evals[cur].active
           /\ ~HasJob(evals[cur].eff) /\ ~AfterCleanup
           /\ task \in Task /\ task.tag = tag
<1>1. pc = "eval" /\ cur \in Slot /\ evals[cur].task.tag = tag /\ Stepping(evals[cur])
  BY DEF TypeOK, AtLeaf
<1>2. evals[cur].task \in Task
  BY <1>1 DEF TypeOK, Eval, EvalRec, Stepping
<1>3. QED  BY <1>1, <1>2 DEF task, Stepping, HasJob, AfterCleanup

LEMMA SynchronousLeaves ==
    ASSUME IInv, Succeed \/ Fail \/ SyncLeaf \/ leafNow \/ leafWinSize \/ DropMalformed \/ leafQuit
    PROVE  IInv'
<1>1. TypeOK /\ EffShape
  BY DEF IInv, Ownership
<1>2. \A tag \in Tag : AtLeaf(tag) => task \in Task /\ task.tag = tag /\ cur \in Slot
                                      /\ pc = "eval" /\ Stepping(evals[cur])
  BY <1>1, LeafTask
<1>3. {"succeed", "fail", "sync", "now", "winsize", "malformed", "quit"} \subseteq Tag
  BY DEF Tag
<1>4. CASE Succeed
  <2>1. task.val \in Val /\ cur \in Slot /\ pc = "eval" /\ Stepping(evals[cur])
    BY <1>2, <1>3, <1>4, TaskAssumption DEF Succeed
  <2>2. TableOK /\ Cleared(cur, "eval")
    BY <1>1, <1>4, <2>1, SuccessClears DEF Succeed
  <2>3. QED  BY <1>1, <1>4, <2>1, <2>2, LeafCompletes DEF Succeed, LeafFrame, TypeOK
<1>5. CASE Fail
  <2>1. task.val \in Val /\ cur \in Slot /\ pc = "eval" /\ Stepping(evals[cur])
    BY <1>2, <1>3, <1>5, TaskAssumption DEF Fail
  <2>2. TableOK /\ Cleared(cur, "eval")
    BY <1>1, <1>5, <2>1, ErrorClears DEF Fail
  <2>3. QED  BY <1>1, <1>5, <2>1, <2>2, LeafCompletes DEF Fail, LeafFrame, TypeOK
<1>6. CASE SyncLeaf
  <2>1. cur \in Slot /\ pc = "eval" /\ Stepping(evals[cur])
    BY <1>2, <1>3, <1>6 DEF SyncLeaf
  <2>2. PICK v \in task.vals : completeSuccess(cur, v, "eval")
    BY <1>6 DEF SyncLeaf
  <2>3. v \in Val
    BY <1>2, <1>3, <1>6, <2>2, TaskAssumption DEF SyncLeaf
  <2>4. TableOK /\ Cleared(cur, "eval")
    BY <1>1, <2>1, <2>2, <2>3, SuccessClears
  <2>5. QED  BY <1>1, <1>6, <2>1, <2>4, LeafCompletes DEF SyncLeaf, LeafFrame, TypeOK
<1>7. CASE leafNow
  <2>1. cur \in Slot /\ pc = "eval" /\ Stepping(evals[cur])
    BY <1>2, <1>3, <1>7 DEF leafNow
  <2>2. TableOK /\ Cleared(cur, "eval")
    BY <1>1, <1>7, <2>1, ValTypes, SuccessClears DEF leafNow
  <2>3. QED  BY <1>1, <1>7, <2>1, <2>2, LeafCompletes DEF leafNow, LeafFrame, TypeOK
<1>8. CASE leafWinSize
  <2>1. cur \in Slot /\ pc = "eval" /\ Stepping(evals[cur])
    BY <1>2, <1>3, <1>8 DEF leafWinSize
  <2>2. TableOK /\ Cleared(cur, "eval")
    BY <1>1, <1>8, <2>1, ValTypes, SuccessClears DEF leafWinSize
  <2>3. QED  BY <1>1, <1>8, <2>1, <2>2, LeafCompletes DEF leafWinSize, LeafFrame, TypeOK
<1>9. CASE DropMalformed
  <2>1. cur \in Slot /\ pc = "eval" /\ Stepping(evals[cur])
    BY <1>2, <1>3, <1>9 DEF DropMalformed
  <2>2. TableOK /\ Cleared(cur, "eval")
    BY <1>1, <1>9, <2>1, DropClears DEF DropMalformed
  <2>3. QED  BY <1>1, <1>9, <2>1, <2>2, LeafCompletes DEF DropMalformed, LeafFrame, TypeOK
<1>10. CASE leafQuit
  <2>1. cur \in Slot /\ pc = "eval" /\ Stepping(evals[cur])
    BY <1>2, <1>3, <1>10 DEF leafQuit
  <2>2. TableOK /\ Cleared(cur, "eval")
    BY <1>1, <1>10, <2>1, DropClears DEF leafQuit
  <2>3. QED  BY <1>1, <1>10, <2>1, <2>2, LeafCompletes DEF leafQuit, TypeOK
<1>11. QED  BY <1>4, <1>5, <1>6, <1>7, <1>8, <1>9, <1>10

LEMMA PushFrameStep ==
    ASSUME IInv, PushFrame
    PROVE  IInv'
<1>1. TypeOK /\ ControlInv /\ Ownership /\ EffShape
  BY DEF IInv, Ownership
<1>2. PICK kind \in {"andthen", "onerror"} : pushFrame(kind)
  BY DEF PushFrame
<1>3. /\ pc = "eval" /\ cur \in Slot /\ ~AfterCleanup /\ task \in Task /\ task.tag = kind
  BY <1>1, <1>2, LeafTask DEF pushFrame, Tag
<1>4. task.cont \in Cont /\ task.inner \in Task
  BY <1>2, <1>3, TaskAssumption
<1> DEFINE frames == Append(evals[cur].frames, [kind |-> kind, cont |-> task.cont])
           new == [evals[cur] EXCEPT !.frames = frames, !.task = task.inner]
<1>5. frames \in Seq(Frame)
  <2>1. evals[cur].frames \in Seq(Frame) /\ [kind |-> kind, cont |-> task.cont] \in Frame
    BY <1>1, <1>3, <1>4 DEF TypeOK, Eval, EvalRec, Frame
  <2>2. QED  BY <2>1
<1>6. CASE outcome' = "panic" /\ pc' = "exit" /\ UNCHANGED table
  <2>1. TypeOK'
    BY <1>1, <1>2, <1>3, <1>6 DEF TypeOK, pushFrame, table, LeafFrame, os
  <2>2. ControlInv' /\ PollInv'
    BY <1>1, <1>2, <1>6 DEF ControlInv, PollInv, AfterCleanup, pushFrame, LeafFrame, os
  <2>3. KernelInv'
    BY <1>1, <1>2 DEF Ownership, KernelInv, Live, pushFrame, LeafFrame, os
  <2>4. Ownership'
    BY <1>1, <1>6, <2>3, PanicStep DEF table, EffShape
  <2>5. QED  BY <2>1, <2>2, <2>4 DEF IInv
<1>7. CASE evals' = [evals EXCEPT ![cur] = new] /\ UNCHANGED <<nactive, model, outcome, pc>>
  <2>1. new \in Eval /\ new.eff = evals[cur].eff /\ new.active = evals[cur].active
    BY <1>1, <1>3, <1>4, <1>5 DEF TypeOK, Eval, EvalRec
  <2>2. /\ evals' \in [Slot -> Eval]
        /\ \A k \in Slot : evals'[k].eff = evals[k].eff /\ evals'[k].active = evals[k].active
    BY <1>1, <1>3, <1>7, <2>1 DEF TypeOK
  <2>3. TypeOK'
    BY <1>1, <1>2, <1>3, <1>7, <2>2 DEF TypeOK, pushFrame, LeafFrame, os
  <2>4. ControlInv' /\ PollInv'
    BY <1>1, <1>2, <1>3, <1>7 DEF ControlInv, PollInv, AfterCleanup, pushFrame, LeafFrame, os
  <2>5. Ownership'
    BY <1>1, <1>2, <1>7, <2>2, QuietStep DEF EffShape, AfterCleanup, pushFrame, LeafFrame, os
  <2>6. QED  BY <2>3, <2>4, <2>5 DEF IInv
<1>8. QED
  <2>1. CASE Len(evals[cur].frames) < MAX_FRAMES
    <3>1. evals' = [evals EXCEPT ![cur].frames = Append(@, [kind |-> kind, cont |-> task.cont]),
                                 ![cur].task = task.inner]
          /\ UNCHANGED <<nactive, model, outcome, pc>>
      BY <1>2, <2>1 DEF pushFrame
    <3>2. evals' = [evals EXCEPT ![cur] = new]
      BY <1>1, <1>3, <3>1 DEF TypeOK
    <3>3. QED  BY <1>7, <3>1, <3>2
  <2>2. CASE ~(Len(evals[cur].frames) < MAX_FRAMES)
    BY <1>2, <1>6, <2>2 DEF pushFrame, Panic
  <2>3. QED  BY <2>1, <2>2

-----------------------------------------------------------------------------
(* The steps that start an effect *)

\* A sleep or a resize wait holds no job.
LEMMA WaitStep ==
    ASSUME TypeOK, Ownership, ~AfterCleanup, ~AfterCleanup',
           NEW i \in Slot, evals[i].active, ~HasJob(evals[i].eff),
           NEW eff, eff.kind \in {"sleep", "winch"}, eff.job = NoJob,
           \A k \in Slot : /\ evals'[k].eff = IF k = i THEN eff ELSE evals[k].eff
                           /\ evals'[k].active = evals[k].active,
           UNCHANGED <<children, jobs>>
    PROVE  Ownership'
<1> USE DEF HasJob, Unreaped, Live, PendingChildren
<1>1. EffShape /\ KernelInv /\ JobMatches /\ JobOwned /\ PipesOwned /\ ChildOwned
  BY DEF Ownership
<1>2. EffShape'
  BY <1>1 DEF EffShape
<1>3. KernelInv'
  BY <1>1 DEF KernelInv
<1>4. JobMatches'
  BY <1>1 DEF JobMatches
<1>5. JobOwned'
  <2>1. \A j \in Job : evals[i].eff.job # j
    BY <1>1, NullAssumption DEF EffShape
  <2>2. QED  BY <1>1, <2>1 DEF JobOwned
<1>6. PipesOwned'
  BY <1>1, NullAssumption DEF PipesOwned, EffShape
<1>7. \A k \in 0 .. MAX_CHILDREN - 1 : children[k].eval \in Slot
  BY DEF TypeOK, Child
<1>8. ChildOwned'
  BY <1>1, <1>7 DEF ChildOwned
<1>9. CleanupInv'
  BY DEF CleanupInv
<1>10. QED  BY <1>2, <1>3, <1>4, <1>5, <1>6, <1>8, <1>9 DEF Ownership

LEMMA SuspendInv ==
    ASSUME IInv, pc = "eval", NEW eff \in Eff, suspend(cur, eff, "eval"),
           children' \in [0 .. MAX_CHILDREN - 1 -> Child], jobs' \in [Job -> JobRec],
           winch_fd' \in BOOLEAN,
           UNCHANGED <<quit, pollfds, winsz, tnow, ret, cur, startGen, now, size, sigPend>>
    PROVE  /\ TypeOK' /\ ControlInv' /\ PollInv' /\ ~AfterCleanup'
           /\ \A k \in Slot : /\ evals'[k].eff = IF k = cur THEN eff ELSE evals[k].eff
                              /\ evals'[k].active = evals[k].active
<1>1. TypeOK /\ ControlInv /\ PollInv /\ cur \in Slot
  BY DEF IInv, TypeOK
<1>2. /\ TableOK /\ outcome' = outcome /\ pc' = "eval"
      /\ \A k \in Slot : /\ evals'[k].eff = IF k = cur THEN eff ELSE evals[k].eff
                         /\ evals'[k].active = evals[k].active
  BY <1>1, SuspendType
<1>3. TypeOK'
  BY <1>1, <1>2 DEF TypeOK, TableOK
<1>4. ControlInv' /\ ~AfterCleanup'
  BY <1>1, <1>2 DEF ControlInv, AfterCleanup
<1>5. PollInv'
  BY <1>2 DEF PollInv
<1>6. QED  BY <1>2, <1>3, <1>4, <1>5

LEMMA leafSleepStep ==
    ASSUME IInv, leafSleep
    PROVE  IInv'
<1>1. TypeOK /\ Ownership
  BY DEF IInv
<1>2. /\ pc = "eval" /\ cur \in Slot /\ ~AfterCleanup /\ evals[cur].active
      /\ ~HasJob(evals[cur].eff) /\ task \in Task /\ task.tag = "sleep"
  BY <1>1, LeafTask DEF leafSleep, Tag
<1>3. now + task.ms \in Int
  BY <1>1, <1>2, TaskAssumption DEF TypeOK
<1> DEFINE eff == SleepEff(now + task.ms)
<1>4. eff \in Eff /\ eff.kind = "sleep" /\ eff.job = NoJob
  BY <1>3, RecordTypes DEF SleepEff, NoEff
<1>5. /\ suspend(cur, eff, "eval")
      /\ UNCHANGED <<quit, children, pollfds, winch_fd, winsz, tnow, ret, cur, startGen,
                     jobs, now, size, sigPend>>
  BY DEF leafSleep, LeafFrame, os
<1>6. /\ TypeOK' /\ ControlInv' /\ PollInv' /\ ~AfterCleanup'
      /\ \A k \in Slot : /\ evals'[k].eff = IF k = cur THEN eff ELSE evals[k].eff
                         /\ evals'[k].active = evals[k].active
  <2>1. /\ children' \in [0 .. MAX_CHILDREN - 1 -> Child] /\ jobs' \in [Job -> JobRec]
        /\ winch_fd' \in BOOLEAN
    BY <1>1, <1>5 DEF TypeOK
  <2>2. QED  BY <1>2, <1>4, <1>5, <2>1, SuspendInv
<1>7. Ownership'
  BY <1>1, <1>2, <1>4, <1>5, <1>6, WaitStep
<1>8. QED  BY <1>6, <1>7 DEF IInv

LEMMA leafWaitResizeStep ==
    ASSUME IInv, leafWaitResize
    PROVE  IInv'
<1>1. TypeOK /\ Ownership /\ EffShape
  BY DEF IInv, Ownership
<1>2. /\ pc = "eval" /\ cur \in Slot /\ ~AfterCleanup /\ evals[cur].active
      /\ ~HasJob(evals[cur].eff) /\ Stepping(evals[cur])
  BY <1>1, LeafTask DEF leafWaitResize, Tag
<1>3. UNCHANGED <<quit, children, pollfds, winsz, tnow, ret, cur, startGen,
                  jobs, now, size, sigPend>>
  BY DEF leafWaitResize, os
<1>4. CASE winch_fd' = TRUE /\ suspend(cur, WinchEff, "eval")
  <2>1. WinchEff \in Eff /\ WinchEff.kind = "winch" /\ WinchEff.job = NoJob
    BY RecordTypes DEF WinchEff, NoEff
  <2>2. /\ TypeOK' /\ ControlInv' /\ PollInv' /\ ~AfterCleanup'
        /\ \A k \in Slot : /\ evals'[k].eff = IF k = cur THEN WinchEff ELSE evals[k].eff
                           /\ evals'[k].active = evals[k].active
    <3>1. /\ children' \in [0 .. MAX_CHILDREN - 1 -> Child] /\ jobs' \in [Job -> JobRec]
          /\ winch_fd' \in BOOLEAN
      BY <1>1, <1>3, <1>4 DEF TypeOK
    <3>2. QED  BY <1>2, <1>3, <1>4, <2>1, <3>1, SuspendInv
  <2>3. Ownership'
    BY <1>1, <1>2, <1>3, <2>1, <2>2, WaitStep
  <2>4. QED  BY <2>2, <2>3 DEF IInv
<1>5. CASE completeSuccess(cur, <<size>>, "eval") /\ UNCHANGED winch_fd
  <2>1. TableOK /\ Cleared(cur, "eval")
    BY <1>1, <1>2, <1>5, ValTypes, SuccessClears
  <2>2. QED  BY <1>1, <1>2, <1>3, <1>5, <2>1, LeafCompletes DEF os, TypeOK
<1>6. QED  BY <1>4, <1>5 DEF leafWaitResize

LEMMA leafReadFileStep ==
    ASSUME IInv, leafReadFile
    PROVE  IInv'
<1>1. TypeOK /\ Ownership /\ EffShape
  BY DEF IInv, Ownership
<1>2. /\ pc = "eval" /\ cur \in Slot /\ ~AfterCleanup /\ evals[cur].active
      /\ ~HasJob(evals[cur].eff) /\ Stepping(evals[cur])
  BY <1>1, LeafTask DEF leafReadFile, Tag
<1>3. UNCHANGED <<quit, children, pollfds, winch_fd, winsz, tnow, ret, cur, startGen,
                  now, size, sigPend>>
  BY DEF leafReadFile
<1>4. CASE (\E n \in 0 .. MAX_OUT : completeSuccess(cur, <<n>>, "eval")) /\ UNCHANGED jobs
  <2>1. TableOK /\ Cleared(cur, "eval")
    BY <1>1, <1>2, <1>4, ValTypes, SuccessClears
  <2>2. QED  BY <1>1, <1>2, <1>3, <1>4, <2>1, LeafCompletes DEF os, TypeOK
<1>5. ASSUME NEW j \in Job, jobs[j].state = "unused", jobs' = [jobs EXCEPT ![j] = FifoJob],
             suspend(cur, ReadFileEff(j), "eval")
      PROVE  IInv'
  <2>1. /\ TypeOK' /\ ControlInv' /\ PollInv' /\ ~AfterCleanup'
        /\ \A k \in Slot : /\ evals'[k].eff = IF k = cur THEN ReadFileEff(j) ELSE evals[k].eff
                           /\ evals'[k].active = evals[k].active
    <3>1. /\ children' \in [0 .. MAX_CHILDREN - 1 -> Child] /\ jobs' \in [Job -> JobRec]
          /\ winch_fd' \in BOOLEAN /\ ReadFileEff(j) \in Eff
      BY <1>1, <1>3, <1>5, RecordTypes DEF TypeOK
    <3>2. QED  BY <1>2, <1>3, <1>5, <3>1, SuspendInv
  <2>2. Ownership'
    BY <1>1, <1>2, <1>3, <1>5, <2>1, ReadFileStep
  <2>3. QED  BY <2>1, <2>2 DEF IInv
<1>6. QED  BY <1>4, <1>5 DEF leafReadFile

LEMMA leafExecStep ==
    ASSUME IInv, leafExec
    PROVE  IInv'
<1>1. TypeOK /\ ControlInv /\ Ownership /\ EffShape
  BY DEF IInv, Ownership
<1>2. /\ pc = "eval" /\ cur \in Slot /\ ~AfterCleanup /\ evals[cur].active
      /\ ~HasJob(evals[cur].eff)
  BY <1>1, LeafTask DEF leafExec, Tag
<1>3. UNCHANGED <<quit, pollfds, winch_fd, winsz, tnow, ret, cur, startGen, now, size, sigPend>>
  BY DEF leafExec
<1>4. PICK j \in Job, p \in Pid :
         /\ jobs[j].state = "unused" /\ p \notin LivePids
         /\ jobs' = [jobs EXCEPT ![j] = ChildJob(p)]
         /\ IF ChildTableFull
            THEN Panic /\ UNCHANGED <<table, children>>
            ELSE registerChild(cur, p) /\ suspend(cur, ExecEff(j, p), "eval")
  BY DEF leafExec
<1>5. jobs' \in [Job -> JobRec] /\ ExecEff(j, p) \in Eff
  BY <1>1, <1>4, RecordTypes DEF TypeOK
<1>6. CASE ChildTableFull
  <2>1. outcome' = "panic" /\ pc' = "exit" /\ UNCHANGED <<evals, nactive, model, children>>
    BY <1>4, <1>6 DEF Panic, table
  <2>2. TypeOK'
    BY <1>1, <1>3, <1>5, <2>1 DEF TypeOK
  <2>3. ControlInv' /\ PollInv'
    BY <1>1, <1>3, <2>1 DEF ControlInv, PollInv
  <2>4. KernelInv'
    <3>1. /\ jobs'[j].state = "running" /\ jobs'[j].pid = p
          /\ \A s \in Stream : jobs'[j].unread[s] <= jobs'[j].written[s]
          /\ \A k \in Job : k # j => jobs'[k] = jobs[k]
      BY <1>1, <1>4 DEF TypeOK, ChildJob, UnusedJob, NoBytes
    <3>2. \A k \in Job : Live(k) => jobs[k].pid # p
      BY <1>4 DEF LivePids, Live
    <3>3. QED  BY <1>1, <3>1, <3>2, NullAssumption DEF Ownership, KernelInv, Live
  <2>5. Ownership'
    BY <1>1, <2>1, <2>4, PanicStep DEF EffShape
  <2>6. QED  BY <2>2, <2>3, <2>5 DEF IInv
<1>7. CASE ~ChildTableFull
  <2>1. PICK n \in 0 .. MAX_CHILDREN - 1 :
           /\ Least(n, (0 .. MAX_CHILDREN - 1) \ PendingChildren)
           /\ children' = [children EXCEPT ![n] = [pid |-> p, eval |-> cur]]
    BY <1>4, <1>7 DEF registerChild
  <2>2. n \in (0 .. MAX_CHILDREN - 1) \ PendingChildren
    BY <2>1 DEF Least
  <2>3. children' \in [0 .. MAX_CHILDREN - 1 -> Child] /\ winch_fd' \in BOOLEAN
    BY <1>1, <1>2, <1>3, <2>1 DEF TypeOK, Child
  <2>4. suspend(cur, ExecEff(j, p), "eval")
    BY <1>4, <1>7
  <2>5. /\ TypeOK' /\ ControlInv' /\ PollInv' /\ ~AfterCleanup'
        /\ \A k \in Slot : /\ evals'[k].eff = IF k = cur THEN ExecEff(j, p) ELSE evals[k].eff
                           /\ evals'[k].active = evals[k].active
    BY <1>2, <1>3, <1>5, <2>3, <2>4, SuspendInv
  <2>6. Ownership'
    BY <1>1, <1>2, <1>4, <2>1, <2>2, <2>5, ExecStep
  <2>7. QED  BY <2>5, <2>6 DEF IInv
<1>8. QED  BY <1>6, <1>7

-----------------------------------------------------------------------------
(* The steps that complete an effect *)

LEMMA execCompleteStep ==
    ASSUME IInv, execComplete
    PROVE  IInv'
<1>1. TypeOK /\ Ownership /\ EffShape /\ pc = "complete" /\ ~AfterCleanup
  BY DEF IInv, Ownership, execComplete, AfterCleanup
<1>2. UNCHANGED <<quit, children, pollfds, winch_fd, winsz, tnow, ret, cur, startGen,
                  now, size, sigPend>>
  BY DEF execComplete
<1>3. PICK i \in Slot :
         LET eff == evals[i].eff IN
         /\ Least(i, {k \in Slot : Finished(k)})
         /\ jobs' = [jobs EXCEPT ![eff.job] = UnusedJob]
         /\ completeSuccess(i, <<eff.code, eff.buf["out"], eff.buf["err"]>>, "complete")
  BY DEF execComplete
<1>4. HasJob(evals[i].eff) /\ ~Unreaped(evals[i].eff)
  BY <1>3 DEF Least, Finished, HasJob, Unreaped
<1>5. TableOK /\ Cleared(i, "complete")
  BY <1>1, <1>3, ValTypes, SuccessClears
<1>6. jobs' = [jobs EXCEPT ![evals[i].eff.job] = UnusedJob] /\ jobs' \in [Job -> JobRec]
  BY <1>1, <1>3, RecordTypes DEF TypeOK
<1>7. quit' \in BOOLEAN /\ winch_fd' \in BOOLEAN
  BY <1>1, <1>2 DEF TypeOK
<1>8. TypeOK' /\ ControlInv' /\ PollInv'
  BY <1>1, <1>2, <1>5, <1>6, <1>7, ClearedInv
<1>9. Ownership'
  BY <1>1, <1>2, <1>4, <1>5, <1>6, ReleaseStep
<1>10. QED  BY <1>8, <1>9 DEF IInv

LEMMA sleepCompleteStep ==
    ASSUME IInv, sleepComplete
    PROVE  IInv'
<1>1. TypeOK /\ Ownership /\ EffShape /\ pc = "flush" /\ ~AfterCleanup
  BY DEF IInv, Ownership, sleepComplete, AfterCleanup
<1>2. UNCHANGED <<quit, children, pollfds, winch_fd, winsz, tnow, ret, cur, startGen,
                  jobs, now, size, sigPend>>
  BY DEF sleepComplete, LeafFrame, os
<1>3. PICK i \in Slot : Earliest(i, Expired) /\ completeSuccess(i, <<>>, "flush")
  BY DEF sleepComplete
<1>4. ~HasJob(evals[i].eff)
  BY <1>3 DEF Earliest, Expired, Sleeping, HasJob
<1>5. TableOK /\ Cleared(i, "flush")
  BY <1>1, <1>3, ValTypes, SuccessClears
<1>6. quit' \in BOOLEAN /\ winch_fd' \in BOOLEAN /\ jobs' \in [Job -> JobRec]
  BY <1>1, <1>2 DEF TypeOK
<1>7. TypeOK' /\ ControlInv' /\ PollInv'
  BY <1>1, <1>2, <1>5, <1>6, ClearedInv
<1>8. Ownership'
  BY <1>1, <1>2, <1>4, <1>5, ClearedStep
<1>9. QED  BY <1>7, <1>8 DEF IInv

LEMMA WinchCompleteStep ==
    ASSUME IInv, WinchComplete
    PROVE  IInv'
<1>1. TypeOK /\ Ownership /\ EffShape /\ PollInv /\ pc = "winch" /\ ~AfterCleanup
  BY DEF IInv, Ownership, WinchComplete, AfterCleanup
<1>2. UNCHANGED <<quit, children, pollfds, winch_fd, winsz, tnow, ret, cur, startGen,
                  jobs, now, size, sigPend>>
  BY DEF WinchComplete, LeafFrame, os
<1>3. PICK i \in Slot : Least(i, {k \in Slot : Waiting(k)}) /\ completeSuccess(i, <<winsz>>, "winch")
  BY DEF WinchComplete
<1>4. evals[i].eff.kind = "winch" /\ ~HasJob(evals[i].eff)
  BY <1>3 DEF Least, Waiting, HasJob
<1>5. TableOK /\ Cleared(i, "winch")
  BY <1>1, <1>3, ValTypes, SuccessClears
<1>6. quit' \in BOOLEAN /\ winch_fd' \in BOOLEAN /\ jobs' \in [Job -> JobRec]
  BY <1>1, <1>2 DEF TypeOK
<1>7. \A e \in pollfds' : e.eval = i => e.role = "winch"
  BY <1>1, <1>2, <1>4 DEF PollInv, TypeOK, PollFd, PollRole
<1>8. TypeOK' /\ ControlInv' /\ PollInv'
  BY <1>1, <1>2, <1>5, <1>6, <1>7, ClearedInv
<1>9. Ownership'
  BY <1>1, <1>2, <1>4, <1>5, ClearedStep
<1>10. QED  BY <1>8, <1>9 DEF IInv

\* Accumulated and unread bytes are at most what was written.
LEMMA DrainBytes ==
    ASSUME TypeOK, Ownership, ~AfterCleanup, NEW i \in Slot, HasJob(evals[i].eff), NEW s \in Stream
    PROVE  evals[i].eff.buf[s] + jobs[evals[i].eff.job].unread[s] \in 0 .. MAX_OUT
<1>1. evals[i].eff.job \in Job
  BY DEF Ownership, EffShape
<1>2. jobs[evals[i].eff.job].written[s] \in 0 .. MAX_OUT
  BY <1>1 DEF TypeOK, JobRec
<1>3. QED  BY <1>2 DEF Ownership, PipesOwned

LEMMA DrainInv ==
    ASSUME IInv, pc = "drain", NEW e \in pollfds, pollfds' = pollfds \ {e},
           e.role \in {"readfile", "exec_out", "exec_err"},
           NEW s \in Stream, NEW gone \in SUBSET {s},
           gone # {} => evals[e.eval].eff.kind = "exec",
           Drained(e.eval, evals[e.eval].eff.job, s, gone),
           jobs[evals[e.eval].eff.job].wopen \cap gone = {},
           evals' \in [Slot -> Eval], jobs' \in [Job -> JobRec],
           UNCHANGED <<nactive, model, quit, winch_fd, winsz, tnow, pc, ret, cur,
                       startGen, outcome, now, size, sigPend>>
    PROVE  IInv'
<1>1. TypeOK /\ Ownership /\ ControlInv /\ PollInv /\ ~AfterCleanup /\ ~AfterCleanup'
  BY DEF IInv, AfterCleanup
<1>2. e.eval \in Slot
  BY <1>1 DEF TypeOK, PollFd
<1>3. HasJob(evals[e.eval].eff)
  BY <1>1 DEF PollInv, HasJob
<1>4. Ownership'
  BY <1>1, <1>2, <1>3, DrainStep
<1>5. \A k \in Slot : evals'[k].eff.kind = evals[k].eff.kind
  BY <1>2 DEF Drained, DrainedEff
<1>6. children' = children
  BY DEF Drained
<1>7. TypeOK'
  BY <1>1, <1>6 DEF TypeOK
<1>8. ControlInv'
  BY <1>1 DEF ControlInv, AfterCleanup
<1>9. PollInv'
  BY <1>1, <1>5 DEF PollInv, TypeOK, PollFd
<1>10. QED  BY <1>4, <1>7, <1>8, <1>9 DEF IInv

LEMMA DrainedJobType ==
    ASSUME NEW old \in JobRec, NEW s \in Stream, NEW gone, NEW new,
           new = [old EXCEPT !.unread = [old.unread EXCEPT ![s] = 0], !.ropen = old.ropen \ gone]
    PROVE  new \in JobRec /\ DrainedJob(old, new, s, gone)
<1>1. 0 \in 0 .. MAX_OUT
  BY BoundAssumption
<1>2. old.unread \in [Stream -> 0 .. MAX_OUT] /\ old.ropen \ gone \in SUBSET Stream
  BY DEF JobRec
<1>3. [old.unread EXCEPT ![s] = 0] \in [Stream -> 0 .. MAX_OUT]
  BY <1>1, <1>2
<1>4. new \in JobRec
  BY <1>2, <1>3 DEF JobRec
<1>5. /\ new.state = old.state /\ new.pid = old.pid /\ new.code = old.code
      /\ new.wopen = old.wopen /\ new.written = old.written
      /\ new.ropen = old.ropen \ gone
      /\ new.unread = [old.unread EXCEPT ![s] = 0]
  BY DEF JobRec
<1>6. \A u \in Stream : new.unread[u] = IF u = s THEN 0 ELSE old.unread[u]
  BY <1>2, <1>5
<1>7. QED  BY <1>4, <1>5, <1>6 DEF DrainedJob

LEMMA readFileDrainStep ==
    ASSUME IInv, readFileDrain
    PROVE  IInv'
<1>1. TypeOK /\ Ownership /\ EffShape /\ PollInv /\ pc = "drain" /\ ~AfterCleanup
  BY DEF IInv, Ownership, readFileDrain, AfterCleanup
<1>2. UNCHANGED <<quit, children, winch_fd, winsz, tnow, ret, cur, startGen,
                  now, size, sigPend>>
  BY DEF readFileDrain
<1>3. PICK e \in pollfds :
         LET i == e.eval
             j == evals[i].eff.job
             bytes == evals[i].eff.buf["out"] + jobs[j].unread["out"]
         IN  /\ e.role = "readfile" /\ pollfds' = pollfds \ {e}
             /\ IF "out" \in jobs[j].wopen
                THEN /\ evals' = [evals EXCEPT ![i].eff.buf["out"] = bytes]
                     /\ jobs' = [jobs EXCEPT ![j].unread["out"] = 0]
                     /\ UNCHANGED <<nactive, model, outcome, pc>>
                ELSE /\ completeSuccess(i, <<bytes>>, "drain")
                     /\ jobs' = [jobs EXCEPT ![j] = UnusedJob]
  BY DEF readFileDrain
<1> DEFINE i == e.eval
           j == evals[i].eff.job
           bytes == evals[i].eff.buf["out"] + jobs[j].unread["out"]
<1>4. /\ i \in Slot /\ evals[i].eff.kind = "readfile" /\ e.role = "readfile"
      /\ HasJob(evals[i].eff) /\ ~Unreaped(evals[i].eff)
  BY <1>1, <1>3 DEF TypeOK, PollFd, PollInv, HasJob, Unreaped
<1>5. j \in Job /\ "out" \in Stream /\ bytes \in 0 .. MAX_OUT
  BY <1>1, <1>4, DrainBytes DEF EffShape, Stream
<1>6. evals[i] \in Eval /\ evals[i].eff \in Eff /\ jobs[j] \in JobRec
  BY <1>1, <1>4, <1>5 DEF TypeOK, Eval, EvalRec
<1>7. CASE "out" \in jobs[j].wopen
  <2>1. /\ evals' = [evals EXCEPT ![i].eff.buf["out"] = bytes]
        /\ jobs' = [jobs EXCEPT ![j].unread["out"] = 0]
        /\ pollfds' = pollfds \ {e} /\ UNCHANGED <<nactive, model, outcome, pc>>
    BY <1>3, <1>7
  <2> DEFINE eff == [evals[i].eff EXCEPT !.buf = [evals[i].eff.buf EXCEPT !["out"] = bytes]]
             job == [jobs[j] EXCEPT !.unread = [jobs[j].unread EXCEPT !["out"] = 0],
                                    !.ropen = jobs[j].ropen \ {}]
  <2>2. evals' = [evals EXCEPT ![i] = [evals[i] EXCEPT !.eff = eff]]
    BY <1>1, <1>4, <1>6, <2>1 DEF TypeOK, Eval, EvalRec, Eff
  <2>3. jobs' = [jobs EXCEPT ![j] = job]
    <3>1. jobs[j].ropen \ {} = jobs[j].ropen
      OBVIOUS
    <3>2. job = [jobs[j] EXCEPT !.unread = [jobs[j].unread EXCEPT !["out"] = 0]]
      BY <1>6, <3>1 DEF JobRec
    <3>3. jobs' = [jobs EXCEPT ![j] = [jobs[j] EXCEPT !.unread = [jobs[j].unread EXCEPT !["out"] = 0]]]
      BY <1>1, <1>5, <1>6, <2>1 DEF TypeOK, JobRec
    <3>4. QED  BY <3>2, <3>3
  <2>4. eff \in Eff /\ DrainedEff(evals[i].eff, eff, "out", jobs[j].unread["out"], {})
    BY <1>5, <1>6 DEF Eff, DrainedEff
  <2>5. job \in JobRec /\ DrainedJob(jobs[j], job, "out", {})
    BY <1>5, <1>6, DrainedJobType
  <2>6. [evals[i] EXCEPT !.eff = eff] \in Eval /\ [evals[i] EXCEPT !.eff = eff].eff = eff
        /\ [evals[i] EXCEPT !.eff = eff].active = evals[i].active
    BY <1>6, <2>4 DEF Eval, EvalRec
  <2>7. evals' \in [Slot -> Eval] /\ jobs' \in [Job -> JobRec]
    BY <1>1, <2>2, <2>3, <2>5, <2>6 DEF TypeOK
  <2>8. /\ evals'[i].eff = eff /\ evals'[i].active = evals[i].active /\ jobs'[j] = job
        /\ \A k \in Slot : k # i => evals'[k] = evals[k]
        /\ \A k \in Job : k # j => jobs'[k] = jobs[k]
    BY <1>1, <1>4, <1>5, <2>2, <2>3, <2>6 DEF TypeOK
  <2>9. Drained(i, j, "out", {})
    BY <1>2, <2>4, <2>5, <2>8 DEF Drained
  <2>10. {} \in SUBSET {"out"} /\ jobs[j].wopen \cap {} = {}
    OBVIOUS
  <2>11. QED  BY <1>1, <1>2, <1>4, <1>5, <2>1, <2>7, <2>9, <2>10, DrainInv
<1>8. CASE "out" \notin jobs[j].wopen
  <2>1. /\ completeSuccess(i, <<bytes>>, "drain") /\ jobs' = [jobs EXCEPT ![j] = UnusedJob]
        /\ pollfds' = pollfds \ {e}
    BY <1>3, <1>8
  <2>2. TableOK /\ Cleared(i, "drain")
    BY <1>1, <1>4, <1>5, <2>1, ValTypes, SuccessClears
  <2>3. quit' \in BOOLEAN /\ winch_fd' \in BOOLEAN /\ jobs' \in [Job -> JobRec]
    BY <1>1, <1>2, <2>1, RecordTypes DEF TypeOK
  <2>4. \A f \in pollfds' : f.eval = i => f.role = "winch"
    <3>1. SUFFICES ASSUME NEW f \in pollfds, f # e, f.eval = i
                   PROVE  f.role = "winch"
      BY <2>1
    <3>2. f \in PollFd /\ e \in PollFd
      BY <1>1 DEF TypeOK
    <3>3. f.role # "readfile"
      BY <1>4, <3>1, <3>2 DEF PollFd
    <3>4. f.role \notin {"exec_out", "exec_err"}
      BY <1>1, <1>4, <3>1 DEF PollInv
    <3>5. QED  BY <3>2, <3>3, <3>4 DEF PollFd, PollRole
  <2>5. TypeOK' /\ ControlInv' /\ PollInv'
    BY <1>1, <1>2, <1>4, <2>1, <2>2, <2>3, <2>4, ClearedInv
  <2>6. Ownership'
    BY <1>1, <1>2, <1>4, <2>1, <2>2, ReleaseStep
  <2>7. QED  BY <2>5, <2>6 DEF IInv
<1>9. QED  BY <1>7, <1>8

LEMMA execDrainStep ==
    ASSUME IInv, execDrain
    PROVE  IInv'
<1>1. TypeOK /\ Ownership /\ EffShape /\ PollInv /\ pc = "drain" /\ ~AfterCleanup
  BY DEF IInv, Ownership, execDrain, AfterCleanup
<1>2. UNCHANGED <<nactive, model, quit, children, winch_fd, winsz, tnow, pc, ret, cur,
                  startGen, outcome, now, size, sigPend>>
  BY DEF execDrain, control
<1>3. PICK e \in pollfds :
         LET i == e.eval
             j == evals[i].eff.job
             s == StreamOf(e.role)
             eof == s \notin jobs[j].wopen
         IN  /\ e.role \in {"exec_out", "exec_err"} /\ pollfds' = pollfds \ {e}
             /\ IF s \in evals[i].eff.open
                THEN /\ evals' = [evals EXCEPT
                           ![i].eff.buf[s] = @ + jobs[j].unread[s],
                           ![i].eff.open = IF eof THEN @ \ {s} ELSE @]
                     /\ jobs' = [jobs EXCEPT
                           ![j].unread[s] = 0,
                           ![j].ropen = IF eof THEN @ \ {s} ELSE @]
                ELSE UNCHANGED <<evals, jobs>>
  BY DEF execDrain
<1> DEFINE i == e.eval
           j == evals[i].eff.job
           s == StreamOf(e.role)
           gone == IF s \notin jobs[j].wopen THEN {s} ELSE {}
           bytes == evals[i].eff.buf[s] + jobs[j].unread[s]
<1>4. /\ i \in Slot /\ evals[i].eff.kind = "exec" /\ HasJob(evals[i].eff)
      /\ e.role \in {"exec_out", "exec_err"} /\ s \in Stream
  BY <1>1, <1>3 DEF TypeOK, PollFd, PollInv, HasJob, StreamOf, Stream
<1>5. j \in Job /\ bytes \in 0 .. MAX_OUT
  BY <1>1, <1>4, DrainBytes DEF EffShape
<1>6. evals[i] \in Eval /\ evals[i].eff \in Eff /\ jobs[j] \in JobRec
  BY <1>1, <1>4, <1>5 DEF TypeOK, Eval, EvalRec
<1>7. CASE s \in evals[i].eff.open
  <2>1. /\ evals' = [evals EXCEPT ![i].eff.buf[s] = bytes,
                                  ![i].eff.open = @ \ gone]
        /\ jobs' = [jobs EXCEPT ![j].unread[s] = 0, ![j].ropen = @ \ gone]
    <3>1. CASE s \in jobs[j].wopen
      BY <1>3, <1>7, <3>1
    <3>2. CASE s \notin jobs[j].wopen
      BY <1>3, <1>7, <3>2
    <3>3. QED  BY <3>1, <3>2
  <2> DEFINE eff == [evals[i].eff EXCEPT !.buf = [evals[i].eff.buf EXCEPT ![s] = bytes],
                                         !.open = evals[i].eff.open \ gone]
             job == [jobs[j] EXCEPT !.unread = [jobs[j].unread EXCEPT ![s] = 0],
                                    !.ropen = jobs[j].ropen \ gone]
  <2>2. evals' = [evals EXCEPT ![i] = [evals[i] EXCEPT !.eff = eff]]
    BY <1>1, <1>4, <1>6, <2>1 DEF TypeOK, Eval, EvalRec, Eff
  <2>3. jobs' = [jobs EXCEPT ![j] = job]
    BY <1>1, <1>5, <1>6, <2>1 DEF TypeOK, JobRec
  <2>4. eff \in Eff /\ DrainedEff(evals[i].eff, eff, s, jobs[j].unread[s], gone)
    BY <1>4, <1>5, <1>6 DEF Eff, DrainedEff
  <2>5. job \in JobRec /\ DrainedJob(jobs[j], job, s, gone)
    BY <1>4, <1>6, DrainedJobType
  <2>6. [evals[i] EXCEPT !.eff = eff] \in Eval /\ [evals[i] EXCEPT !.eff = eff].eff = eff
        /\ [evals[i] EXCEPT !.eff = eff].active = evals[i].active
    BY <1>6, <2>4 DEF Eval, EvalRec
  <2>7. evals' \in [Slot -> Eval] /\ jobs' \in [Job -> JobRec]
    BY <1>1, <2>2, <2>3, <2>5, <2>6 DEF TypeOK
  <2>8. /\ evals'[i].eff = eff /\ evals'[i].active = evals[i].active /\ jobs'[j] = job
        /\ \A k \in Slot : k # i => evals'[k] = evals[k]
        /\ \A k \in Job : k # j => jobs'[k] = jobs[k]
    BY <1>1, <1>4, <1>5, <2>2, <2>3, <2>6 DEF TypeOK
  <2>9. Drained(i, j, s, gone)
    BY <1>2, <2>4, <2>5, <2>8 DEF Drained
  <2>10. gone \in SUBSET {s} /\ jobs[j].wopen \cap gone = {}
    OBVIOUS
  <2>11. pollfds' = pollfds \ {e} /\ e.role \in {"readfile", "exec_out", "exec_err"}
    BY <1>3, <1>4
  <2>12. QED  BY <1>1, <1>2, <1>4, <1>5, <2>7, <2>9, <2>10, <2>11, DrainInv
<1>8. CASE s \notin evals[i].eff.open
  <2>1. UNCHANGED <<evals, jobs>> /\ pollfds' \subseteq pollfds
    BY <1>3, <1>8
  <2>2. Ownership'
    BY <1>1, <1>2, <2>1, QuietOwnership DEF Quiet, AfterCleanup
  <2>3. TypeOK'
    BY <1>1, <1>2, <2>1 DEF TypeOK
  <2>4. ControlInv' /\ PollInv'
    BY <1>1, <1>2, <2>1 DEF IInv, ControlInv, PollInv, AfterCleanup
  <2>5. QED  BY <2>2, <2>3, <2>4 DEF IInv
<1>9. QED  BY <1>7, <1>8

-----------------------------------------------------------------------------
(* Reaping, cleaning up, and the environment *)

LEMMA ReapActions ==
    ASSUME IInv, ReapBeforePoll \/ reapBlocking \/ ReapAfterPoll
    PROVE  IInv'
<1>1. TypeOK /\ ControlInv /\ PollInv /\ Ownership /\ KernelInv
  BY DEF IInv, Ownership
<1>2. /\ ~AfterCleanup /\ ~AfterCleanup' /\ outcome # "panic"
      /\ pc' \in {"complete", "winch_read", "drain"} /\ ret' \in {"outer", "inner", "blocked", "polled"}
      /\ UNCHANGED <<quit, pollfds, winch_fd, winsz, tnow, cur, startGen, outcome, now, size, sigPend>>
  BY <1>1 DEF ReapBeforePoll, reapBlocking, ReapAfterPoll, AfterCleanup, ControlInv, TypeOK
<1>3. PICK dead \in SUBSET PendingChildren : Reap(dead) /\ \A k \in dead : Exited(children[k].pid)
  <2>1. CASE ReapBeforePoll \/ ReapAfterPoll
    <3>1. Reap({k \in PendingChildren : Exited(children[k].pid)})
      BY <2>1 DEF ReapBeforePoll, ReapAfterPoll, reapChildren
    <3>2. QED  BY <3>1
  <2>2. CASE reapBlocking
    <3>1. PICK k \in PendingChildren : Exited(children[k].pid) /\ Reap({k})
      BY <2>2 DEF reapBlocking
    <3>2. QED  BY <3>1
  <2>3. QED  BY <2>1, <2>2
<1>4. /\ evals' \in [Slot -> Eval]
      /\ children' \in [0 .. MAX_CHILDREN - 1 -> Child]
      /\ jobs' \in [Job -> JobRec]
      /\ \A i \in Slot : evals'[i].eff.kind = evals[i].eff.kind
      /\ UNCHANGED <<nactive, model>>
  BY <1>1, <1>3, ReapType
<1>5. TypeOK'
  BY <1>1, <1>2, <1>4 DEF TypeOK
<1>6. ControlInv'
  BY <1>1, <1>2 DEF ControlInv, AfterCleanup
<1>7. PollInv'
  <2>1. pc' \in {"winch_read", "drain"} => pc = "wake"
    BY DEF ReapBeforePoll, reapBlocking, ReapAfterPoll
  <2>2. QED  BY <1>1, <1>2, <1>4, <2>1 DEF PollInv, TypeOK, PollFd
<1>8. Ownership'
  BY <1>1, <1>2, <1>3, ReapStep
<1>9. QED  BY <1>5, <1>6, <1>7, <1>8 DEF IInv

LEMMA CleanupActions ==
    ASSUME IInv, CleanupEffects \/ CleanupReap
    PROVE  IInv'
<1>1. TypeOK /\ ControlInv /\ PollInv /\ Ownership /\ KernelInv
  BY DEF IInv, Ownership
<1>2. CASE CleanupEffects
  <2>1. /\ pc = "cleanup" /\ pc' = "cleanup_wait" /\ winch_fd' = FALSE
        /\ UNCHANGED <<nactive, model, quit, children, pollfds, winsz, tnow, ret, cur,
                       startGen, outcome, now, size, sigPend>>
    BY <1>2 DEF CleanupEffects
  <2>2. evals' \in [Slot -> Eval]
    BY <1>1, <1>2, RecordTypes DEF CleanupEffects, TypeOK, Eval, EvalRec
  <2>3. jobs' \in [Job -> JobRec]
    <3>1. SUFFICES ASSUME NEW j \in Job
                   PROVE  [jobs[j] EXCEPT !.ropen = @ \ UNION {evals[i].eff.open : i \in Held(j)}] \in JobRec
      BY <1>1, <1>2, RecordTypes DEF CleanupEffects, TypeOK
    <3>2. QED  BY <1>1 DEF TypeOK, JobRec
  <2>4. TypeOK'
    BY <1>1, <2>1, <2>2, <2>3 DEF TypeOK
  <2>5. ControlInv' /\ PollInv'
    BY <1>1, <2>1 DEF ControlInv, PollInv, AfterCleanup
  <2>6. Ownership'
    BY <1>1, <1>2, CleanupEffectsStep
  <2>7. QED  BY <2>4, <2>5, <2>6 DEF IInv
<1>3. CASE CleanupReap
  <2>1. /\ pc = "cleanup_wait" /\ UNCHANGED <<quit, pollfds, winch_fd, winsz, tnow, pc, ret, cur,
                                              startGen, outcome, now, size, sigPend>>
        /\ AfterCleanup /\ AfterCleanup' /\ outcome # "panic"
    BY <1>1, <1>3 DEF CleanupReap, control, ControlInv, AfterCleanup
  <2>2. PICK n \in PendingChildren : Exited(children[n].pid) /\ Reap({n})
    BY <1>3 DEF CleanupReap
  <2>3. /\ evals' \in [Slot -> Eval] /\ children' \in [0 .. MAX_CHILDREN - 1 -> Child]
        /\ jobs' \in [Job -> JobRec] /\ UNCHANGED <<nactive, model>>
    BY <1>1, <2>2, ReapType
  <2>4. TypeOK'
    BY <1>1, <2>1, <2>3 DEF TypeOK
  <2>5. ControlInv' /\ PollInv'
    BY <1>1, <2>1 DEF ControlInv, PollInv, AfterCleanup
  <2>6. Ownership'
    BY <1>1, <2>1, <2>2, CleanupReapStep
  <2>7. QED  BY <2>4, <2>5, <2>6 DEF IInv
<1>4. QED  BY <1>2, <1>3

LEMMA EnvActions ==
    ASSUME IInv, EnvStep
    PROVE  IInv'
<1>1. TypeOK /\ ControlInv /\ PollInv /\ Ownership
  BY DEF IInv
<1>2. ASSUME NEW j \in Job, OneJobMoves(j), jobs' \in [Job -> JobRec], UNCHANGED <<loop, now, size, sigPend>>
      PROVE  IInv'
  <2>1. Ownership'
    BY <1>1, <1>2, OneJobStep
  <2>2. TypeOK'
    BY <1>1, <1>2 DEF TypeOK, loop, table, control
  <2>3. ControlInv'
    BY <1>1, <1>2 DEF ControlInv, AfterCleanup, PendingChildren, loop, table, control
  <2>4. PollInv'
    BY <1>1, <1>2 DEF PollInv, loop, table, control
  <2>5. QED  BY <2>1, <2>2, <2>3, <2>4 DEF IInv
<1>3. ASSUME NEW j \in Job, NEW s \in Stream, Produce(j, s)
      PROVE  IInv'
  <2>1. /\ s \in jobs[j].wopen /\ jobs[j].written[s] < MAX_OUT
        /\ jobs' = [jobs EXCEPT ![j].written[s] = @ + 1, ![j].unread[s] = @ + 1]
        /\ UNCHANGED <<loop, now, size, sigPend>>
    BY <1>3 DEF Produce
  <2>2. /\ jobs[j] \in JobRec /\ jobs[j].unread[s] \in 0 .. MAX_OUT /\ jobs[j].written[s] \in 0 .. MAX_OUT
        /\ jobs[j].unread[s] <= jobs[j].written[s]
    BY <1>1 DEF TypeOK, JobRec, Ownership, KernelInv
  <2>3. jobs[j].unread[s] + 1 \in 0 .. MAX_OUT /\ jobs[j].written[s] + 1 \in 0 .. MAX_OUT
    BY <2>1, <2>2, BoundAssumption
  <2> DEFINE job == [jobs[j] EXCEPT !.written = [jobs[j].written EXCEPT ![s] = jobs[j].written[s] + 1],
                                    !.unread = [jobs[j].unread EXCEPT ![s] = jobs[j].unread[s] + 1]]
  <2>4. jobs' = [jobs EXCEPT ![j] = job]
    BY <1>1, <2>1, <2>2 DEF TypeOK, JobRec
  <2>5. /\ job.written = [jobs[j].written EXCEPT ![s] = jobs[j].written[s] + 1]
        /\ job.unread = [jobs[j].unread EXCEPT ![s] = jobs[j].unread[s] + 1]
        /\ job.state = jobs[j].state /\ job.pid = jobs[j].pid /\ job.code = jobs[j].code
        /\ job.wopen = jobs[j].wopen /\ job.ropen = jobs[j].ropen
        /\ job \in JobRec
    BY <2>2, <2>3 DEF JobRec
  <2>6. \A u \in Stream : IF u = s
                          THEN job.unread[u] = jobs[j].unread[u] + 1 /\ job.written[u] = jobs[j].written[u] + 1
                          ELSE job.unread[u] = jobs[j].unread[u] /\ job.written[u] = jobs[j].written[u]
    BY <2>2, <2>5 DEF JobRec
  <2>7. jobs'[j] = job /\ (\A k \in Job : k # j => jobs'[k] = jobs[k]) /\ jobs' \in [Job -> JobRec]
    BY <1>1, <2>4, <2>5 DEF TypeOK
  <2>8. OneJobMoves(j)
    BY <2>1, <2>5, <2>6, <2>7 DEF OneJobMoves
  <2>9. QED  BY <1>2, <2>1, <2>7, <2>8
<1>4. ASSUME NEW j \in Job, NEW s \in Stream, CloseStream(j, s)
      PROVE  IInv'
  <2>1. /\ jobs' = [jobs EXCEPT ![j] = [jobs[j] EXCEPT !.wopen = jobs[j].wopen \ {s}]]
        /\ UNCHANGED <<loop, now, size, sigPend>>
    BY <1>1, <1>4 DEF CloseStream, TypeOK
  <2>2. jobs[j] \in JobRec
    BY <1>1 DEF TypeOK
  <2>3. [jobs[j] EXCEPT !.wopen = jobs[j].wopen \ {s}] \in JobRec
    BY <2>2 DEF JobRec
  <2>4. OneJobMoves(j) /\ jobs' \in [Job -> JobRec]
    BY <1>1, <2>1, <2>2, <2>3 DEF OneJobMoves, TypeOK, JobRec
  <2>5. QED  BY <1>2, <2>1, <2>4
<1>5. ASSUME NEW j \in Job, ChildExit(j)
      PROVE  IInv'
  <2>1. PICK c \in Code : jobs' = [jobs EXCEPT ![j].state = "zombie", ![j].code = c]
    BY <1>5 DEF ChildExit
  <2>2. jobs[j].state = "running" /\ UNCHANGED <<loop, now, size, sigPend>> /\ jobs[j] \in JobRec
    BY <1>1, <1>5 DEF ChildExit, TypeOK
  <2>3. jobs' = [jobs EXCEPT ![j] = [jobs[j] EXCEPT !.state = "zombie", !.code = c]]
    BY <1>1, <2>1 DEF TypeOK
  <2>4. [jobs[j] EXCEPT !.state = "zombie", !.code = c] \in JobRec
    BY <2>2 DEF JobRec
  <2>5. OneJobMoves(j) /\ jobs' \in [Job -> JobRec]
    BY <1>1, <2>2, <2>3, <2>4 DEF OneJobMoves, TypeOK, JobRec
  <2>6. QED  BY <1>2, <2>2, <2>5
<1>6. ASSUME Tick \/ Resize
      PROVE  IInv'
  <2>1. UNCHANGED <<loop, jobs>>
    BY <1>6 DEF Tick, Resize
  <2>2. TypeOK'
    BY <1>1, <1>6, BoundAssumption DEF TypeOK, Tick, Resize, loop, table, control
  <2>3. now \in Int /\ tnow \in Int /\ now' \in Int /\ now' >= now
    BY <1>1, <1>6 DEF Tick, Resize, TypeOK
  <2>4. ControlInv'
    <3>1. tnow' = tnow /\ tnow <= now
      BY <1>1, <2>1 DEF ControlInv, loop
    <3>2. tnow' <= now'
      BY <2>3, <3>1
    <3>3. QED  BY <1>1, <2>1, <3>2 DEF ControlInv, AfterCleanup, PendingChildren, loop, table, control
  <2>5. PollInv'
    BY <1>1, <2>1 DEF PollInv, loop, table, control
  <2>6. Ownership'
    BY <1>1, <2>1, QuietOwnership DEF Quiet, AfterCleanup, loop, table, control
  <2>7. QED  BY <2>2, <2>4, <2>5, <2>6 DEF IInv
<1>7. QED  BY <1>3, <1>4, <1>5, <1>6 DEF EnvStep

-----------------------------------------------------------------------------
(* The inductive invariant *)

LEMMA InitInv == Init => IInv
<1> SUFFICES ASSUME Init PROVE IInv
  OBVIOUS
<1>1. MAX_EVALS \in Nat /\ MAX_EVALS > 0 /\ GENS \in Nat /\ GENS > 1 /\ MAX_TIME \in Nat
  BY BoundAssumption
<1> DEFINE idle == [i \in Slot |-> Idle(0)]
<1>2. idle \in [Slot -> Eval]
  BY <1>1, EvalTypes
<1>3. PICK p \in Program : /\ model = p.model /\ nactive = Len(p.cmd)
                           /\ evals = spawnFromCmd(idle, p.cmd)
  BY DEF Init
<1>4. p.model \in Model /\ p.cmd \in Seq(Task) /\ Len(p.cmd) \in Nat
  BY <1>3, ProgramAssumption
<1>5. evals \in [Slot -> Eval] /\ \A i \in Slot : evals[i].eff = NoEff
  <2>1. \A i \in Slot : idle[i].eff = NoEff
    BY DEF Idle
  <2>2. /\ spawnFromCmd(idle, p.cmd) \in [Slot -> Eval]
        /\ \A i \in Slot : \/ spawnFromCmd(idle, p.cmd)[i] = idle[i]
                           \/ spawnFromCmd(idle, p.cmd)[i].eff = NoEff
    BY <1>2, <1>4, SpawnType
  <2>3. QED  BY <1>3, <2>1, <2>2
<1>6. TypeOK
  <2>1. children \in [0 .. MAX_CHILDREN - 1 -> Child] /\ jobs \in [Job -> JobRec]
    BY RecordTypes DEF Init
  <2>2. nactive \in Int /\ model \in Model
    BY <1>3, <1>4
  <2>3. /\ 0 \in 0 .. MAX_TIME /\ 0 \in 0 .. MAX_EVALS /\ 0 \in 0 .. GENS - 1
    BY <1>1
  <2>4. QED  BY <1>5, <2>1, <2>2, <2>3 DEF TypeOK, Init
<1>7. ControlInv /\ PollInv
  BY DEF ControlInv, PollInv, AfterCleanup, Init
<1>8. PendingChildren = {}
  BY DEF Init, PendingChildren, FreeChild
<1>9. \A j \in Job : /\ jobs[j].state = "unused" /\ jobs[j].pid = NoPid /\ jobs[j].ropen = {}
                     /\ \A s \in Stream : jobs[j].unread[s] <= jobs[j].written[s]
  BY DEF Init, UnusedJob, NoBytes
<1>10. ~AfterCleanup
  BY DEF Init, AfterCleanup
<1>11. EffShape /\ JobMatches /\ PipesOwned
  BY <1>5, NoEffFields DEF EffShape, JobMatches, PipesOwned
<1>12. KernelInv
  BY <1>9, NullAssumption DEF KernelInv, Live
<1>13. JobOwned
  BY <1>9 DEF JobOwned
<1>14. ChildOwned
  BY <1>5, <1>8, NoEffFields DEF ChildOwned
<1>15. CleanupInv
  BY <1>10 DEF CleanupInv
<1>16. QED
  BY <1>6, <1>7, <1>11, <1>12, <1>13, <1>14, <1>15 DEF IInv, Ownership

LEMMA NextInv == IInv /\ [Next]_vars => IInv'
<1> SUFFICES ASSUME IInv, [Next]_vars PROVE IInv'
  OBVIOUS
<1>1. ASSUME UNCHANGED vars PROVE IInv'
  <2>1. UNCHANGED <<evals, nactive, model, quit, children, pollfds, winch_fd, winsz, tnow,
                    pc, ret, cur, startGen, outcome, jobs, now, size, sigPend>>
    BY <1>1 DEF vars, loop, table, control, os
  <2>2. TypeOK' /\ ControlInv' /\ PollInv'
    BY <2>1 DEF IInv, TypeOK, ControlInv, PollInv, AfterCleanup, PendingChildren
  <2>3. Ownership'
    BY <2>1, QuietOwnership DEF IInv, Quiet, AfterCleanup
  <2>4. QED  BY <2>2, <2>3 DEF IInv
<1>2. CASE stepEval
  <2>1. CASE Succeed \/ Fail \/ SyncLeaf \/ leafNow \/ leafWinSize \/ DropMalformed \/ leafQuit
    BY <2>1, SynchronousLeaves
  <2>2. CASE PushFrame
    BY <2>2, PushFrameStep
  <2>3. CASE leafReadFile
    BY <2>3, leafReadFileStep
  <2>4. CASE leafExec
    BY <2>4, leafExecStep
  <2>5. CASE leafExecFails
    BY <2>5, QuietActions DEF QuietStepOfLoop
  <2>6. CASE leafSleep
    BY <2>6, leafSleepStep
  <2>7. CASE leafWaitResize
    BY <2>7, leafWaitResizeStep
  <2>8. QED  BY <1>2, <2>1, <2>2, <2>3, <2>4, <2>5, <2>6, <2>7 DEF stepEval
<1>3. CASE QuietStepOfLoop
  BY <1>3, QuietActions
<1>4. CASE ReapBeforePoll \/ reapBlocking \/ ReapAfterPoll
  BY <1>4, ReapActions
<1>5. CASE execComplete
  BY <1>5, execCompleteStep
<1>6. CASE WinchComplete
  BY <1>6, WinchCompleteStep
<1>7. CASE readFileDrain
  BY <1>7, readFileDrainStep
<1>8. CASE execDrain
  BY <1>8, execDrainStep
<1>9. CASE sleepComplete
  BY <1>9, sleepCompleteStep
<1>10. CASE CleanupEffects \/ CleanupReap
  BY <1>10, CleanupActions
<1>11. CASE EnvStep
  BY <1>11, EnvActions
<1>12. CASE Terminated
  BY <1>1, <1>12 DEF Terminated
<1>13. QED
  BY <1>1, <1>2, <1>3, <1>4, <1>5, <1>6, <1>7, <1>8, <1>9, <1>10, <1>11, <1>12
     DEF Next, HostStep, QuietStepOfLoop

\* Every run keeps its types, its place and its ownership: the invariant the
\* theorems below are read off.
THEOREM Invariance == Spec => []IInv
<1>1. Init => IInv
  BY InitInv
<1>2. IInv /\ [Next]_vars => IInv'
  BY NextInv
<1>3. QED  BY <1>1, <1>2, PTL DEF Spec

-----------------------------------------------------------------------------
(* What follows *)

\* Every variable keeps its type, the tables and the byte counts their bounds.
THEOREM TypeCorrect == Spec => []TypeOK
<1>1. IInv => TypeOK
  BY DEF IInv
<1>2. QED  BY <1>1, Invariance, PTL

\* registerChild, reapChildren and the reuse of slots keep the child table and
\* the suspended execs one to one.
THEOREM ChildrenOwned == Spec => []ChildOwned
<1>1. IInv => ChildOwned
  BY DEF IInv, Ownership
<1>2. QED  BY <1>1, Invariance, PTL

\* readFileDrain, execDrain and cleanup account for every byte and every end of
\* every pipe.
THEOREM AllPipesOwned == Spec => []PipesOwned
<1>1. IInv => PipesOwned
  BY DEF IInv, Ownership
<1>2. QED  BY <1>1, Invariance, PTL

\* drainReady never reads a field of the effect union that is not there.
THEOREM DrainSafe == Spec => []DrainTagMatches
<1>1. IInv => DrainTagMatches
  BY DEF IInv, PollInv, DrainTagMatches
<1>2. QED  BY <1>1, Invariance, PTL

\* No forked process is out of sight: unreaped means listed, and the reverse.
THEOREM ChildrenInSight == Spec => []NoLostChild
<1>1. IInv => NoLostChild
  <2>1. SUFFICES ASSUME IInv, outcome # "panic"
                 PROVE  {children[k].pid : k \in PendingChildren} = LivePids
    BY DEF NoLostChild
  <2>2. LivePids = {jobs[j].pid : j \in {m \in Job : Live(m)}}
    BY DEF LivePids, Live
  <2>3. SUFFICES /\ \A k \in PendingChildren : \E j \in Job : Live(j) /\ jobs[j].pid = children[k].pid
                 /\ \A j \in Job : Live(j) => \E k \in PendingChildren : children[k].pid = jobs[j].pid
    BY <2>2
  <2>4. CASE AfterCleanup
    BY <2>1, <2>4 DEF IInv, Ownership, CleanupInv
  <2>5. CASE ~AfterCleanup
    <3>1. EffShape /\ JobMatches /\ JobOwned /\ ChildOwned /\ TypeOK
      BY <2>1 DEF IInv, Ownership
    <3>2. \A k \in PendingChildren : \E j \in Job : Live(j) /\ jobs[j].pid = children[k].pid
      <4>1. SUFFICES ASSUME NEW k \in PendingChildren, NEW i, i = children[k].eval
                     PROVE  LET j == evals[i].eff.job
                            IN  j \in Job /\ Live(j) /\ jobs[j].pid = children[k].pid
        OBVIOUS
      <4>2. i \in Slot /\ Unreaped(evals[i].eff) /\ evals[i].eff.pid = children[k].pid
        BY <2>5, <3>1, <4>1 DEF ChildOwned, PendingChildren, TypeOK, Child
      <4>3. QED  BY <2>5, <3>1, <4>1, <4>2 DEF EffShape, JobMatches, Live, Unreaped, HasJob
    <3>3. \A j \in Job : Live(j) => \E k \in PendingChildren : children[k].pid = jobs[j].pid
      <4>1. SUFFICES ASSUME NEW j \in Job, Live(j)
                     PROVE  \E k \in PendingChildren : children[k].pid = jobs[j].pid
        OBVIOUS
      <4>2. PICK i \in Slot : evals[i].eff.job = j
        BY <2>5, <3>1, <4>1 DEF JobOwned, Live
      <4>3. HasJob(evals[i].eff)
        BY <3>1, <4>2, NullAssumption DEF EffShape
      <4>4. Unreaped(evals[i].eff) /\ evals[i].eff.pid = jobs[j].pid
        BY <2>5, <3>1, <4>1, <4>2, <4>3 DEF JobMatches, Live, Unreaped, HasJob
      <4>5. PICK k \in PendingChildren : children[k].eval = i
        BY <2>5, <3>1, <4>4 DEF ChildOwned
      <4>6. QED  BY <2>5, <3>1, <4>4, <4>5 DEF ChildOwned
    <3>4. QED  BY <3>2, <3>3
  <2>6. QED  BY <2>4, <2>5
<1>2. QED  BY <1>1, Invariance, PTL

\* cleanupAll leaves no zombie, no running child, no pipe end and no signalfd,
\* on every exit path but a panic.
THEOREM NoLeak == Spec => []NothingLeaks
<1>1. IInv => NothingLeaks
  <2>1. SUFFICES ASSUME IInv, pc = "exit", outcome # "panic"
                 PROVE  LivePids = {} /\ (\A j \in Job : jobs[j].ropen = {}) /\ ~winch_fd
    BY DEF NothingLeaks
  <2>2. PendingChildren = {} /\ ~winch_fd /\ AfterCleanup
    BY <2>1 DEF IInv, ControlInv, AfterCleanup
  <2>3. (\A j \in Job : jobs[j].ropen = {}) /\ \A j \in Job : ~Live(j)
    BY <2>1, <2>2 DEF IInv, Ownership, CleanupInv
  <2>4. LivePids = {}
    BY <2>3 DEF LivePids, Live
  <2>5. QED  BY <2>2, <2>3, <2>4
<1>2. QED  BY <1>1, Invariance, PTL

\* MAX_CHILDREN = MAX_EVALS is enough: registerChild cannot panic.  A full table
\* would name MAX_EVALS suspended execs, and the running evaluation is not one.
THEOREM ChildTableSuffices == Spec => []ChildTableFits
<1>1. IInv => ChildTableFits
  <2>1. SUFFICES ASSUME IInv, AtLeaf("exec"), ChildTableFull
                 PROVE  FALSE
    BY DEF ChildTableFits
  <2>2. TypeOK /\ ChildOwned
    BY <2>1 DEF IInv, Ownership
  <2>3. cur \in Slot /\ ~HasJob(evals[cur].eff) /\ ~AfterCleanup
    BY <2>1, <2>2, LeafTask DEF Tag
  <2> DEFINE f == [k \in 0 .. MAX_CHILDREN - 1 |-> children[k].eval]
  <2>4. \A k \in 0 .. MAX_CHILDREN - 1 : k \in PendingChildren
    BY <2>1 DEF ChildTableFull
  <2>5. \A k \in 0 .. MAX_CHILDREN - 1 : children[k].eval \in Slot \ {cur}
    BY <2>2, <2>3, <2>4 DEF ChildOwned, Unreaped, HasJob, TypeOK, Child
  <2>6. f \in [Slot -> Slot \ {cur}]
    BY <2>5 DEF Slot, MAX_CHILDREN
  <2>7. IsFiniteSet(Slot) /\ IsFiniteSet(Slot \ {cur})
    BY SlotFinite, FS_Subset
  <2>8. Cardinality(Slot \ {cur}) < Cardinality(Slot)
    <3>1. Cardinality(Slot \ {cur}) = Cardinality(Slot) - 1
      BY <2>3, SlotFinite, FS_RemoveElement
    <3>2. QED  BY <3>1, SlotFinite, FS_CardinalityType
  <2>9. \A g \in [Slot -> Slot \ {cur}] : \E k, m \in Slot : k # m /\ g[k] = g[m]
    BY <2>7, <2>8, FS_PigeonHole
  <2>10. PICK k \in Slot, m \in Slot : k # m /\ children[k].eval = children[m].eval
    BY <2>6, <2>9 DEF Slot, MAX_CHILDREN
  <2>11. QED  BY <2>2, <2>3, <2>4, <2>10 DEF ChildOwned, Slot, MAX_CHILDREN
<1>2. QED  BY <1>1, Invariance, PTL

-----------------------------------------------------------------------------
(* What a step may do to an effect *)

\* Only its own completion, and cleanup, ends an exec or a sleep.
EffectsKept ==
    \A i \in Slot : evals[i].eff.kind \in {"exec", "sleep"} => evals'[i].eff.kind = evals[i].eff.kind

LEMMA ClearedKeeps ==
    ASSUME NEW i \in Slot, evals[i].eff.kind \notin {"exec", "sleep"}, NEW next, Cleared(i, next)
    PROVE  EffectsKept
  BY DEF Cleared, EffectsKept

LEMMA SuspendKeeps ==
    ASSUME TypeOK, NEW i \in Slot, evals[i].eff.kind = "none", NEW eff \in Eff, NEW next,
           suspend(i, eff, next)
    PROVE  EffectsKept
  BY SuspendType DEF EffectsKept

LEMMA LeavesKeep ==
    ASSUME IInv, stepEval
    PROVE  EffectsKept
<1>1. TypeOK /\ EffShape
  BY DEF IInv, Ownership
<1>2. ASSUME NEW tag \in Tag, AtLeaf(tag)
      PROVE  /\ cur \in Slot /\ task \in Task /\ task.tag = tag /\ evals[cur].eff.kind = "none"
  BY <1>1, <1>2, LeafTask DEF Stepping
<1>3. ASSUME NEW v \in Val, NEW tag \in Tag, AtLeaf(tag), completeSuccess(cur, v, "eval")
      PROVE  EffectsKept
  <2>1. cur \in Slot /\ evals[cur].eff.kind = "none"
    BY <1>2, <1>3
  <2>2. QED  BY <1>1, <1>3, <2>1, SuccessClears, ClearedKeeps
<1>4. CASE Succeed
  BY <1>2, <1>3, <1>4, TaskAssumption DEF Succeed, Tag
<1>5. CASE Fail
  <2>1. cur \in Slot /\ evals[cur].eff.kind = "none" /\ task.val \in Val
    BY <1>2, <1>5, TaskAssumption DEF Fail, Tag
  <2>2. QED  BY <1>1, <1>5, <2>1, ErrorClears, ClearedKeeps DEF Fail
<1>6. CASE SyncLeaf
  <2>1. PICK v \in task.vals : completeSuccess(cur, v, "eval")
    BY <1>6 DEF SyncLeaf
  <2>2. v \in Val
    BY <1>2, <1>6, <2>1, TaskAssumption DEF SyncLeaf, Tag
  <2>3. QED  BY <1>3, <1>6, <2>1, <2>2 DEF SyncLeaf, Tag
<1>7. CASE leafNow \/ leafWinSize
  BY <1>1, <1>3, <1>7, ValTypes DEF leafNow, leafWinSize, Tag
<1>8. CASE DropMalformed \/ leafQuit
  <2>1. cur \in Slot /\ evals[cur].eff.kind = "none" /\ Drop(cur, "eval")
    BY <1>2, <1>8 DEF DropMalformed, leafQuit, Tag
  <2>2. QED  BY <1>1, <2>1, DropClears, ClearedKeeps
<1>9. CASE PushFrame
  <2>1. PICK kind \in {"andthen", "onerror"} : pushFrame(kind)
    BY <1>9 DEF PushFrame
  <2>2. evals \in [Slot -> Eval]
    BY <1>1 DEF TypeOK
  <2>3. \/ UNCHANGED evals
        \/ evals' = [evals EXCEPT
                        ![cur].frames = Append(@, [kind |-> kind, cont |-> task.cont]),
                        ![cur].task = task.inner]
    BY <2>1 DEF pushFrame, table
  <2>4. \A i \in Slot : evals'[i].eff = evals[i].eff
    BY <2>2, <2>3 DEF Eval, EvalRec
  <2>5. QED  BY <2>4 DEF EffectsKept
<1>10. CASE leafReadFile
  <2>1. CASE \E n \in 0 .. MAX_OUT : completeSuccess(cur, <<n>>, "eval")
    BY <1>1, <1>3, <1>10, <2>1, ValTypes DEF leafReadFile, Tag
  <2>2. ASSUME NEW j \in Job, suspend(cur, ReadFileEff(j), "eval")
        PROVE  EffectsKept
    <3>1. cur \in Slot /\ evals[cur].eff.kind = "none"
      BY <1>2, <1>10 DEF leafReadFile, Tag
    <3>2. QED  BY <1>1, <2>2, <3>1, RecordTypes, SuspendKeeps
  <2>3. QED  BY <1>10, <2>1, <2>2 DEF leafReadFile
<1>11. CASE leafExec
  <2>1. cur \in Slot /\ evals[cur].eff.kind = "none"
    BY <1>2, <1>11 DEF leafExec, Tag
  <2>2. \/ UNCHANGED evals
        \/ \E j \in Job, p \in Pid : suspend(cur, ExecEff(j, p), "eval")
    BY <1>11 DEF leafExec, table
  <2>3. QED  BY <1>1, <2>1, <2>2, RecordTypes, SuspendKeeps DEF EffectsKept
<1>12. CASE leafExecFails
  BY <1>12 DEF leafExecFails, table, EffectsKept
<1>13. CASE leafSleep
  <2>1. cur \in Slot /\ evals[cur].eff.kind = "none" /\ now + task.ms \in Int
    BY <1>1, <1>2, <1>13, TaskAssumption DEF leafSleep, Tag, TypeOK
  <2>2. QED  BY <1>1, <1>13, <2>1, RecordTypes, SuspendKeeps DEF leafSleep
<1>14. CASE leafWaitResize
  <2>1. cur \in Slot /\ evals[cur].eff.kind = "none"
    BY <1>2, <1>14 DEF leafWaitResize, Tag
  <2>2. CASE suspend(cur, WinchEff, "eval")
    BY <1>1, <2>1, <2>2, RecordTypes, SuspendKeeps
  <2>3. CASE completeSuccess(cur, <<size>>, "eval")
    BY <1>1, <1>3, <1>14, <2>3, ValTypes DEF leafWaitResize, Tag
  <2>4. QED  BY <1>14, <2>2, <2>3 DEF leafWaitResize
<1>15. QED
  BY <1>4, <1>5, <1>6, <1>7, <1>8, <1>9, <1>10, <1>11, <1>12, <1>13, <1>14, stepEval
     DEF stepEval

LEMMA OthersKeep ==
    ASSUME IInv, [Next]_vars, ~execComplete, ~sleepComplete, ~CleanupEffects
    PROVE  EffectsKept
<1>1. TypeOK /\ EffShape /\ KernelInv /\ PollInv
  BY DEF IInv, Ownership
<1>2. CASE UNCHANGED evals
  BY <1>2 DEF EffectsKept
<1>3. CASE stepEval
  BY <1>3, LeavesKeep
<1>4. CASE ReapBeforePoll \/ ReapAfterPoll \/ reapBlocking \/ CleanupReap
  <2>1. PICK dead \in SUBSET PendingChildren : Reap(dead) /\ \A k \in dead : Exited(children[k].pid)
    <3>1. CASE Reap({k \in PendingChildren : Exited(children[k].pid)})
      BY <3>1
    <3>2. CASE \E k \in PendingChildren : Exited(children[k].pid) /\ Reap({k})
      BY <3>2
    <3>3. QED  BY <1>4, <3>1, <3>2 DEF ReapBeforePoll, ReapAfterPoll, reapBlocking, CleanupReap, reapChildren
  <2>2. QED  BY <1>1, <2>1, ReapType DEF EffectsKept
<1>5. CASE WinchComplete
  <2>1. PICK i \in Slot : Waiting(i) /\ completeSuccess(i, <<winsz>>, "winch")
    BY <1>5 DEF WinchComplete, Least
  <2>2. evals[i].eff.kind = "winch"
    BY <2>1 DEF Waiting
  <2>3. QED  BY <1>1, <2>1, <2>2, ValTypes, SuccessClears, ClearedKeeps
<1>6. CASE readFileDrain
  <2>1. PICK e \in pollfds :
           LET i == e.eval
               bytes == evals[i].eff.buf["out"] + jobs[evals[i].eff.job].unread["out"]
           IN  /\ e.role = "readfile"
               /\ \/ evals' = [evals EXCEPT ![i].eff.buf["out"] = bytes]
                  \/ completeSuccess(i, <<bytes>>, "drain")
    BY <1>6 DEF readFileDrain
  <2> DEFINE i == e.eval
             bytes == evals[i].eff.buf["out"] + jobs[evals[i].eff.job].unread["out"]
  <2>2. i \in Slot /\ evals[i].eff.kind = "readfile" /\ pc = "drain"
    BY <1>1, <1>6, <2>1 DEF readFileDrain, PollInv, TypeOK, PollFd
  <2>3. CASE evals' = [evals EXCEPT ![i].eff.buf["out"] = bytes]
    BY <1>1, <2>2, <2>3 DEF EffectsKept, TypeOK, Eval, EvalRec, Eff
  <2>4. CASE completeSuccess(i, <<bytes>>, "drain")
    <3>1. bytes \in 0 .. MAX_OUT
      BY <2>2, DrainBytes DEF IInv, AfterCleanup, HasJob, Stream
    <3>2. QED  BY <1>1, <2>2, <2>4, <3>1, ValTypes, SuccessClears, ClearedKeeps
  <2>5. QED  BY <2>1, <2>3, <2>4
<1>7. CASE execDrain
  <2>1. PICK e \in pollfds :
           LET i == e.eval
               s == StreamOf(e.role)
               j == evals[i].eff.job
           IN  \/ UNCHANGED evals
               \/ evals' = [evals EXCEPT
                     ![i].eff.buf[s] = @ + jobs[j].unread[s],
                     ![i].eff.open = IF s \notin jobs[j].wopen THEN @ \ {s} ELSE @]
    BY <1>7 DEF execDrain
  <2> DEFINE i == e.eval
             s == StreamOf(e.role)
             j == evals[i].eff.job
  <2>2. evals \in [Slot -> Eval]
    BY <1>1 DEF TypeOK
  <2>3. CASE UNCHANGED evals
    BY <2>3 DEF EffectsKept
  <2>4. CASE evals' = [evals EXCEPT
                     ![i].eff.buf[s] = @ + jobs[j].unread[s],
                     ![i].eff.open = IF s \notin jobs[j].wopen THEN @ \ {s} ELSE @]
    <3>1. ASSUME NEW k \in Slot
          PROVE  evals'[k].eff.kind = evals[k].eff.kind
      <4>1. evals[k] \in EvalRec /\ evals[k].eff \in Eff
        BY <2>2 DEF Eval, EvalRec
      <4>2. CASE k # i
        BY <2>2, <2>4, <4>2
      <4>3. CASE k = i
        BY <2>2, <2>4, <4>1, <4>3 DEF EvalRec, Eff
      <4>4. QED  BY <4>2, <4>3
    <3>2. QED  BY <3>1 DEF EffectsKept
  <2>5. QED  BY <2>1, <2>3, <2>4
<1>8. QED
  BY <1>2, <1>3, <1>4, <1>5, <1>6, <1>7
     DEF Next, HostStep, EnvStep, Terminated, vars, loop, table, os, LeafFrame, Begin, BeginEval, EndEval,
         EndStepAll, EndCompleteReady, CheckRunnable, rebuildPollfds, NothingToReap, Poll,
         WinchRead, WinchSize, EndDrainWinch, DrainSkip, EndDrain, EndFlush, CleanupDone,
         Produce, CloseStream, ChildExit, Tick, Resize

-----------------------------------------------------------------------------
(* The two action properties *)

\* What an exec hands to its task, once its child is reaped and both pipes are
\* at their end.
LEMMA FinishedIsFaithful ==
    ASSUME TypeOK, PipesOwned, JobMatches, EffShape, ~AfterCleanup, NEW i \in Slot, Finished(i)
    PROVE  LET eff == evals[i].eff
               j == jobs[eff.job]
           IN  /\ j.state = "reaped" /\ eff.code = j.code
               /\ j.wopen = {} /\ eff.buf = j.written
<1> DEFINE eff == evals[i].eff
           j == jobs[eff.job]
<1>1. eff.kind = "exec" /\ eff.exited /\ eff.open = {} /\ HasJob(eff)
  BY DEF Finished, HasJob
<1>2. j.state = "reaped" /\ j.code = eff.code
  BY <1>1 DEF JobMatches
<1>3. eff \in Eff /\ j \in JobRec
  <2>1. eff.job \in Job
    BY <1>1 DEF EffShape
  <2>2. QED  BY <2>1 DEF TypeOK, Eval, EvalRec
<1>4. \A s \in Stream : j.written[s] = eff.buf[s] + j.unread[s] /\ s \notin j.wopen /\ j.unread[s] = 0
  BY <1>1 DEF PipesOwned
<1>5. j.wopen = {}
  BY <1>3, <1>4 DEF JobRec
<1>6. eff.buf \in [Stream -> 0 .. MAX_OUT] /\ j.written \in [Stream -> 0 .. MAX_OUT]
  BY <1>3 DEF Eff, JobRec
<1>7. \A s \in Stream : eff.buf[s] = j.written[s]
  <2>1. \A s \in Stream : eff.buf[s] \in Int
    BY <1>6, BoundAssumption
  <2>2. QED  BY <1>4, <2>1
<1>8. eff.buf = j.written
  BY <1>6, <1>7
<1>9. QED  BY <1>2, <1>5, <1>8

\* execDrain, reapChildren and execComplete, in whatever order the pipes close
\* and the child ends: an exec resumes with its own exit code and all its bytes.
THEOREM ExecsFaithful == Spec => ExecResultFaithful
<1> DEFINE Faithful ==
             \A i \in Slot :
                evals[i].eff.kind = "exec" /\ evals'[i].eff.kind # "exec" /\ pc # "cleanup" =>
                    LET eff == evals[i].eff
                        j == jobs[eff.job]
                    IN  /\ j.state = "reaped" /\ eff.code = j.code
                        /\ j.wopen = {} /\ eff.buf = j.written
<1>1. IInv /\ [Next]_vars => [Faithful]_vars
  <2>1. SUFFICES ASSUME IInv, [Next]_vars, NEW i \in Slot, evals[i].eff.kind = "exec",
                        evals'[i].eff.kind # "exec", pc # "cleanup"
                 PROVE  LET eff == evals[i].eff
                            j == jobs[eff.job]
                        IN  /\ j.state = "reaped" /\ eff.code = j.code
                            /\ j.wopen = {} /\ eff.buf = j.written
    OBVIOUS
  <2>2. TypeOK /\ EffShape /\ JobMatches /\ PipesOwned
    BY <2>1 DEF IInv, Ownership
  <2>3. CASE execComplete
    <3>1. PICK k \in Slot :
             LET eff == evals[k].eff IN
             /\ Least(k, {m \in Slot : Finished(m)})
             /\ completeSuccess(k, <<eff.code, eff.buf["out"], eff.buf["err"]>>, "complete")
      BY <2>3 DEF execComplete
    <3>2. Cleared(k, "complete")
      BY <2>2, <3>1, ValTypes, SuccessClears
    <3>3. i = k
      BY <2>1, <3>2 DEF Cleared
    <3>4. Finished(i) /\ ~AfterCleanup
      BY <2>3, <3>1, <3>3 DEF Least, execComplete, AfterCleanup
    <3>5. QED  BY <2>2, <3>4, FinishedIsFaithful
  <2>4. CASE sleepComplete
    <3>1. PICK k \in Slot : Earliest(k, Expired) /\ completeSuccess(k, <<>>, "flush")
      BY <2>4 DEF sleepComplete
    <3>2. evals[k].eff.kind = "sleep" /\ Cleared(k, "flush")
      BY <2>2, <3>1, ValTypes, SuccessClears DEF Earliest, Expired, Sleeping
    <3>3. QED  BY <2>1, <3>2 DEF Cleared
  <2>5. CASE CleanupEffects
    BY <2>1, <2>5 DEF CleanupEffects
  <2>6. CASE ~execComplete /\ ~sleepComplete /\ ~CleanupEffects
    BY <2>1, <2>6, OthersKeep DEF EffectsKept
  <2>7. QED  BY <2>3, <2>4, <2>5, <2>6
<1>2. Spec => [][Faithful]_vars
  BY <1>1, Invariance, PTL DEF Spec
<1>3. QED  BY <1>2 DEF ExecResultFaithful

\* flushExpiredSleeps ends the earliest sleep first, and none before its time,
\* though the clock it compares with was read before the first of them ended.
THEOREM SleepsInOrder == Spec => SleepsFireInOrder
<1> DEFINE InOrder ==
             \A i \in Slot :
                evals[i].eff.kind = "sleep" /\ evals'[i].eff.kind # "sleep" /\ pc # "cleanup" =>
                    /\ evals[i].eff.deadline <= now
                    /\ \A k \in Slot : Sleeping(k) => evals[i].eff.deadline <= evals[k].eff.deadline
<1>1. IInv /\ [Next]_vars => [InOrder]_vars
  <2>1. SUFFICES ASSUME IInv, [Next]_vars, NEW i \in Slot, evals[i].eff.kind = "sleep",
                        evals'[i].eff.kind # "sleep", pc # "cleanup"
                 PROVE  /\ evals[i].eff.deadline <= now
                        /\ \A k \in Slot :
                              Sleeping(k) => evals[i].eff.deadline <= evals[k].eff.deadline
    OBVIOUS
  <2>2. TypeOK /\ EffShape /\ ControlInv
    BY <2>1 DEF IInv, Ownership
  <2>3. CASE sleepComplete
    <3>1. PICK k \in Slot : Earliest(k, Expired) /\ completeSuccess(k, <<>>, "flush")
      BY <2>3 DEF sleepComplete
    <3>2. Cleared(k, "flush")
      BY <2>2, <3>1, ValTypes, SuccessClears
    <3>3. i = k
      BY <2>1, <3>2 DEF Cleared
    <3>4. \A m \in Slot : evals[m].eff.deadline \in Int
      BY <2>2 DEF TypeOK, Eval, EvalRec, Eff
    <3>5. now \in Int /\ tnow \in Int /\ tnow <= now
      BY <2>2, BoundAssumption DEF TypeOK, ControlInv
    <3>6. evals[i].eff.deadline <= tnow
      BY <3>1, <3>3 DEF Earliest, Expired
    <3>7. ASSUME NEW m \in Slot, Sleeping(m)
          PROVE  evals[i].eff.deadline <= evals[m].eff.deadline
      <4>1. CASE m \in Expired
        BY <3>1, <3>3, <3>4, <4>1 DEF Earliest
      <4>2. CASE m \notin Expired
        BY <3>4, <3>5, <3>6, <3>7, <4>2 DEF Expired
      <4>3. QED  BY <4>1, <4>2
    <3>8. QED  BY <3>4, <3>5, <3>6, <3>7
  <2>4. CASE execComplete
    <3>1. PICK k \in Slot :
             LET eff == evals[k].eff IN
             /\ Least(k, {m \in Slot : Finished(m)})
             /\ completeSuccess(k, <<eff.code, eff.buf["out"], eff.buf["err"]>>, "complete")
      BY <2>4 DEF execComplete
    <3>2. evals[k].eff.kind = "exec" /\ Cleared(k, "complete")
      BY <2>2, <3>1, ValTypes, SuccessClears DEF Least, Finished
    <3>3. QED  BY <2>1, <3>2 DEF Cleared
  <2>5. CASE CleanupEffects
    BY <2>1, <2>5 DEF CleanupEffects
  <2>6. CASE ~execComplete /\ ~sleepComplete /\ ~CleanupEffects
    BY <2>1, <2>6, OthersKeep DEF EffectsKept
  <2>7. QED  BY <2>3, <2>4, <2>5, <2>6
<1>2. Spec => [][InOrder]_vars
  BY <1>1, Invariance, PTL DEF Spec
<1>3. QED  BY <1>2 DEF SleepsFireInOrder

=============================================================================
