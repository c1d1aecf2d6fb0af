--------------------------- MODULE EffectLoopWork ---------------------------
(***************************************************************************)
(* Proofs about EffectLoop's counter: nactive, which alone decides that    *)
(* the loop may end, counts the active evaluations, for any programs and   *)
(* any table; and the loop never waits over work it could do.              *)
(***************************************************************************)
EXTENDS EffectLoopProofs

Active(evs) == {i \in Slot : evs[i].active}

-----------------------------------------------------------------------------
(* Counting *)

LEMMA ActiveFinite ==
    ASSUME NEW evs
    PROVE  IsFiniteSet(Active(evs)) /\ Cardinality(Active(evs)) \in Nat
  BY SlotFinite, FS_Subset, FS_CardinalityType DEF Active

LEMMA IntervalCount ==
    ASSUME NEW n \in Nat
    PROVE  IsFiniteSet(1 .. n) /\ Cardinality(1 .. n) = n
  BY FS_Interval

\* Rank numbers the inactive slots from 1 to their number, each once.
LEMMA RankIsBijection ==
    ASSUME NEW evs
    PROVE  [i \in Inactive(evs) |-> Rank(evs, i)]
              \in Bijection(Inactive(evs), 1 .. Cardinality(Inactive(evs)))
<1> DEFINE I == Inactive(evs)
           N == Cardinality(I)
           Upto(i) == {j \in I : j <= i}
           f == [i \in I |-> Rank(evs, i)]
<1>1. I \subseteq Slot /\ Slot \subseteq Int
  BY BoundAssumption DEF Inactive, Slot
<1>2. IsFiniteSet(I) /\ N \in Nat
  BY <1>1, SlotFinite, FS_Subset, FS_CardinalityType
<1>3. \A i \in I : /\ IsFiniteSet(Upto(i)) /\ Cardinality(Upto(i)) \in Nat
                   /\ Cardinality(Upto(i)) <= N
  BY <1>2, FS_Subset, FS_CardinalityType
<1>4. f \in [I -> 1 .. N]
  <2>1. ASSUME NEW i \in I PROVE Rank(evs, i) \in 1 .. N
    <3>1. Rank(evs, i) \in Nat \ {0}
      BY RankType
    <3>2. Rank(evs, i) <= N
      BY <1>3 DEF Rank
    <3>3. QED  BY <1>2, <3>1, <3>2
  <2>2. QED  BY <2>1
<1>5. ASSUME NEW i \in I, NEW k \in I, i < k PROVE f[i] # f[k]
  <2>1. Upto(i) \in SUBSET Upto(k) /\ k \in Upto(k) /\ k \notin Upto(i)
    <3>1. i \in Int /\ k \in Int /\ I \subseteq Int
      BY <1>1
    <3>2. \A j \in I : j <= i => j <= k
      BY <1>5, <3>1
    <3>3. k <= k /\ ~(k <= i)
      BY <1>5, <3>1
    <3>4. QED  BY <3>2, <3>3
  <2>2. Cardinality(Upto(k)) # Cardinality(Upto(i))
    BY <1>3, <2>1, FS_Subset
  <2>3. QED  BY <2>2 DEF Rank
<1>6. f \in Injection(I, 1 .. N)
  <2>1. \A i, k \in I : f[i] = f[k] => i = k
    <3>1. ASSUME NEW i \in I, NEW k \in I, f[i] = f[k] PROVE i = k
      <4>1. i \in Int /\ k \in Int
        BY <1>1
      <4>2. ~(i < k) /\ ~(k < i)
        BY <1>5, <3>1
      <4>3. QED  BY <4>1, <4>2
    <3>2. QED  BY <3>1
  <2>2. QED  BY <1>4, <2>1 DEF Injection, IsInjective
<1>7. IsFiniteSet(1 .. N) /\ Cardinality(1 .. N) = N
  BY <1>2, IntervalCount
<1>8. f \in Surjection(I, 1 .. N)
  BY <1>6, <1>7, FS_Injection
<1>9. QED  BY <1>6, <1>8 DEF Bijection

\* As many evaluations are spawned as there are commands.
LEMMA SpawnCounts ==
    ASSUME NEW evs \in [Slot -> Eval], NEW cmd \in Seq(Task),
           Len(cmd) <= Cardinality(Inactive(evs))
    PROVE  Cardinality(Active(spawnFromCmd(evs, cmd))) = Cardinality(Active(evs)) + Len(cmd)
<1> DEFINE I == Inactive(evs)
           N == Cardinality(I)
           n == Len(cmd)
           S == {i \in I : Rank(evs, i) <= n}
           f == [i \in I |-> Rank(evs, i)]
           g == [i \in S |-> Rank(evs, i)]
<1>1. f \in Bijection(I, 1 .. N)
  BY RankIsBijection
<1>2. I \subseteq Slot /\ IsFiniteSet(I) /\ N \in Nat /\ n \in Nat
  BY SlotFinite, FS_Subset, FS_CardinalityType DEF Inactive
<1>3. f \in [I -> 1 .. N] /\ (\A i, k \in I : f[i] = f[k] => i = k)
  BY <1>1 DEF Bijection, Injection, IsInjective
<1>4. \A r \in 1 .. N : \E i \in I : f[i] = r
  BY <1>1 DEF Bijection, Surjection
<1>5. g \in [S -> 1 .. n]
  BY <1>2, <1>3
<1>6. g \in Injection(S, 1 .. n)
  BY <1>3, <1>5 DEF Injection, IsInjective
<1>7. g \in Surjection(S, 1 .. n)
  <2>1. ASSUME NEW r \in 1 .. n PROVE \E i \in S : g[i] = r
    <3>1. r \in 1 .. N
      BY <1>2
    <3>2. PICK i \in I : f[i] = r
      BY <1>4, <3>1
    <3>3. i \in S /\ g[i] = r
      BY <3>2
    <3>4. QED  BY <3>3
  <2>2. QED  BY <1>5, <2>1 DEF Surjection
<1>8. ExistsBijection(S, 1 .. n)
  BY <1>6, <1>7 DEF ExistsBijection, Bijection
<1>9. IsFiniteSet(S)
  BY <1>2, FS_Subset
<1>10. Cardinality(S) = n
  <2>1. Cardinality(1 .. n) = Cardinality(S)
    BY <1>8, <1>9, FS_Bijection
  <2>2. n \in Nat
    BY <1>2
  <2> HIDE DEF n, S
  <2>3. QED  BY <2>1, <2>2, IntervalCount
<1>11. Active(spawnFromCmd(evs, cmd)) = Active(evs) \cup S
  <2>1. ASSUME NEW i \in Slot
        PROVE  spawnFromCmd(evs, cmd)[i].active <=> evs[i].active \/ i \in S
    <3>1. CASE i \in S
      BY <3>1 DEF spawnFromCmd, Fresh
    <3>2. CASE i \notin S
      BY <3>2 DEF spawnFromCmd
    <3>3. QED  BY <3>1, <3>2
  <2>2. QED  BY <1>2, <2>1 DEF Active
<1>12. Active(evs) \cap S = {}
  BY DEF Active, Inactive
<1>13. Cardinality(Active(evs) \cup S) = Cardinality(Active(evs)) + n
  <2> HIDE DEF S
  <2>1. Cardinality(Active(evs) \cup S)
           = Cardinality(Active(evs)) + Cardinality(S) - Cardinality(Active(evs) \cap S)
    BY <1>9, ActiveFinite, FS_Union
  <2>2. Cardinality(Active(evs) \cap S) = 0
    BY <1>12, FS_EmptySet
  <2>3. QED  BY <1>2, <1>10, <2>1, <2>2, ActiveFinite
<1>14. QED  BY <1>11, <1>13

\* One evaluation less.
LEMMA DeactivateCounts ==
    ASSUME TypeOK, NEW i \in Slot, evals[i].active
    PROVE  Cardinality(Active(deactivate(i))) = Cardinality(Active(evals)) - 1
<1>1. Active(deactivate(i)) = Active(evals) \ {i}
  BY DEF Active, deactivate, Idle, TypeOK
<1>2. i \in Active(evals)
  BY DEF Active
<1>3. QED  BY <1>1, <1>2, ActiveFinite, FS_RemoveElement

-----------------------------------------------------------------------------
(* The invariant *)

\* Where the loop looks for work, and for something to wait for.
Waits == {"runnable", "build", "reapblock", "poll"}

WinchOpen == \A i \in Slot : evals[i].eff.kind = "winch" => winch_fd

\* Before it builds the fd tables the loop has completed what is finished and stepped
\* what can be stepped; before it waits for a child no fd is left to poll.
WorkInv ==
    /\ NactiveExact
    /\ WinchOpen
    /\ outcome # "abandoned"
    /\ pc \in {"runnable", "build", "reapblock"} => \A i \in Slot : ~Finished(i)
    /\ pc \in {"build", "reapblock", "poll"} => ~hasRunnable /\ nactive > 0
    /\ pc = "reapblock" => PollSet = {}
    /\ pc = "poll" => pollfds # {} \/ \E i \in Slot : Sleeping(i)

\* A step that does not lead to a wait.
BusyStep == NactiveExact' /\ WinchOpen' /\ outcome' # "abandoned" /\ pc' \notin Waits

LEMMA BusyKeeps ==
    ASSUME BusyStep
    PROVE  WorkInv'
  BY DEF BusyStep, WorkInv, Waits

LEMMA SameActive ==
    ASSUME NactiveExact, nactive' = nactive,
           \A i \in Slot : evals'[i].active = evals[i].active
    PROVE  NactiveExact'
<1>1. {i \in Slot : evals'[i].active} = {i \in Slot : evals[i].active}
  OBVIOUS
<1>2. QED  BY <1>1 DEF NactiveExact

\* A step that leaves the effects alone but for clearing one, or that is quiet.
LEMMA ClearedOpen ==
    ASSUME WinchOpen, winch_fd => winch_fd', NEW i \in Slot, NEW next, Cleared(i, next)
    PROVE  WinchOpen'
  BY NoEffFields DEF WinchOpen, Cleared, NoEff

LEMMA QuietWork ==
    ASSUME WorkInv, UNCHANGED <<evals, nactive>>, winch_fd => winch_fd',
           outcome' # "abandoned", pc' \notin Waits
    PROVE  WorkInv'
<1>1. NactiveExact' /\ WinchOpen'
  BY DEF WorkInv, NactiveExact, WinchOpen
<1>2. QED  BY <1>1, BusyKeeps DEF BusyStep

-----------------------------------------------------------------------------
(* Completing a task *)

LEMMA DropCounts ==
    ASSUME TypeOK, NactiveExact, NEW i \in Slot, evals[i].active, NEW next, Drop(i, next)
    PROVE  NactiveExact'
<1>1. evals' = deactivate(i) /\ nactive' = nactive - 1
  BY DEF Drop
<1>2. Cardinality(Active(evals')) = Cardinality(Active(evals)) - 1
  BY <1>1, DeactivateCounts
<1>3. QED  BY <1>1, <1>2 DEF NactiveExact, Active

LEMMA DeliverCounts ==
    ASSUME TypeOK, EffShape, NactiveExact, NEW i \in Slot, evals[i].active, NEW v \in Val, NEW next,
           deliver(i, v, next)
    PROVE  NactiveExact'
<1> DEFINE pair == Update(v, model)
           freed == deactivate(i)
<1>1. pair.cmd \in Seq(Task) /\ Len(pair.cmd) \in Nat
  BY ProgramAssumption DEF TypeOK
<1>2. CASE Len(pair.cmd) <= Cardinality(Inactive(freed))
  <2>1. evals' = spawnFromCmd(freed, pair.cmd) /\ nactive' = nactive - 1 + Len(pair.cmd)
    BY <1>2 DEF deliver
  <2>2. freed \in [Slot -> Eval]
    BY DeactivateType
  <2>3. Cardinality(Active(evals')) = Cardinality(Active(freed)) + Len(pair.cmd)
    BY <1>1, <1>2, <2>1, <2>2, SpawnCounts
  <2>4. Cardinality(Active(freed)) = Cardinality(Active(evals)) - 1
    BY DeactivateCounts
  <2>5. nactive = Cardinality(Active(evals)) /\ Cardinality(Active(evals)) \in Nat
    BY ActiveFinite DEF NactiveExact, Active
  <2>6. nactive' = Cardinality(Active(evals'))
    BY <1>1, <2>1, <2>3, <2>4, <2>5
  <2>7. QED  BY <2>6 DEF NactiveExact, Active
<1>3. CASE ~(Len(pair.cmd) <= Cardinality(Inactive(freed)))
  BY <1>3 DEF deliver, Panic, table, NactiveExact
<1>4. QED  BY <1>2, <1>3

LEMMA ResumeCounts ==
    ASSUME TypeOK, NactiveExact, NEW i \in Slot, NEW k, NEW v, NEW next, Resume(i, k, v, next)
    PROVE  NactiveExact'
<1>1. evals' = [evals EXCEPT ![i] = [evals[i] EXCEPT
                     !.task = Apply(evals[i].frames[k].cont, v),
                     !.frames = SubSeq(evals[i].frames, 1, k - 1),
                     !.eff = NoEff]]
  BY DEF Resume, TypeOK
<1>2. \A m \in Slot : evals'[m].active = evals[m].active
  BY <1>1 DEF TypeOK, Eval, EvalRec
<1>3. QED  BY <1>2, SameActive DEF Resume

LEMMA CompletionWork ==
    ASSUME IInv, WorkInv, NEW i \in Slot, evals[i].active, NEW v \in Val, NEW next, next \notin Waits,
           completeSuccess(i, v, next) \/ completeError(i, v, next),
           winch_fd => winch_fd'
    PROVE  WorkInv'
<1>1. TypeOK /\ EffShape /\ NactiveExact /\ WinchOpen /\ outcome # "abandoned"
  BY DEF IInv, Ownership, WorkInv
<1>2. NactiveExact'
  <2>1. CASE completeSuccess(i, v, next)
    BY <1>1, <2>1, ResumeCounts, DeliverCounts DEF completeSuccess
  <2>2. CASE completeError(i, v, next)
    BY <1>1, <2>2, ResumeCounts, DropCounts DEF completeError
  <2>3. QED  BY <2>1, <2>2
<1>3. Cleared(i, next)
  BY <1>1, SuccessClears, ErrorClears
<1>4. WinchOpen'
  BY <1>1, <1>3, ClearedOpen
<1>5. outcome' # "abandoned" /\ pc' \notin Waits
  BY <1>1, <1>3 DEF Cleared, Waits
<1>6. QED  BY <1>2, <1>4, <1>5, BusyKeeps DEF BusyStep

LEMMA DropWork ==
    ASSUME IInv, WorkInv, NEW i \in Slot, evals[i].active, Drop(i, "eval"), UNCHANGED winch_fd
    PROVE  WorkInv'
<1>1. TypeOK /\ EffShape /\ NactiveExact /\ WinchOpen /\ outcome # "abandoned"
  BY DEF IInv, Ownership, WorkInv
<1>2. NactiveExact' /\ Cleared(i, "eval")
  BY <1>1, DropCounts, DropClears
<1>3. WinchOpen' /\ outcome' # "abandoned" /\ pc' \notin Waits
  BY <1>1, <1>2, ClearedOpen DEF Cleared, Waits
<1>4. QED  BY <1>2, <1>3, BusyKeeps DEF BusyStep

LEMMA SuspendWork ==
    ASSUME IInv, WorkInv, NEW i \in Slot, NEW eff \in Eff, suspend(i, eff, "eval"),
           winch_fd => winch_fd', eff.kind = "winch" => winch_fd'
    PROVE  WorkInv'
<1>1. TypeOK /\ NactiveExact /\ WinchOpen /\ outcome # "abandoned"
  BY DEF IInv, WorkInv
<1>2. /\ outcome' = outcome /\ pc' = "eval"
      /\ \A k \in Slot : /\ evals'[k].eff = IF k = i THEN eff ELSE evals[k].eff
                         /\ evals'[k].active = evals[k].active
  BY <1>1, SuspendType
<1>3. nactive' = nactive
  BY DEF suspend
<1>4. NactiveExact' /\ WinchOpen'
  BY <1>1, <1>2, <1>3, SameActive DEF WinchOpen
<1>5. QED  BY <1>1, <1>2, <1>4, BusyKeeps DEF BusyStep, Waits

-----------------------------------------------------------------------------
(* The steps *)

LEMMA LeavesWork ==
    ASSUME IInv, WorkInv, stepEval
    PROVE  WorkInv'
<1>1. TypeOK /\ outcome # "abandoned"
  BY DEF IInv, WorkInv
<1>2. ASSUME NEW tag \in Tag, AtLeaf(tag)
      PROVE  /\ pc = "eval" /\ cur \in Slot /\ evals[cur].active
             /\ task \in Task /\ task.tag = tag
  BY <1>1, <1>2, LeafTask
<1>3. "eval" \notin Waits
  BY DEF Waits
<1>4. ASSUME NEW v \in Val, NEW tag \in Tag, AtLeaf(tag), winch_fd => winch_fd',
             completeSuccess(cur, v, "eval") \/ completeError(cur, v, "eval")
      PROVE  WorkInv'
  BY <1>2, <1>3, <1>4, CompletionWork
<1>5. CASE Succeed
  <2>1. task.val \in Val
    BY <1>2, <1>5, TaskAssumption DEF Succeed, Tag
  <2>2. QED  BY <1>4, <1>5, <2>1 DEF Succeed, Tag, LeafFrame
<1>6. CASE Fail
  <2>1. task.val \in Val
    BY <1>2, <1>6, TaskAssumption DEF Fail, Tag
  <2>2. QED  BY <1>4, <1>6, <2>1 DEF Fail, Tag, LeafFrame
<1>7. CASE SyncLeaf
  <2>1. PICK v \in task.vals : completeSuccess(cur, v, "eval")
    BY <1>7 DEF SyncLeaf
  <2>2. v \in Val
    BY <1>2, <1>7, <2>1, TaskAssumption DEF SyncLeaf, Tag
  <2>3. QED  BY <1>4, <1>7, <2>1, <2>2 DEF SyncLeaf, Tag, LeafFrame
<1>8. CASE leafNow \/ leafWinSize
  BY <1>1, <1>4, <1>8, ValTypes DEF leafNow, leafWinSize, Tag, LeafFrame
<1>9. CASE DropMalformed \/ leafQuit
  <2>1. cur \in Slot /\ evals[cur].active /\ Drop(cur, "eval") /\ UNCHANGED winch_fd
    BY <1>2, <1>9 DEF DropMalformed, leafQuit, Tag, LeafFrame
  <2>2. QED  BY <2>1, DropWork
<1>10. CASE PushFrame
  <2>1. PICK kind \in {"andthen", "onerror"} : pushFrame(kind)
    BY <1>10 DEF PushFrame
  <2>2. CASE UNCHANGED table
    <3>1. UNCHANGED <<evals, nactive, winch_fd>> /\ outcome' # "abandoned" /\ pc' \notin Waits
      BY <1>1, <1>2, <1>3, <2>1, <2>2 DEF pushFrame, Panic, table, LeafFrame, Waits, Tag
    <3>2. QED  BY <3>1, QuietWork
  <2>3. CASE ~UNCHANGED table
    <3>1. /\ evals' = [evals EXCEPT ![cur].frames = Append(@, [kind |-> kind, cont |-> task.cont]),
                                    ![cur].task = task.inner]
          /\ UNCHANGED <<nactive, outcome, pc, winch_fd>> /\ pc = "eval"
      BY <1>2, <2>1, <2>3 DEF pushFrame, LeafFrame, Tag
    <3>2. \A i \in Slot : evals'[i].eff = evals[i].eff /\ evals'[i].active = evals[i].active
      BY <1>1, <3>1 DEF TypeOK, Eval, EvalRec
    <3>3. NactiveExact'
      BY <3>1, <3>2, SameActive DEF WorkInv
    <3>4. WinchOpen'
      BY <3>1, <3>2 DEF WorkInv, WinchOpen
    <3>5. QED  BY <1>1, <1>3, <3>1, <3>3, <3>4, BusyKeeps DEF BusyStep
  <2>4. QED  BY <2>2, <2>3
<1>11. CASE leafReadFile
  <2>1. cur \in Slot /\ evals[cur].active /\ UNCHANGED winch_fd
    BY <1>2, <1>11 DEF leafReadFile, Tag
  <2>2. CASE \E n \in 0 .. MAX_OUT : completeSuccess(cur, <<n>>, "eval")
    BY <1>1, <1>3, <2>1, <2>2, ValTypes, CompletionWork
  <2>3. ASSUME NEW j \in Job, suspend(cur, ReadFileEff(j), "eval")
        PROVE  WorkInv'
    <3>1. ReadFileEff(j) \in Eff /\ ReadFileEff(j).kind # "winch"
      BY RecordTypes DEF ReadFileEff, NoEff
    <3>2. QED  BY <2>1, <2>3, <3>1, SuspendWork
  <2>4. QED  BY <1>11, <2>2, <2>3 DEF leafReadFile
<1>12. CASE leafExec
  <2>1. cur \in Slot /\ evals[cur].active /\ UNCHANGED winch_fd
    BY <1>2, <1>12 DEF leafExec, Tag
  <2>2. PICK j \in Job, p \in Pid :
           \/ Panic /\ UNCHANGED table
           \/ suspend(cur, ExecEff(j, p), "eval")
    BY <1>12 DEF leafExec
  <2>3. CASE Panic /\ UNCHANGED table
    BY <2>1, <2>3, QuietWork DEF Panic, table, Waits
  <2>4. CASE suspend(cur, ExecEff(j, p), "eval")
    <3>1. ExecEff(j, p) \in Eff /\ ExecEff(j, p).kind # "winch"
      BY RecordTypes DEF ExecEff, NoEff
    <3>2. QED  BY <2>1, <2>4, <3>1, SuspendWork
  <2>5. QED  BY <2>2, <2>3, <2>4
<1>13. CASE leafExecFails
  BY <1>13, QuietWork DEF leafExecFails, table, LeafFrame, Waits
<1>14. CASE leafSleep
  <2>1. cur \in Slot /\ evals[cur].active /\ now + task.ms \in Int /\ UNCHANGED winch_fd
    BY <1>1, <1>2, <1>14, TaskAssumption DEF leafSleep, Tag, TypeOK, LeafFrame
  <2>2. SleepEff(now + task.ms) \in Eff /\ SleepEff(now + task.ms).kind # "winch"
    BY <2>1, RecordTypes DEF SleepEff, NoEff
  <2>3. QED  BY <1>14, <2>1, <2>2, SuspendWork DEF leafSleep
<1>15. CASE leafWaitResize
  <2>1. cur \in Slot /\ evals[cur].active
    BY <1>2, <1>15 DEF leafWaitResize, Tag
  <2>2. CASE winch_fd' = TRUE /\ suspend(cur, WinchEff, "eval")
    BY <2>1, <2>2, RecordTypes, SuspendWork
  <2>3. CASE completeSuccess(cur, <<size>>, "eval") /\ UNCHANGED winch_fd
    BY <1>1, <1>3, <2>1, <2>3, ValTypes, CompletionWork
  <2>4. QED  BY <1>15, <2>2, <2>3 DEF leafWaitResize
<1>16. QED
  BY <1>5, <1>6, <1>7, <1>8, <1>9, <1>10, <1>11, <1>12, <1>13, <1>14, <1>15, stepEval
     DEF stepEval

\* Reaping changes no evaluation but an exec, which stays one.
LEMMA ReapsWork ==
    ASSUME IInv, WorkInv, ReapBeforePoll \/ ReapAfterPoll \/ reapBlocking \/ CleanupReap
    PROVE  WorkInv'
<1>1. TypeOK /\ KernelInv /\ NactiveExact /\ WinchOpen /\ outcome # "abandoned"
  BY DEF IInv, Ownership, WorkInv
<1>2. PICK dead \in SUBSET PendingChildren : Reap(dead) /\ \A k \in dead : Exited(children[k].pid)
  <2>1. CASE Reap({k \in PendingChildren : Exited(children[k].pid)})
    BY <2>1
  <2>2. CASE \E k \in PendingChildren : Exited(children[k].pid) /\ Reap({k})
    BY <2>2
  <2>3. QED  BY <2>1, <2>2 DEF ReapBeforePoll, ReapAfterPoll, reapBlocking, CleanupReap, reapChildren
<1>3. /\ \A i \in Slot : evals'[i].active = evals[i].active /\ evals'[i].eff.kind = evals[i].eff.kind
      /\ nactive' = nactive
  BY <1>1, <1>2, ReapType
<1>4. UNCHANGED <<winch_fd, outcome>> /\ pc' \in {"complete", "winch_read", "drain", "cleanup_wait"}
  BY DEF ReapBeforePoll, ReapAfterPoll, reapBlocking, CleanupReap, control
<1>5. NactiveExact' /\ WinchOpen'
  BY <1>1, <1>3, <1>4, SameActive DEF WinchOpen
<1>6. QED  BY <1>1, <1>4, <1>5, BusyKeeps DEF BusyStep, Waits

LEMMA CompletesWork ==
    ASSUME IInv, WorkInv, execComplete \/ sleepComplete \/ WinchComplete
    PROVE  WorkInv'
<1>1. TypeOK
  BY DEF IInv
<1>2. "complete" \notin Waits /\ "flush" \notin Waits /\ "winch" \notin Waits
  BY DEF Waits
<1>3. CASE execComplete
  <2>1. PICK i \in Slot :
           /\ Finished(i)
           /\ completeSuccess(i, <<evals[i].eff.code, evals[i].eff.buf["out"],
                                   evals[i].eff.buf["err"]>>, "complete")
    BY <1>3 DEF execComplete, Least
  <2>2. QED  BY <1>1, <1>2, <1>3, <2>1, ValTypes, CompletionWork DEF execComplete, Finished
<1>4. CASE sleepComplete
  <2>1. PICK i \in Slot : Sleeping(i) /\ completeSuccess(i, <<>>, "flush")
    BY <1>4 DEF sleepComplete, Earliest, Expired
  <2>2. QED  BY <1>1, <1>2, <1>4, <2>1, ValTypes, CompletionWork DEF sleepComplete, LeafFrame, Sleeping
<1>5. CASE WinchComplete
  <2>1. PICK i \in Slot : Waiting(i) /\ completeSuccess(i, <<winsz>>, "winch")
    BY <1>5 DEF WinchComplete, Least
  <2>2. QED  BY <1>1, <1>2, <1>5, <2>1, ValTypes, CompletionWork DEF WinchComplete, LeafFrame, Waiting
<1>6. QED  BY <1>3, <1>4, <1>5

LEMMA DrainsWork ==
    ASSUME IInv, WorkInv, readFileDrain \/ execDrain
    PROVE  WorkInv'
<1>1. TypeOK /\ PollInv /\ Ownership /\ outcome # "abandoned" /\ pc = "drain" /\ UNCHANGED winch_fd
  BY DEF IInv, WorkInv, readFileDrain, execDrain
<1>2. "drain" \notin Waits
  BY DEF Waits
<1>3. ASSUME \A i \in Slot : /\ evals'[i].active = evals[i].active
                             /\ evals'[i].eff.kind = evals[i].eff.kind,
             UNCHANGED <<nactive, outcome, pc>>
      PROVE  WorkInv'
  <2>1. NactiveExact' /\ WinchOpen'
    BY <1>1, <1>3, SameActive DEF WorkInv, WinchOpen
  <2>2. QED  BY <1>1, <1>2, <1>3, <2>1, BusyKeeps DEF BusyStep
<1>4. CASE readFileDrain
  <2>1. PICK e \in pollfds :
           LET i == e.eval
               bytes == evals[i].eff.buf["out"] + jobs[evals[i].eff.job].unread["out"]
           IN  /\ e.role = "readfile" /\ evals[i].active
               /\ \/ /\ evals' = [evals EXCEPT ![i].eff.buf["out"] = bytes]
                     /\ UNCHANGED <<nactive, outcome, pc>>
                  \/ completeSuccess(i, <<bytes>>, "drain")
    BY <1>4 DEF readFileDrain
  <2> DEFINE i == e.eval
             bytes == evals[i].eff.buf["out"] + jobs[evals[i].eff.job].unread["out"]
  <2>2. i \in Slot /\ evals[i].eff.kind = "readfile" /\ evals[i].active
    BY <1>1, <2>1 DEF PollInv, TypeOK, PollFd
  <2>3. CASE evals' = [evals EXCEPT ![i].eff.buf["out"] = bytes] /\ UNCHANGED <<nactive, outcome, pc>>
    <3>1. \A k \in Slot : evals'[k].active = evals[k].active /\ evals'[k].eff.kind = evals[k].eff.kind
      BY <1>1, <2>3 DEF TypeOK, Eval, EvalRec, Eff
    <3>2. QED  BY <1>3, <2>3, <3>1
  <2>4. CASE completeSuccess(i, <<bytes>>, "drain")
    <3>1. bytes \in 0 .. MAX_OUT
      BY <1>1, <2>2, DrainBytes DEF AfterCleanup, HasJob, Stream
    <3>2. <<bytes>> \in Val
      BY <1>1, <3>1, ValTypes
    <3>3. QED  BY <1>1, <1>2, <2>2, <2>4, <3>2, CompletionWork
  <2>5. QED  BY <2>1, <2>3, <2>4
<1>5. CASE execDrain
  <2>1. PICK e \in pollfds :
           LET i == e.eval
               s == StreamOf(e.role)
               j == evals[i].eff.job
           IN  \/ UNCHANGED evals
               \/ evals' = [evals EXCEPT
                     ![i].eff.buf[s] = @ + jobs[j].unread[s],
                     ![i].eff.open = IF s \notin jobs[j].wopen THEN @ \ {s} ELSE @]
    BY <1>5 DEF execDrain
  <2> DEFINE i == e.eval
             s == StreamOf(e.role)
             j == evals[i].eff.job
  <2>2. evals \in [Slot -> Eval]
    BY <1>1 DEF TypeOK
  <2>3. CASE UNCHANGED evals
    BY <1>3, <1>5, <2>3 DEF execDrain, control
  <2>4. CASE evals' = [evals EXCEPT
                     ![i].eff.buf[s] = @ + jobs[j].unread[s],
                     ![i].eff.open = IF s \notin jobs[j].wopen THEN @ \ {s} ELSE @]
    <3>1. ASSUME NEW k \in Slot
          PROVE  evals'[k].active = evals[k].active /\ evals'[k].eff.kind = evals[k].eff.kind
      <4>1. evals[k] \in EvalRec /\ evals[k].eff \in Eff
        BY <2>2 DEF Eval, EvalRec
      <4>2. CASE k # i
        BY <2>2, <2>4, <4>2
      <4>3. CASE k = i
        <5>1. evals'[k].active = evals[k].active
          BY <2>2, <2>4, <4>1, <4>3 DEF EvalRec
        <5>2. evals'[k].eff.kind = evals[k].eff.kind
          BY <2>2, <2>4, <4>1, <4>3 DEF EvalRec, Eff
        <5>3. QED  BY <5>1, <5>2
      <4>4. QED  BY <4>2, <4>3
    <3>2. QED  BY <1>3, <1>5, <3>1 DEF execDrain, control
  <2>5. QED  BY <2>1, <2>3, <2>4
<1>6. QED  BY <1>4, <1>5

\* With no fd to poll and no child to reap, an evaluation in flight is asleep: a file
\* read, an open pipe and a resize wait have a pollfd, a process that was not reaped
\* has a table entry, and an exec with neither was finished.
LEMMA NothingToReapMeansAsleep ==
    ASSUME IInv, WorkInv, pc = "reapblock", PendingChildren = {}
    PROVE  \E i \in Slot : Sleeping(i)
<1>1. /\ TypeOK /\ ChildOwned /\ ~AfterCleanup
      /\ NactiveExact /\ WinchOpen /\ ~hasRunnable /\ nactive > 0 /\ PollSet = {}
      /\ \A i \in Slot : ~Finished(i)
  BY DEF IInv, Ownership, WorkInv, AfterCleanup
<1>2. PICK i \in Slot : evals[i].active
  <2>1. Active(evals) # {}
    BY <1>1, FS_EmptySet DEF NactiveExact, Active
  <2>2. QED  BY <2>1 DEF Active
<1> DEFINE eff == evals[i].eff
<1>3. eff \in Eff /\ eff.kind \in EffKind
  BY <1>1 DEF TypeOK, Eval, EvalRec, Eff
<1>4. \A role \in PollRole : ~Polls(eff, role)
  <2>1. ASSUME NEW role \in PollRole, Polls(eff, role) PROVE FALSE
    <3>1. [eval |-> i, role |-> role] \in PollSet
      BY <1>2, <2>1 DEF PollSet, PollFd
    <3>2. QED  BY <1>1, <3>1
  <2>2. QED  BY <2>1
<1>5. eff.kind # "none"
  BY <1>1, <1>2 DEF hasRunnable, Runnable
<1>6. eff.kind # "readfile"
  BY <1>4 DEF Polls, PollRole
<1>7. eff.kind # "winch"
  BY <1>1, <1>4 DEF Polls, PollRole, WinchOpen
<1>8. eff.kind # "exec"
  <2>1. SUFFICES ASSUME eff.kind = "exec" PROVE FALSE
    OBVIOUS
  <2>2. "out" \notin eff.open /\ "err" \notin eff.open
    BY <1>4, <2>1 DEF Polls, PollRole, StreamOf
  <2>3. eff.open = {}
    BY <1>3, <2>2 DEF Eff, Stream
  <2>4. ~eff.exited
    BY <1>1, <1>2, <2>1, <2>3 DEF Finished
  <2>5. QED  BY <1>1, <2>1, <2>4 DEF Unreaped, ChildOwned
<1>9. eff.kind = "sleep"
  BY <1>3, <1>5, <1>6, <1>7, <1>8 DEF EffKind
<1>10. QED  BY <1>2, <1>9 DEF Sleeping

LEMMA SameWork ==
    ASSUME UNCHANGED <<evals, winch_fd>>
    PROVE  /\ \A i \in Slot : (Finished(i)' <=> Finished(i)) /\ (Sleeping(i)' <=> Sleeping(i))
           /\ (hasRunnable' <=> hasRunnable) /\ PollSet' = PollSet
<1>1. \A i \in Slot : (Finished(i)' <=> Finished(i)) /\ (Sleeping(i)' <=> Sleeping(i))
  BY DEF Finished, Sleeping
<1>2. hasRunnable' <=> hasRunnable
  BY DEF hasRunnable, Runnable
<1>3. PollSet' = PollSet
  BY DEF PollSet, Polls
<1>4. QED  BY <1>1, <1>2, <1>3

\* The way from the last completion to the wait.
LEMMA WaitsWork ==
    ASSUME IInv, WorkInv, EndCompleteReady \/ CheckRunnable \/ rebuildPollfds \/ NothingToReap
    PROVE  WorkInv'
<1>1. UNCHANGED <<evals, nactive, winch_fd>>
  BY DEF EndCompleteReady, CheckRunnable, rebuildPollfds, NothingToReap, table
<1>2. NactiveExact' /\ WinchOpen' /\ outcome # "abandoned"
  BY <1>1 DEF WorkInv, NactiveExact, WinchOpen
<1>3. /\ \A i \in Slot : (Finished(i)' <=> Finished(i)) /\ (Sleeping(i)' <=> Sleeping(i))
      /\ (hasRunnable' <=> hasRunnable) /\ PollSet' = PollSet
  BY <1>1, SameWork
<1>4. CASE EndCompleteReady
  BY <1>1, <1>2, <1>3, <1>4 DEF WorkInv, EndCompleteReady, AfterCompleteReady, IInv, TypeOK
<1>5. CASE CheckRunnable
  BY <1>1, <1>2, <1>3, <1>5 DEF WorkInv, CheckRunnable
<1>6. CASE rebuildPollfds
  BY <1>1, <1>2, <1>3, <1>6 DEF WorkInv, rebuildPollfds
<1>7. CASE NothingToReap
  <2>1. \E i \in Slot : Sleeping(i)
    BY <1>7, NothingToReapMeansAsleep DEF NothingToReap
  <2>2. pc = "reapblock" /\ pc' = "poll" /\ UNCHANGED outcome
    BY <1>7, <2>1 DEF NothingToReap
  <2>3. QED  BY <1>1, <1>2, <1>3, <2>1, <2>2 DEF WorkInv
<1>8. QED  BY <1>4, <1>5, <1>6, <1>7

LEMMA CleanupWork ==
    ASSUME IInv, WorkInv, CleanupEffects
    PROVE  WorkInv'
<1>1. TypeOK /\ NactiveExact /\ outcome # "abandoned"
  BY DEF IInv, WorkInv
<1>2. \A i \in Slot : evals'[i].active = evals[i].active /\ evals'[i].eff = NoEff
  BY <1>1 DEF CleanupEffects, TypeOK, Eval, EvalRec
<1>3. NactiveExact' /\ WinchOpen'
  BY <1>1, <1>2, SameActive, NoEffFields DEF CleanupEffects, WinchOpen
<1>4. QED  BY <1>1, <1>3, BusyKeeps DEF CleanupEffects, BusyStep, Waits

LEMMA UnmovedWork ==
    ASSUME WorkInv, UNCHANGED loop
    PROVE  WorkInv'
<1>1. UNCHANGED <<evals, nactive, winch_fd, outcome, pc, pollfds>>
  BY DEF loop, table, control
<1>2. NactiveExact' /\ WinchOpen'
  BY <1>1 DEF WorkInv, NactiveExact, WinchOpen
<1>3. /\ \A i \in Slot : (Finished(i)' <=> Finished(i)) /\ (Sleeping(i)' <=> Sleeping(i))
      /\ (hasRunnable' <=> hasRunnable) /\ PollSet' = PollSet
  BY <1>1, SameWork
<1>4. QED  BY <1>1, <1>2, <1>3 DEF WorkInv

LEMMA InitWork == Init => WorkInv
<1> SUFFICES ASSUME Init PROVE WorkInv
  OBVIOUS
<1> DEFINE idle == [i \in Slot |-> Idle(0)]
<1>1. PICK p \in Program : nactive = Len(p.cmd) /\ evals = spawnFromCmd(idle, p.cmd)
  BY DEF Init
<1>2. p.cmd \in Seq(Task) /\ Len(p.cmd) <= MAX_EVALS /\ Len(p.cmd) \in Nat
  BY ProgramAssumption
<1>3. idle \in [Slot -> Eval]
  BY EvalTypes, BoundAssumption
<1>4. Inactive(idle) = Slot /\ Active(idle) = {}
  BY DEF Inactive, Active, Idle
<1>5. Cardinality(Active(evals)) = Cardinality(Active(idle)) + Len(p.cmd)
  BY <1>1, <1>2, <1>3, <1>4, SlotFinite, SpawnCounts
<1>6. NactiveExact
  <2>1. Cardinality(Active(idle)) = 0
    BY <1>4, FS_EmptySet
  <2>2. Cardinality(Active(evals)) = Len(p.cmd)
    BY <1>2, <1>5, <2>1
  <2>3. QED  BY <1>1, <2>2 DEF NactiveExact, Active
<1>7. \A i \in Slot : evals[i].eff = NoEff
  <2>1. \A i \in Slot : idle[i].eff = NoEff
    BY DEF Idle
  <2> HIDE DEF idle
  <2>2. QED  BY <1>1, <1>2, <1>3, <2>1, SpawnType
<1>8. QED  BY <1>6, <1>7, NoEffFields DEF Init, WorkInv, WinchOpen

LEMMA NextWork == IInv /\ WorkInv /\ [Next]_vars => WorkInv'
<1> SUFFICES ASSUME IInv, WorkInv, [Next]_vars PROVE WorkInv'
  OBVIOUS
<1>1. outcome # "abandoned"
  BY DEF WorkInv
<1>2. CASE UNCHANGED vars
  BY <1>2, UnmovedWork DEF vars
<1>3. CASE stepEval
  BY <1>3, LeavesWork
<1>4. CASE EndCompleteReady \/ CheckRunnable \/ rebuildPollfds \/ NothingToReap
  BY <1>4, WaitsWork
<1>5. CASE ReapBeforePoll \/ reapBlocking \/ ReapAfterPoll \/ CleanupReap
  BY <1>5, ReapsWork
<1>6. CASE execComplete \/ sleepComplete \/ WinchComplete
  BY <1>6, CompletesWork
<1>7. CASE readFileDrain \/ execDrain
  BY <1>7, DrainsWork
<1>8. CASE CleanupEffects
  BY <1>8, CleanupWork
<1>9. CASE \/ Begin \/ BeginEval \/ EndEval \/ EndStepAll \/ Poll \/ WinchRead \/ WinchSize
           \/ EndDrainWinch \/ DrainSkip \/ EndDrain \/ EndFlush \/ CleanupDone
  <2>1. UNCHANGED <<evals, nactive, winch_fd>>
    BY <1>9 DEF Begin, BeginEval, EndEval, EndStepAll, Poll, WinchRead, WinchSize, EndDrainWinch,
                DrainSkip, EndDrain, EndFlush, CleanupDone, table, LeafFrame
  <2>2. outcome' # "abandoned" /\ pc' \notin Waits
    BY <1>1, <1>9 DEF Begin, BeginEval, EndEval, EndStepAll, Poll, WinchRead, WinchSize, EndDrainWinch,
                DrainSkip, EndDrain, EndFlush, CleanupDone, LeafFrame, control, Waits
  <2>3. QED  BY <2>1, <2>2, QuietWork
<1>10. CASE EnvStep
  BY <1>10, UnmovedWork DEF EnvStep, Produce, CloseStream, ChildExit, Tick, Resize
<1>11. CASE Terminated
  BY <1>2, <1>11 DEF Terminated
<1>12. QED
  BY <1>2, <1>3, <1>4, <1>5, <1>6, <1>7, <1>8, <1>9, <1>10, <1>11 DEF Next, HostStep

LEMMA WorkInvariance == Spec => []WorkInv
<1>1. Init => WorkInv
  BY InitWork
<1>2. IInv /\ WorkInv /\ [Next]_vars => WorkInv'
  BY NextWork
<1>3. QED  BY <1>1, <1>2, Invariance, PTL DEF Spec

\* nactive is moved by spawnFromCmd's length and by one at each deactivation, while the
\* slots are filled first free first: the two always agree.
THEOREM CountExact == Spec => []NactiveExact
<1>1. WorkInv => NactiveExact
  BY DEF WorkInv
<1>2. QED  BY <1>1, WorkInvariance, PTL

\* runProgramWith never polls or blocks in waitpid over an evaluation it could step, never
\* polls without a fd or a deadline, and never gives up on an evaluation in flight: the
\* exit it has for that, where reapBlocking finds no child, is never taken.
THEOREM NoWorkIsLeft == Spec => []NoWorkLeftBehind
<1>1. WorkInv => NoWorkLeftBehind
  BY DEF WorkInv, NoWorkLeftBehind
<1>2. QED  BY <1>1, WorkInvariance, PTL
=============================================================================
