-------------------------- MODULE StdinInputProofs --------------------------
(***************************************************************************)
(* Proofs about StdinInput, for any table, any programs and anything that  *)
(* is typed: types, and who may be left waiting; and for programs with one  *)
(* task at a time, that no bytes wait for the reader that polls for them.   *)
(***************************************************************************)
EXTENDS StdinInput, FiniteSetTheorems, SequenceTheorems, TLAPS

-----------------------------------------------------------------------------
(* Bytes and events *)

LEMMA SlotFacts ==
    /\ MAX_EVALS \in Nat /\ MAX_EVALS > 0
    /\ Slot \subseteq Int /\ IsFiniteSet(Slot)
<1>1. MAX_EVALS \in Nat /\ MAX_EVALS > 0
  BY BoundAssumption
<1>2. QED  BY <1>1, FS_Interval DEF Slot

LEMMA EventTypes ==
    /\ NoEvent \in AnyEvent /\ Tick \in AnyEvent
    /\ InputEvent \subseteq AnyEvent
    /\ \A k \in Kind : Eof(k) \in InputEvent
    /\ \A b \in Name : Key(b) \in InputEvent /\ Mouse(b) \in InputEvent
    /\ NoEvent \notin InputEvent
  BY DEF NoEvent, Tick, Event, AnyEvent, InputEvent, Kind, Name, Eof, Key, Mouse

LEMMA RestTyped ==
    ASSUME NEW S, NEW s \in Seq(S), NEW n \in Nat
    PROVE  Rest(s, n) \in Seq(S)
<1>1. \A i \in n + 1 .. Len(s) : s[i] \in S
  BY LenProperties, ElementOfSeq
<1>2. QED  BY <1>1, SubSeqProperties, LenProperties DEF Rest

\* What decodeInput finds is a key or a mouse event, of at least one byte.
LEMMA DecodeTyped ==
    ASSUME NEW buf \in Seq(Byte)
    PROVE  \/ decodeInput(buf) = Incomplete
           \/ /\ decodeInput(buf).event \in InputEvent
              /\ decodeInput(buf).consumed \in Nat
<1>1. Len(buf) \in Nat /\ (buf # <<>> => buf[1] \in Byte)
  BY EmptySeq, ElementOfSeq, LenProperties
<1>2. /\ Key("esc") \in InputEvent /\ Key("up") \in InputEvent
      /\ Key("other") \in InputEvent /\ Key("utf8") \in InputEvent
      /\ \A b \in Byte : Key(b) \in InputEvent /\ Mouse(b) \in InputEvent
  BY EventTypes DEF Name, Byte
<1>3. \/ decodeEsc(buf) = Incomplete
      \/ decodeEsc(buf).event \in InputEvent /\ decodeEsc(buf).consumed \in Nat
  <2>1. CASE Len(buf) < 2
    BY <2>1 DEF decodeEsc
  <2>2. CASE Len(buf) >= 2 /\ buf[2] # "["
    BY <1>1, <1>2, <2>2 DEF decodeEsc, Decoded
  <2>3. CASE Len(buf) >= 2 /\ buf[2] = "[" /\ Len(buf) < 3
    BY <1>1, <2>3 DEF decodeEsc
  <2>4. CASE Len(buf) >= 3 /\ buf[2] = "["
    <3>1. buf[3] \in Byte
      BY <1>1, <2>4, ElementOfSeq
    <3>2. QED  BY <1>1, <1>2, <2>4, <3>1 DEF decodeEsc, Decoded
  <2>5. QED  BY <1>1, <2>1, <2>2, <2>3, <2>4
<1>4. \/ decodeUtf8(buf) = Incomplete
      \/ decodeUtf8(buf).event \in InputEvent /\ decodeUtf8(buf).consumed \in Nat
  BY <1>1, <1>2 DEF decodeUtf8, Decoded
<1>5. CASE buf = <<>>
  BY <1>5 DEF decodeInput
<1>6. CASE buf # <<>>
  BY <1>1, <1>2, <1>3, <1>4, <1>6 DEF decodeInput, Decoded
<1>7. QED  BY <1>5, <1>6

-----------------------------------------------------------------------------
(* The table of evaluations *)

LEMMA RecordTypes ==
    /\ Idle \in Eval /\ Idle.at = "idle"
    /\ \A t \in Task : Fresh(t) \in Eval /\ Fresh(t).at = "start"
    /\ \A e \in Eval, ev \in AnyEvent : Done(e, ev) \in Eval /\ Done(e, ev).at = "done"
<1>1. <<>> \in Seq(Byte)
  OBVIOUS
<1>2. Idle \in Eval /\ Idle.at = "idle"
  BY <1>1, EventTypes DEF Idle, Eval, Entry, Task
<1>3. \A t \in Task : Fresh(t) \in Eval /\ Fresh(t).at = "start"
  BY <1>2 DEF Fresh, Eval, Entry
<1>4. \A e \in Eval, ev \in AnyEvent : Done(e, ev) \in Eval /\ Done(e, ev).at = "done"
  BY <1>2 DEF Done, Eval, Entry
<1>5. QED  BY <1>2, <1>3, <1>4

\* Spawning starts tasks in idle slots and leaves the others alone.
LEMMA SpawnTyped ==
    ASSUME NEW evs \in [Slot -> Eval], NEW cmd \in Seq(Task)
    PROVE  /\ spawnFromCmd(evs, cmd) \in [Slot -> Eval]
           /\ \A i \in Slot : \/ spawnFromCmd(evs, cmd)[i] = evs[i]
                              \/ spawnFromCmd(evs, cmd)[i].at = "start"
<1> DEFINE idle == {i \in Slot : evs[i].at = "idle"}
           rank(i) == Cardinality({j \in idle : j <= i})
           new == spawnFromCmd(evs, cmd)
<1>1. ASSUME NEW i \in idle, rank(i) <= Len(cmd)
      PROVE  cmd[rank(i)] \in Task
  <2>1. IsFiniteSet({j \in idle : j <= i})
    BY SlotFacts, FS_Subset
  <2>2. i \in {j \in idle : j <= i}
    BY <1>1, SlotFacts
  <2>3. rank(i) \in Nat /\ rank(i) # 0
    BY <2>1, <2>2, FS_CardinalityType, FS_EmptySet
  <2>4. rank(i) \in 1 .. Len(cmd)
    BY <1>1, <2>3, LenProperties
  <2>5. QED  BY <2>4, ElementOfSeq
<1>2. new = [i \in Slot |-> IF i \in idle /\ rank(i) <= Len(cmd) THEN Fresh(cmd[rank(i)]) ELSE evs[i]]
  BY DEF spawnFromCmd
<1> HIDE DEF rank, idle, new
<1>3. \A i \in Slot : /\ new[i] \in Eval
                      /\ new[i] = evs[i] \/ new[i].at = "start"
  BY <1>1, <1>2, RecordTypes
<1>4. new \in [Slot -> Eval]
  BY <1>2, <1>3
<1>5. QED  BY <1>3, <1>4 DEF new

-----------------------------------------------------------------------------
(* Types *)

\* The two facts about the constants that typed input rests on.
LEMMA SessionTypes ==
    ASSUME session \in Session
    PROVE  /\ session.start \in Seq(Task)
           /\ session.script \in Seq(InputEvent) /\ typed \in Seq(Byte)
           /\ Len(typed) \in Nat
  BY SessionAssumption, LenProperties DEF typed

LEMMA InitTypeOK == Init => TypeOK
<1> SUFFICES ASSUME Init PROVE TypeOK
  OBVIOUS
<1>1. session \in Session
  BY DEF Init
<1>2. [i \in Slot |-> Idle] \in [Slot -> Eval]
  BY RecordTypes
<1>3. evals \in [Slot -> Eval]
  BY <1>1, <1>2, SessionTypes, SpawnTyped DEF Init
<1>4. sent \in 0 .. Len(typed) /\ tty \in Seq(Byte) /\ hup \in BOOLEAN
  <2>1. <<>> \in Seq(Byte)
    OBVIOUS
  <2>2. 0 \in 0 .. Len(typed) /\ Len(typed) \in 0 .. Len(typed)
    BY <1>1, SessionTypes
  <2>3. CASE session.arrival = "piped"
    BY <1>1, <2>2, <2>3, SessionTypes DEF Init
  <2>4. CASE session.arrival # "piped"
    BY <2>1, <2>2, <2>4 DEF Init
  <2>5. QED  BY <2>3, <2>4
<1>5. /\ <<>> \in Seq(Byte) /\ <<>> \in Seq(InputEvent) /\ <<>> \in Seq(AnyEvent)
  OBVIOUS
<1>6. cur \in 0 .. MAX_EVALS /\ ready \subseteq Slot /\ pc # "input"
  BY SlotFacts DEF Init
<1>7. /\ stdin_eof \in BOOLEAN /\ stdin_pending \in Seq(Byte)
      /\ pending_events \in Seq(InputEvent) /\ got \in Seq(AnyEvent)
      /\ pc = "step" /\ ret = "outer" /\ back = "step"
  BY <1>5 DEF Init
<1>8. QED  BY <1>1, <1>3, <1>4, <1>6, <1>7 DEF TypeOK

LEMMA StepAllTypeOK ==
    ASSUME TypeOK, stepAll
    PROVE  TypeOK'
<1> USE DEF input, control, source
<1>1. CASE deliver
  <2>1. PICK i \in Slot :
            /\ Stepped(i) /\ evals[i].at = "done"
            /\ evals' = spawnFromCmd([evals EXCEPT ![i] = Idle], Respond(evals[i].event))
            /\ got' = Append(got, evals[i].event)
            /\ cur' = i + 1
    BY <1>1 DEF deliver
  <2>2. evals[i].event \in AnyEvent
    BY DEF TypeOK, Eval, Entry
  <2>3. evals' \in [Slot -> Eval]
    BY <2>1, <2>2, ProgramAssumption, SpawnTyped, RecordTypes DEF TypeOK
  <2>4. got' \in Seq(AnyEvent)
    BY <2>1, <2>2 DEF TypeOK
  <2>5. cur' \in 0 .. MAX_EVALS /\ pc' # "input"
    BY <1>1, <2>1, SlotFacts DEF Slot, deliver, Stepped
  <2>6. QED  BY <1>1, <2>3, <2>4, <2>5 DEF TypeOK, deliver, typed
<1>2. CASE leafSleep
  <2>1. PICK i \in Slot : /\ Stepped(i)
                          /\ evals' = [evals EXCEPT ![i].at = "asleep"]
                          /\ cur' = i + 1
    BY <1>2 DEF leafSleep
  <2>2. evals' \in [Slot -> Eval]
    BY <2>1 DEF TypeOK, Eval, Entry
  <2>3. cur' \in 0 .. MAX_EVALS /\ pc' # "input"
    BY <1>2, <2>1, SlotFacts DEF Slot, leafSleep, Stepped
  <2>4. QED  BY <1>2, <2>2, <2>3 DEF TypeOK, leafSleep, typed
<1>3. CASE leafReadAtEof
  <2>1. PICK i \in Slot : AtRead(i) /\ inputComplete(i, Eof(evals[i].task)) /\ cur' = i
    BY <1>3 DEF leafReadAtEof
  <2>2. Eof(evals[i].task) \in AnyEvent
    BY <2>1, EventTypes DEF AtRead
  <2>3. evals' \in [Slot -> Eval]
    BY <2>1, <2>2, RecordTypes DEF TypeOK, inputComplete
  <2>4. cur' \in 0 .. MAX_EVALS /\ pc' # "input"
    BY <1>3, <2>1, SlotFacts DEF Slot, leafReadAtEof, AtRead, Stepped
  <2>5. QED  BY <1>3, <2>3, <2>4 DEF TypeOK, leafReadAtEof, typed
<1>4. CASE leafReadParked
  <2>1. PICK i \in Slot, n \in 1 .. Len(pending_events) :
            /\ AtRead(i)
            /\ pending_events' = SubSeq(pending_events, 1, n - 1) \o Rest(pending_events, n)
            /\ inputComplete(i, pending_events[n])
            /\ cur' = i
    BY <1>4 DEF leafReadParked
  <2>2. pending_events \in Seq(InputEvent) /\ n \in Nat /\ Len(pending_events) \in Nat
    BY LenProperties DEF TypeOK
  <2>3. \A m \in 1 .. Len(pending_events) : pending_events[m] \in InputEvent
    BY <2>2, ElementOfSeq
  <2>4. evals' \in [Slot -> Eval]
    BY <2>1, <2>3, EventTypes, RecordTypes DEF TypeOK, inputComplete
  <2>5. SubSeq(pending_events, 1, n - 1) \in Seq(InputEvent)
    <3>1. \A m \in 1 .. n - 1 : pending_events[m] \in InputEvent
      BY <2>2, <2>3
    <3>2. QED  BY <2>2, <3>1, SubSeqProperties
  <2>6. pending_events' \in Seq(InputEvent)
    BY <2>1, <2>2, <2>5, RestTyped, ConcatProperties
  <2>7. cur' \in 0 .. MAX_EVALS /\ pc' # "input"
    BY <1>4, <2>1, SlotFacts DEF Slot, leafReadParked, AtRead, Stepped
  <2>8. QED  BY <1>4, <2>4, <2>6, <2>7 DEF TypeOK, leafReadParked, typed
<1>5. CASE leafReadArm
  <2>1. PICK i \in Slot : AtRead(i) /\ arm(i, "step")
    BY <1>5 DEF leafReadArm
  <2>2. evals' \in [Slot -> Eval] /\ evals'[i].at = "armed"
    BY <2>1 DEF TypeOK, Eval, Entry, arm, AtRead
  <2>3. cur' \in 0 .. MAX_EVALS /\ cur' \in Armed'
    BY <2>1, <2>2, SlotFacts DEF Slot, arm, Armed
  <2>4. <<>> \in Seq(Byte)
    OBVIOUS
  <2>5. QED  BY <1>5, <2>1, <2>2, <2>3, <2>4 DEF TypeOK, leafReadArm, arm, typed
<1>6. CASE EndStepAll
  <2>1. cur' = 0 /\ 0 \in 0 .. MAX_EVALS
    BY <1>6, SlotFacts DEF EndStepAll
  <2>2. QED  BY <1>6, <2>1 DEF TypeOK, EndStepAll, typed
<1>7. QED  BY <1>1, <1>2, <1>3, <1>4, <1>5, <1>6 DEF stepAll

LEMMA BeforePollTypeOK ==
    ASSUME TypeOK, BeforePoll
    PROVE  TypeOK'
<1> USE DEF input, control, source
<1>1. CASE drainPendingStdin
  <2>1. PICK i \in Slot : i \in EmptyHanded /\ arm(i, "pending")
    BY <1>1 DEF drainPendingStdin, Least
  <2>2. evals' \in [Slot -> Eval] /\ evals'[i].at = "armed"
    BY <2>1 DEF TypeOK, Eval, Entry, arm, EmptyHanded, Armed
  <2>3. cur' \in 0 .. MAX_EVALS /\ cur' \in Armed'
    BY <2>1, <2>2, SlotFacts DEF Slot, arm, Armed
  <2>4. <<>> \in Seq(Byte)
    OBVIOUS
  <2>5. QED  BY <1>1, <2>1, <2>2, <2>3, <2>4 DEF TypeOK, drainPendingStdin, arm, typed
<1>2. CASE EndPending
  BY <1>2 DEF TypeOK, EndPending, typed
<1>3. CASE CheckRunnable
  <2>1. cur' \in 0 .. MAX_EVALS
    BY <1>3, SlotFacts DEF CheckRunnable, TypeOK
  <2>2. QED  BY <1>3, <2>1 DEF TypeOK, CheckRunnable, typed
<1>4. QED  BY <1>1, <1>2, <1>3 DEF BeforePoll

\* An event handed on: a reader is completed, or the event parked.
LEMMA DeliverTyped ==
    ASSUME NEW evs \in [Slot -> Eval], NEW ev \in InputEvent,
           pending_events \in Seq(InputEvent), deliverInputEvent(evs, ev)
    PROVE  /\ evals' \in [Slot -> Eval]
           /\ pending_events' \in Seq(InputEvent)
           /\ \A j \in Slot : \/ evals'[j] = evs[j]
                              \/ evs[j].task = ev.kind
<1> DEFINE readers == {i \in Slot : evs[i].at = "armed" /\ evs[i].task = ev.kind}
<1>1. CASE \E i \in Slot : /\ Least(i, readers)
                          /\ evals' = [evs EXCEPT ![i] = Done(@, ev)]
                          /\ UNCHANGED pending_events
  <2>1. PICK i \in Slot : /\ i \in readers
                         /\ evals' = [evs EXCEPT ![i] = Done(@, ev)]
                         /\ UNCHANGED pending_events
    BY <1>1 DEF Least
  <2>2. Done(evs[i], ev) \in Eval
    BY EventTypes, RecordTypes
  <2>3. QED  BY <2>1, <2>2
<1>2. CASE evals' = evs /\ pending_events' = Append(pending_events, ev)
  BY <1>2
<1>3. QED  BY <1>1, <1>2 DEF deliverInputEvent

LEMMA InputDrainTypeOK ==
    ASSUME TypeOK, inputDrain
    PROVE  TypeOK'
<1> USE DEF input, control, source
<1>1. evals \in [Slot -> Eval] /\ (pc = "input" => cur \in Armed)
  BY DEF TypeOK
<1>2. ASSUME pc = "input"
      PROVE  /\ cur \in Slot /\ evals[cur] \in Eval /\ buffered \in Seq(Byte)
             /\ \/ decoded = Incomplete
                \/ /\ decoded.event \in InputEvent
                   /\ leftover \in Seq(Byte)
  <2>1. cur \in Slot /\ evals[cur] \in Eval /\ buffered \in Seq(Byte)
    BY <1>1, <1>2 DEF Armed, Eval, Entry, buffered
  <2>2. QED  BY <2>1, DecodeTyped, RestTyped DEF decoded, leftover
<1>3. CASE inputMatches
  <2>1. /\ pc = "input" /\ decoded # Incomplete
        /\ stdin_pending' = stdin_pending \o leftover
        /\ evals' = [evals EXCEPT ![cur] = Done(@, decoded.event)]
        /\ pc' = back
    BY <1>3 DEF inputMatches, PushBack, inputComplete
  <2>2. stdin_pending' \in Seq(Byte)
    BY <1>2, <2>1, ConcatProperties DEF TypeOK
  <2>3. decoded.event \in AnyEvent
    BY <1>2, <2>1, EventTypes
  <2>4. evals' \in [Slot -> Eval]
    BY <1>1, <1>2, <2>1, <2>3, RecordTypes
  <2>5. QED  BY <1>3, <2>1, <2>2, <2>4 DEF TypeOK, inputMatches, typed
<1>4. CASE inputRoutes
  <2> DEFINE mid == [evals EXCEPT ![cur].buf = leftover]
  <2>1. /\ pc = "input" /\ decoded # Incomplete /\ decoded.event.kind # want
        /\ deliverInputEvent(mid, decoded.event)
    BY <1>4 DEF inputRoutes
  <2>2. mid \in [Slot -> Eval] /\ mid[cur].task = want /\ mid[cur].at = "armed"
    BY <1>1, <1>2, <2>1 DEF Eval, Entry, want, Armed
  <2> HIDE DEF mid
  <2>3. /\ evals' \in [Slot -> Eval]
        /\ pending_events' \in Seq(InputEvent)
        /\ evals'[cur] = mid[cur]
    BY <1>2, <2>1, <2>2, DeliverTyped DEF TypeOK
  <2>4. cur \in Armed'
    BY <1>2, <2>1, <2>2, <2>3 DEF Armed
  <2>5. QED  BY <1>4, <2>3, <2>4 DEF TypeOK, inputRoutes, typed
<1>5. CASE inputReads
  <2>1. /\ pc = "input"
        /\ evals' = [evals EXCEPT ![cur].buf = @ \o tty]
        /\ tty' = <<>>
    BY <1>5 DEF inputReads
  <2>2. buffered \o tty \in Seq(Byte)
    BY <1>2, <2>1, ConcatProperties DEF TypeOK
  <2>3. evals' \in [Slot -> Eval] /\ evals'[cur].at = "armed"
    BY <1>1, <1>2, <2>1, <2>2 DEF Eval, Entry, buffered, Armed
  <2>4. cur \in Armed' /\ <<>> \in Seq(Byte)
    BY <1>2, <2>1, <2>3 DEF Armed
  <2>5. QED  BY <1>5, <2>1, <2>3, <2>4 DEF TypeOK, inputReads, typed
<1>6. CASE inputSuspends
  <2>1. /\ pc = "input" /\ pc' = back
        /\ evals' = [evals EXCEPT ![cur].esc_wait = buffered # <<>> /\ buffered[1] = "esc"]
    BY <1>6 DEF inputSuspends
  <2>2. evals' \in [Slot -> Eval]
    BY <1>1, <1>2, <2>1 DEF Eval, Entry
  <2>3. QED  BY <1>6, <2>1, <2>2 DEF TypeOK, inputSuspends, typed
<1>7. CASE inputAtEof
  <2>1. /\ pc = "input" /\ pc' = "eof" /\ stdin_eof' = TRUE
        /\ evals' = [evals EXCEPT ![cur] = Done(@, Eof(want))]
    BY <1>7 DEF inputAtEof, AfterEof, inputComplete
  <2>2. Eof(want) \in AnyEvent
    BY <1>1, <1>2, <1>7, EventTypes DEF want, Eval, Armed, inputAtEof
  <2>3. evals' \in [Slot -> Eval]
    BY <1>1, <1>2, <2>1, <2>2, RecordTypes
  <2>4. QED  BY <1>7, <2>1, <2>3 DEF TypeOK, inputAtEof, typed
<1>8. CASE flushEof
  <2>1. CASE \E i \in Slot : Least(i, Armed) /\ inputComplete(i, Eof(evals[i].task)) /\ UNCHANGED pc
    <3>1. PICK i \in Slot : /\ i \in Armed
                           /\ evals' = [evals EXCEPT ![i] = Done(@, Eof(evals[i].task))]
      BY <2>1 DEF inputComplete, Least
    <3>2. Eof(evals[i].task) \in AnyEvent
      BY <1>1, <3>1, EventTypes DEF Eval, Armed
    <3>3. evals' \in [Slot -> Eval]
      BY <1>1, <3>1, <3>2, RecordTypes
    <3>4. QED  BY <1>8, <2>1, <3>3 DEF TypeOK, flushEof, typed
  <2>2. CASE Armed = {} /\ pc' = back /\ UNCHANGED evals
    BY <1>8, <2>2 DEF TypeOK, flushEof, typed
  <2>3. QED  BY <1>8, <2>1, <2>2 DEF flushEof
<1>9. QED  BY <1>3, <1>4, <1>5, <1>6, <1>7, <1>8 DEF inputDrain

LEMMA AfterPollTypeOK ==
    ASSUME TypeOK, AfterPoll
    PROVE  TypeOK'
<1> USE DEF input, control, source
<1>1. evals \in [Slot -> Eval] /\ pending_events \in Seq(InputEvent)
  BY DEF TypeOK
<1>2. CASE PollReady
  <2>1. ready' \subseteq Slot
    BY <1>2 DEF PollReady, PollSet, Armed
  <2>2. QED  BY <1>2, <2>1 DEF TypeOK, PollReady, typed
<1>3. CASE PollTimeout
  BY <1>3 DEF TypeOK, PollTimeout, typed
<1>4. CASE flushEscWaits
  <2>1. Key("esc") \in InputEvent /\ Key("esc") \in AnyEvent
    BY EventTypes DEF Name, Byte
  <2>2. /\ evals' \in [Slot -> Eval]
        /\ pending_events' \in Seq(InputEvent)
    <3>1. CASE UNCHANGED <<evals, pending_events>>
      BY <1>1, <3>1
    <3>2. ASSUME NEW i \in Slot, inputComplete(i, Key("esc")), UNCHANGED pending_events
          PROVE  /\ evals' \in [Slot -> Eval]
                 /\ pending_events' \in Seq(InputEvent)
      BY <1>1, <2>1, <3>2, RecordTypes DEF inputComplete
    <3>3. ASSUME NEW i \in Slot,
                 deliverInputEvent([evals EXCEPT ![i].buf = <<>>, ![i].esc_wait = FALSE],
                                   Key("esc"))
          PROVE  /\ evals' \in [Slot -> Eval]
                 /\ pending_events' \in Seq(InputEvent)
      <4> DEFINE mid == [evals EXCEPT ![i].buf = <<>>, ![i].esc_wait = FALSE]
      <4>1. <<>> \in Seq(Byte)
        OBVIOUS
      <4>2. mid \in [Slot -> Eval]
        BY <1>1, <4>1 DEF Eval, Entry
      <4> HIDE DEF mid
      <4>3. deliverInputEvent(mid, Key("esc"))
        BY <3>3 DEF mid
      <4>4. QED  BY <1>1, <2>1, <4>2, <4>3, DeliverTyped
    <3>4. QED  BY <1>4, <3>1, <3>2, <3>3 DEF flushEscWaits
  <2>3. pc' # "input" /\ pc' \in {"flush_esc", "drain"}
    BY <1>4 DEF flushEscWaits
  <2>4. QED  BY <1>4, <2>2, <2>3 DEF TypeOK, flushEscWaits, typed
<1>5. CASE drainReady
  <2>1. PICK i \in Slot :
            /\ ready' = ready \ {i}
            /\ IF i \in Armed THEN pc' = "input" /\ back' = "drain" /\ cur' = i
                              ELSE UNCHANGED <<pc, back, cur>>
    BY <1>5 DEF drainReady
  <2>2. ready' \subseteq Slot /\ cur' \in 0 .. MAX_EVALS /\ (pc' = "input" => cur' \in Armed')
    BY <1>5, <2>1, SlotFacts DEF TypeOK, drainReady, Armed, Slot
  <2>3. QED  BY <1>5, <2>1, <2>2 DEF TypeOK, drainReady, typed
<1>6. CASE EndDrain
  BY <1>6 DEF TypeOK, EndDrain, typed
<1>7. CASE sleepComplete
  <2>1. PICK i \in Slot :
            evals' = [evals EXCEPT ![i] = IF @.task = "tick" THEN Done(@, Tick) ELSE Fresh("key")]
    BY <1>7 DEF sleepComplete, Asleep
  <2>2. evals' \in [Slot -> Eval]
    BY <1>1, <2>1, RecordTypes, EventTypes DEF Task
  <2>3. QED  BY <1>7, <2>2 DEF TypeOK, sleepComplete, typed
<1>8. CASE EndFlush
  <2>1. cur' \in 0 .. MAX_EVALS
    BY <1>8, SlotFacts DEF EndFlush
  <2>2. QED  BY <1>8, <2>1 DEF TypeOK, EndFlush, typed
<1>9. QED  BY <1>2, <1>3, <1>4, <1>5, <1>6, <1>7, <1>8 DEF AfterPoll

LEMMA TerminalTypeOK ==
    ASSUME TypeOK, Type \/ HangUp \/ UNCHANGED vars
    PROVE  TypeOK'
<1> USE DEF input, control, source
<1>1. typed \in Seq(Byte) /\ Len(typed) \in Nat
  BY SessionTypes DEF TypeOK
<1>2. CASE Type
  <2>1. PICK n \in sent + 1 .. Len(typed) :
            tty' = tty \o SubSeq(typed, sent + 1, n) /\ sent' = n
    BY <1>2 DEF Type
  <2>2. sent \in Nat /\ n \in Nat /\ n <= Len(typed)
    BY <1>1, <2>1 DEF TypeOK
  <2>3. \A m \in sent + 1 .. n : typed[m] \in Byte
    BY <1>1, <2>2, ElementOfSeq
  <2>4. SubSeq(typed, sent + 1, n) \in Seq(Byte)
    BY <1>1, <2>2, <2>3, SubSeqProperties
  <2>5. tty' \in Seq(Byte) /\ sent' \in 0 .. Len(typed)
    BY <1>1, <2>1, <2>2, <2>4, ConcatProperties DEF TypeOK
  <2>6. QED  BY <1>2, <2>5 DEF TypeOK, Type, Armed, typed
<1>3. CASE HangUp
  BY <1>3 DEF TypeOK, HangUp, Armed, typed
<1>4. CASE UNCHANGED vars
  BY <1>4 DEF TypeOK, vars, Armed, typed
<1>5. QED  BY <1>2, <1>3, <1>4

\* Every variable has its type, and the reader in inputDrain is still armed:
\* no event it routes to a sibling is ever its own.
THEOREM TypeCorrect == Spec => []TypeOK
<1>1. TypeOK /\ [Next]_vars => TypeOK'
  BY StepAllTypeOK, InputDrainTypeOK, BeforePollTypeOK, AfterPollTypeOK, TerminalTypeOK
  DEF Next, HostStep, Terminated
<1>2. QED  BY InitTypeOK, <1>1, PTL DEF Spec

-----------------------------------------------------------------------------
(* Who may be left waiting *)

NobodyForgotten == NoReaderOverTypeahead /\ EofReachesAll

\* A step that arms nobody, parks nothing and does not end the input.
LEMMA NobodyArmed ==
    ASSUME NobodyForgotten,
           \A i \in Slot : evals'[i].at = "armed" =>
                               evals[i].at = "armed" /\ evals'[i].task = evals[i].task,
           UNCHANGED <<pending_events, stdin_eof>>,
           pc = "eof" => pc' = "eof"
    PROVE  NobodyForgotten'
<1>1. Armed' \subseteq Armed
  BY DEF Armed
<1>2. \A k \in Kind \cup {"user", "none"} : ArmedFor(k)' \subseteq ArmedFor(k)
  BY DEF ArmedFor, Armed
<1>3. NoReaderOverTypeahead'
  BY DEF NobodyForgotten, NoReaderOverTypeahead, ArmedFor, Armed
<1>4. EofReachesAll'
  BY <1>1 DEF NobodyForgotten, EofReachesAll
<1>5. QED  BY <1>3, <1>4 DEF NobodyForgotten

\* An event handed on is parked only if no reader of its kind is armed.
LEMMA DeliverForgetsNobody ==
    ASSUME TypeOK, NobodyForgotten,
           NEW mid \in [Slot -> Eval], NEW ev \in InputEvent,
           \A j \in Slot : mid[j].at = evals[j].at /\ mid[j].task = evals[j].task,
           deliverInputEvent(mid, ev), UNCHANGED <<stdin_eof, pc>>
    PROVE  NobodyForgotten'
<1> DEFINE readers == {i \in Slot : mid[i].at = "armed" /\ mid[i].task = ev.kind}
<1>1. CASE \E i \in Slot : /\ Least(i, readers)
                          /\ evals' = [mid EXCEPT ![i] = Done(@, ev)]
                          /\ UNCHANGED pending_events
  <2>1. PICK i \in Slot : /\ evals' = [mid EXCEPT ![i] = Done(@, ev)]
                          /\ UNCHANGED pending_events
    BY <1>1
  <2>2. Done(mid[i], ev).at = "done"
    BY RecordTypes, EventTypes
  <2>3. \A j \in Slot : evals'[j].at = "armed" =>
                            evals[j].at = "armed" /\ evals'[j].task = evals[j].task
    BY <2>1, <2>2
  <2>4. QED  BY <2>1, <2>3, NobodyArmed
<1>2. CASE readers = {} /\ evals' = mid /\ pending_events' = Append(pending_events, ev)
  <2>1. Armed' = Armed /\ ArmedFor(ev.kind)' = {}
    BY <1>2 DEF Armed, ArmedFor
  <2>2. \A n \in DOMAIN pending_events' :
            \/ n \in DOMAIN pending_events /\ pending_events'[n] = pending_events[n]
            \/ pending_events'[n] = ev
    BY <1>2, AppendProperties DEF TypeOK
  <2>3. \A n \in DOMAIN pending_events : ArmedFor(pending_events[n].kind)' = {}
    BY <1>2 DEF NobodyForgotten, NoReaderOverTypeahead, ArmedFor, Armed
  <2>4. NoReaderOverTypeahead'
    BY <2>1, <2>2, <2>3 DEF NoReaderOverTypeahead, ArmedFor, Armed
  <2>5. EofReachesAll'
    BY <2>1 DEF NobodyForgotten, EofReachesAll
  <2>6. QED  BY <2>4, <2>5 DEF NobodyForgotten
<1>3. QED  BY <1>1, <1>2 DEF deliverInputEvent

LEMMA StepAllForgetsNobody ==
    ASSUME TypeOK, NobodyForgotten, stepAll
    PROVE  NobodyForgotten'
<1> USE DEF input, control, source
<1>1. evals \in [Slot -> Eval]
  BY DEF TypeOK
<1>2. CASE deliver
  <2>1. PICK i \in Slot :
            evals' = spawnFromCmd([evals EXCEPT ![i] = Idle], Respond(evals[i].event))
    BY <1>2 DEF deliver
  <2>2. evals[i].event \in AnyEvent
    BY <1>1 DEF Eval, Entry
  <2>3. [evals EXCEPT ![i] = Idle] \in [Slot -> Eval]
    BY <1>1, RecordTypes
  <2>4. \A j \in Slot : evals'[j].at = "armed" => evals'[j] = evals[j]
    BY <1>1, <2>1, <2>2, <2>3, ProgramAssumption, SpawnTyped, RecordTypes
  <2>5. QED  BY <1>2, <2>4, NobodyArmed DEF deliver, Stepped
<1>3. CASE leafSleep
  <2>1. \A j \in Slot : evals'[j].at = "armed" => evals'[j] = evals[j]
    BY <1>1, <1>3 DEF leafSleep, Eval, Entry
  <2>2. QED  BY <1>3, <2>1, NobodyArmed DEF leafSleep, Stepped
<1>4. CASE leafReadAtEof
  <2>1. PICK i \in Slot : AtRead(i) /\ evals' = [evals EXCEPT ![i] = Done(@, Eof(evals[i].task))]
    BY <1>4 DEF leafReadAtEof, inputComplete
  <2>2. Eof(evals[i].task) \in AnyEvent
    BY <2>1, EventTypes DEF AtRead
  <2>3. \A j \in Slot : evals'[j].at = "armed" => evals'[j] = evals[j]
    BY <1>1, <2>1, <2>2, RecordTypes
  <2>4. QED  BY <1>4, <2>3, NobodyArmed DEF leafReadAtEof
<1>5. CASE leafReadParked
  <2>1. PICK i \in Slot, n \in 1 .. Len(pending_events) :
            /\ pending_events' = SubSeq(pending_events, 1, n - 1) \o Rest(pending_events, n)
            /\ evals' = [evals EXCEPT ![i] = Done(@, pending_events[n])]
    BY <1>5 DEF leafReadParked, inputComplete
  <2>2. pending_events \in Seq(InputEvent) /\ n \in Nat /\ Len(pending_events) \in Nat
    BY LenProperties DEF TypeOK
  <2>3. pending_events[n] \in AnyEvent
    BY <2>1, <2>2, ElementOfSeq, EventTypes
  <2>4. \A j \in Slot : evals'[j].at = "armed" => evals'[j] = evals[j]
    BY <1>1, <2>1, <2>3, RecordTypes
  <2> DEFINE Served == {ev \in InputEvent : ArmedFor(ev.kind)' = {}}
  <2>5. \A m \in 1 .. Len(pending_events) : pending_events[m] \in Served
    <3>1. \A m \in 1 .. Len(pending_events) : pending_events[m] \in InputEvent
      BY <2>2, ElementOfSeq
    <3>2. DOMAIN pending_events = 1 .. Len(pending_events)
      BY <2>2, LenProperties
    <3>3. QED  BY <2>4, <3>1, <3>2
               DEF NobodyForgotten, NoReaderOverTypeahead, ArmedFor, Armed
  <2>6. NoReaderOverTypeahead'
    <3> HIDE DEF Served
    <3>1. SubSeq(pending_events, 1, n - 1) \in Seq(Served)
      <4>1. \A m \in 1 .. n - 1 : pending_events[m] \in Served
        BY <2>2, <2>5
      <4>2. QED  BY <2>2, <4>1, SubSeqProperties
    <3>2. Rest(pending_events, n) \in Seq(Served)
      <4>1. \A m \in n + 1 .. Len(pending_events) : pending_events[m] \in Served
        BY <2>2, <2>5
      <4>2. QED  BY <2>2, <4>1, SubSeqProperties DEF Rest
    <3>3. pending_events' \in Seq(Served)
      BY <2>1, <3>1, <3>2, ConcatProperties
    <3>4. \A m \in DOMAIN pending_events' : pending_events'[m] \in Served
      BY <3>3, LenProperties, ElementOfSeq
    <3>5. QED  BY <3>4 DEF Served, NoReaderOverTypeahead
  <2>7. EofReachesAll'
    BY <1>5 DEF EofReachesAll, leafReadParked
  <2>8. QED  BY <2>6, <2>7 DEF NobodyForgotten
<1>6. CASE leafReadArm
  <2>1. PICK i \in Slot : /\ Parked(evals[i].task) = {}
                          /\ evals' = [evals EXCEPT ![i].at = "armed", ![i].buf = stdin_pending]
    BY <1>6 DEF leafReadArm, arm
  <2>2. \A j \in Slot : /\ evals'[j].task = evals[j].task
                        /\ evals'[j].at = "armed" => j = i \/ evals[j].at = "armed"
    BY <1>1, <2>1 DEF Eval, Entry
  <2>3. pending_events' = pending_events /\ ~stdin_eof'
    BY <1>6 DEF leafReadArm
  <2>4. ASSUME NEW n \in DOMAIN pending_events, NEW j \in Slot, evals'[j].at = "armed",
               evals'[j].task = pending_events[n].kind
        PROVE  FALSE
    <3>1. CASE j = i
      BY <2>1, <2>2, <2>4, <3>1 DEF Parked
    <3>2. CASE evals[j].at = "armed"
      BY <2>2, <2>4, <3>2 DEF NobodyForgotten, NoReaderOverTypeahead, ArmedFor, Armed
    <3>3. QED  BY <2>2, <2>4, <3>1, <3>2
  <2>5. NoReaderOverTypeahead'
    BY <2>3, <2>4 DEF NoReaderOverTypeahead, ArmedFor, Armed
  <2>6. QED  BY <2>3, <2>5 DEF NobodyForgotten, EofReachesAll
<1>7. CASE EndStepAll
  BY <1>7, NobodyArmed DEF EndStepAll
<1>8. QED  BY <1>2, <1>3, <1>4, <1>5, <1>6, <1>7 DEF stepAll

LEMMA InputDrainForgetsNobody ==
    ASSUME TypeOK, NobodyForgotten, inputDrain
    PROVE  NobodyForgotten'
<1> USE DEF input, control, source
<1>1. evals \in [Slot -> Eval] /\ (pc = "input" => cur \in Armed)
  BY DEF TypeOK
<1>2. ASSUME pc = "input"
      PROVE  /\ cur \in Slot /\ evals[cur] \in Eval /\ want \in Kind /\ buffered \in Seq(Byte)
             /\ decoded # Incomplete => decoded.event \in InputEvent /\ leftover \in Seq(Byte)
  <2>1. /\ cur \in Slot /\ evals[cur] \in Eval /\ want \in Kind /\ buffered \in Seq(Byte)
    BY <1>1, <1>2 DEF Armed, Eval, Entry, buffered, want
  <2>2. QED  BY <2>1, DecodeTyped, RestTyped DEF decoded, leftover
<1>3. CASE inputMatches
  <2>1. \A j \in Slot : evals'[j].at = "armed" => evals'[j] = evals[j]
    <3>1. decoded.event \in AnyEvent
      BY <1>2, <1>3, EventTypes DEF inputMatches
    <3>2. QED  BY <1>1, <1>3, <3>1, RecordTypes DEF inputMatches, inputComplete
  <2>2. QED  BY <1>3, <2>1, NobodyArmed DEF inputMatches
<1>4. CASE inputRoutes
  <2> DEFINE mid == [evals EXCEPT ![cur].buf = leftover]
  <2>1. pc = "input" /\ decoded # Incomplete /\ deliverInputEvent(mid, decoded.event)
    BY <1>4 DEF inputRoutes
  <2>2. /\ mid \in [Slot -> Eval]
        /\ \A j \in Slot : mid[j].at = evals[j].at /\ mid[j].task = evals[j].task
    BY <1>1, <1>2, <2>1 DEF Eval, Entry
  <2> HIDE DEF mid
  <2>3. QED  BY <1>2, <1>4, <2>1, <2>2, DeliverForgetsNobody DEF inputRoutes
<1>5. CASE inputReads
  <2>1. \A j \in Slot : evals'[j].at = evals[j].at /\ evals'[j].task = evals[j].task
    BY <1>1, <1>5 DEF inputReads, Eval, Entry
  <2>2. QED  BY <1>5, <2>1, NobodyArmed DEF inputReads
<1>6. CASE inputSuspends
  <2>1. \A j \in Slot : evals'[j].at = evals[j].at /\ evals'[j].task = evals[j].task
    BY <1>1, <1>6 DEF inputSuspends, Eval, Entry
  <2>2. QED  BY <1>6, <2>1, NobodyArmed DEF inputSuspends
<1>7. CASE inputAtEof
  <2>1. Eof(want) \in AnyEvent
    BY <1>2, <1>7, EventTypes DEF inputAtEof
  <2>2. \A j \in Slot : evals'[j].at = "armed" => evals'[j] = evals[j]
    BY <1>1, <1>7, <2>1, RecordTypes DEF inputAtEof, inputComplete
  <2>3. pc' = "eof" /\ pending_events' = pending_events
    BY <1>7 DEF inputAtEof, AfterEof
  <2>4. NoReaderOverTypeahead'
    BY <2>2, <2>3 DEF NobodyForgotten, NoReaderOverTypeahead, ArmedFor, Armed
  <2>5. QED  BY <2>3, <2>4 DEF NobodyForgotten, EofReachesAll
<1>8. CASE flushEof
  <2>1. CASE \E i \in Slot : Least(i, Armed) /\ inputComplete(i, Eof(evals[i].task)) /\ UNCHANGED pc
    <3>1. PICK i \in Slot : /\ i \in Armed
                           /\ evals' = [evals EXCEPT ![i] = Done(@, Eof(evals[i].task))]
      BY <2>1 DEF inputComplete, Least
    <3>2. Eof(evals[i].task) \in AnyEvent
      BY <1>1, <3>1, EventTypes DEF Eval, Armed
    <3>3. \A j \in Slot : evals'[j].at = "armed" => evals'[j] = evals[j]
      BY <1>1, <3>1, <3>2, RecordTypes
    <3>4. QED  BY <1>8, <2>1, <3>3, NobodyArmed DEF flushEof
  <2>2. CASE Armed = {} /\ UNCHANGED evals
    BY <1>8, <2>2 DEF NobodyForgotten, NoReaderOverTypeahead, EofReachesAll, ArmedFor, Armed, flushEof
  <2>3. QED  BY <1>8, <2>1, <2>2 DEF flushEof
<1>9. QED  BY <1>3, <1>4, <1>5, <1>6, <1>7, <1>8 DEF inputDrain

LEMMA PollForgetsNobody ==
    ASSUME TypeOK, NobodyForgotten, BeforePoll \/ AfterPoll
    PROVE  NobodyForgotten'
<1> USE DEF input, control, source
<1>1. evals \in [Slot -> Eval]
  BY DEF TypeOK
<1>2. CASE drainPendingStdin
  <2>1. PICK i \in Slot : /\ i \in Armed
                          /\ evals' = [evals EXCEPT ![i].at = "armed", ![i].buf = stdin_pending]
    BY <1>2 DEF drainPendingStdin, Least, EmptyHanded, arm
  <2>2. \A j \in Slot : evals'[j].at = evals[j].at /\ evals'[j].task = evals[j].task
    BY <1>1, <2>1 DEF Eval, Entry, Armed
  <2>3. QED  BY <1>2, <2>2, NobodyArmed DEF drainPendingStdin
<1>3. CASE EndPending \/ CheckRunnable
  BY <1>3, NobodyArmed DEF EndPending, CheckRunnable
<1>4. CASE PollReady \/ PollTimeout \/ drainReady \/ EndDrain \/ EndFlush
  BY <1>4, NobodyArmed DEF PollReady, PollTimeout, drainReady, EndDrain, EndFlush
<1>5. CASE flushEscWaits
  <2>1. Key("esc") \in InputEvent /\ Key("esc") \in AnyEvent
    BY EventTypes DEF Name, Byte
  <2>2. CASE UNCHANGED <<evals, pending_events>>
    BY <1>5, <2>2, NobodyArmed DEF flushEscWaits
  <2>3. ASSUME NEW i \in Slot, inputComplete(i, Key("esc")), UNCHANGED <<pending_events, pc>>
        PROVE  NobodyForgotten'
    <3>1. \A j \in Slot : evals'[j].at = "armed" => evals'[j] = evals[j]
      BY <1>1, <2>1, <2>3, RecordTypes DEF inputComplete
    <3>2. QED  BY <1>5, <2>3, <3>1, NobodyArmed DEF flushEscWaits
  <2>4. ASSUME NEW i \in Slot, UNCHANGED pc,
               deliverInputEvent([evals EXCEPT ![i].buf = <<>>, ![i].esc_wait = FALSE],
                                 Key("esc"))
        PROVE  NobodyForgotten'
    <3> DEFINE mid == [evals EXCEPT ![i].buf = <<>>, ![i].esc_wait = FALSE]
    <3>1. <<>> \in Seq(Byte)
      OBVIOUS
    <3>2. /\ mid \in [Slot -> Eval]
          /\ \A j \in Slot : mid[j].at = evals[j].at /\ mid[j].task = evals[j].task
      BY <1>1, <3>1 DEF Eval, Entry
    <3> HIDE DEF mid
    <3>3. deliverInputEvent(mid, Key("esc"))
      BY <2>4 DEF mid
    <3>4. QED  BY <1>5, <2>1, <2>4, <3>2, <3>3, DeliverForgetsNobody DEF flushEscWaits
  <2>5. QED  BY <1>5, <2>2, <2>3, <2>4 DEF flushEscWaits
<1>6. CASE sleepComplete
  <2>1. PICK i \in Slot :
            evals' = [evals EXCEPT ![i] = IF @.task = "tick" THEN Done(@, Tick) ELSE Fresh("key")]
    BY <1>6 DEF sleepComplete, Asleep
  <2>2. \A j \in Slot : evals'[j].at = "armed" => evals'[j] = evals[j]
    BY <1>1, <2>1, RecordTypes, EventTypes DEF Task
  <2>3. QED  BY <1>6, <2>2, NobodyArmed DEF sleepComplete
<1>7. QED  BY <1>2, <1>3, <1>4, <1>5, <1>6 DEF BeforePoll, AfterPoll

LEMMA NobodyForgottenAlways == Spec => []NobodyForgotten
<1>1. Init => NobodyForgotten
  <2> SUFFICES ASSUME Init PROVE NobodyForgotten
    OBVIOUS
  <2>1. pending_events = <<>> /\ stdin_eof = FALSE
    BY DEF Init
  <2>2. QED  BY <2>1 DEF NobodyForgotten, NoReaderOverTypeahead, EofReachesAll
<1>2. TypeOK /\ NobodyForgotten /\ [Next]_vars => NobodyForgotten'
  <2> SUFFICES ASSUME TypeOK, NobodyForgotten, [Next]_vars PROVE NobodyForgotten'
    OBVIOUS
  <2>1. CASE Type \/ HangUp \/ UNCHANGED vars
    BY <2>1, NobodyArmed DEF Type, HangUp, vars, input, control, source
  <2>2. QED  BY <2>1, StepAllForgetsNobody, InputDrainForgetsNobody, PollForgetsNobody
             DEF Next, HostStep, Terminated
<1>3. QED  BY <1>1, <1>2, TypeCorrect, PTL DEF Spec

\* No reader waits for what is already there: an event is parked only while
\* nobody is armed for its kind (deliverInputEvent), and a reader that starts
\* takes the parked event instead of arming (popPending in leaf).
THEOREM TypeaheadServed == Spec => []NoReaderOverTypeahead
BY NobodyForgottenAlways, PTL DEF NobodyForgotten

\* Once one reader has met the end of the input, no reader is armed again, so
\* the poll set stays empty: flushEof completes the others, and leaf answers
\* later readers from the latch.
THEOREM EofReachesEveryReader == Spec => []EofReachesAll
BY NobodyForgottenAlways, PTL DEF NobodyForgotten
-----------------------------------------------------------------------------
(* One task at a time *)

\* No command of the program has more than one task: what Task.perform of one
\* chain of tasks makes.
OneTaskAtATime ==
    /\ \A s \in Session : Len(s.start) <= 1
    /\ \A ev \in AnyEvent : Len(Respond(ev)) <= 1

\* At most one evaluation is in flight.
Single == \A i, j \in Slot : evals[i].at # "idle" /\ evals[j].at # "idle" => i = j

\* What follows for the bytes pushed back and for the end of the input.
ServedAlone ==
    /\ Single
    /\ Armed # {} => stdin_pending = <<>>
    /\ pc = "eof" => Armed = {} /\ stdin_eof

\* One task into an empty table.
LEMMA SpawnOne ==
    ASSUME NEW evs \in [Slot -> Eval], \A i \in Slot : evs[i].at = "idle",
           NEW cmd \in Seq(Task), Len(cmd) <= 1
    PROVE  /\ \A i \in Slot : spawnFromCmd(evs, cmd)[i].at \in {"idle", "start"}
           /\ \A i, j \in Slot : /\ spawnFromCmd(evs, cmd)[i].at # "idle"
                                 /\ spawnFromCmd(evs, cmd)[j].at # "idle"
                                 => i = j
           /\ \A i \in Slot : \/ spawnFromCmd(evs, cmd)[i] = evs[i]
                              \/ \E n \in DOMAIN cmd : spawnFromCmd(evs, cmd)[i] = Fresh(cmd[n])
<1> DEFINE idle == {i \in Slot : evs[i].at = "idle"}
           upto(i) == {j \in idle : j <= i}
           rank(i) == Cardinality(upto(i))
           new == spawnFromCmd(evs, cmd)
<1>1. idle = Slot
  OBVIOUS
<1>2. ASSUME NEW i \in Slot, rank(i) <= Len(cmd)
      PROVE  i = 0 /\ rank(i) \in DOMAIN cmd
  <2>1. IsFiniteSet(upto(i))
    BY SlotFacts, FS_Subset
  <2>2. i \in upto(i) /\ 0 \in upto(i)
    BY <1>1, SlotFacts DEF Slot
  <2>3. rank(i) \in Nat /\ rank(i) # 0
    BY <2>1, <2>2, FS_CardinalityType, FS_EmptySet
  <2>4. rank(i) = 1 /\ Len(cmd) = 1 /\ DOMAIN cmd = 1 .. 1
    <3> HIDE DEF rank
    <3>1. Len(cmd) \in Nat /\ DOMAIN cmd = 1 .. Len(cmd)
      BY LenProperties
    <3>2. QED  BY <1>2, <2>3, <3>1
  <2>5. PICK x : upto(i) = {x}
    BY <2>1, <2>4, FS_Singleton
  <2>6. QED  BY <2>2, <2>4, <2>5
<1>3. new = [i \in Slot |-> IF i \in idle /\ rank(i) <= Len(cmd) THEN Fresh(cmd[rank(i)]) ELSE evs[i]]
  BY DEF spawnFromCmd
<1> HIDE DEF rank, new
<1>4. ASSUME NEW i \in Slot
      PROVE  \/ new[i] = evs[i]
             \/ i = 0 /\ \E n \in DOMAIN cmd : new[i] = Fresh(cmd[n])
  BY <1>1, <1>2, <1>3
<1>5. \A n \in DOMAIN cmd : Fresh(cmd[n]).at = "start"
  <2>1. \A n \in DOMAIN cmd : cmd[n] \in Task
    BY LenProperties, ElementOfSeq
  <2>2. QED  BY <2>1, RecordTypes
<1>6. \A i \in Slot : new[i].at \in {"idle", "start"} /\ (new[i].at # "idle" => i = 0)
  BY <1>4, <1>5
<1>7. QED  BY <1>4, <1>6 DEF new

\* A step in which nothing starts, and nobody begins to wait.
LEMMA AloneKept ==
    ASSUME ServedAlone,
           \A j \in Slot : evals'[j].at # "idle" => evals[j].at # "idle",
           \A j \in Slot : evals'[j].at = "armed" => evals[j].at = "armed",
           UNCHANGED stdin_pending, pc' = "eof" => pc = "eof", UNCHANGED stdin_eof
    PROVE  ServedAlone'
<1>1. Single'
  BY DEF ServedAlone, Single
<1>2. Armed' \subseteq Armed
  BY DEF Armed
<1>3. QED  BY <1>1, <1>2 DEF ServedAlone

LEMMA StepAllAlone ==
    ASSUME OneTaskAtATime, TypeOK, ServedAlone, stepAll
    PROVE  ServedAlone'
<1> USE DEF input, control, source
<1>1. evals \in [Slot -> Eval]
  BY DEF TypeOK
<1>2. CASE deliver
  <2>1. PICK i \in Slot :
            /\ Stepped(i) /\ evals[i].at = "done"
            /\ evals' = spawnFromCmd([evals EXCEPT ![i] = Idle], Respond(evals[i].event))
    BY <1>2 DEF deliver
  <2> DEFINE evs == [evals EXCEPT ![i] = Idle]
             cmd == Respond(evals[i].event)
  <2>2. evals[i].event \in AnyEvent
    BY <1>1 DEF Eval, Entry
  <2>3. evs \in [Slot -> Eval] /\ \A j \in Slot : evs[j].at = "idle"
    BY <1>1, <2>1, RecordTypes DEF ServedAlone, Single
  <2>4. cmd \in Seq(Task) /\ Len(cmd) <= 1
    BY <2>2, ProgramAssumption DEF OneTaskAtATime
  <2> HIDE DEF evs, cmd
  <2>5. /\ \A j \in Slot : evals'[j].at \in {"idle", "start"}
        /\ Single'
    <3>1. evals' = spawnFromCmd(evs, cmd)
      BY <2>1 DEF evs, cmd
    <3>2. QED  BY <2>3, <2>4, <3>1, SpawnOne DEF Single
  <2>6. Armed' = {} /\ pc' # "eof"
    BY <1>2, <2>1, <2>5 DEF Armed, deliver, Stepped
  <2>7. QED  BY <2>5, <2>6 DEF ServedAlone
<1>3. CASE leafSleep
  <2>1. \A j \in Slot : evals'[j].at = evals[j].at \/ (evals'[j].at = "asleep" /\ evals[j].at = "start")
    BY <1>1, <1>3 DEF leafSleep, Eval, Entry
  <2>2. QED  BY <1>3, <2>1, AloneKept DEF leafSleep
<1>4. CASE leafReadAtEof
  <2>1. PICK i \in Slot : AtRead(i) /\ evals' = [evals EXCEPT ![i] = Done(@, Eof(evals[i].task))]
    BY <1>4 DEF leafReadAtEof, inputComplete
  <2>2. Eof(evals[i].task) \in AnyEvent
    BY <2>1, EventTypes DEF AtRead
  <2>3. \A j \in Slot : evals'[j] = evals[j] \/ (evals'[j].at = "done" /\ evals[j].at = "start")
    BY <1>1, <2>1, <2>2, RecordTypes DEF AtRead
  <2>4. QED  BY <1>4, <2>3, AloneKept DEF leafReadAtEof
<1>5. CASE leafReadParked
  <2>1. PICK i \in Slot, n \in 1 .. Len(pending_events) :
            AtRead(i) /\ evals' = [evals EXCEPT ![i] = Done(@, pending_events[n])]
    BY <1>5 DEF leafReadParked, inputComplete
  <2>2. pending_events[n] \in AnyEvent
    BY <2>1, ElementOfSeq, EventTypes DEF TypeOK
  <2>3. \A j \in Slot : evals'[j] = evals[j] \/ (evals'[j].at = "done" /\ evals[j].at = "start")
    BY <1>1, <2>1, <2>2, RecordTypes DEF AtRead
  <2>4. QED  BY <1>5, <2>3, AloneKept DEF leafReadParked
<1>6. CASE leafReadArm
  <2>1. PICK i \in Slot : /\ AtRead(i) /\ pc' = "input" /\ stdin_pending' = <<>>
                          /\ evals' = [evals EXCEPT ![i].at = "armed", ![i].buf = stdin_pending]
    BY <1>6 DEF leafReadArm, arm
  <2>2. \A j \in Slot : evals'[j].at # "idle" => evals[j].at # "idle"
    BY <1>1, <2>1 DEF Eval, Entry, AtRead
  <2>3. Single'
    BY <2>2 DEF ServedAlone, Single
  <2>4. QED  BY <2>1, <2>3 DEF ServedAlone
<1>7. CASE EndStepAll
  BY <1>7, AloneKept DEF EndStepAll
<1>8. QED  BY <1>2, <1>3, <1>4, <1>5, <1>6, <1>7 DEF stepAll

\* An event handed on by the only reader, who is of the other kind, is parked.
LEMMA DeliverAlone ==
    ASSUME ServedAlone, NEW i \in Armed, NEW mid \in [Slot -> Eval], NEW ev \in InputEvent,
           \A j \in Slot : mid[j].at = evals[j].at /\ mid[j].task = evals[j].task,
           ev.kind # evals[i].task, deliverInputEvent(mid, ev)
    PROVE  evals' = mid /\ pending_events' = Append(pending_events, ev)
<1>1. {j \in Slot : mid[j].at = "armed" /\ mid[j].task = ev.kind} = {}
  BY DEF ServedAlone, Single, Armed
<1>2. QED  BY <1>1 DEF deliverInputEvent, Least

LEMMA InputDrainAlone ==
    ASSUME TypeOK, ServedAlone, inputDrain
    PROVE  ServedAlone'
<1> USE DEF input, control, source
<1>1. evals \in [Slot -> Eval] /\ (pc = "input" => cur \in Armed)
  BY DEF TypeOK
<1>2. ASSUME pc = "input"
      PROVE  /\ cur \in Slot /\ evals[cur].at = "armed" /\ evals[cur] \in Eval /\ want \in Kind
             /\ buffered \in Seq(Byte) /\ stdin_pending = <<>>
             /\ \A j \in Slot : evals[j].at # "idle" => j = cur
             /\ decoded # Incomplete => decoded.event \in InputEvent /\ leftover \in Seq(Byte)
  <2>1. /\ cur \in Slot /\ evals[cur].at = "armed" /\ evals[cur] \in Eval /\ want \in Kind
        /\ buffered \in Seq(Byte)
    BY <1>1, <1>2 DEF Armed, Eval, Entry, buffered, want
  <2>2. stdin_pending = <<>> /\ \A j \in Slot : evals[j].at # "idle" => j = cur
    BY <1>1, <1>2, <2>1 DEF ServedAlone, Single
  <2>3. QED  BY <2>1, <2>2, DecodeTyped, RestTyped DEF decoded, leftover
<1>3. ASSUME pc = "input", NEW ev \in InputEvent, evals' = [evals EXCEPT ![cur] = Done(@, ev)]
      PROVE  Single' /\ Armed' = {}
  <2>1. ev \in AnyEvent
    BY EventTypes
  <2>2. \A j \in Slot : \/ j = cur /\ evals'[j].at = "done"
                        \/ j # cur /\ evals'[j] = evals[j]
    BY <1>1, <1>2, <1>3, <2>1, RecordTypes
  <2>3. QED  BY <1>2, <1>3, <2>2 DEF Single, Armed
<1>4. CASE inputMatches
  <2>1. Single' /\ Armed' = {}
    BY <1>2, <1>3, <1>4 DEF inputMatches, inputComplete
  <2>2. pc' # "eof"
    BY <1>4 DEF inputMatches, TypeOK
  <2>3. QED  BY <2>1, <2>2 DEF ServedAlone
<1>5. CASE inputRoutes
  <2> DEFINE mid == [evals EXCEPT ![cur].buf = leftover]
  <2>1. /\ pc = "input" /\ decoded # Incomplete /\ decoded.event.kind # want
        /\ deliverInputEvent(mid, decoded.event)
    BY <1>5 DEF inputRoutes
  <2>2. /\ mid \in [Slot -> Eval]
        /\ \A j \in Slot : mid[j].at = evals[j].at /\ mid[j].task = evals[j].task
    BY <1>1, <1>2, <2>1 DEF Eval, Entry
  <2> HIDE DEF mid
  <2>3. evals' = mid
    BY <1>1, <1>2, <2>1, <2>2, DeliverAlone DEF want
  <2>4. QED  BY <1>5, <2>2, <2>3, AloneKept DEF inputRoutes
<1>6. CASE inputReads
  <2>1. \A j \in Slot : evals'[j].at = evals[j].at
    BY <1>1, <1>6 DEF inputReads, Eval, Entry
  <2>2. QED  BY <1>6, <2>1, AloneKept DEF inputReads
<1>7. CASE inputSuspends
  <2>1. \A j \in Slot : evals'[j].at = evals[j].at
    BY <1>1, <1>7 DEF inputSuspends, Eval, Entry
  <2>2. pc' # "eof"
    BY <1>7 DEF inputSuspends, TypeOK
  <2>3. QED  BY <1>7, <2>1, <2>2, AloneKept DEF inputSuspends
<1>8. CASE inputAtEof
  <2>1. Eof(want) \in InputEvent
    BY <1>2, <1>8, EventTypes DEF inputAtEof
  <2>2. Single' /\ Armed' = {}
    BY <1>3, <1>8, <2>1 DEF inputAtEof, inputComplete
  <2>3. QED  BY <1>8, <2>2 DEF ServedAlone, inputAtEof
<1>9. CASE flushEof
  <2>1. evals' = evals /\ pc' = back
    BY <1>9 DEF flushEof, Least, ServedAlone
  <2>2. QED  BY <1>9, <2>1, AloneKept DEF flushEof, TypeOK
<1>10. QED  BY <1>4, <1>5, <1>6, <1>7, <1>8, <1>9 DEF inputDrain

LEMMA PollAlone ==
    ASSUME TypeOK, ServedAlone, BeforePoll \/ AfterPoll
    PROVE  ServedAlone'
<1> USE DEF input, control, source
<1>1. evals \in [Slot -> Eval]
  BY DEF TypeOK
<1>2. CASE drainPendingStdin
  BY <1>2 DEF drainPendingStdin, Least, EmptyHanded, ServedAlone
<1>3. CASE EndPending \/ CheckRunnable
  BY <1>3, AloneKept DEF EndPending, CheckRunnable
<1>4. CASE PollReady \/ PollTimeout \/ drainReady \/ EndDrain \/ EndFlush
  BY <1>4, AloneKept DEF PollReady, PollTimeout, drainReady, EndDrain, EndFlush
<1>5. CASE flushEscWaits
  <2>1. Key("esc") \in InputEvent /\ Key("esc") \in AnyEvent /\ Key("esc").kind = "key"
    BY EventTypes DEF Name, Byte, Key, Event
  <2>2. CASE UNCHANGED evals
    BY <1>5, <2>2, AloneKept DEF flushEscWaits
  <2>3. ASSUME NEW i \in Slot, i \in EscWaiting, inputComplete(i, Key("esc"))
        PROVE  ServedAlone'
    <3>1. \A j \in Slot : \/ evals'[j] = evals[j]
                          \/ evals'[j].at = "done" /\ evals[j].at = "armed"
      BY <1>1, <2>1, <2>3, RecordTypes DEF inputComplete, EscWaiting, Armed
    <3>2. QED  BY <1>5, <3>1, AloneKept DEF flushEscWaits
  <2>4. ASSUME NEW i \in Slot, i \in EscWaiting, evals[i].task = "mouse",
               deliverInputEvent([evals EXCEPT ![i].buf = <<>>, ![i].esc_wait = FALSE],
                                 Key("esc"))
        PROVE  ServedAlone'
    <3> DEFINE mid == [evals EXCEPT ![i].buf = <<>>, ![i].esc_wait = FALSE]
    <3>1. <<>> \in Seq(Byte) /\ i \in Armed
      BY <2>4 DEF EscWaiting
    <3>2. /\ mid \in [Slot -> Eval]
          /\ \A j \in Slot : mid[j].at = evals[j].at /\ mid[j].task = evals[j].task
      BY <1>1, <3>1 DEF Eval, Entry
    <3> HIDE DEF mid
    <3>3. deliverInputEvent(mid, Key("esc"))
      BY <2>4 DEF mid
    <3>4. evals' = mid
      BY <2>1, <2>4, <3>1, <3>2, <3>3, DeliverAlone
    <3>5. QED  BY <1>5, <3>2, <3>4, AloneKept DEF flushEscWaits
  <2>5. QED  BY <1>5, <2>2, <2>3, <2>4 DEF flushEscWaits, Least
<1>6. CASE sleepComplete
  <2>1. PICK i \in Asleep :
            evals' = [evals EXCEPT ![i] = IF @.task = "tick" THEN Done(@, Tick) ELSE Fresh("key")]
    BY <1>6 DEF sleepComplete
  <2>2. \A j \in Slot : \/ evals'[j] = evals[j]
                        \/ evals'[j].at \in {"done", "start"} /\ evals[j].at = "asleep"
    BY <1>1, <2>1, RecordTypes, EventTypes DEF Task, Asleep
  <2>3. QED  BY <1>6, <2>2, AloneKept DEF sleepComplete
<1>7. QED  BY <1>2, <1>3, <1>4, <1>5, <1>6 DEF BeforePoll, AfterPoll

LEMMA ServedAloneAlways ==
    ASSUME OneTaskAtATime
    PROVE  Spec => []ServedAlone
<1>1. Init => ServedAlone
  <2> SUFFICES ASSUME Init PROVE ServedAlone
    OBVIOUS
  <2> DEFINE evs == [i \in Slot |-> Idle]
             cmd == session.start
  <2>1. evs \in [Slot -> Eval] /\ \A i \in Slot : evs[i].at = "idle"
    BY RecordTypes
  <2>2. cmd \in Seq(Task) /\ Len(cmd) <= 1
    BY SessionTypes DEF Init, OneTaskAtATime
  <2>3. evals = spawnFromCmd(evs, cmd)
    BY DEF Init
  <2> HIDE DEF evs, cmd
  <2>4. Single /\ \A i \in Slot : evals[i].at \in {"idle", "start"}
    BY <2>1, <2>2, <2>3, SpawnOne DEF Single
  <2>5. QED  BY <2>4 DEF ServedAlone, Armed, Init
<1>2. TypeOK /\ ServedAlone /\ [Next]_vars => ServedAlone'
  <2> SUFFICES ASSUME TypeOK, ServedAlone, [Next]_vars PROVE ServedAlone'
    OBVIOUS
  <2>1. CASE Type \/ HangUp \/ UNCHANGED vars
    BY <2>1, AloneKept DEF Type, HangUp, vars, input, control, source
  <2>2. QED  BY <2>1, StepAllAlone, InputDrainAlone, PollAlone DEF Next, HostStep, Terminated
<1>3. QED  BY <1>1, <1>2, TypeCorrect, PTL DEF Spec

\* With one task at a time the loop never polls for bytes it already has.
THEOREM BytesServed ==
    ASSUME OneTaskAtATime
    PROVE  Spec => []NoReaderOverBytes
<1>1. ServedAlone => NoReaderOverBytes
  BY DEF ServedAlone, NoReaderOverBytes, EmptyHanded
<1>2. QED  BY <1>1, ServedAloneAlways, PTL
=============================================================================
