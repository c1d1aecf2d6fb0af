----------------------------- MODULE StdinInput -----------------------------
(***************************************************************************)
(* Keys and mouse events from one standard input: TaskReadKey and          *)
(* TaskReadMouse of src/effectloop.zig.  Every armed reader has a buffer    *)
(* of its own and decodes the bytes of fd 0; an event of the other kind is  *)
(* routed to a sibling or parked, bytes left over are pushed back, and an   *)
(* ESC that may begin a sequence waits for a timeout.                      *)
(*                                                                         *)
(* The table of evaluations is EffectLoop's with the parts that input can   *)
(* see: readers, sleeps, and finished tasks that wait to be delivered.      *)
(* Every task is wrapped by Task.perform, so that a completed reader is     *)
(* runnable until stepAll delivers its message.                            *)
(***************************************************************************)
EXTENDS Integers, Sequences, FiniteSets, SequencesExt

CONSTANTS
    MAX_EVALS,      \* evaluations in flight (128 in the code)
    Session,        \* programs and what is typed at them; see SessionAssumption
    Respond(_)      \* an event to the tasks of update's command

Kind == {"key", "mouse"}
Task == {"key", "mouse", "tick", "late"}    \* late: a sleep, then a key

Slot == 0 .. MAX_EVALS - 1

ASSUME BoundAssumption == MAX_EVALS \in Nat \ {0}

-----------------------------------------------------------------------------
(* Bytes and events.  The byte "[" is '[', "up" stands for the final byte of *)
(* an arrow, "m1" and "m2" for the parameters and final byte of two SGR      *)
(* packets, "lead" and "cont" for the two bytes of a UTF-8 character.        *)

Byte == {"a", "b", "esc", "[", "up", "m1", "m2", "lead", "cont"}
Name == Byte \cup {"utf8", "other", "eof", "tick", "none"}

InputEvent == [kind : Kind, name : Name]
AnyEvent   == [kind : Kind \cup {"user", "none"}, name : Name]

Event(kind, name) == [kind |-> kind, name |-> name]
Key(name)         == Event("key", name)
Mouse(name)       == Event("mouse", name)
Eof(kind)         == Event(kind, "eof")
Tick              == Event("user", "tick")
NoEvent           == Event("none", "none")

Bytes(ev) ==
    CASE ev.kind = "mouse"   -> <<"esc", "[", ev.name>>
      [] ev = Key("up")      -> <<"esc", "[", "up">>
      [] ev = Key("utf8")    -> <<"lead", "cont">>
      [] OTHER               -> <<ev.name>>

Decoded(ev, n) == [event |-> ev, consumed |-> n]
Incomplete     == Decoded(NoEvent, 0)

\* Mutation: an ESC at the end of what has come is a key at once.
decodeEsc_NoWait(buf) ==
    LET csi == Len(buf) >= 3 /\ buf[2] = "["
    IN  CASE Len(buf) < 2                          -> Decoded(Key("esc"), 1)
          [] Len(buf) >= 2 /\ buf[2] # "["         -> Decoded(Key("esc"), 1)
          [] csi /\ buf[3] \in {"m1", "m2"}        -> Decoded(Mouse(buf[3]), 3)
          [] csi /\ buf[3] = "up"                  -> Decoded(Key("up"), 3)
          [] OTHER                                 -> Incomplete

\* ESC: a CSI with its final byte, or KeyEsc if what follows begins none.  A
\* byte that is neither parameter nor final leaves it incomplete.
decodeEsc(buf) ==
    LET csi == Len(buf) >= 3 /\ buf[2] = "["
    IN  CASE Len(buf) >= 2 /\ buf[2] # "["         -> Decoded(Key("esc"), 1)
          [] csi /\ buf[3] \in {"m1", "m2"}        -> Decoded(Mouse(buf[3]), 3)
          [] csi /\ buf[3] = "up"                  -> Decoded(Key("up"), 3)
          [] csi /\ buf[3] \in {"a", "b", "["}     -> Decoded(Key("other"), 3)
          [] OTHER                                 -> Incomplete

decodeUtf8(buf) ==
    CASE Len(buf) >= 2 /\ buf[2] = "cont" -> Decoded(Key("utf8"), 2)
      [] Len(buf) >= 2 /\ buf[2] # "cont" -> Decoded(Key("other"), 1)
      [] OTHER                            -> Incomplete

decodeInput(buf) ==
    IF buf = <<>> THEN Incomplete
    ELSE CASE buf[1] = "esc"  -> decodeEsc(buf)
           [] buf[1] = "lead" -> decodeUtf8(buf)
           [] OTHER           -> Decoded(Key(buf[1]), 1)

Rest(buf, n) == SubSeq(buf, n + 1, Len(buf))

Flat(events) == FlattenSeq([n \in DOMAIN events |-> Bytes(events[n])])

\* The ends of the events of a script, as positions in its bytes.
Boundaries(events) == {Len(Flat(SubSeq(events, 1, n))) : n \in 0 .. Len(events)}

\* The tasks of init's command, the events that are typed, how their bytes
\* come ("any" time, "calm": see Type, or "piped"), and whether the input ends.
ASSUME SessionAssumption ==
    \A s \in Session :
        /\ s.start \in Seq(Task)
        /\ s.script \in Seq(InputEvent) /\ Flat(s.script) \in Seq(Byte)
        /\ s.arrival \in {"any", "calm", "piped"} /\ s.hangs_up \in BOOLEAN

ASSUME ProgramAssumption == \A ev \in AnyEvent : Respond(ev) \in Seq(Task)

-----------------------------------------------------------------------------
VARIABLES
    evals,          \* Slot -> evaluation
    stdin_eof,
    stdin_pending,  \* bytes pushed back
    pending_events, \* events nobody was armed for
    ready,          \* slots whose poll entry is ready and not yet drained
    pc,             \* where the loop is
    ret,            \* which call of stepAll: the "outer" or the "inner"
    back,           \* where inputDrain returns to
    cur,            \* stepAll's index; while in inputDrain, the reader
    session,        \* the program, and what is typed
    sent,           \* how many of its bytes have been
    tty,            \* the bytes that wait at fd 0
    hup,            \* the other end of fd 0 is closed
    got             \* history: the events update has been given

control == <<pc, ret, back, cur>>
input   == <<stdin_eof, stdin_pending, pending_events>>
source  == <<session, sent, tty, hup>>
vars    == <<evals, input, ready, control, source, got>>

Entry == [at : {"idle", "start", "asleep", "armed", "done"}, task : Task,
          buf : Seq(Byte), esc_wait : BOOLEAN, event : AnyEvent]
Eval  == {e \in Entry : e.at = "armed" => e.task \in Kind}

Idle     == [at |-> "idle", task |-> "tick", buf |-> <<>>, esc_wait |-> FALSE,
             event |-> NoEvent]
Fresh(t) == [Idle EXCEPT !.at = "start", !.task = t]

Least(i, S) == i \in S /\ \A j \in S : i <= j

Armed         == {i \in Slot : evals[i].at = "armed"}
ArmedFor(k)   == {i \in Armed : evals[i].task = k}
EscWaiting    == {i \in Armed : evals[i].esc_wait}
Asleep        == {i \in Slot : evals[i].at = "asleep"}
Runnable      == {i \in Slot : evals[i].at \in {"start", "done"}}
nactive       == Cardinality({i \in Slot : evals[i].at # "idle"})

\* Each task takes the first idle slot left.
spawnFromCmd(evs, cmd) ==
    LET idle    == {i \in Slot : evs[i].at = "idle"}
        rank(i) == Cardinality({j \in idle : j <= i})
    IN  [i \in Slot |-> IF i \in idle /\ rank(i) <= Len(cmd) THEN Fresh(cmd[rank(i)]) ELSE evs[i]]

Done(e, ev) == [Idle EXCEPT !.at = "done", !.task = e.task, !.event = ev]

\* inputComplete: the reader's buffer is freed, whatever is in it.
inputComplete(i, ev) == evals' = [evals EXCEPT ![i] = Done(@, ev)]

-----------------------------------------------------------------------------
(* stepAll *)

Stepped(i) == pc = "step" /\ Least(i, {k \in Runnable : k >= cur})

\* A finished task's message reaches update, and its slot is free again.
deliver ==
    /\ \E i \in Slot :
          /\ Stepped(i) /\ evals[i].at = "done"
          /\ evals' = spawnFromCmd([evals EXCEPT ![i] = Idle], Respond(evals[i].event))
          /\ got' = Append(got, evals[i].event)
          /\ cur' = i + 1
    /\ UNCHANGED <<input, ready, pc, ret, back, source>>

leafSleep ==
    /\ \E i \in Slot :
          /\ Stepped(i) /\ evals[i].at = "start" /\ evals[i].task \in {"tick", "late"}
          /\ evals' = [evals EXCEPT ![i].at = "asleep"]
          /\ cur' = i + 1
    /\ UNCHANGED <<input, ready, pc, ret, back, source, got>>

AtRead(i) == Stepped(i) /\ evals[i].at = "start" /\ evals[i].task \in Kind

leafReadAtEof ==
    /\ stdin_eof
    /\ \E i \in Slot : AtRead(i) /\ inputComplete(i, Eof(evals[i].task)) /\ cur' = i
    /\ UNCHANGED <<input, ready, pc, ret, back, source, got>>

\* Mutation: typeahead is only looked at when fd 0 is silent.
Parked_WhenQuiet(kind) ==
    {n \in DOMAIN pending_events : pending_events[n].kind = kind /\ tty = <<>>}

Parked(kind) == {n \in DOMAIN pending_events : pending_events[n].kind = kind}

\* popPending: the oldest parked event of the kind.
leafReadParked ==
    /\ ~stdin_eof
    /\ \E i \in Slot, n \in 1 .. Len(pending_events) :
          /\ AtRead(i)
          /\ Least(n, Parked(evals[i].task))
          /\ pending_events' = SubSeq(pending_events, 1, n - 1) \o Rest(pending_events, n)
          /\ inputComplete(i, pending_events[n])
          /\ cur' = i
    /\ UNCHANGED <<stdin_eof, stdin_pending, ready, pc, ret, back, source, got>>

\* The reader is armed, takes the bytes pushed back, and drains.
arm(i, from) ==
    /\ evals' = [evals EXCEPT ![i].at = "armed", ![i].buf = stdin_pending]
    /\ stdin_pending' = <<>>
    /\ pc' = "input"
    /\ back' = from
    /\ cur' = i

\* Mutation: the latch of the end of the input is not looked at.
leafReadArm_AtEof ==
    /\ \E i \in Slot : AtRead(i) /\ Parked(evals[i].task) = {} /\ arm(i, "step")
    /\ UNCHANGED <<stdin_eof, pending_events, ready, ret, source, got>>

leafReadArm ==
    /\ ~stdin_eof
    /\ \E i \in Slot : AtRead(i) /\ Parked(evals[i].task) = {} /\ arm(i, "step")
    /\ UNCHANGED <<stdin_eof, pending_events, ready, ret, source, got>>

EndStepAll ==
    /\ pc = "step"
    /\ {k \in Runnable : k >= cur} = {}
    /\ cur' = 0
    /\ pc' = IF ret = "inner" THEN "fixpoint" ELSE IF nactive = 0 THEN "exit" ELSE "pending"
    /\ UNCHANGED <<evals, input, ready, ret, back, source, got>>

-----------------------------------------------------------------------------
(* inputDrain of the reader cur: decode what is buffered, then read on *)

want     == evals[cur].task
buffered == evals[cur].buf
decoded  == decodeInput(buffered)
leftover == Rest(buffered, decoded.consumed)

\* Mutation: what follows the event in the buffer is forgotten.
PushBack_Forgotten(bytes) == stdin_pending' = stdin_pending

PushBack(bytes) == stdin_pending' = stdin_pending \o bytes

inputMatches ==
    /\ pc = "input"
    /\ decoded # Incomplete /\ decoded.event.kind = want
    /\ PushBack(leftover)
    /\ inputComplete(cur, decoded.event)
    /\ pc' = back
    /\ UNCHANGED <<stdin_eof, pending_events, ready, ret, back, cur, source, got>>

\* deliverInputEvent: the first armed reader of the event's kind is completed,
\* and its own buffer dropped; with none, the event is parked.
deliverInputEvent(evs, ev) ==
    LET readers == {i \in Slot : evs[i].at = "armed" /\ evs[i].task = ev.kind}
    IN  \/ \E i \in Slot :
              /\ Least(i, readers)
              /\ evals' = [evs EXCEPT ![i] = Done(@, ev)]
              /\ UNCHANGED pending_events
        \/ /\ readers = {}
           /\ evals' = evs
           /\ pending_events' = Append(pending_events, ev)

inputRoutes ==
    /\ pc = "input"
    /\ decoded # Incomplete /\ decoded.event.kind # want
    /\ deliverInputEvent([evals EXCEPT ![cur].buf = leftover], decoded.event)
    /\ UNCHANGED <<stdin_eof, stdin_pending, ready, control, source, got>>

\* One read takes everything: no burst is longer than the 256 bytes of a read.
inputReads ==
    /\ pc = "input"
    /\ decoded = Incomplete /\ tty # <<>>
    /\ evals' = [evals EXCEPT ![cur].buf = @ \o tty]
    /\ tty' = <<>>
    /\ UNCHANGED <<input, ready, control, session, sent, hup, got>>

\* EAGAIN: the reader suspends, and what begins with ESC waits for more.
inputSuspends ==
    /\ pc = "input"
    /\ decoded = Incomplete /\ tty = <<>> /\ ~hup
    /\ evals' = [evals EXCEPT ![cur].esc_wait = buffered # <<>> /\ buffered[1] = "esc"]
    /\ pc' = back
    /\ UNCHANGED <<input, ready, ret, back, cur, source, got>>

\* Mutation: only the reader that saw the end is told.
AfterEof_Alone == back

AfterEof == "eof"

\* Mutation: a hangup is taken for the end, whatever waits to be read.
inputAtEof_OnHup ==
    /\ pc = "input"
    /\ decoded = Incomplete /\ hup
    /\ stdin_eof' = TRUE
    /\ inputComplete(cur, Eof(want))
    /\ pc' = AfterEof
    /\ UNCHANGED <<stdin_pending, pending_events, ready, ret, back, cur, source, got>>

inputAtEof ==
    /\ pc = "input"
    /\ decoded = Incomplete /\ tty = <<>> /\ hup
    /\ stdin_eof' = TRUE
    /\ inputComplete(cur, Eof(want))
    /\ pc' = AfterEof
    /\ UNCHANGED <<stdin_pending, pending_events, ready, ret, back, cur, source, got>>

\* flushEof: every other armed reader is told.
flushEof ==
    /\ pc = "eof"
    /\ \/ \E i \in Slot : Least(i, Armed) /\ inputComplete(i, Eof(evals[i].task)) /\ UNCHANGED pc
       \/ Armed = {} /\ pc' = back /\ UNCHANGED evals
    /\ UNCHANGED <<input, ready, ret, back, cur, source, got>>

-----------------------------------------------------------------------------
(* Between stepAll and the poll *)

EmptyHanded == {i \in Armed : evals[i].buf = <<>>}

\* drainPendingStdin: bytes pushed back go to an armed reader without bytes.
drainPendingStdin ==
    /\ pc = "pending"
    /\ stdin_pending # <<>>
    /\ \E i \in Slot : Least(i, EmptyHanded) /\ arm(i, "pending")
    /\ UNCHANGED <<stdin_eof, pending_events, ready, ret, source, got>>

\* Mutation: the bytes pushed back wait for the next reader that is armed.
EndPending_Unserved ==
    /\ pc = "pending"
    /\ pc' = IF nactive = 0 THEN "exit" ELSE "fixpoint"
    /\ UNCHANGED <<evals, input, ready, ret, back, cur, source, got>>

EndPending ==
    /\ pc = "pending"
    /\ stdin_pending = <<>> \/ EmptyHanded = {}
    /\ pc' = IF nactive = 0 THEN "exit" ELSE "fixpoint"
    /\ UNCHANGED <<evals, input, ready, ret, back, cur, source, got>>

CheckRunnable ==
    /\ pc = "fixpoint"
    /\ \/ Runnable # {} /\ pc' = "step" /\ ret' = "inner" /\ cur' = 0
       \/ Runnable = {} /\ nactive = 0 /\ pc' = "exit" /\ UNCHANGED <<ret, cur>>
       \/ Runnable = {} /\ nactive > 0 /\ pc' = "poll" /\ UNCHANGED <<ret, cur>>
    /\ UNCHANGED <<evals, input, ready, back, source, got>>

-----------------------------------------------------------------------------
(* The poll, and what follows it *)

\* rebuildPollfds: an entry on fd 0 for every armed reader, until EOF.
PollSet  == IF stdin_eof THEN {} ELSE Armed
Readable == PollSet # {} /\ (tty # <<>> \/ hup)

PollReady ==
    /\ pc = "poll"
    /\ Readable
    /\ ready' = PollSet
    /\ pc' = "drain"
    /\ UNCHANGED <<evals, input, ret, back, cur, source, got>>

\* A terminal sends the bytes of a sequence within the 50 ms of an ESC wait.
Prompt == sent \in Boundaries(session.script)

\* No fd and no sleep to wait for: the loop gives up.
NothingToPoll == PollSet = {} /\ Asleep = {}

\* poll(2) returns 0: 50 ms are over, or the deadline of a sleep is reached.
PollTimeout ==
    /\ pc = "poll"
    /\ ~Readable
    /\ Asleep = {} /\ PollSet # {} => EscWaiting # {} /\ Prompt
    /\ pc' = IF NothingToPoll THEN "exit" ELSE "flush_esc"
    /\ UNCHANGED <<evals, input, ready, ret, back, cur, source, got>>

\* flushEscWaits: every ESC that waits is a key.  A mouse reader hands it on.
flushEscWaits ==
    /\ pc = "flush_esc"
    /\ \/ \E i \in Slot :
             /\ Least(i, EscWaiting)
             /\ \/ /\ evals[i].task = "key"
                   /\ inputComplete(i, Key("esc"))
                   /\ UNCHANGED pending_events
                \/ /\ evals[i].task = "mouse"
                   /\ deliverInputEvent([evals EXCEPT ![i].buf = <<>>, ![i].esc_wait = FALSE],
                                        Key("esc"))
          /\ UNCHANGED pc
       \/ EscWaiting = {} /\ pc' = "drain" /\ UNCHANGED <<evals, pending_events>>
    /\ UNCHANGED <<stdin_eof, stdin_pending, ready, ret, back, cur, source, got>>

\* Mutation: the table is not looked at again before a ready entry is served.
drainReady_Stale ==
    /\ pc = "drain"
    /\ \E i \in Slot :
          /\ Least(i, ready)
          /\ ready' = ready \ {i}
          /\ pc' = "input" /\ back' = "drain" /\ cur' = i
    /\ UNCHANGED <<evals, input, ret, source, got>>

\* drainReady: the ready entries in slot order, if their readers still wait.
drainReady ==
    /\ pc = "drain"
    /\ \E i \in Slot :
          /\ Least(i, ready)
          /\ ready' = ready \ {i}
          /\ IF i \in Armed THEN pc' = "input" /\ back' = "drain" /\ cur' = i
                            ELSE UNCHANGED <<pc, back, cur>>
    /\ UNCHANGED <<evals, input, ret, source, got>>

EndDrain ==
    /\ pc = "drain"
    /\ ready = {}
    /\ pc' = "sleeps"
    /\ UNCHANGED <<evals, input, ready, ret, back, cur, source, got>>

\* flushExpiredSleeps: any sleep may be over by now.
sleepComplete ==
    /\ pc = "sleeps"
    /\ \E i \in Asleep :
          evals' = [evals EXCEPT ![i] = IF @.task = "tick" THEN Done(@, Tick) ELSE Fresh("key")]
    /\ UNCHANGED <<input, ready, control, source, got>>

EndFlush ==
    /\ pc = "sleeps"
    /\ pc' = IF nactive = 0 THEN "exit" ELSE "step"
    /\ ret' = "outer"
    /\ cur' = 0
    /\ UNCHANGED <<evals, input, ready, back, source, got>>

-----------------------------------------------------------------------------
(* The terminal *)

typed == Flat(session.script)

\* "any": a byte at any time; "calm": whole events, and only while the loop
\* waits; the end, when all is read.
Type ==
    /\ pc # "exit"
    /\ \E n \in sent + 1 .. Len(typed) :
          /\ \/ session.arrival = "any" /\ n = sent + 1
             \/ session.arrival = "calm" /\ pc = "poll" /\ n \in Boundaries(session.script)
          /\ tty' = tty \o SubSeq(typed, sent + 1, n)
          /\ sent' = n
    /\ UNCHANGED <<evals, input, ready, control, session, hup, got>>

HangUp ==
    /\ pc # "exit" /\ session.hangs_up /\ ~hup
    /\ sent = Len(typed)
    /\ session.arrival = "calm" => pc = "poll" /\ tty = <<>>
    /\ hup' = TRUE
    /\ UNCHANGED <<evals, input, ready, control, session, sent, tty, got>>

Init ==
    /\ session \in Session
    /\ IF session.arrival = "piped"
          THEN sent = Len(typed) /\ tty = typed /\ hup = TRUE
          ELSE sent = 0 /\ tty = <<>> /\ hup = FALSE
    /\ evals = spawnFromCmd([i \in Slot |-> Idle], session.start)
    /\ stdin_eof = FALSE /\ stdin_pending = <<>> /\ pending_events = <<>>
    /\ ready = {}
    /\ pc = "step" /\ ret = "outer" /\ back = "step" /\ cur = 0
    /\ got = <<>>

stepAll     == deliver \/ leafSleep \/ leafReadAtEof \/ leafReadParked \/ leafReadArm \/ EndStepAll
inputDrain  == inputMatches \/ inputRoutes \/ inputReads \/ inputSuspends \/ inputAtEof \/ flushEof
BeforePoll  == drainPendingStdin \/ EndPending \/ CheckRunnable
AfterPoll   == PollReady \/ PollTimeout \/ flushEscWaits
               \/ drainReady \/ EndDrain \/ sleepComplete \/ EndFlush

HostStep   == stepAll \/ inputDrain \/ BeforePoll \/ AfterPoll
Terminated == pc = "exit" /\ UNCHANGED vars

Next == HostStep \/ Type \/ HangUp \/ Terminated

Spec == Init /\ [][Next]_vars

\* The loop runs, time passes, and the script is typed to its end.
FairSpec ==
    /\ Spec
    /\ WF_vars(HostStep) /\ SF_vars(sleepComplete)
    /\ WF_vars(Type) /\ WF_vars(HangUp)

-----------------------------------------------------------------------------
(* Properties *)

\* Every variable has its type.
TypeOK ==
    /\ evals \in [Slot -> Eval]
    /\ stdin_eof \in BOOLEAN /\ hup \in BOOLEAN
    /\ session \in Session /\ sent \in 0 .. Len(typed)
    /\ stdin_pending \in Seq(Byte) /\ tty \in Seq(Byte)
    /\ pending_events \in Seq(InputEvent) /\ got \in Seq(AnyEvent)
    /\ ready \subseteq Slot
    /\ pc \in {"step", "input", "eof", "pending", "fixpoint", "poll", "flush_esc",
               "drain", "sleeps", "exit"}
    /\ ret \in {"outer", "inner"} /\ back \in {"step", "pending", "drain"}
    /\ cur \in 0 .. MAX_EVALS
    /\ pc = "input" => cur \in Armed

\* An event is parked only while nobody waits for its kind: no reader sleeps
\* over typeahead of its own kind.
NoReaderOverTypeahead ==
    \A n \in DOMAIN pending_events : ArmedFor(pending_events[n].kind) = {}

\* The loop never polls for bytes it already has: with bytes pushed back, no
\* armed reader is without bytes.
NoReaderOverBytes == pc = "poll" /\ stdin_pending # <<>> => EmptyHanded = {}

\* After the end of the input nobody is left waiting for it.
EofReachesAll == stdin_eof /\ pc # "eof" => Armed = {}

\* The events of a kind, without the end.
Typed(kind, events) ==
    FlattenSeq([n \in DOMAIN events |->
                   IF events[n].kind = kind /\ events[n].name # "eof" THEN <<events[n]>> ELSE <<>>])

Given(kind) == Typed(kind, got)

\* What the program is given of each kind is what was typed, in its order.
EventsInOrder ==
    \A k \in Kind : \E n \in 0 .. Len(session.script) : Given(k) = Typed(k, SubSeq(session.script, 1, n))

\* The end of the input is told after all of it: "so a multi-key read never
\* drops keys after the first".
EofComesLast ==
    \A k \in Kind : \A n \in DOMAIN got :
        got[n] = Eof(k) => Typed(k, SubSeq(got, 1, n)) = Typed(k, session.script)

\* A program that reads on is given all that is typed.
AllInputSeen == <>(\A k \in Kind : Given(k) = Typed(k, session.script))

\* A program that does not read on after the end comes to its end.
InputEnds == <>(pc = "exit" /\ nactive = 0)
=============================================================================
