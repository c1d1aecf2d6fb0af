---------------------------- MODULE MCEffectLoop ----------------------------
(***************************************************************************)
(* Small Elm programs for EffectLoop, and the constants that describe them. *)
(* A model is the program's name and a number: how many messages it has    *)
(* seen, or the last terminal width it was told.                           *)
(***************************************************************************)
EXTENDS EffectLoop, TLC

Unit == <<>>
MCVal == {Unit} \cup {<<n>> : n \in (0 .. MAX_OUT) \cup (0 .. MAX_TIME) \cup Size}
                \cup {<<1, w>> : w \in Size}
                \cup Code \X (0 .. MAX_OUT) \X (0 .. MAX_OUT)

MCCont == {"report", "recover", "refuse", "nap", "leave", "resized", "again"}

Succeeded(v)  == [tag |-> "succeed", val |-> v]
Failed(v)     == [tag |-> "fail", val |-> v]
AndThen(c, t) == [tag |-> "andthen", cont |-> c, inner |-> t]
OnError(c, t) == [tag |-> "onerror", cont |-> c, inner |-> t]
Write         == [tag |-> "sync", vals |-> {Unit}]
Leaf(tag)     == [tag |-> tag]
SleepFor(n)   == [tag |-> "sleep", ms |-> n]

ExecThenFail  == OnError("recover", AndThen("refuse", Leaf("exec")))
Deep          == AndThen("report", OnError("recover", AndThen("report", Write)))
Deaf          == AndThen("report", AndThen("refuse", Write))

MCTask ==
    {Succeeded(v) : v \in MCVal} \cup {Failed(v) : v \in MCVal}
    \cup {Leaf(g) : g \in {"now", "winsize", "readfile", "exec", "waitresize", "quit",
                           "malformed"}}
    \cup {SleepFor(n) : n \in 0 .. 2}
    \cup {Write, ExecThenFail, ExecThenFail.inner, Deep, Deep.inner, Deep.inner.inner,
          AndThen("report", Leaf("exec")), AndThen("nap", Leaf("readfile")), AndThen("nap", Leaf("now")),
          AndThen("nap", SleepFor(2)),
          AndThen("leave", SleepFor(1)), AndThen("leave", Leaf("exec")),
          AndThen("resized", Leaf("waitresize")), AndThen("refuse", Write), Deaf}

MCApply(c, v) ==
    CASE c \in {"report", "recover"} -> Succeeded(v)
      [] c = "refuse" -> Failed(v)
      [] c = "nap" -> SleepFor(1)
      [] c = "leave" -> Leaf("quit")
      [] c = "again" -> Write
      [] c = "resized" -> Succeeded(IF Len(v) = 1 /\ v[1] \in Size THEN <<1, v[1]>> ELSE v)

App == {"shell", "pair", "timers", "files", "resize", "spin", "burst", "deep", "mixed",
        "shutdown", "leaving", "session"}
LastCount == 4
MCModel == [app : App, n : (0 .. LastCount) \cup Size]

Commands ==
    [shell    |-> <<Leaf("exec"), ExecThenFail>>,
     pair     |-> <<Leaf("exec"), ExecThenFail>>,
     timers   |-> <<AndThen("nap", SleepFor(2)), SleepFor(1), AndThen("nap", Leaf("now"))>>,
     files    |-> <<Leaf("readfile"), AndThen("nap", Leaf("readfile"))>>,
     resize   |-> <<AndThen("resized", Leaf("waitresize")), Leaf("winsize")>>,
     spin     |-> <<Write, Leaf("quit")>>,
     burst    |-> <<Leaf("malformed"), Write>>,
     deep     |-> <<Deaf, Deep>>,
     mixed    |-> <<Leaf("readfile"), Leaf("exec")>>,
     shutdown |-> <<Leaf("exec"), AndThen("leave", SleepFor(1))>>,
     leaving  |-> <<AndThen("leave", SleepFor(1)), Leaf("waitresize")>>,
     session  |-> <<AndThen("report", Leaf("exec")), Leaf("waitresize")>>]

\* What the program's update asks for next.
FollowUp(v, m) ==
    CASE m.app = "shell" /\ m.n = 0 -> <<Leaf("exec")>>
      [] m.app = "timers" /\ m.n = 1 -> <<SleepFor(0)>>
      [] m.app = "resize" /\ Len(v) = 2 -> <<AndThen("resized", Leaf("waitresize"))>>
      [] m.app = "spin" -> <<Write>>
      [] m.app = "burst" -> <<Write, Write, Write>>
      [] m.app = "mixed" /\ m.n = 0 -> <<Write, SleepFor(1)>>
      [] OTHER -> <<>>

MCUpdate(v, m) ==
    [model |-> CASE m.app = "resize" ->
                       [m EXCEPT !.n = IF v # Unit /\ v[Len(v)] \in Size THEN v[Len(v)] ELSE @]
                 [] m.app = "spin" -> m
                 [] OTHER -> [m EXCEPT !.n = IF @ < LastCount THEN @ + 1 ELSE @],
     cmd |-> FollowUp(v, m)]

Start(a) == [model |-> [app |-> a, n |-> 0], cmd |-> Commands[a]]

ShellProgram == {Start("shell")}
PairProgram == {Start("pair")}
EffectPrograms == {Start(a) : a \in {"pair", "timers", "files"}}
EndingPrograms == {Start(a) : a \in {"shutdown", "mixed", "spin", "resize"}}
TeaPrograms == {Start(a) : a \in {"burst", "deep", "mixed", "shutdown", "leaving", "files"}}
SessionProgram == {Start("session")}

Interchangeable == Permutations(Job) \cup Permutations(Pid)
\* When the terminal's width settles, the program ends up with that width.
ResizeIsSeen ==
    \A w \in Size : model.app = "resize" /\ <>[](size = w) => <>[](model.n = w)

\* Every program ends that does not wait for resizes for ever: respawned pure
\* work does not keep the loop from a quit, nor a child from being waited for.
ProgramEnds == model.app # "resize" => LoopEnds
==============================================================================
