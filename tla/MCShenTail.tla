----------------------------- MODULE MCShenTail -----------------------------
(* One history of the machine, for the deferral of cheney_drain: an old stack *)
(* of frames names two nursery objects, and the first of them names a third.  *)
(* The collector and the allocator do what ShenHeap says; only the operations *)
(* of the machine are chosen.                                                 *)
EXTENDS ShenHeap

Ask(ty, words, n, oldgen, barriered) ==
    [ty |-> ty, words |-> words, n |-> n, oldgen |-> oldgen, barriered |-> barriered]

MCRequests == {Ask("RAW", 2, 0, FALSE, {}),
               Ask("VALUE_ARRAY", 2, 1, FALSE, {1}),
               Ask("CALLFRAME_ARRAY", 6, 2, TRUE, {})}

Asks(ty, init) == req'.at # "none" /\ req'.ty = ty /\ req'.init = init

Saves(k, i) == heap' = [heap EXCEPT !.mem[shadow[2] - 1].fields[k] = shadow[i]]

\* What the machine does, operation by operation.
History ==
    CASE ops = 0 -> Asks("RAW", <<>>)                 \* 1: an integer
      [] ops = 1 -> Asks("CALLFRAME_ARRAY", <<0, 0>>) \* 2: the frames
      [] ops = 2 -> Asks("VALUE_ARRAY", <<1>>)        \* 3: names the integer
      [] ops = 3 -> Asks("VALUE_ARRAY", <<3>>)        \* 4: names 3
      [] ops = 4 -> Saves(1, 4)
      [] ops = 5 -> Asks("RAW", <<>>)                 \* 5: another integer
      [] ops = 6 -> Saves(2, 5)
      [] ops = 7 -> shadow' = SubSeq(shadow, 1, 2)
      [] ops = 8 -> Asks("RAW", <<>>)                 \* finds the nursery full

MCNext == Next /\ (ops' # ops => History)

MCSpec == Init /\ [][MCNext]_vars
=============================================================================
