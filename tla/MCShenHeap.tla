----------------------------- MODULE MCShenHeap -----------------------------
(* Instances of ShenHeap for TLC.                                             *)
EXTENDS ShenHeap

Ask(ty, words, n, oldgen, barriered) ==
    [ty |-> ty, words |-> words, n |-> n, oldgen |-> oldgen, barriered |-> barriered]

\* A short and a longer array; an array longer than a page, born old, once as an
\* environment whose fields the machine tells the barrier about and once as one a
\* closure captured; a stack of frames, which is larger than a page too, and the
\* integer vm_exec_env allocates next to it.
Short == Ask("VALUE_ARRAY", 2, 1, FALSE, {1})
Captured == Ask("VALUE_ARRAY", 6, 1, FALSE, {})
MCRequests == {Short,
               Ask("VALUE_ARRAY", 4, 1, FALSE, {1}),
               Ask("VALUE_ARRAY", 6, 1, FALSE, {1}),
               Captured,
               Ask("CALLFRAME_ARRAY", 6, 1, TRUE, {}),
               Ask("RAW", 2, 0, TRUE, {})}

\* An array born old is asked for to hold something.
Useful == req'.ty = "VALUE_ARRAY" /\ req'.words > PageWords => req'.init # <<0>>

Captive == Len(shadow) = 3 /\ Rootable(3, "VALUE_ARRAY") /\ ~InNursery(shadow[3])

\* Two roots are enough for all but two cases, which take a third: the deferred
\* page of the drain, for a short array pushed over a stack of frames, saved in it
\* and popped; and an array born old, next to an old one that may come to hold it.
Roots(n) == Len(shadow) <= n

Asks(r) == req'.ty = r.ty /\ req'.words = r.words /\ req'.barriered = r.barriered

RequestThird ==
    /\ Request
    /\ Len(shadow) = 2
    /\ \/ Rootable(2, "CALLFRAME_ARRAY") /\ Asks(Short)
       \/ Rootable(1, "VALUE_ARRAY") /\ ~InNursery(shadow[1]) /\ Asks(Captured)

\* What a store has put into a field.
Stored == UNION {Range(heap'.mem[a].fields) \ Range(heap.mem[a].fields) : a \in DOMAIN heap.mem}

\* The barrier of a store looks at the value stored, not behind it.  A store of the
\* instance keeps nothing that leads to an array born old of which the barrier was
\* not told: once such an array hangs from a clean slot only, the next scavenge
\* misses it (BarrierComplete and KeepsGraph fail without this conjunct).
StoreKnown == /\ StoreElement
              /\ \A p \in Reach(Stored) : Crosses(p) => p \in Range(dirty_vectors)

MCMachine == \/ Request /\ Roots(1) /\ Useful
             \/ RequestThird
             \/ Load /\ Roots(1)
             \/ StoreKnown /\ Roots(IF Captive THEN 3 ELSE 2)
             \/ DefunSet /\ Roots(2)
             \/ ValueSet /\ Roots(2)
             \/ SaveFrame
             \/ Unwind

MCNext == Collector \/ Allocator \/ MCMachine \/ Stopped

MCSpec == Init /\ [][MCNext]_vars /\ Fairness
=============================================================================
