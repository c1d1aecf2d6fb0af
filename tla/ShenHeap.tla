------------------------------- MODULE ShenHeap -------------------------------
(* The collected heap of the Zinc virtual machine (reference/shen-gc/gc.c):   *)
(* pages of PageWords words, a nursery filled by a bump cursor, an old        *)
(* generation of two semi-spaces filled page by page, a copying scavenge of   *)
(* the nursery and a full copying collection, both driven by the same Cheney  *)
(* queue of pages, and the write barrier that tells the scavenge which old    *)
(* objects to look at.  One collection is many steps here: one for the roots, *)
(* one for each page the drain walks, one to finish.  The virtual machine     *)
(* waits meanwhile, as it does in the program, where the collector is called  *)
(* from inside an allocation.                                                 *)
(*                                                                            *)
(* A pointer is the address of the word after an object's header, as in the   *)
(* code; 0 is NULL, and stands for every value that is not a pointer into the *)
(* heap.  mem maps the address of a header to what the header says and to the *)
(* pointers of the body.  Words of a page that was released are not in mem:   *)
(* nothing may read them as a header, and reads_lost records a read that did. *)
EXTENDS Integers, Sequences, FiniteSets, SequencesExt

CONSTANTS PageWords,      \* PAGEWORDS
          NurseryPages,   \* NURSERY_PAGES
          NurseryLowWater, \* NURSERY_SCAVENGE_FREE_LOWATER, in words
          InitPages,      \* the pages of gc_init, the nursery's included
          ReservedPages,  \* the pages of the mmap reservation
          GrowSlack,      \* the 512 pages grow_heap adds to what is needed
          DirtyVectorsMax,
          NDefuns, NValues, \* slots of the defun and of the values table
          Requests,       \* the allocations the machine asks for
          MaxFields, MaxRoots, MaxOps, Ids

\* The tags of a header (enum GcType), and of a page.
Types == {"RAW", "VALUE", "VALUE_ARRAY", "INSTR_ARRAY", "CALLFRAME_ARRAY"}
NURSERY == 3
Null == 0

ASSUME HeapAssumption ==
    /\ PageWords \in Nat \ {0, 1} /\ NurseryPages \in Nat \ {0} /\ NurseryLowWater \in Nat
    /\ InitPages \in Nat /\ InitPages > NurseryPages
    /\ ReservedPages \in Nat /\ ReservedPages >= InitPages
    /\ GrowSlack \in Nat /\ DirtyVectorsMax \in Nat \ {0}
    /\ NDefuns \in Nat /\ NValues \in Nat
    /\ MaxFields \in Nat /\ MaxRoots \in Nat /\ MaxOps \in Nat
    /\ \A r \in Requests : r.words \in Nat \ {0} /\ r.n \in 0 .. MaxFields
                         /\ r.ty \in Types /\ r.oldgen \in BOOLEAN
                         /\ r.barriered \subseteq 1 .. r.n
    /\ Ids \subseteq Nat \ {0}

VARIABLES heap,           \* the static state of gc.c: pages, cursors, queue
          gc,             \* the collection in progress
          req,            \* the allocation in progress
          shadow,         \* what the slots of the shadow stack point at
          defuns, values, \* what the registered tables point at
          dirty_defuns,   \* the dirty bits of the defun table
          dirty_vectors,  \* the remembered set, a sequence of bodies
          dirty_vectors_overflow,
          ops             \* operations of the machine so far

roots == <<shadow, defuns, values>>
remembered == <<dirty_defuns, dirty_vectors, dirty_vectors_overflow>>
vars == <<heap, gc, req, roots, remembered, ops>>

-----------------------------------------------------------------------------
(* Pages and addresses.                                                       *)

FirstPage == 1
PageOf(a) == a \div PageWords
PageStart(p) == p * PageWords
NurseryEnd == PageStart(NurseryPages + 1)

InNursery(p) == PageOf(p) \in FirstPage .. NurseryPages

InOldgen(h, p) == /\ PageOf(p) \in FirstPage .. h.heappages
                  /\ h.space[PageOf(p)] = h.current_space

next_page(h, pg) == IF pg = h.heappages THEN FirstPage ELSE pg + 1

Header(ty, words, id, fields) ==
    [fwd |-> Null, ty |-> ty, words |-> words, id |-> id, fields |-> fields]

Filler(words) == Header("RAW", words, 0, <<>>)

Forwarding(p) == [Header("RAW", 0, 0, <<>>) EXCEPT !.fwd = p]

Put(mem, a, o) ==
    [b \in (DOMAIN mem \ (a .. a + o.words - 1)) \cup {a} |->
        IF b = a THEN o ELSE mem[b]]

Dropped(mem, pages) ==
    [a \in {b \in DOMAIN mem : PageOf(b) \notin pages} |-> mem[a]]

Drop(h, pages) == [h EXCEPT !.mem = Dropped(h.mem, pages)]

-----------------------------------------------------------------------------
(* The Cheney queue: a list of pages linked through gc_link.                  *)

\* Each definition named <of>_<change> is a changed form of <of>, which no other
\* definition uses: what the code would be with a mistake in it.
queue_AgainAndAgain(h, pg) ==
    [h EXCEPT !.page_queued[pg] = TRUE,
              !.gc_link = IF h.queue_head # 0
                            THEN [@ EXCEPT ![h.queue_tail] = pg, ![pg] = 0]
                            ELSE [@ EXCEPT ![pg] = 0],
              !.queue_head = IF @ # 0 THEN @ ELSE pg,
              !.queue_tail = pg]

queue(h, pg) ==
    IF h.page_queued[pg]
      THEN h
      ELSE [h EXCEPT
             !.page_queued[pg] = TRUE,
             !.gc_link = IF h.queue_head # 0
                           THEN [@ EXCEPT ![h.queue_tail] = pg, ![pg] = 0]
                           ELSE [@ EXCEPT ![pg] = 0],
             !.queue_head = IF @ # 0 THEN @ ELSE pg,
             !.queue_tail = pg]

queue_reset(h) == [h EXCEPT !.queue_head = 0, !.queue_tail = 0,
                            !.page_queued = [pg \in DOMAIN @ |-> FALSE]]

-----------------------------------------------------------------------------
(* The old generation's allocator.                                            *)

OldgenCollectThreshold(h) == h.heappages \div 4
OldgenCollectLastresort(h) == h.heappages \div 2

Larger(a, b) == IF a > b THEN a ELSE b

grow_heap_KeepsFlags(h, needed) ==
    LET n == Larger(2 * h.heappages, 2 * (h.allocatedpages + needed + GrowSlack))
        Longer(f, zero) == [pg \in 1 .. n |->
                               IF pg <= h.heappages THEN f[pg] ELSE zero]
    IN  IF n > ReservedPages
          THEN h
          ELSE [h EXCEPT !.heappages = n,
                         !.space = Longer(@, 0), !.gc_link = Longer(@, 0),
                         !.type_page = Longer(@, "OBJECT")]

\* grow_heap: twice as many pages, or more when that is too few; no change
\* when the reservation is too small.
grow_heap(h, needed) ==
    LET n == Larger(2 * h.heappages, 2 * (h.allocatedpages + needed + GrowSlack))
        Longer(f, zero) == [pg \in 1 .. n |->
                               IF pg <= h.heappages THEN f[pg] ELSE zero]
    IN  IF n > ReservedPages
          THEN h
          ELSE [h EXCEPT !.heappages = n,
                         !.space = Longer(@, 0), !.gc_link = Longer(@, 0),
                         !.type_page = Longer(@, "OBJECT"),
                         !.page_queued = Longer(@, FALSE)]

Takeable(h, pg) == h.space[pg] \notin {h.current_space, h.next_space, NURSERY}

\* The page the cyclic scan looks at in its i-th round, and the rounds that end
\* a run of n takeable pages; a run does not wrap around the end of the heap.
Visited(h, i) == 1 + ((h.freepage + i - 2) % h.heappages)

RunsOf(h, n) == {i \in n .. h.heappages :
                    /\ Visited(h, i) >= n
                    /\ \A k \in 0 .. n - 1 : Takeable(h, Visited(h, i) - k)}

TakePages_CountsOne(h, first, last) ==
    [(IF h.current_space # h.next_space \/ h.in_scavenge THEN queue(h, first) ELSE h)
       EXCEPT !.freep = PageStart(first),
              !.freewords = (last - first + 1) * PageWords,
              !.allocatedpages = @ + 1,
              !.freepage = next_page(h, last),
              !.space = [pg \in DOMAIN @ |->
                            IF pg \in first .. last THEN h.next_space ELSE @[pg]],
              !.type_page = [pg \in DOMAIN @ |->
                            IF pg = first THEN "OBJECT"
                            ELSE IF pg \in first .. last THEN "CONTINUED"
                            ELSE @[pg]]]

\* Pages first to last are taken; while pages are copied into, they are queued.
TakePages(h, first, last) ==
    [(IF h.current_space # h.next_space \/ h.in_scavenge THEN queue(h, first) ELSE h)
       EXCEPT !.freep = PageStart(first),
              !.freewords = (last - first + 1) * PageWords,
              !.allocatedpages = @ + last - first + 1,
              !.freepage = next_page(h, last),
              !.space = [pg \in DOMAIN @ |->
                            IF pg \in first .. last THEN h.next_space ELSE @[pg]],
              !.type_page = [pg \in DOMAIN @ |->
                            IF pg = first THEN "OBJECT"
                            ELSE IF pg \in first .. last THEN "CONTINUED"
                            ELSE @[pg]]]

FirstRun(h, n) ==
    LET i == CHOOSE j \in RunsOf(h, n) : \A k \in RunsOf(h, n) : j <= k
    IN  Visited(h, i)

TakeRun(h, n) == IF RunsOf(h, n) = {}
                   THEN [h EXCEPT !.exited = TRUE]
                   ELSE TakePages(h, FirstRun(h, n) - n + 1, FirstRun(h, n))

\* allocatepage once no collection is to be run first.  The heap grows at most
\* once in a call; when that does not help, the program exits.
allocatepage(h, n, retried) ==
    TakeRun(IF RunsOf(h, n) = {} /\ ~retried THEN grow_heap(h, n) ELSE h, n)

PagesFor(words) == (words + PageWords - 1) \div PageWords

Finalize_NoFiller(h) == [h EXCEPT !.freewords = 0]

\* The partial page is closed with a filler, so that a walk ends at its end.
Finalize(h) ==
    IF h.freewords = 0
      THEN h
      ELSE [h EXCEPT !.mem = Put(@, h.freep, Filler(h.freewords)), !.freewords = 0]

\* The bump: the header and the body are written at freep.
Place(h, o) ==
    IF h.exited
      THEN h
      ELSE [h EXCEPT !.mem = Put(@, h.freep, o),
                     !.freep = @ + o.words,
                     !.freewords = IF o.words < PageWords THEN @ - o.words ELSE 0]

\* gcalloc_internal as the collector calls it: a page is taken, not collected.
Roomy(h, words) ==
    IF words <= h.freewords THEN h
    ELSE allocatepage(Finalize(h), PagesFor(words), FALSE)

-----------------------------------------------------------------------------
(* Evacuation.                                                                *)

CopyTo_NotForwarded(h, o, p) == [h |-> Place(h, o), p |-> h.freep + 1]

CopyTo(h, o, p) == [h |-> [Place(h, o) EXCEPT !.mem[p - 1] = Forwarding(h.freep + 1)],
                    p |-> h.freep + 1]

move_internal(h, p) == CopyTo(Roomy(h, h.mem[p - 1].words), h.mem[p - 1], p)

gc_move_LeavesOldPages(h, p) ==
    IF p = Null \/ h.space[PageOf(p)] = h.next_space THEN [h |-> h, p |-> p]
    ELSE IF InNursery(p) /\ ~h.in_scavenge THEN [h |-> h, p |-> p]
    ELSE IF p - 1 \notin DOMAIN h.mem
      THEN [h |-> [h EXCEPT !.reads_lost = TRUE], p |-> p]
    ELSE IF h.mem[p - 1].fwd # Null THEN [h |-> h, p |-> h.mem[p - 1].fwd]
    ELSE move_internal(h, p)

gc_move(h, p) ==
    IF p = Null THEN [h |-> h, p |-> p]
    ELSE IF h.space[PageOf(p)] = h.next_space
      THEN [h |-> IF h.in_scavenge THEN queue(h, PageOf(p)) ELSE h, p |-> p]
    ELSE IF InNursery(p) /\ ~h.in_scavenge THEN [h |-> h, p |-> p]
    ELSE IF p - 1 \notin DOMAIN h.mem
      THEN [h |-> [h EXCEPT !.reads_lost = TRUE], p |-> p]
    ELSE IF h.mem[p - 1].fwd # Null THEN [h |-> h, p |-> h.mem[p - 1].fwd]
    ELSE move_internal(h, p)

\* gc_evacuate on every slot of a sequence, in order.
Evacuated(acc, m) == [h |-> m.h, slots |-> Append(acc.slots, m.p)]

EvacuateSlot(acc, p) == Evacuated(acc, gc_move(acc.h, p))

EvacuateAll(h, slots) ==
    LET done[n \in 0 .. Len(slots)] ==
            IF n = 0 THEN [h |-> h, slots |-> <<>>] ELSE EvacuateSlot(done[n - 1], slots[n])
    IN  done[Len(slots)]

\* drain_scan_object: the pointer fields of the object whose header is at a.
SetFields(e, a) == [e.h EXCEPT !.mem[a].fields = e.slots]

drain_scan_object(h, a) ==
    IF h.mem[a].ty = "RAW" THEN h ELSE SetFields(EvacuateAll(h, h.mem[a].fields), a)

\* drain_walk_page: the objects from cp on, up to the page's end or to freep.  A
\* word that is no header ends a walk, as a zero word does in the code.
WalkEnds(h, qpg, cp) == PageOf(cp) # qpg \/ cp = h.freep \/ cp \notin DOMAIN h.mem

WalkStep(w, qpg) ==
    IF WalkEnds(w.h, qpg, w.cp) THEN w
    ELSE [h |-> drain_scan_object(w.h, w.cp), cp |-> w.cp + w.h.mem[w.cp].words]

Walked(w, qpg) ==
    LET lost == PageOf(w.cp) = qpg /\ w.cp # w.h.freep /\ qpg \notin w.h.holes
    IN  [w EXCEPT !.h.walks_lost = @ \/ lost]

drain_walk_page(h, qpg, cp) ==
    LET walk[n \in 0 .. PageWords] ==
            IF n = 0 THEN [h |-> h, cp |-> cp] ELSE WalkStep(walk[n - 1], qpg)
    IN  Walked(walk[PageWords], qpg)

\* The slots of a table, of those a scan is told to look at.
Only(table, wanted) == [i \in DOMAIN table |-> IF i \in wanted THEN table[i] ELSE Null]

Rest(table, wanted, slots) ==
    [i \in DOMAIN table |-> IF i \in wanted THEN slots[i] ELSE table[i]]

SetShadow(t, e) == [t EXCEPT !.h = e.h, !.shadow = e.slots]
SetDefuns(t, e, wanted) == [t EXCEPT !.h = e.h, !.defuns = Rest(@, wanted, e.slots)]
SetValues(t, e) == [t EXCEPT !.h = e.h, !.values = e.slots]

ScanDefuns(t, wanted) == SetDefuns(t, EvacuateAll(t.h, Only(t.defuns, wanted)), wanted)
ScanValues_Skipped(t) == t
ScanValues(t) == SetValues(t, EvacuateAll(t.h, t.values))

\* gc_scan_roots: the shadow stack, the defun table (its dirty slots only when
\* a scavenge runs) and the whole values table.
gc_scan_roots(h) ==
    LET t == [h |-> h, shadow |-> shadow, defuns |-> defuns, values |-> values]
    IN  ScanValues(ScanDefuns(SetShadow(t, EvacuateAll(h, shadow)),
                              IF h.in_scavenge THEN dirty_defuns ELSE DOMAIN defuns))

-----------------------------------------------------------------------------
(* The machine's roots, and the identities they give the objects.             *)

\* The copy a pointer now stands for: an object promoted by the first half of
\* a full collection and copied by the second is two forwardings away.
Step(p) == IF p - 1 \in DOMAIN heap.mem /\ heap.mem[p - 1].fwd # Null
             THEN heap.mem[p - 1].fwd ELSE p

Resolve(p) == Step(Step(p))

Readable(p) == p - 1 \in DOMAIN heap.mem

\* The bodies that can be reached from a set of pointers.
Reach(ps) ==
    LET reach[r \in SUBSET Int] ==
            LET named == UNION {Range(heap.mem[p - 1].fields) : p \in {q \in r : Readable(q)}}
                more == {Resolve(f) : f \in named \ {Null}} \ r
            IN  IF more = {} THEN r ELSE reach[r \cup more]
    IN  reach[{Resolve(p) : p \in ps \ {Null}}]

Rooted == Range(shadow) \cup Range(defuns) \cup Range(values)

LiveBodies == Reach(Rooted)

Lost == 0 - 1
IdOf(p) == IF p = Null THEN Null
           ELSE IF Readable(Resolve(p)) THEN heap.mem[Resolve(p) - 1].id ELSE Lost

FreeIds == Ids \ {IdOf(p) : p \in LiveBodies}

-----------------------------------------------------------------------------
(* Collections.                                                               *)

NoGc == [kind |-> "none", at |-> "idle", promote |-> FALSE,
         defer_pg |-> 0, defer_cp |-> 0]

NoReq == [at |-> "none"]

\* collect and collect_nursery up to their first look at the roots.  A full
\* collection first promotes the nursery.
StartCollect(h, kind) ==
    /\ heap' = queue_reset(Finalize([h EXCEPT !.in_scavenge = TRUE]))
    /\ gc' = [NoGc EXCEPT !.kind = kind, !.at = "roots", !.promote = (kind = "full")]

Collecting == gc.kind # "none" /\ ~heap.exited

\* gc_scan_roots.  To promote the nursery, a full collection looks at the clean
\* slots of the defun table too, and at the values table once more.
RootsAre(t) == /\ heap' = t.h
               /\ shadow' = t.shadow
               /\ defuns' = t.defuns
               /\ values' = t.values

ScanRoots ==
    /\ Collecting /\ gc.at = "roots"
    /\ RootsAre(IF gc.promote
                  THEN ScanValues(ScanDefuns(gc_scan_roots(heap),
                                             DOMAIN defuns \ dirty_defuns))
                  ELSE gc_scan_roots(heap))
    /\ gc' = [gc EXCEPT !.at = IF gc.kind = "nursery" THEN "remembered" ELSE "drain"]
    /\ UNCHANGED <<req, remembered, ops>>

\* The remembered vectors that are still old, or, when the set overflowed, every
\* old page.
Rescan(h, p) ==
    IF /\ InOldgen(h, p)
       /\ p - 1 \in DOMAIN h.mem
       /\ h.mem[p - 1].ty = "VALUE_ARRAY"
      THEN drain_scan_object(h, p - 1) ELSE h

RescanVectors(h) ==
    LET done[n \in 0 .. Len(dirty_vectors)] ==
            IF n = 0 THEN h ELSE Rescan(done[n - 1], dirty_vectors[n])
    IN  done[Len(dirty_vectors)]

QueueOld(h, pg) ==
    IF h.space[pg] = h.current_space /\ h.type_page[pg] = "OBJECT" THEN queue(h, pg) ELSE h

QueueAllOld(h) ==
    LET done[pg \in NurseryPages .. h.heappages] ==
            IF pg = NurseryPages THEN h ELSE QueueOld(done[pg - 1], pg)
    IN  done[h.heappages]

ScanRemembered ==
    /\ Collecting /\ gc.at = "remembered"
    /\ heap' = IF dirty_vectors_overflow THEN QueueAllOld(heap) ELSE RescanVectors(heap)
    /\ gc' = [gc EXCEPT !.at = "drain"]
    /\ UNCHANGED <<req, roots, remembered, ops>>

\* cheney_drain, one page at a time.  Walking the page at the head of the queue
\* comes before taking it off: what the walk queues is behind it.  When pages are
\* left and the walk ended at freep, the rest of the page is deferred; an older
\* deferred page is then walked to its end.
Behind(w, qpg) == /\ w.h.queue_head # 0
                  /\ w.cp = w.h.freep
                  /\ PageOf(w.h.freep) = qpg

Pop(w, qpg) == [w EXCEPT !.h.queue_head = w.h.gc_link[qpg]]

Drained(w, qpg) ==
    IF Behind(w, qpg)
      THEN /\ heap' = IF gc.defer_pg \notin {0, qpg}
                        THEN drain_walk_page(w.h, gc.defer_pg, gc.defer_cp).h ELSE w.h
           /\ gc' = [gc EXCEPT !.defer_pg = qpg, !.defer_cp = w.cp]
      ELSE heap' = w.h /\ UNCHANGED gc

DrainQueued_LinkReadFirst ==
    /\ Collecting /\ gc.at = "drain" /\ heap.queue_head # 0
    /\ LET qpg == heap.queue_head
           w == drain_walk_page(heap, qpg, PageStart(qpg))
       IN  Drained([w EXCEPT !.h.queue_head = heap.gc_link[qpg]], qpg)
    /\ UNCHANGED <<req, roots, remembered, ops>>

DrainQueued ==
    /\ Collecting /\ gc.at = "drain" /\ heap.queue_head # 0
    /\ LET qpg == heap.queue_head
       IN  Drained(Pop(drain_walk_page(heap, qpg, PageStart(qpg)), qpg), qpg)
    /\ UNCHANGED <<req, roots, remembered, ops>>

\* The queue is empty: the rest of the deferred page is walked, to its end if
\* freep has left the page, to freep if objects were copied there since.
DrainDone == /\ gc.at = "drain" /\ heap.queue_head = 0
             /\ \/ gc.defer_pg = 0
                \/ PageOf(heap.freep) = gc.defer_pg /\ heap.freep = gc.defer_cp

Deferred(w) ==
    /\ heap' = w.h
    /\ gc' = [gc EXCEPT !.defer_cp = w.cp,
                        !.defer_pg = IF {PageOf(heap.freep), PageOf(w.cp)} = {@} THEN @ ELSE 0]

DrainDeferred ==
    /\ Collecting /\ gc.at = "drain" /\ heap.queue_head = 0 /\ ~DrainDone
    /\ Deferred(drain_walk_page(heap, gc.defer_pg, gc.defer_cp))
    /\ UNCHANGED <<req, roots, remembered, ops>>

ForgetRemembered == /\ dirty_defuns' = {}
                    /\ dirty_vectors' = <<>>
                    /\ dirty_vectors_overflow' = FALSE

\* The nursery is promoted: swap the semi-spaces and start over.
FinishPromotion ==
    /\ Collecting /\ DrainDone /\ gc.promote
    /\ heap' = queue_reset([Finalize(heap) EXCEPT
                              !.in_scavenge = FALSE,
                              !.next_space = 3 - heap.current_space,
                              !.allocatedpages = 0])
    /\ ForgetRemembered
    /\ gc' = [NoGc EXCEPT !.kind = "full", !.at = "roots"]
    /\ UNCHANGED <<req, roots, ops>>

\* Pages of the old semi-space are released and the spaces are swapped.
Release_KeepsType(h, dead) ==
    [Drop(h, dead) EXCEPT !.space = [pg \in DOMAIN @ |-> IF pg \in dead THEN 0 ELSE @[pg]],
                          !.holes = @ \ dead]

Release(h, dead) ==
    [Drop(h, dead) EXCEPT
       !.space = [pg \in DOMAIN @ |-> IF pg \in dead THEN 0 ELSE @[pg]],
       !.type_page = [pg \in DOMAIN @ |-> IF pg \in dead THEN "OBJECT" ELSE @[pg]],
       !.holes = @ \ dead]

FinishCollect ==
    /\ Collecting /\ DrainDone /\ gc.kind = "full" /\ ~gc.promote
    /\ LET dead == {pg \in 1 .. heap.heappages : heap.space[pg] = heap.current_space}
       IN  heap' = [Release(heap, dead) EXCEPT !.current_space = heap.next_space]
    /\ gc' = NoGc
    /\ UNCHANGED <<req, roots, remembered, ops>>

FinishNursery ==
    /\ Collecting /\ DrainDone /\ gc.kind = "nursery"
    /\ heap' = [Drop(heap, FirstPage .. NurseryPages) EXCEPT
                  !.nursery_cur = PageStart(FirstPage), !.in_scavenge = FALSE]
    /\ ForgetRemembered
    /\ gc' = NoGc
    /\ UNCHANGED <<req, roots, ops>>

-----------------------------------------------------------------------------
(* The write barrier.                                                         *)

gc_dirty_vectors_add(p) ==
    IF dirty_vectors_overflow \/ p \in Range(dirty_vectors)
      THEN UNCHANGED <<dirty_vectors, dirty_vectors_overflow>>
    ELSE IF Len(dirty_vectors) >= DirtyVectorsMax
      THEN dirty_vectors_overflow' = TRUE /\ UNCHANGED dirty_vectors
      ELSE dirty_vectors' = Append(dirty_vectors, p) /\ UNCHANGED dirty_vectors_overflow


Barrier(h, p, stored) ==
    IF InOldgen(h, p) /\ \E q \in stored \ {Null} : InNursery(q)
      THEN gc_dirty_vectors_add(p)
      ELSE UNCHANGED <<dirty_vectors, dirty_vectors_overflow>>

-----------------------------------------------------------------------------
(* Allocation: gc_alloc and gc_alloc_oldgen, from the request to its answer.  *)

Allocating(places) == /\ gc.kind = "none" /\ ~heap.exited
                      /\ req.at \in places

Object(i) == heap.mem[shadow[i] - 1]
Rootable(i, ty) == shadow[i] # Null /\ Readable(shadow[i]) /\ Object(i).ty = ty

\* The roots whose value may be kept elsewhere: not the stack of frames, which only
\* vm_exec_env's own root names.
ValueRoots == {i \in DOMAIN shadow : ~Rootable(i, "CALLFRAME_ARRAY")}

\* RootOrNull(k) is the root a new field is set from, 0 for NULL.
RootOrNull(k) == IF k = 0 THEN Null ELSE shadow[k]

\* The object as it is written; its fields are set from the roots, as they stand
\* after the collections the request may have caused.
NewObject == Header(req.ty, req.words, req.id,
                    [k \in 1 .. req.n |-> RootOrNull(req.init[k])])

\* The nursery's bump: the page's head is marked, whatever a scavenge left there.
Bump(h, a) == [h EXCEPT !.mem = Put(@, a, NewObject),
                        !.nursery_cur = a + req.words,
                        !.type_page[PageOf(a)] = "OBJECT"]

\* The fields the caller tells the barrier about, once it has filled them.  The
\* allocator has no barrier of its own, and an object longer than a page is born
\* old.  Of an array of values, a caller names
\*   every field    the environment of vm_exec_env, apply, appterm, a trap's body;
\*   the last ones  a handler's environment, eval-kl, call_closure, and the push
\*                  that made va_push or env_push grow: not what memcpy captured;
\*   none           the environment val_lambda gives a closure, env_driver.
\* Of an array of instructions and of a cell nobody names any.
Barriered == {NewObject.fields[k] : k \in req.barriered}

\* The request is answered with the object whose header is at a of heap h.
Granted(h, a) ==
    /\ heap' = h
    /\ IF h.exited
         THEN UNCHANGED <<shadow, dirty_vectors, dirty_vectors_overflow>>
         ELSE shadow' = Append(shadow, a + 1) /\ Barrier(h, a + 1, Barriered)
    /\ req' = NoReq
    /\ UNCHANGED <<gc, defuns, values, dirty_defuns, ops>>

\* An object of one page at most starts in the nursery, any other request, and
\* every gc_alloc_oldgen, in the old generation.  A stack of frames starts zeroed.
Request ==
    /\ req = NoReq /\ gc.kind = "none" /\ ~heap.exited
    /\ ops < MaxOps /\ Len(shadow) < MaxRoots /\ FreeIds # {}
    /\ \E r \in Requests :
       \E init \in [1 .. r.n -> IF r.ty = "CALLFRAME_ARRAY" THEN {0} ELSE {0} \cup ValueRoots] :
          req' = [at |-> IF r.oldgen \/ r.words > PageWords THEN "oldgen" ELSE "gc_alloc",
                  ty |-> r.ty, words |-> r.words, n |-> r.n, init |-> init,
                  barriered |-> r.barriered,
                  id |-> CHOOSE i \in FreeIds : \A j \in FreeIds : i <= j,
                  tried |-> FALSE, retried |-> FALSE]
    /\ ops' = ops + 1
    /\ UNCHANGED <<heap, gc, roots, remembered>>

PreemptiveScavenge ==
    /\ Allocating({"gc_alloc"})
    /\ NurseryEnd - heap.nursery_cur <= NurseryLowWater
    /\ StartCollect(heap, "nursery")
    /\ req' = [req EXCEPT !.at = "nursery", !.tried = TRUE]
    /\ UNCHANGED <<roots, remembered, ops>>

\* The cursor skips the rest of a page the object would straddle.
Cursor == LET cur == heap.nursery_cur
          IN  IF cur < NurseryEnd /\ PageOf(cur + req.words - 1) # PageOf(cur)
                THEN PageStart(PageOf(cur) + 1) ELSE cur

InNurseryPath ==
    \/ Allocating({"nursery"})
    \/ Allocating({"gc_alloc"}) /\ NurseryEnd - heap.nursery_cur > NurseryLowWater

NurseryBump == /\ InNurseryPath
               /\ NurseryEnd - Cursor >= req.words
               /\ Granted(Bump(heap, Cursor), Cursor)

\* The nursery is full: scavenge and try again, once; then the old generation.
ReactiveScavenge ==
    /\ InNurseryPath
    /\ NurseryEnd - Cursor < req.words
    /\ IF req.tried
         THEN req' = [req EXCEPT !.at = "oldgen"] /\ UNCHANGED <<heap, gc>>
         ELSE /\ StartCollect([heap EXCEPT !.nursery_cur = Cursor], "nursery")
              /\ req' = [req EXCEPT !.at = "nursery", !.tried = TRUE]
    /\ UNCHANGED <<roots, remembered, ops>>

AboveThreshold == heap.allocatedpages > OldgenCollectThreshold(heap)

CollectThreshold ==
    /\ Allocating({"oldgen"}) /\ AboveThreshold
    /\ StartCollect(heap, "full")
    /\ req' = [req EXCEPT !.at = "collected"]
    /\ UNCHANGED <<roots, remembered, ops>>

\* Anti-thrash: a live set still above the threshold makes the heap grow.
AntiThrash ==
    /\ Allocating({"collected"})
    /\ heap' = IF AboveThreshold THEN grow_heap(heap, 1) ELSE heap
    /\ req' = [req EXCEPT !.at = "gcalloc"]
    /\ UNCHANGED <<gc, roots, remembered, ops>>

InGcalloc == Allocating({"gcalloc"}) \/ (Allocating({"oldgen"}) /\ ~AboveThreshold)

LastResort == heap.allocatedpages + PagesFor(req.words) >= OldgenCollectLastresort(heap)

OldgenBump == /\ InGcalloc /\ req.words <= heap.freewords
              /\ Granted(Place(heap, NewObject), heap.freep)

OldgenPage ==
    /\ InGcalloc /\ req.words > heap.freewords /\ ~LastResort
    /\ LET h == allocatepage(Finalize(heap), PagesFor(req.words), FALSE)
       IN  Granted(Place(h, NewObject), h.freep)

CollectLastresort ==
    /\ (InGcalloc /\ req.words > heap.freewords) \/ Allocating({"retry"})
    /\ LastResort
    /\ StartCollect(heap, "full")
    /\ req' = [req EXCEPT !.at = "lastresort"]
    /\ UNCHANGED <<roots, remembered, ops>>

\* A page whose bump slack is given up without a filler.
Abandoned(h) == [h EXCEPT !.holes = IF h.freewords = 0 THEN @ ELSE @ \cup {PageOf(h.freep)}]

\* The rest of allocatepage after its own collection: grow once and start over,
\* or exit, when the live set is still too large.  The page taken afterwards
\* takes freep away from the copies of the collection, whose page is not closed.
GrowOrExit ==
    /\ Allocating({"lastresort"}) /\ LastResort
    /\ LET h == IF req.retried THEN heap ELSE grow_heap(heap, PagesFor(req.words))
       IN  IF h.heappages > heap.heappages
             THEN heap' = h /\ req' = [req EXCEPT !.at = "retry", !.retried = TRUE]
             ELSE heap' = [heap EXCEPT !.exited = TRUE] /\ UNCHANGED req
    /\ UNCHANGED <<gc, roots, remembered, ops>>

PageAfterLastresort ==
    /\ Allocating({"lastresort", "retry"}) /\ ~LastResort
    /\ LET h == allocatepage(Abandoned(heap), PagesFor(req.words), req.retried)
       IN  Granted(Place(h, NewObject), h.freep)

-----------------------------------------------------------------------------
(* What the machine does with its roots between two allocations.              *)

Idle == req = NoReq /\ gc.kind = "none" /\ ~heap.exited /\ ops < MaxOps

Operation == Idle /\ ops' = ops + 1 /\ UNCHANGED <<gc, req>>

\* address->, va_push and env_push: a field of an array is set, and an old array
\* that now names a nursery object is remembered.
StoreElement ==
    /\ Operation
    /\ \E i \in DOMAIN shadow, k \in 1 .. MaxFields, j \in {0} \cup ValueRoots :
          /\ Rootable(i, "VALUE_ARRAY") /\ k \in DOMAIN Object(i).fields
          /\ heap' = [heap EXCEPT !.mem[shadow[i] - 1].fields[k] = RootOrNull(j)]
          /\ Barrier(heap, shadow[i], {RootOrNull(j)})
    /\ UNCHANGED <<roots, dirty_defuns>>

\* vm_exec_env saves a frame, or clears the slot of one it popped: no barrier.
SaveFrame ==
    /\ Operation
    /\ \E i \in DOMAIN shadow, k \in 1 .. MaxFields, j \in {0} \cup ValueRoots :
          /\ Rootable(i, "CALLFRAME_ARRAY") /\ k \in DOMAIN Object(i).fields
          /\ heap' = [heap EXCEPT !.mem[shadow[i] - 1].fields[k] = RootOrNull(j)]
    /\ UNCHANGED <<roots, remembered>>

\* A value is loaded from a table or from a field, and pushed.
Load ==
    /\ Operation /\ Len(shadow) < MaxRoots
    /\ \E p \in (Range(defuns) \cup Range(values)
                   \cup UNION {Range(Object(i).fields) :
                                 i \in {j \in DOMAIN shadow : shadow[j] # Null /\ Readable(shadow[j])}}) \ {Null} :
          shadow' = Append(shadow, p)
    /\ UNCHANGED <<heap, defuns, values, remembered>>

\* gc_root_pop, and gc_root_pop_to after a longjmp.
Unwind ==
    /\ Operation
    /\ \E n \in 0 .. Len(shadow) - 1 : shadow' = SubSeq(shadow, 1, n)
    /\ UNCHANGED <<heap, defuns, values, remembered>>

\* defun_set marks the slot; value_set does not have to.
DefunSet ==
    /\ Operation
    /\ \E d \in DOMAIN defuns, i \in ValueRoots :
          /\ defuns' = [defuns EXCEPT ![d] = shadow[i]]
          /\ dirty_defuns' = dirty_defuns \cup {d}
    /\ UNCHANGED <<heap, shadow, values, dirty_vectors, dirty_vectors_overflow>>

ValueSet ==
    /\ Operation
    /\ \E d \in DOMAIN values, i \in ValueRoots :
          values' = [values EXCEPT ![d] = shadow[i]]
    /\ UNCHANGED <<heap, shadow, defuns, remembered>>

-----------------------------------------------------------------------------
InitHeap ==
    [mem |-> << >>,
     heappages |-> InitPages,
     space |-> [pg \in 1 .. InitPages |-> IF pg <= NurseryPages THEN NURSERY ELSE 0],
     type_page |-> [pg \in 1 .. InitPages |-> "OBJECT"],
     gc_link |-> [pg \in 1 .. InitPages |-> 0],
     page_queued |-> [pg \in 1 .. InitPages |-> FALSE],
     queue_head |-> 0, queue_tail |-> 0,
     nursery_cur |-> PageStart(FirstPage),
     current_space |-> 1, next_space |-> 1,
     freepage |-> FirstPage + NurseryPages,
     allocatedpages |-> 0, freep |-> 0, freewords |-> 0,
     in_scavenge |-> FALSE, exited |-> FALSE, reads_lost |-> FALSE, walks_lost |-> FALSE,
     holes |-> {}]

Init == /\ heap = InitHeap
        /\ gc = NoGc
        /\ req = NoReq
        /\ shadow = <<>>
        /\ defuns = [d \in 1 .. NDefuns |-> Null]
        /\ values = [d \in 1 .. NValues |-> Null]
        /\ dirty_defuns = {}
        /\ dirty_vectors = <<>>
        /\ dirty_vectors_overflow = FALSE
        /\ ops = 0

Collector == \/ ScanRoots \/ ScanRemembered
             \/ DrainQueued \/ DrainDeferred
             \/ FinishPromotion \/ FinishCollect \/ FinishNursery

Allocator == \/ PreemptiveScavenge \/ NurseryBump \/ ReactiveScavenge
             \/ CollectThreshold \/ AntiThrash
             \/ OldgenBump \/ OldgenPage
             \/ CollectLastresort \/ GrowOrExit \/ PageAfterLastresort

Machine == \/ Request \/ StoreElement \/ SaveFrame \/ Load \/ Unwind
           \/ DefunSet \/ ValueSet

\* The program ended, or the bound on its operations is reached.
Stopped == /\ heap.exited \/ (req = NoReq /\ gc.kind = "none" /\ ops = MaxOps)
           /\ UNCHANGED vars

Next == Collector \/ Allocator \/ Machine \/ Stopped

\* The collector and the allocator are calls the machine waits for: they run on.
\* This is their weak fairness, with what enables them written out.
Busy == req # NoReq /\ ~heap.exited
Fairness == []<>~Busy \/ []<><<Collector \/ Allocator>>_vars

Spec == Init /\ [][Next]_vars /\ Fairness

-----------------------------------------------------------------------------
(* Properties.                                                                *)

Pages == 1 .. heap.heappages
Pointer == 0 .. (ReservedPages + 1) * PageWords

\* Types: the page arrays cover the heap as it has grown, the collector's
\* cursors are addresses, and the tables keep their sizes.
TypeOK ==
    /\ heap.heappages \in InitPages .. ReservedPages
    /\ heap.space \in [Pages -> {0, 1, 2, NURSERY}]
    /\ heap.type_page \in [Pages -> {"OBJECT", "CONTINUED"}]
    /\ heap.gc_link \in [Pages -> {0} \cup Pages]
    /\ heap.page_queued \in [Pages -> BOOLEAN]
    /\ {heap.queue_head, heap.queue_tail} \subseteq {0} \cup Pages
    /\ heap.freepage \in Pages
    /\ heap.freewords \in 0 .. ReservedPages * PageWords
    /\ {heap.freep, heap.nursery_cur, gc.defer_cp} \subseteq Pointer
    /\ \A a \in DOMAIN heap.mem :
          LET o == heap.mem[a]
          IN  o.ty \in Types /\ o.id \in Ids \cup {0} /\ Range(o.fields) \subseteq Pointer
    /\ shadow \in Seq(Pointer) /\ Len(shadow) <= MaxRoots
    /\ defuns \in [1 .. NDefuns -> Pointer] /\ values \in [1 .. NValues -> Pointer]
    /\ dirty_defuns \subseteq 1 .. NDefuns
    /\ Len(dirty_vectors) <= DirtyVectorsMax /\ ops \in 0 .. MaxOps

\* The refinement mapping: an object is the copy its pointers lead to.
AbsObject(p) == [id |-> IdOf(p), ty |-> heap.mem[p - 1].ty,
                 fields |-> [k \in DOMAIN heap.mem[p - 1].fields |->
                                IdOf(heap.mem[p - 1].fields[k])]]

AbsTable(t) == [i \in DOMAIN t |-> IdOf(t[i])]

AbsObjects == {AbsObject(p) : p \in {q \in LiveBodies : Readable(q)}}
AbsShadow == AbsTable(shadow)
AbsDefuns == AbsTable(defuns)
AbsValues == AbsTable(values)

Graph == INSTANCE ObjectGraph WITH
            objects <- AbsObjects, shadow <- AbsShadow, defuns <- AbsDefuns,
            values <- AbsValues

\* To the machine the heap is a graph of objects that never move: whatever the
\* two collectors copy, forward, promote and release, and at every step in
\* between, the roots reach the same objects with the same fields.
KeepsGraph == Graph!Spec

\* No object is copied twice: two pointers to one object stay pointers to one
\* object, or a later store through one would not be seen through the other.
OneCopy == \A p, q \in LiveBodies :
              Readable(p) /\ Readable(q) /\ IdOf(p) = IdOf(q) => p = q

\* Whatever walks a page walks from header to header up to freep or the page's
\* end, and gc_move reads nothing but headers: no stretch of a page is left that is
\* neither object nor filler, but for the pages in heap.holes, where allocatepage
\* leaves one, and no pointer into a released page is met, in an object that died
\* since either.
WalksOnHeaders == ~heap.walks_lost /\ ~heap.reads_lost

\* gc_verify_heap: the pages it reports.
VerifyHeapErrors ==
    {pg \in Pages : \/ heap.space[pg] = 0 /\ heap.type_page[pg] = "CONTINUED"
                    \/ /\ heap.type_page[pg] = "CONTINUED" /\ pg > 1
                       /\ heap.space[pg - 1] = 0}

\* gc_verify_live_fn: the fields it reports, on the pages the drain scanned
\* before the nursery is reset, or on every page after a full collection.
VerifyLivePages(post_nursery) ==
    {pg \in Pages : /\ heap.space[pg] = heap.current_space
                    /\ post_nursery => heap.page_queued[pg]}

VerifyLiveErrors(post_nursery) ==
    {f \in UNION {{<<a, k>> : k \in DOMAIN heap.mem[a].fields} :
                     a \in {b \in DOMAIN heap.mem :
                              PageOf(b) \in VerifyLivePages(post_nursery)}} :
        LET p == heap.mem[f[1]].fields[f[2]]
        IN  /\ p # Null
            /\ IF InNursery(p)
                 THEN post_nursery \/ ~Readable(p) \/ heap.mem[p - 1].fwd # Null
                 ELSE heap.space[PageOf(p)] # heap.current_space}

\* The page table is sane whenever the collector is done: a free page carries no
\* mark, and the tail of an object follows its head.
VerifyHeapClean == gc.kind = "none" => VerifyHeapErrors = {}

\* After a scavenge a scanned object holds no nursery pointer.
ScannedIsPromoted ==
    DrainDone /\ heap.in_scavenge => VerifyLiveErrors(TRUE) = {}

\* Between collections no object of the old generation, dead ones included, points
\* into a released page or at a nursery object that has moved or is gone: the
\* drain scans the dead neighbours of what it reaches.  A dead object longer than a
\* page, which has its pages to itself, is the exception.
NoStalePointer ==
    gc.kind = "none" =>
      \A f \in VerifyLiveErrors(FALSE) :
         heap.mem[f[1]].words > PageWords /\ f[1] + 1 \notin LiveBodies

\* allocatedpages, which both triggers of a full collection read, counts the
\* pages of the space that is being filled, through every copy and swap.
AllocatedPagesExact ==
    heap.allocatedpages = Cardinality({pg \in Pages : heap.space[pg] = heap.next_space})

\* The pages from the head of the queue on.
Listed == LET on[pg \in 0 .. heap.heappages] ==
                  IF pg = 0 THEN {} ELSE {pg} \cup on[heap.gc_link[pg]]
          IN  on[heap.queue_head]

\* Still to be scanned: the fields of the copies, and of the queued old objects,
\* that the drain would change.
Unscanned ==
    {f \in UNION {{<<a, k>> : k \in DOMAIN heap.mem[a].fields} :
                     a \in {b \in DOMAIN heap.mem :
                              /\ heap.space[PageOf(b)] = heap.next_space
                              /\ heap.in_scavenge => heap.page_queued[PageOf(b)]}} :
        LET p == heap.mem[f[1]].fields[f[2]]
        IN  p # Null /\ IF heap.in_scavenge THEN InNursery(p)
                        ELSE heap.space[PageOf(p)] = heap.current_space}

\* The drain loses track of no object: one with a field left to scan is on a page of
\* the queue, or in the rest of the deferred page.  Pages are queued while a page
\* is walked, and the bump allocator fills pages that were walked already.
UnscannedIsListed ==
    gc.at = "drain" =>
       \A f \in Unscanned : \/ PageOf(f[1]) \in Listed
                            \/ PageOf(f[1]) = gc.defer_pg /\ f[1] >= gc.defer_cp

\* An old object that names one of the nursery.
Crosses(p) == /\ Readable(p) /\ ~InNursery(p)
              /\ \E q \in Range(heap.mem[p - 1].fields) \ {Null} : InNursery(q)

\* What the next scavenge traces: gc_move queues the page of every old object it
\* meets, so this is all that can be reached from the roots the scavenge scans and
\* from the remembered vectors.
ScavengeTraces == Reach(Range(shadow) \cup Range(values) \cup Range(dirty_vectors)
                          \cup {defuns[d] : d \in dirty_defuns})


\* Every allocation is answered, or the program exits: the drain ends although
\* what it scans queues more pages, and collecting, growing and starting over do
\* not go on for ever.
AllocationAnswered == req # NoReq ~> (req = NoReq \/ heap.exited)
=============================================================================
